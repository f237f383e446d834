---------------------------- MODULE MCMultipart ----------------------------
EXTENDS Multipart
CONSTANTS c1, c2

MCContexts == {c1, c2}
Job(kind, text, auth, pad) == [kind |-> kind, text |-> text, auth |-> auth, pad |-> pad]
Nothing == Job("sw_sha", 0, 0, 0)
\* Messages up to two blocks and a byte.
Long == 0..(2 * Block + 1)
Solo ==
    {Job(k, n, 0, 0) : k \in {"sw_sha", "cmac", "cbc", "cbc_pad", "dec"}, n \in Long}
        \cup {Job("dec_pad", n, 0, p) : n \in Long, p \in 0..Block}
        \cup {Job(k, n, m, 0) : k \in Ccm \cup Gcm, n \in Long, m \in 0..(Block + 3)}
Hashes == {Job(k, n, 0, 0) : k \in {"sha", "hmac"}, n \in {Block - 1, 2 * Block + 1}}
Sha204 == {Job("sha204", n, 0, 0) : n \in Long}
\* Lengths that are too long, by a byte
TooLongs ==
    {Job(k, 2 * Block + 2, 0, 0) : k \in {"sw_sha", "sha204"}}
        \cup {Job(k, 2 * Block + 2, 1, 0) : k \in Ccm}
        \cup {Job(k, 1, Block + 4, 0) : k \in Ccm}
\* One operation of any kind, or two at once that share the engine.
MCSetups ==
    {f \in [MCContexts -> Solo \cup Hashes \cup Sha204 \cup TooLongs \cup {Nothing}] :
        \/ f[c2] = Nothing
        \/ {f[c1], f[c2]} \subseteq Hashes
        \/ f[c1] = Job("sha204", Block + 1, 0, 0) /\ f[c2] = Job("sha204", Block, 0, 0)}
=============================================================================
