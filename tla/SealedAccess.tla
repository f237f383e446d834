---------------------------- MODULE SealedAccess ----------------------------
(* Calls that prepare the chip's TempKey or message buffer with some        *)
(* packets and use it with a later one: encrypted writes, private keys and  *)
(* reads, the premaster secret read back encrypted, signatures, and         *)
(* verifications with and without a MAC (lib/calib/calib_write.c,           *)
(* calib_read.c, calib_privwrite.c, calib_ecdh.c, calib_sign.c,             *)
(* calib_verify.c, calib_secureboot.c), with the host's own computation of  *)
(* what the chip holds (lib/host/atca_host.c).  The library takes no lock   *)
(* around a call: packets of several users of one chip interleave, and the  *)
(* chip may go to sleep between two of them.                                *)
(*                                                                          *)
(* Hashes are terms.  A TempKey is the sequence of what was hashed into it, *)
(* a cipher text its plain text with the pad it was XORed with, a MAC the   *)
(* record of what it covers.                                                *)
EXTENDS Naturals, Sequences

CONSTANTS
    Users,      \* the users of the chip
    Slots,      \* its data slots
    KeySlot,    \* the slot that holds the read and write key of all slots
    Data,       \* contents of slots, messages, keys
    IoKey,      \* the chip's IO protection key
    NoData,     \* not one of Data: zeros, or what a wrong pad decrypts to
    Calls,      \* the calls made: [op, slot, data, key, keyId, sig]
    MaxCalls    \* bound: calls of a behaviour

\* NoData is no content, no slot and no MAC of a verification.
ASSUME KeyAssumption ==
    /\ KeySlot \in Slots /\ IoKey \in Data
    /\ NoData \notin Data \cup Slots \cup [key : Data, msg : Data, nonce : Users, sig : Data]
ASSUME CallsAssumption ==
    Calls \subseteq [op : {"write", "priv", "plain", "read", "ecdh", "sign", "verify",
                          "verify_mac", "secureboot"},
                    slot : Slots, data : Data, key : Data, keyId : Slots, sig : Data]

VARIABLES
    chip,   \* [tk, valid, dig, msg, nonce, filled, slot, is608]
    call,   \* each user's call under way or last one
    made,   \* calls begun
    drawn,  \* random nonces drawn
    mixed   \* ghost: something else touched what the call relies on

vars == <<chip, call, made, drawn, mixed>>

\* The packets of each call.
Packets(op) ==
    CASE op \in {"write", "priv"} -> <<"serial", "nonce", "gendig", op>>
      [] op = "plain" -> <<"plain">>
      [] op = "read" -> <<"serial", "nonce", "gendig", "read">>
      [] op = "ecdh" -> <<"ecdh", "serial", "nonce", "gendig", "read">>
      [] op = "sign" -> <<"random", "load", "sign">>
      [] op = "verify" -> <<"load", "verify">>
      [] op = "verify_mac" -> <<"load", "verify_mac">>
      [] op = "secureboot" -> <<"nonce", "secureboot", "config">>

Rand(n) == [how |-> "rand", n |-> n, slot |-> KeySlot, data |-> NoData]
Msg(d) == [how |-> "msg", n |-> 0, slot |-> KeySlot, data |-> d]
Dig(s, d) == [how |-> "dig", n |-> 0, slot |-> s, data |-> d]
Io(d) == [how |-> "io", n |-> 0, slot |-> KeySlot, data |-> d]

\* A mutant: the MAC covers the header of the packet only.
MacOfHeader(pad, packet, slot, plain) == [packet |-> packet, slot |-> slot]
Mac(pad, packet, slot, plain) == [pad |-> pad, packet |-> packet, slot |-> slot, plain |-> plain]
Encrypt(plain, pad) == [plain |-> plain, pad |-> pad]
Decrypt(cipher, pad) == IF cipher.pad = pad THEN cipher.plain ELSE NoData

---------------------------------------------------------------------------
\* The host's TempKey.

\* atcah_nonce, random mode: from RandOut and NumIn
HostNonce(n) == <<Rand(n)>>

\* A mutant: the host leaves the TempKey out and hashes the key alone.
HostGenDigFresh(tk, id, key) == <<Dig(id, key)>>
\* atcah_gen_dig, data zone: 32 bytes of key, opcode and KeyID, 32 of TempKey
HostGenDig(tk, id, key) == Append(tk, Dig(id, key))

\* atcah_write_auth_mac, atcah_privwrite_auth_mac: the cipher text and its MAC
SealedUnder(c, pad) == [cipher |-> Encrypt(c.data, pad), mac |-> Mac(c.tk, c.op, c.slot, c.data)]
Sealed(c) == SealedUnder(c, c.tk)

\* atcah_secureboot_enc: the key made of the IO key and the nonce
HashedKey(tk, key) == Append(tk, Io(key))

\* atcah_verify_mac and atcah_secureboot_mac: the MAC of a success
VerifyMac(c, u) == [key |-> c.key, msg |-> c.data, nonce |-> u, sig |-> c.sig]
SecurebootMac(c) == [key |-> HashedKey(c.tk, c.key), msg |-> c.data, nonce |-> NoData, sig |-> c.sig]

\* Where calib_sign and calib_verify_extern load the message and where they
\* tell the chip to take it from: the digest buffer on the ATECC608, TempKey
\* on the others.  The mutants forget the second half and the first.
SourceTempKey(c) == "tempkey"
Source(c) == IF chip.is608 THEN "msgdigbuf" ELSE "tempkey"
Target(c) == IF chip.is608 THEN "msgdigbuf" ELSE "tempkey"

---------------------------------------------------------------------------
\* The chip (external): what a packet p of call c of user u makes of it.
\* [ok, chip, out]: whether it carries it out, its new state, its answer.

Spent == [chip EXCEPT !.valid = FALSE]
Refuses == [ok |-> FALSE, chip |-> Spent, out |-> NoData]
Answers(new, out) == [ok |-> TRUE, chip |-> new, out |-> out]

\* TempKey is a nonce with the slots' key, and nothing else, hashed in.
Authorized == chip.valid /\ chip.dig = KeySlot /\ chip.tk[1].how = "rand"

OnWrite(c) ==
    LET s == Sealed(c)
        plain == Decrypt(s.cipher, chip.tk)
    IN  IF Authorized /\ s.mac = Mac(chip.tk, c.op, c.slot, plain)
        THEN Answers([Spent EXCEPT !.slot[c.slot] = plain], NoData)
        ELSE Refuses

OnLoad(c, u) ==
    IF Target(c) = "msgdigbuf" \/ c.op = "verify_mac"
    THEN Answers([chip EXCEPT !.msg = c.data, !.nonce = u, !.filled = TRUE], NoData)
    ELSE Answers([chip EXCEPT !.tk = <<Msg(c.data)>>, !.valid = TRUE, !.dig = NoData], NoData)

\* The message a signing or verifying packet works on; NoData: none is there
Message(c) ==
    IF Source(c) = "msgdigbuf" \/ c.op = "verify_mac"
    THEN IF chip.filled THEN chip.msg ELSE NoData
    ELSE CASE ~chip.valid -> NoData
           [] chip.valid /\ chip.tk[1].how = "msg" /\ Len(chip.tk) = 1 -> chip.tk[1].data
           [] OTHER -> chip.tk

OnVerify(c) ==
    IF Message(c) = NoData THEN Refuses
    ELSE Answers(IF Source(c) = "tempkey" /\ c.op = "verify" THEN Spent ELSE chip,
                 IF c.op = "verify" THEN c.sig = Message(c)
                 ELSE IF c.sig = Message(c)
                      THEN [key |-> IoKey, msg |-> Message(c), nonce |-> chip.nonce, sig |-> c.sig]
                      ELSE NoData)

OnSecureboot(c) ==
    LET digest == Decrypt(Encrypt(c.data, HashedKey(c.tk, c.key)), HashedKey(chip.tk, IoKey))
    IN  IF ~chip.is608 \/ ~chip.valid THEN Refuses
        ELSE Answers(Spent, IF digest = c.sig
                            THEN [key |-> HashedKey(chip.tk, IoKey), msg |-> digest,
                                  nonce |-> NoData, sig |-> c.sig]
                            ELSE NoData)

Reaction(p, c, u) ==
    CASE p \in {"serial", "random", "config"} -> Answers(chip, NoData)
      [] p = "nonce" ->
           Answers([chip EXCEPT !.tk = HostNonce(drawn + 1), !.valid = TRUE, !.dig = NoData], drawn + 1)
      [] p = "gendig" ->
           IF chip.valid
           THEN Answers([chip EXCEPT !.tk = Append(chip.tk, Dig(c.keyId, chip.slot[c.keyId])),
                                     !.dig = c.keyId], NoData)
           ELSE Refuses
      [] p \in {"write", "priv"} -> OnWrite(c)
      [] p = "plain" -> Refuses
      [] p = "read" ->
           IF Authorized THEN Answers(Spent, Encrypt(chip.slot[c.slot], chip.tk)) ELSE Refuses
      [] p = "ecdh" -> Answers([chip EXCEPT !.slot[c.slot] = c.data], NoData)
      [] p = "load" -> OnLoad(c, u)
      [] p = "sign" -> IF Message(c) = NoData THEN Refuses
                       ELSE Answers(IF Source(c) = "tempkey" THEN Spent ELSE chip, Message(c))
      [] p \in {"verify", "verify_mac"} ->
           IF p = "verify_mac" /\ ~chip.is608 THEN Refuses ELSE OnVerify(c)
      [] p = "secureboot" -> OnSecureboot(c)

---------------------------------------------------------------------------
\* The calls.

Fates == {"done",   \* the packet reached the chip and its answer the host
          "failed", \* it never reached the chip
          "lost"}   \* its answer never reached the host

\* A mutant, as if is_verified were the status of the command.
AcceptsAny(mac, expected) == mac # NoData
Accepts(mac, expected) == mac = expected

\* What the call keeps of the answer to its packet p.
Keep(c, u, p, out) ==
    CASE p = "nonce" -> [c EXCEPT !.tk = HostNonce(out)]
      [] p = "gendig" -> [c EXCEPT !.tk = HostGenDig(c.tk, c.keyId, c.key)]
      [] p = "read" -> [c EXCEPT !.out = Decrypt(out, c.tk)]
      [] p \in {"sign", "secureboot"} -> [c EXCEPT !.out = out]
      [] p = "verify" -> [c EXCEPT !.verified = out]
      [] p = "verify_mac" -> [c EXCEPT !.verified = Accepts(out, VerifyMac(c, u))]
      [] p = "config" -> [c EXCEPT !.verified = Accepts(c.out, SecurebootMac(c))]
      [] OTHER -> c

\* No packet follows: the last one, or a secure boot the chip says failed.
Ends(c, p, out) ==
    \/ c.step = Len(Packets(c.op))
    \/ p = "secureboot" /\ out = NoData

\* The record of a call that has returned.
Idle == [op |-> "plain", slot |-> KeySlot, data |-> IoKey, key |-> IoKey, keyId |-> KeySlot, sig |-> IoKey,
         step |-> 1, tk |-> <<>>, out |-> NoData, verified |-> FALSE, status |-> "ok"]

\* A mutant: the status of the call's last packet is not looked at.
GiveUpEarlier(c) == IF c.step = Len(Packets(c.op)) THEN Idle ELSE [Idle EXCEPT !.status = "failed"]
GiveUp(c) == [Idle EXCEPT !.status = "failed"]

Advance(c, u, p, out) ==
    LET kept == Keep(c, u, p, out)
    IN  IF Ends(c, p, out)
        THEN [Idle EXCEPT !.out = kept.out, !.verified = kept.verified]
        ELSE [kept EXCEPT !.step = @ + 1]

UsesBuffer(c) ==
    c.op = "verify_mac" \/ (c.op \in {"sign", "verify"} /\ chip.is608)
\* What a call of this kind relies on between its packets.
ReliesOn(c, ch) ==
    IF UsesBuffer(c) THEN <<ch.msg, ch.nonce, ch.filled>> ELSE <<ch.tk, ch.valid, ch.dig, ch.slot>>
Touched(u) == ReliesOn(call[u], chip') # ReliesOn(call[u], chip)

\* The packet with which a call starts to rely on the chip.
Prepares(c, p) == p \in {"ecdh", "load"} \/ (p = "nonce" /\ c.op # "ecdh")

Open(u) == call[u].status = "open"

Begin(u) ==
    /\ ~Open(u)
    /\ made < MaxCalls
    /\ made' = made + 1
    /\ \E c \in Calls :
         call' = [call EXCEPT ![u] =
                     [op |-> c.op, slot |-> c.slot, data |-> c.data, key |-> c.key, keyId |-> c.keyId,
                      sig |-> c.sig, step |-> 1, tk |-> <<>>, out |-> NoData, verified |-> FALSE,
                      status |-> "open"]]
    /\ mixed' = [mixed EXCEPT ![u] = FALSE]
    /\ UNCHANGED <<chip, drawn>>

Packet(u) ==
    LET c == call[u]
        p == Packets(c.op)[c.step]
        r == Reaction(p, c, u)
    IN  /\ Open(u)
        /\ made' = made
        /\ \E fate \in Fates :
             /\ chip' = IF fate = "failed" THEN chip ELSE r.chip
             /\ call' = [call EXCEPT ![u] = IF fate = "done" /\ r.ok THEN Advance(c, u, p, r.out)
                                            ELSE GiveUp(c)]
             /\ drawn' = IF p = "nonce" /\ fate # "failed" THEN drawn + 1 ELSE drawn
             /\ mixed' = [v \in Users |-> IF v = u THEN mixed[u] /\ ~Prepares(c, p)
                                          ELSE mixed[v] \/ (Open(v) /\ Touched(v))]

\* Sleep, by a user or by the watchdog, empties the chip's volatile memory.
Sleep ==
    /\ chip.valid \/ chip.filled
    /\ chip' = [chip EXCEPT !.valid = FALSE, !.filled = FALSE]
    /\ mixed' = [v \in Users |-> mixed[v] \/ (Open(v) /\ Touched(v))]
    /\ UNCHANGED <<call, made, drawn>>

Init ==
    /\ \E is608 \in BOOLEAN, slot \in [Slots -> Data] :
         chip = [tk |-> <<>>, valid |-> FALSE, dig |-> NoData, msg |-> NoData, nonce |-> NoData,
                 filled |-> FALSE, slot |-> slot, is608 |-> is608]
    /\ call = [u \in Users |-> Idle]
    /\ made = 0 /\ drawn = 0
    /\ mixed = [u \in Users |-> FALSE]

Next == Sleep \/ \E u \in Users : Begin(u) \/ Packet(u)

Spec == Init /\ [][Next]_vars

---------------------------------------------------------------------------
\* Properties.

Undisturbed(u) == ~mixed[u]

\* The calls whose last packet the chip must take.
Entitled(c, ch) ==
    CASE c.op \in {"write", "priv", "read", "ecdh"} -> c.keyId = KeySlot /\ c.key = ch.slot[KeySlot]
      [] c.op \in {"sign", "verify"} -> TRUE
      [] c.op \in {"verify_mac", "secureboot"} -> ch.is608
      [] OTHER -> FALSE

\* A call that knows the keys, which the chip carries out packet by packet
\* while nobody else touches what it relies on, has no packet refused: the host
\* computes the TempKey, the cipher text and the MAC that the chip expects, and
\* names the buffer the message is in.  On an ATECC608 another user's sealed
\* calls may come between those of a signature.
CleanCallSucceeds ==
    \A u \in Users :
        LET c == call[u] IN
        Open(u) /\ Undisturbed(u) /\ Entitled(c, chip)
        => Reaction(Packets(c.op)[c.step], c, u).ok

Returns(u) == Open(u) /\ call'[u].status = "ok"

\* A write that reports success has put the caller's data into the slot,
\* whatever other users did meanwhile.
OkWriteLanded ==
    [][\A u \in Users : Returns(u) /\ call[u].op \in {"write", "priv"}
                       => chip'.slot[call[u].slot] = call[u].data]_vars

\* A slot changes only to what one call meant to write to it, and a sealed
\* write takes the slots' key: never to what a TempKey that another user
\* changed, or a wrong key, makes of the cipher text.
OnlyWhatWasSealed ==
    [][\A s \in Slots : chip'.slot[s] # chip.slot[s] =>
          \E u \in Users : /\ Open(u) /\ call[u].slot = s /\ chip'.slot[s] = call[u].data
                           /\ call[u].op # "ecdh" => call[u].key = chip.slot[KeySlot]]_vars

\* An encrypted read that succeeds with the right key and undisturbed returns
\* the slot's plain text, and calib_ecdh_enc the premaster secret of its own
\* public key.  (Disturbed, or with a wrong key, the answer is garbage and the
\* status the same: there is no MAC on a read.)
ReadTells ==
    [][\A u \in Users : Returns(u) /\ Undisturbed(u) /\ call[u].op \in {"read", "ecdh"} =>
          LET c == call[u]
          IN  c.key = chip.slot[c.keyId] =>
                call'[u].out = IF c.op = "ecdh" THEN c.data ELSE chip.slot[c.slot]]_vars

\* An undisturbed signature is the caller's message's, and an undisturbed
\* verification says whether the signature is: message and command meet in the
\* same buffer of the chip, and nothing left over from an earlier call is used.
MessageIsOwn ==
    [][\A u \in Users : Returns(u) /\ Undisturbed(u) =>
          LET c == call[u]
          IN  /\ c.op = "sign" => call'[u].out = c.data
              /\ c.op = "verify" => (call'[u].verified <=> c.sig = c.data)]_vars

\* With a MAC, "verified" holds even if other users' packets came in between:
\* the chip itself found the signature good for the message of this call.
MacTells ==
    [][\A u \in Users : Returns(u) /\ call'[u].verified /\ call[u].op \in {"verify_mac", "secureboot"}
                       => call[u].sig = call[u].data /\ call[u].key = IoKey]_vars
=============================================================================
