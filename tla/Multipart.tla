------------------------------ MODULE Multipart ------------------------------
(* Multi-part hashing, MACs and encryption: the contexts that gather a      *)
(* message given in pieces of any size into blocks for the chip or for the  *)
(* host's own hash (lib/calib/calib_sha.c, calib_aes_gcm.c,                 *)
(* lib/crypto/atca_crypto_hw_aes_cbc.c, _ctr.c, _cmac.c, _cbcmac.c, _ccm.c, *)
(* atca_crypto_pad.c, hashes/sha2_routines.c).  One step is one call, with  *)
(* all the commands it sends; any of them may fail.  AES is one command per *)
(* block and keeps nothing on the chip; SHA and HMAC keep their running     *)
(* digest in the one engine of the chip, which contexts share.              *)
(*                                                                          *)
(* A byte is known by where it comes from, and by the byte of the key       *)
(* stream it is XORed with: <<key, of, n>>.  A running digest, MAC or CBC   *)
(* chain is the sequence of the blocks that went into it.                   *)
EXTENDS Integers, Sequences

CONSTANTS
    Contexts,  \* the contexts of the application
    Setups,    \* what they are used for: functions from Contexts to jobs
               \* [kind, text, auth, pad], lengths in bytes
    Block,     \* bytes of a block: 64 for SHA-256, 16 for AES
    LenField,  \* bytes of SHA's length field: 8
    Word,      \* the numbers that a uint32_t holds: 2^32
    TextLimit, \* those that the length in CCM's first block holds: 256^(15 - iv_size)
    AadLimit,  \* additional data of CCM from which their length takes six bytes: 0xFF00
    MaxFaults  \* bound: commands that fail

Kinds == {"sha", "hmac", "sha204", "sw_sha", "cmac", "cbc", "cbc_pad", "dec", "dec_pad",
          "ccm", "ccm_dec", "gcm", "gcm_dec"}

ASSUME BlockAssumption == Block \in Nat /\ Block > 2 /\ LenField \in 1..(Block - 1)
ASSUME SetupsAssumption ==
    \A f \in Setups :
        /\ f \in [Contexts -> [kind : Kinds, text : Nat, auth : Nat, pad : 0..Block]]
        /\ \A c \in Contexts : f[c].kind # "dec_pad" => f[c].pad = 0
\* What the contexts count, in 32 bits, does not wrap.
ASSUME LengthsAssumption ==
    /\ Word \in Nat \ {0} /\ TextLimit \in Nat \ {0} /\ AadLimit \in Nat \ {0}
    /\ \A f \in Setups, c \in Contexts : f[c].text + Block <= Word /\ f[c].auth + Block <= Word

VARIABLES
    job,     \* each context's job
    ctx,     \* the contexts
    engine,  \* the chip's SHA engine: [on, mode, chain]
    faults,  \* counter
    torn     \* ghost: something else used the engine during this operation

vars == <<job, ctx, engine, faults, torn>>

Ccm == {"ccm", "ccm_dec"}
Gcm == {"gcm", "gcm_dec"}
OnEngine(c) == job[c].kind \in {"sha", "sha204", "hmac"}
Authenticates(c) == job[c].kind \in Ccm \cup Gcm
Open(c) == ctx[c].phase \in {"aad", "data"}

Byte(of, n) == <<0, of, n>>
Zero == Byte("zero", 0)
OneBit == Byte("bit", 1)  \* 0x80
Zeros(n) == [i \in 1..n |-> Zero]
Bytes(of, from, n) == [i \in 1..n |-> Byte(of, from + i - 1)]
Xor(key, byte) == <<IF byte[1] = key THEN 0 ELSE key, byte[2], byte[3]>>

Smaller(m, n) == IF m < n THEN m ELSE n
Take(s, n) == SubSeq(s, 1, n)
Drop(s, n) == SubSeq(s, n + 1, Len(s))
Put(buf, at, s) ==
    [i \in 1..Len(buf) |-> IF at < i /\ i <= at + Len(s) THEN s[i - at] ELSE buf[i]]
Blocks(s) == [k \in 1..(Len(s) \div Block) |-> SubSeq(s, (k - 1) * Block + 1, k * Block)]
Filled(s) == s \o Zeros((Block - (Len(s) % Block)) % Block)

\* A context after memset.
Cleared ==
    [phase |-> "new", buf |-> Zeros(Block), size |-> 0, total |-> 0, chain |-> <<>>,
     ks |-> 0, cb |-> 1, cblock |-> Zeros(Block), ds |-> 0, out |-> <<>>,
     given |-> 0, auth |-> 0, missed |-> FALSE]

Init ==
    /\ job \in Setups
    /\ ctx = [c \in Contexts |-> Cleared]
    /\ engine = [on |-> FALSE, mode |-> "sha", chain |-> <<>>]
    /\ faults = 0
    /\ torn = [c \in Contexts |-> FALSE]

---------------------------------------------------------------------------
(* Updates: the blocks that a call processes, one command each, and the     *)
(* context after the last of them.                                          *)

\* A mutant: what is left over is looked for as if nothing had been copied.
LeftOverShort(s, copied, n) == SubSeq(s, n + 1, Len(s) - copied)
\* The bytes behind those copied and the n bytes of whole blocks.
LeftOver(s, copied, n) == Drop(s, copied + n)
\* calib_hw_sha2_256_update, calib_sha_hmac_update, sw_sha256_update, and the
\* additional authenticated data of CCM and GCM
BufferedUpdate(x, s) ==
    LET copied == Smaller(Len(s), Block - x.size)
        filled == Put(x.buf, x.size, Take(s, copied))
        rest == Drop(s, copied)
        whole == Blocks(rest)
        left == LeftOver(s, copied, Len(whole) * Block)
    IN  IF x.size + Len(s) < Block
        THEN [blocks |-> <<>>, after |-> [x EXCEPT !.buf = filled, !.size = @ + Len(s)]]
        ELSE [blocks |-> <<filled>> \o whole,
              after |-> [x EXCEPT !.buf = Put(filled, 0, left), !.size = Len(left),
                                  !.total = @ + (Len(whole) + 1) * Block]]

\* The whole blocks of n bytes that are not the last of the message.
HeldBack(n) == IF n >= Block /\ n % Block = 0 THEN n - Block ELSE n

\* atcab_aes_cmac_update
CmacUpdate(x, s) ==
    LET copied == Smaller(Len(s), Block - x.size)
        filled == Put(x.buf, x.size, Take(s, copied))
        rest == Drop(s, copied)
        whole == Blocks(Take(rest, HeldBack(Len(rest))))
        left == LeftOver(s, copied, Len(whole) * Block)
    IN  IF x.size + Len(s) < Block + 1
        THEN [blocks |-> <<>>, after |-> [x EXCEPT !.buf = filled, !.size = @ + Len(s)]]
        ELSE [blocks |-> <<filled>> \o whole,
              after |-> [x EXCEPT !.buf = Put(filled, 0, left), !.size = Len(left)]]

\* One pass of the loop of atcab_aes_cbc_encrypt_update and _decrypt_update,
\* which holds back the last block if it is to be unpadded.
CbcPass(kind, s) ==
    LET n == IF s.size = 0 THEN 0 ELSE Smaller(Len(s.data), Block - s.size)
        topped == [s EXCEPT !.buf = Put(s.buf, s.size, Take(s.data, n)),
                            !.size = @ + n, !.data = Drop(@, n)]
        flushes == topped.size = Block /\ (kind \in {"cbc", "cbc_pad"} \/ topped.data # <<>>)
        flushed == IF flushes
                   THEN [topped EXCEPT !.blocks = Append(@, topped.buf), !.size = 0]
                   ELSE topped
        rest == Len(flushed.data)
        direct == rest > Block \/ (rest = Block /\ kind # "dec_pad")
        done == IF direct
                THEN [flushed EXCEPT !.blocks = Append(@, Take(flushed.data, Block)),
                                     !.data = Drop(@, Block)]
                ELSE flushed
        left == Len(done.data)
    IN  IF left > 0 /\ (left < Block \/ (left = Block /\ kind = "dec_pad"))
        THEN [done EXCEPT !.buf = Put(@, 0, done.data), !.size = left, !.data = <<>>]
        ELSE done

CbcUpdate(kind, x, s) ==
    LET first == CbcPass(kind, [buf |-> x.buf, size |-> x.size, data |-> s, blocks |-> <<>>])
        passes == Len(s) \div Block
        after[i \in 0..passes] == IF i = 0 THEN first
                                  ELSE IF after[i - 1].data = <<>> THEN after[i - 1]
                                  ELSE CbcPass(kind, after[i - 1])
        last == after[passes]
    IN  [blocks |-> last.blocks, after |-> [x EXCEPT !.buf = last.buf, !.size = last.size]]

\* One byte of atcab_aes_ccm_update and calib_aes_gcm_update.  At the start
\* of a block the counter is encrypted to enc_cb, unless that fails (in lost),
\* and incremented; a complete block goes into the MAC, as plain text in CCM,
\* as cipher text in GCM.
Crypt(kind, lost, x, byte) ==
    LET first == x.ds % Block = 0
        ks == IF first /\ x.cb \notin lost THEN x.cb ELSE x.ks
        pos == x.ds % Block
        crypted == Xor(ks * Block + pos, byte)
        cblock == [x.cblock EXCEPT ![pos + 1] = IF kind \in {"ccm", "gcm_dec"} THEN byte ELSE crypted]
    IN  [x EXCEPT !.ks = ks, !.cb = IF first THEN @ + 1 ELSE @, !.cblock = cblock,
                  !.ds = @ + 1, !.out = Append(@, crypted),
                  !.missed = @ \/ (first /\ x.cb \in lost),
                  !.chain = IF pos = Block - 1 THEN Append(@, cblock) ELSE @]

\* atcab_aes_ccm_aad_finish, and the same in calib_aes_gcm_update
AadFinish(x) ==
    IF x.size = 0 THEN x
    ELSE [x EXCEPT !.chain = Append(@, Filled(Take(x.buf, x.size))),
                   !.total = @ + x.size, !.size = 0]

\* CCM leaves an empty update at once; GCM completes the AAD first.
StreamUpdate(kind, lost, x, s) ==
    IF kind \in Ccm /\ s = <<>> THEN x
    ELSE LET at[i \in 0..Len(s)] == IF i = 0 THEN AadFinish(x) ELSE Crypt(kind, lost, at[i - 1], s[i])
         IN  at[Len(s)]

UpdateOf(kind, x, s) ==
    CASE kind = "cmac" -> CmacUpdate(x, s)
      [] kind \in {"cbc", "cbc_pad", "dec", "dec_pad"} -> CbcUpdate(kind, x, s)
      [] OTHER -> BufferedUpdate(x, s)

---------------------------------------------------------------------------
(* The ends of the operations.                                              *)

\* A mutant: a block too many when nothing is missing.
PadZerosWhole(size) == Block - ((size + 1 + LenField) % Block)
\* The zeros between the one bit and the length.
PadZeros(size) == (Block - ((size + 1 + LenField) % Block)) % Block
\* The length in bits is kept in 32: beyond them sw_sha256_final writes 0 and
\* calib_hw_sha2_256_finish the low ones, and both go on.
BitCount(kind, n) ==
    IF 8 * n < Word THEN 8 * n ELSE IF kind = "sw_sha" THEN 0 ELSE (8 * n) % Word
\* sw_sha256_final, and calib_hw_sha2_256_finish for the ATSHA204A
ShaLast(kind, x) ==
    Blocks(Take(x.buf, x.size) \o <<OneBit>> \o Zeros(PadZeros(x.size) + LenField - 1)
              \o <<Byte("bits", BitCount(kind, x.total + x.size))>>)

\* atcab_aes_cmac_finish: the last block, and the subkey XORed with it
CmacLast(x) ==
    IF x.size = Block THEN Append(x.buf, Byte("subkey", 1))
    ELSE Append(Put(x.buf, x.size, <<OneBit>> \o Zeros(Block - x.size - 1)), Byte("subkey", 2))

\* atcac_pkcs7_pad of a block
Pkcs7Pad(buf, size) == Put(buf, size, [i \in 1..(Block - size) |-> Byte("pad", Block - size)])

\* atcab_aes_cbc_encrypt_finish: without padding, memset clears the block's
\* beginning
CbcLast(kind, x) ==
    CASE kind = "cbc_pad" -> <<Pkcs7Pad(x.buf, x.size)>>
      [] kind = "cbc" /\ x.size # 0 -> <<Put(x.buf, 0, Zeros(Block - x.size))>>
      [] OTHER -> <<>>

\* What the chip decrypts a block of the cipher text to: its padding is right
\* if the job says how long it is.
Decrypted(j, block) ==
    [i \in 1..Block |-> IF block[i][3] >= j.text - j.pad THEN Byte("pad", j.pad)
                        ELSE Byte("plain", block[i][3])]

\* A mutant: a block of nothing but padding is refused.
PadSymbolsBelow == 1..(Block - 1)
PadSymbols == 1..Block
\* atcac_pkcs7_unpad of a block: the bytes it leaves; <<>> and not valid
Unpads(plain) ==
    LET symbol == plain[Block][3]
    IN  /\ plain[Block][2] = "pad" /\ symbol \in PadSymbols
        /\ \A i \in (Block - symbol + 1)..Block : plain[i] = plain[Block]

\* The ends of GCM before the tag: the AAD, the last data, the lengths
GcmLast(x) ==
    LET y == AadFinish(x)
        partial == Take(y.cblock, y.ds % Block)
    IN  y.chain \o Blocks(Filled(partial)) \o <<<<Byte("bits", 8 * y.total), Byte("bits", 8 * y.ds)>>>>

\* atcab_aes_ccm_finish: the last data
CcmLast(x) == x.chain \o Blocks(Filled(Take(x.cblock, x.ds % Block)))

\* What the end of the operation hands out; "refused" without the chip's help.
FinishOf(j, x) ==
    CASE j.kind \in {"sha", "hmac"} ->
            [ok |-> TRUE, chain |-> engine.chain, last |-> Take(x.buf, x.size)]
      [] j.kind = "sha204" -> [ok |-> TRUE, chain |-> engine.chain \o ShaLast(j.kind, x), last |-> <<>>]
      [] j.kind = "sw_sha" -> [ok |-> TRUE, chain |-> x.chain \o ShaLast(j.kind, x), last |-> <<>>]
      [] j.kind = "cmac" -> [ok |-> TRUE, chain |-> Append(x.chain, CmacLast(x)), last |-> <<>>]
      [] j.kind \in {"cbc", "cbc_pad"} ->
            [ok |-> TRUE, chain |-> x.chain \o CbcLast(j.kind, x), last |-> <<>>]
      [] j.kind \in {"dec", "dec_pad"} ->
            LET plain == Decrypted(j, x.buf)
                kept == IF j.kind = "dec" THEN plain ELSE Take(plain, Block - plain[Block][3])
            IN  [ok |-> IF x.size = Block THEN j.kind = "dec" \/ Unpads(plain) ELSE x.size = 0,
                 chain |-> x.chain,
                 last |-> IF x.size = Block /\ (j.kind = "dec" \/ Unpads(plain)) THEN kept ELSE <<>>]
      [] j.kind \in Ccm -> [ok |-> TRUE, chain |-> CcmLast(x), last |-> <<Byte("counter", 0)>>]
      [] j.kind \in Gcm -> [ok |-> TRUE, chain |-> GcmLast(x), last |-> <<Byte("counter", 0)>>]

---------------------------------------------------------------------------
(* The calls.                                                               *)

\* Its user gives a context up when a call fails.
Fail(c) == ctx' = [ctx EXCEPT ![c].phase = "failed"]

\* Other operations on the engine are torn when c uses it.
Tears(c) == torn' = [d \in Contexts |-> torn[d] \/ (d # c /\ Open(d) /\ OnEngine(d))]

\* The calls that send commands may fail at any of them.
Fault(c) ==
    /\ faults < MaxFaults /\ faults' = faults + 1
    /\ Fail(c)
    /\ IF OnEngine(c) THEN Tears(c) /\ engine' \in {engine, [engine EXCEPT !.on = FALSE]}
       ELSE UNCHANGED <<engine, torn>>

\* The first block of CCM says how long the text is and whether there are
\* additional data.
FirstBlock(j, length) ==
    [i \in 1..Block |-> Byte("header", 2 * length + (IF j.auth > 0 THEN 1 ELSE 0))]
\* It takes the low bytes of the length, as many as it has room for.
Header(j) == FirstBlock(j, j.text % TextLimit)
\* The length in front of the additional data, always in two bytes
AuthSize(n) == <<Byte("auth_size", (n \div 256) % 256), Byte("auth_size", n % 256)>>

\* calib_hw_sha2_256_init, calib_sha_hmac_init, atcab_aes_cbc_init_ext,
\* atcab_aes_cmac_init_ext, atcab_aes_ccm_init_ext, calib_aes_gcm_init
Start(c) ==
    LET j == job[c]
        x == [Cleared EXCEPT !.phase = IF Authenticates(c) THEN "aad" ELSE "data"]
    IN  /\ ctx[c].phase = "new"
        /\ \/ /\ ctx' = [ctx EXCEPT ![c] =
                    CASE j.kind \in Ccm /\ j.auth > 0 ->
                            [x EXCEPT !.chain = <<Header(j)>>, !.size = 2,
                                      !.buf = Put(@, 0, AuthSize(j.auth))]
                      [] j.kind \in Ccm /\ j.auth = 0 -> [x EXCEPT !.chain = <<Header(j)>>]
                      [] OTHER -> x]
              /\ IF OnEngine(c) THEN engine' = [on |-> TRUE, mode |-> j.kind, chain |-> <<>>] /\ Tears(c)
                 ELSE UNCHANGED <<engine, torn>>
              /\ faults' = faults
           \/ (OnEngine(c) \/ Authenticates(c)) /\ Fault(c)
        /\ job' = job

\* atcab_aes_ccm_aad_update, calib_aes_gcm_aad_update
Aad(c, n) ==
    LET x == ctx[c]
        r == BufferedUpdate(x, Bytes("auth", x.auth, n))
    IN  /\ x.phase = "aad" /\ n \in 1..(job[c].auth - x.auth)
        /\ \/ /\ ctx' = [ctx EXCEPT ![c] = [r.after EXCEPT !.chain = @ \o r.blocks, !.auth = @ + n]]
              /\ UNCHANGED <<engine, faults, torn>>
           \/ r.blocks # <<>> /\ Fault(c)
        /\ job' = job

\* The updates of the hashes, the CMAC and CBC.  The chip refuses the block
\* of an operation that is not the engine's.
Update(c, n) ==
    LET x == ctx[c]
        r == UpdateOf(job[c].kind, x, Bytes("text", x.given, n))
        commands == r.blocks # <<>> /\ job[c].kind # "sw_sha"
    IN  /\ x.phase = "data" /\ ~Authenticates(c)
        /\ n \in 0..(job[c].text - x.given)
        /\ job[c].kind \in {"dec", "dec_pad"} => n > 0
        /\ \/ /\ OnEngine(c) /\ commands
              /\ Tears(c)
              /\ faults' = faults
              /\ IF engine.on /\ engine.mode = job[c].kind
                 THEN /\ engine' = [engine EXCEPT !.chain = @ \o r.blocks]
                      /\ ctx' = [ctx EXCEPT ![c] = [r.after EXCEPT !.given = @ + n]]
                 ELSE engine' = engine /\ Fail(c)
           \/ /\ ~(OnEngine(c) /\ commands)
              /\ ctx' = [ctx EXCEPT ![c] = [r.after EXCEPT !.chain = @ \o r.blocks, !.given = @ + n]]
              /\ UNCHANGED <<engine, faults, torn>>
           \/ commands /\ Fault(c)
        /\ job' = job

\* The bytes that a job gives to its updates
Input(j) ==
    [i \in 1..j.text |-> IF j.kind \in {"ccm_dec", "gcm_dec"} THEN Xor(Block + i - 1, Byte("text", i - 1))
                         ELSE Byte("text", i - 1)]

\* calib_aes_gcm_encrypt_update and _decrypt_update, atcab_aes_ccm_encrypt_update
\* and _decrypt_update.  CCM goes on when the encryption of a counter fails.
CryptUpdate(c, n) ==
    LET x == ctx[c]
        s == SubSeq(Input(job[c]), x.given + 1, x.given + n)
        counters == {k \in x.cb..(x.cb + n) : (k - 1) * Block < x.ds + n}
        After(lost) == [StreamUpdate(job[c].kind, lost, x, s) EXCEPT
                            !.given = @ + n,
                            !.phase = IF n = 0 /\ job[c].kind \in Ccm THEN @ ELSE "data"]
    IN  /\ Open(c) /\ Authenticates(c) /\ x.auth = job[c].auth
        /\ n \in 0..(job[c].text - x.given)
        /\ \/ /\ ctx' = [ctx EXCEPT ![c] = After({})]
              /\ UNCHANGED <<engine, faults, torn>>
           \/ /\ job[c].kind \in Ccm /\ faults < MaxFaults
              /\ \E k \in counters : ctx' = [ctx EXCEPT ![c] = After({k})]
              /\ faults' = faults + 1
              /\ UNCHANGED <<engine, torn>>
           \/ /\ \/ job[c].kind \in Gcm /\ counters # {}
                 \/ Len(After({}).chain) > Len(x.chain)
              /\ Fault(c)
        /\ job' = job

\* calib_hw_sha2_256_finish, calib_sha_hmac_finish, sw_sha256_final,
\* atcab_aes_cmac_finish, atcab_aes_cbc_encrypt_finish and _decrypt_finish,
\* atcab_aes_ccm_encrypt_finish and _decrypt_finish, calib_aes_gcm_encrypt_finish
\* and _decrypt_finish, which compare or hand out the tag
Finish(c) ==
    LET j == job[c]
        x == ctx[c]
        r == FinishOf(j, x)
        serves == OnEngine(c) => engine.on /\ engine.mode = j.kind
    IN  /\ Open(c) /\ x.given = j.text /\ x.auth = j.auth
        /\ \/ /\ ctx' = IF r.ok /\ serves
                        THEN [ctx EXCEPT ![c].phase = "done", ![c].chain = r.chain,
                                         ![c].out = @ \o r.last]
                        ELSE [ctx EXCEPT ![c].phase = IF serves THEN "refused" ELSE "failed"]
              /\ IF OnEngine(c) THEN Tears(c) /\ engine' = [engine EXCEPT !.on = FALSE]
                 ELSE UNCHANGED <<engine, torn>>
              /\ faults' = faults
           \/ j.kind # "sw_sha" /\ (r.chain # x.chain \/ r.last # <<>>) /\ Fault(c)
        /\ job' = job

\* The chip loses its engine's state when it sleeps.
EngineLost ==
    /\ engine.on /\ faults < MaxFaults
    /\ engine' = [engine EXCEPT !.on = FALSE]
    /\ faults' = faults + 1
    /\ torn' = [d \in Contexts |-> torn[d] \/ (Open(d) /\ OnEngine(d))]
    /\ UNCHANGED <<job, ctx>>

Next ==
    \/ EngineLost
    \/ \E c \in Contexts :
          \/ Start(c) \/ Finish(c)
          \/ \E n \in 0..job[c].text : Update(c, n) \/ CryptUpdate(c, n)
          \/ \E n \in 1..job[c].auth : Aad(c, n)

Spec == Init /\ [][Next]_vars

---------------------------------------------------------------------------
(* What the standards say of a whole message.                               *)

Text(c) == Bytes("text", 0, job[c].text)
\* CCM and GCM: what goes into the MAC before the text
BeforeText(j, first, size) ==
    LET auth == Bytes("auth", 0, j.auth)
    IN  IF j.kind \in Gcm THEN Filled(auth)
        ELSE IF auth = <<>> THEN first
        ELSE first \o Filled(size \o auth)
\* With the lengths as the library writes them
AuthPart(c) == BeforeText(job[c], Header(job[c]), AuthSize(job[c].auth))
\* RFC 3610: the text's whole length, and that of the additional data in two
\* bytes or, if it is long, as 0xFFFE and four
RefAuthSize(n) ==
    IF n < AadLimit THEN AuthSize(n)
    ELSE <<Byte("auth_size", 255), Byte("auth_size", 254)>>
            \o [i \in 1..4 |-> Byte("auth_size", (n \div (256^(4 - i))) % 256)]
RefAuthPart(c) ==
    BeforeText(job[c], FirstBlock(job[c], job[c].text), RefAuthSize(job[c].auth))
\* FIPS 180-4: a one bit, the fewest zeros, the length, together whole blocks
Sha256Padded(s) ==
    LET k == CHOOSE k \in 0..(Block - 1) : (Len(s) + 1 + k + LenField) % Block = 0
    IN  s \o <<OneBit>> \o Zeros(k + LenField - 1) \o <<Byte("bits", 8 * Len(s))>>
\* The i-th byte of the text with its own byte of the key stream
Stream(c) == [i \in 1..job[c].text |-> Xor(Block + i - 1, Text(c)[i])]
Whole(n) == n - (n % Block)

RefChain(c) ==
    LET s == Text(c)
        j == job[c]
        \* the last block of a CMAC is never empty
        split == IF j.text = 0 THEN 0 ELSE Whole(j.text - 1)
        end == Drop(s, split)
    IN  CASE j.kind \in {"sha", "hmac"} -> Blocks(Take(s, Whole(j.text)))
          [] j.kind \in {"sha204", "sw_sha"} -> Blocks(Sha256Padded(s))
          [] j.kind = "cmac" ->
                Append(Blocks(Take(s, split)),
                       IF Len(end) = Block THEN Append(end, Byte("subkey", 1))
                       ELSE Append(Filled(Append(end, OneBit)), Byte("subkey", 2)))
          [] j.kind = "cbc" -> Blocks(Filled(s))
          [] j.kind = "cbc_pad" ->
                LET p == Block - (j.text % Block)
                IN  Blocks(s \o [i \in 1..p |-> Byte("pad", p)])
          [] j.kind \in {"dec", "dec_pad"} -> Blocks(s)
          [] j.kind \in Ccm -> Blocks(RefAuthPart(c) \o Filled(s))
          [] j.kind \in Gcm ->
                Append(Blocks(RefAuthPart(c) \o Filled(Stream(c))),
                       <<Byte("bits", 8 * j.auth), Byte("bits", 8 * j.text)>>)

RefOut(c) ==
    LET j == job[c]
    IN  CASE j.kind \in {"sha", "hmac"} -> Drop(Text(c), Whole(j.text))
          [] Authenticates(c) ->
                Append(IF j.kind \in {"ccm", "gcm"} THEN Stream(c) ELSE Text(c), Byte("counter", 0))
          [] OTHER -> <<>>

\* The bytes of the blocks of a chain and of what is behind them
Joined(chain, rest) ==
    [i \in 1..(Len(chain) * Block + Len(rest)) |->
        IF i <= Len(chain) * Block THEN chain[((i - 1) \div Block) + 1][((i - 1) % Block) + 1]
        ELSE rest[i - (Len(chain) * Block)]]

\* What a decryption hands out: the blocks that updates decrypted, and the rest.
PlainText(c) ==
    LET x == ctx[c]
        blocks == [k \in 1..Len(x.chain) |-> Decrypted(job[c], x.chain[k])]
    IN  Joined(blocks, x.out)
RefPlain(c) == Bytes("plain", 0, job[c].text - job[c].pad)

Decrypts(c) == job[c].kind \in {"dec", "dec_pad"}
Done(c) == ctx[c].phase = "done"
IsReference(c) ==
    IF Decrypts(c) THEN PlainText(c) = RefPlain(c)
    ELSE ctx[c].chain = RefChain(c) /\ ctx[c].out = RefOut(c)

---------------------------------------------------------------------------
(* Properties.                                                              *)

\* Messages whose lengths the library does not write as the standards do: from
\* 2^29 bytes on for SHA-256 (sha2_routines.c:412, calib_sha.c:323), from
\* TextLimit on or with AadLimit bytes of additional data for CCM
\* (atca_crypto_hw_aes_ccm.c:117-125, 141-147).  No call refuses them.
TooLong(c) ==
    LET j == job[c]
    IN  \/ j.kind \in {"sha204", "sw_sha"} /\ 8 * j.text >= Word
        \/ j.kind \in Ccm /\ (j.text >= TextLimit \/ j.auth >= AadLimit)

\* Where the library does not do what the standards say: messages that are too
\* long, CBC "padded with zeros", CCM without text whose additional data ends
\* within a block, and CCM after a counter that could not be encrypted.
Known(c) ==
    LET j == job[c]
    IN  \/ TooLong(c)
        \/ j.kind = "cbc" /\ j.text % Block # 0
        \/ j.kind \in Ccm /\ (ctx[c].missed \/ (j.text = 0 /\ j.auth > 0 /\ (j.auth + 2) % Block # 0))

\* An operation all of whose calls succeeded has hashed, encrypted or decrypted
\* the message as the standard has it for the whole message, however it was cut
\* into pieces, if no other operation came between on the engine.
OkIsReference ==
    \A c \in Contexts : Done(c) /\ ~torn[c] /\ ~Known(c) => IsReference(c)

\* At every moment the blocks that were processed and the bytes the context
\* still holds are the message so far, in CCM behind the lengths as the library
\* writes them: nothing is lost or taken twice, and no byte left over from an
\* earlier block counts.
HoldsTheRest ==
    \A c \in Contexts : ctx[c].phase = "data" /\ ~torn[c] =>
        LET x == ctx[c]
            soFar == IF job[c].kind \in Gcm THEN Take(Stream(c), x.given) ELSE Take(Text(c), x.given)
            before == IF Authenticates(c) THEN AuthPart(c) ELSE <<>>
            rest == IF Authenticates(c) THEN Take(x.cblock, x.ds % Block) ELSE Take(x.buf, x.size)
        IN  /\ x.size \in 0..Block
            /\ ~x.missed => before \o soFar =
                    Joined(IF OnEngine(c) THEN engine.chain ELSE x.chain, rest)

\* The end of an operation is refused only to a cipher text of the wrong length
\* or with the wrong padding, and to every such one; an empty cipher text has no
\* padding that could be wrong.
RefusedRightly ==
    \A c \in Contexts :
        /\ ctx[c].phase = "refused" =>
              Decrypts(c) /\ (job[c].text % Block # 0 \/ (job[c].kind = "dec_pad" /\ job[c].pad = 0))
        /\ Done(c) /\ Decrypts(c) =>
              job[c].text % Block = 0 /\ (job[c].kind = "dec_pad" => job[c].pad # 0 \/ job[c].text = 0)

\* atcab_aes_cbc_encrypt_finish: "Pad with zeros".
PadsWithZeros ==
    \A c \in Contexts : Done(c) /\ job[c].kind = "cbc" => ctx[c].chain = RefChain(c)
=============================================================================
