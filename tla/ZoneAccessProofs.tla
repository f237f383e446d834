-------------------------- MODULE ZoneAccessProofs --------------------------
(* For any calls on any zones, any number of them and of faults: every      *)
(* property of ZoneAccess that its run checks.                              *)
EXTENDS ZoneAccess, TLAPS

Pairs == BOOLEAN \X BOOLEAN

TypeOK ==
    /\ target \in Targets
    /\ mem \in [Words -> Int] /\ extra \in Pairs /\ locked \subseteq 0..3
    /\ pc \in Ops \cup {"user_extra", "selector", "idle"}
    /\ block \in Nat /\ word \in Nat /\ unit \in {Word, Block} /\ idx \in Nat
    /\ made \in Nat /\ faults \in Nat /\ lately \in Nat

\* A call as its function can have been given it.
Sound(c) ==
    /\ c.op \in Ops /\ c.at \in Nat /\ c.length \in Nat
    /\ c.extra \in Pairs /\ c.before \in Pairs /\ c.old \in [Words -> Int]
    /\ c.op \in {"config", "compare", "lock"} => target.zone = Config
    /\ c.op = "lock" => target.dev = "ecc204"
    /\ c.op \in {"read_pubkey", "write_pubkey"} =>
           target.dev = "ecc608" /\ target.zone = Data /\ target.slot \in 8..15
    /\ c.op = "config" => c.at = 16 /\ c.length = Size - 16
    /\ c.op \in {"compare", "lock"} => c.at = 0 /\ c.length = Size
    /\ c.op \in {"read_pubkey", "write_pubkey"} => c.at = 0 /\ c.length = 64
    /\ target.dev = "ecc204" /\ c.op = "write" => c.at % SetSize = 0
    /\ target.dev = "ecc204" /\ target.zone = Config => c.at < 64

Called ==
    /\ call.op = "none" \/ Sound(call)
    /\ call.op = "none" => pc = "idle" /\ status = "ok"
    /\ pc # "idle" => Accepts(call) /\ call.length > 0
    /\ pc \notin {"idle", call.op} =>
          pc \in {"user_extra", "selector"} /\ call.op = "config" /\ target.dev = "ecc608"

\* A read has filled the buffer up to idx, and its next packet begins there;
\* the first one may begin before.
Filling ==
    pc \in {"read", "compare"} =>
        /\ DOMAIN buf = 0..(call.length - 1) /\ idx < call.length
        /\ \A i \in 0..(idx - 1) : buf[i] = call.at + i
        /\ target.dev = "ecc608" =>
              IF unit = Word THEN idx > 0 /\ block * Block + word * Word = call.at + idx
              ELSE word = 0 /\ IF idx = 0 THEN block = call.at \div Block ELSE block * Block = call.at + idx
        /\ target.dev = "ecc204" =>
              IF idx = 0 THEN block = call.at \div SetSize ELSE block * SetSize = call.at + idx
Filled ==
    pc = "idle" /\ call.op \in {"read", "compare"} /\ status = "ok" =>
        \A i \in DOMAIN buf : buf[i] = call.at + i

\* Where a byte of a public key is in its slot, and how many are read.
PlaceOfKey(i) == IF i < 32 THEN i + 4 ELSE i + 8
KeyRead(b) == IF b = 0 THEN 0 ELSE IF b = 1 THEN 28 ELSE IF b = 2 THEN 56 ELSE 64
ReadingKey ==
    /\ pc = "read_pubkey" =>
          /\ DOMAIN buf = 0..63 /\ block \in 0..2
          /\ \A i \in 0..63 : i < KeyRead(block) => buf[i] = PlaceOfKey(i)
    /\ Returned("read_pubkey") => \A i \in 0..63 : buf[i] = PlaceOfKey(i)
WritingKey ==
    /\ pc = "write_pubkey" =>
          block \in 0..2 /\ \A w \in Words : w < 8 * block => mem[w] = KeyWord(w)
    /\ Returned("write_pubkey") => \A w \in 0..17 : mem[w] = KeyWord(w)

\* The next packet of a write begins where the words written so far end.
Placed ==
    pc \in {"write", "config"} =>
        /\ call.at + call.length <= Size /\ idx < call.length
        /\ target.dev = "ecc608" =>
              /\ call.at % Word = 0 /\ call.length % Word = 0 /\ idx % Word = 0
              /\ word \in 0..7 /\ (8 * block + word) * Word = call.at + idx
        /\ target.dev = "ecc204" =>
              /\ call.at % SetSize = 0 /\ call.length % SetSize = 0 /\ idx % SetSize = 0
              /\ block * SetSize = call.at + idx
WrittenTo(k) ==
    \A w \in Words \ Counters : mem[w] = IF w \in Wanted(call) /\ w < k THEN w ELSE call.old[w]
Writing ==
    Writes(call) =>
        /\ \E k \in 0..(Size \div Word) : WrittenTo(k)
        /\ pc \in {"write", "config"} => WrittenTo((call.at + idx) \div Word)
        /\ pc \in {"user_extra", "selector"} => WrittenTo(Size \div Word)
        /\ pc = "idle" /\ status = "ok" => WrittenTo(Size \div Word)
Own == \A w \in Words : mem[w] \in {w, None, KeyWord(w)}

\* The extra bytes and the locks on their way.
Extras ==
    /\ pc \notin {"idle", "selector"} => extra = call.before
    /\ pc = "selector" => extra[1] = call.extra[1] /\ extra[2] = call.before[2]
    /\ Returned("config") /\ target.dev = "ecc608" => extra = call.extra
Locking ==
    /\ pc = "lock" => block \in 0..3 /\ 0..(block - 1) \subseteq locked
    /\ Returned("lock") => locked = 0..3

\* No packet of a legal call has been refused.
Clean == lately = 0 /\ Legal(call) => status = "ok"

IInv == /\ TypeOK /\ Called /\ Filling /\ Filled /\ CompareTells /\ ReadingKey /\ WritingKey
        /\ Placed /\ Writing /\ Own /\ Extras /\ Locking /\ Clean

-----------------------------------------------------------------------------
(* The zones *)

\* The sizes of the zones, and what they are multiples of.
LEMMA Sizes ==
    ASSUME target \in Targets
    PROVE  /\ target.dev \in {"ecc608", "ecc204"} /\ target.zone \in {Config, Otp, Data}
           /\ target.slot \in 0..15
           /\ Size \in {32, 36, 64, 72, 128, 320, 416} /\ Words = 0..(Size \div 4 - 1)
           /\ target.dev = "ecc608" /\ target.zone = Config => Size = 128
           /\ target.dev = "ecc608" /\ target.zone = Data /\ target.slot \in 8..15 => Size \in {72, 416}
           /\ SetSize \in {16, 32} /\ (SetSize = 32 <=> target.zone = Data)
           /\ target.dev = "ecc204" =>
                 /\ target.zone # Otp /\ target.slot \in 0..3
                 /\ Size \in {32, 64, 320} /\ (target.zone = Config => Size = 64)
  <1>1. /\ target \in [dev : {"ecc608", "ecc204"}, zone : {Config, Otp, Data}, slot : 0..15]
        /\ target.dev = "ecc204" => target.zone # Otp /\ target.slot \in 0..3
    BY TargetsAssumption
  <1>2. SetSize \in {16, 32} /\ (SetSize = 32 <=> target.zone = Data)
    BY DEF SetSize, Block, Data
  <1>3. CASE target.dev = "ecc204"
    BY <1>1, <1>2, <1>3 DEF Size, SizeOf, Words, Word, Config, Otp, Data
  <1>4. CASE target.dev = "ecc608"
    BY <1>1, <1>2, <1>4 DEF Size, SizeOf, Words, Word, Config, Otp, Data
  <1> QED BY <1>1, <1>3, <1>4

\* What stays the same within a call.
LEMMA SameCall ==
    ASSUME UNCHANGED <<target, call>>
    PROVE  /\ Size' = Size /\ Words' = Words /\ SetSize' = SetSize /\ Counters' = Counters
           /\ Accepts(call)' = Accepts(call) /\ Wanted(call)' = Wanted(call)
           /\ Writes(call)' = Writes(call) /\ Sound(call)' = Sound(call)
  <1>1. Size' = Size /\ SetSize' = SetSize /\ Counters' = Counters
    BY DEF Size, SetSize, Counters
  <1>2. Words' = Words
    BY <1>1 DEF Words
  <1> QED BY <1>1, <1>2 DEF Accepts, Wanted, Writes, Sound

\* So does whether it is one that has to succeed.
LEMMA SameLegal ==
    ASSUME UNCHANGED <<target, call, locked>>
    PROVE  Legal(call)' = Legal(call)
  BY SameCall DEF Legal

-----------------------------------------------------------------------------
(* Packets *)

\* What the fate of a packet says, and what it adds to the counters.
LEMMA Fated ==
    ASSUME TypeOK, NEW legal \in BOOLEAN, NEW fate \in Fates(legal), Count(fate)
    PROVE  /\ fate \in {"done", "refused", "failed", "lost"}
           /\ Happens(fate) => legal
           /\ fate = "refused" => ~legal
           /\ StatusOf(fate) = "ok" <=> fate = "done"
           /\ faults' \in Nat /\ lately' \in Nat
           /\ lately' = 0 => lately = 0 /\ fate = IF legal THEN "done" ELSE "refused"
  BY BoundsAssumption DEF Fates, Happens, StatusOf, Count, TypeOK

\* The state of a call that reads, but for its buffer.
LEMMA ReaderKeeps ==
    ASSUME IInv, pc \in {"read", "compare", "read_pubkey"}, pc' \in {pc, "idle"},
           UNCHANGED <<target, mem, extra, locked, call>>
    PROVE  Called' /\ WritingKey' /\ Placed' /\ Writing' /\ Own' /\ Extras' /\ Locking'
  <1>0. /\ Size' = Size /\ Words' = Words
        /\ Accepts(call)' = Accepts(call) /\ Writes(call)' = Writes(call) /\ Sound(call)' = Sound(call)
    BY SameCall
  <1>1. pc = call.op /\ Sound(call) /\ Accepts(call) /\ call.length > 0
    BY DEF IInv, Called, Sound, Ops
  <1>2. Called'
    BY <1>0, <1>1 DEF Called, Sound, Ops
  <1>3. WritingKey' /\ Placed' /\ Locking'
    BY <1>1 DEF WritingKey, Placed, Locking, Returned
  <1>4. Writing'
    BY <1>0, <1>1 DEF Writing, Writes
  <1>5. Own'
    BY <1>0 DEF IInv, Own
  <1>6. Extras'
    BY <1>1 DEF IInv, Extras, Returned
  <1> QED BY <1>2, <1>3, <1>4, <1>5, <1>6

\* A chunk that begins where the buffer ends fills it further.
LEMMA CopiedOn ==
    ASSUME NEW n \in Nat, NEW at \in Nat, NEW length \in Nat, idx \in Nat,
           DOMAIN buf = 0..(length - 1), \A i \in 0..(idx - 1) : buf[i] = at + i,
           idx + n <= length, buf' = Copied(n, at + idx)
    PROVE  DOMAIN buf' = 0..(length - 1) /\ \A i \in 0..(idx + n - 1) : buf'[i] = at + i
  <1>1. \A i \in 0..(length - 1) : buf'[i] = IF idx <= i /\ i < idx + n THEN at + idx + (i - idx) ELSE buf[i]
    BY DEF Copied, Covers
  <1>2. ASSUME NEW i \in 0..(idx + n - 1) PROVE buf'[i] = at + i
    BY <1>1
  <1> QED BY <1>2 DEF Copied

\* Bytes in words and blocks.
LEMMA InWords ==
    ASSUME NEW x \in Nat
    PROVE  /\ x = 4 * (x \div 4) + (x % 4) /\ x % 4 \in 0..3 /\ x \div 4 \in Nat
           /\ x \div 4 = 8 * (x \div 32) + ((x \div 4) % 8) /\ x \div 32 \in Nat
           /\ (x \div 4) % 8 \in 0..7
           /\ \A k \in Nat : k * 32 = x => k = x \div 32 /\ x % 4 = 0
  <1> DEFINE q == x \div 4
             r == x % 4
             b == x \div 32
             s == x % 32
             d == q \div 8
             t == q % 8
  <1>1. x = 4 * q + r /\ r \in 0..3 /\ q \in Nat
    OBVIOUS
  <1>2. x = 32 * b + s /\ s \in 0..31 /\ b \in Nat
    OBVIOUS
  <1>3. q = 8 * d + t /\ t \in 0..7 /\ d \in Nat
    <2> HIDE DEF q
    <2> QED BY <1>1
  <1>4. b = d
    <2> HIDE DEF q, r, b, s, d, t
    <2> QED BY <1>1, <1>2, <1>3
  <1>5. \A k \in Nat : k * 32 = x => k = b /\ r = 0
    <2> HIDE DEF q, r, b, s, d, t
    <2> QED BY <1>1, <1>2
  <1>6. q = 8 * b + t /\ t \in 0..7
    <2> HIDE DEF q, b, d, t
    <2> QED BY <1>3, <1>4
  <1> QED BY <1>1, <1>2, <1>5, <1>6

\* The arithmetic of calib_read_bytes_zone: where a packet begins, how much of
\* it is wanted, where the next one begins, and that it is in the zone.
LEMMA NextBytes ==
    ASSUME TypeOK, Called, Filling, Reading("ecc608")
    PROVE  LET from == block * Block + WordInBlock * Word
               n == TakeOf(from, Unit)
           IN  /\ call.at + call.length <= Size
               /\ Inside(from \div Word, Unit \div Word)
               /\ Unit \in {Word, Block} /\ WordInBlock \in Nat
               /\ from + SkipOf(from) = call.at + idx
               /\ n \in Nat /\ n > 0 /\ idx + n <= call.length
               /\ idx + n < call.length =>
                     IF Unit = Word THEN block * Block + (WordInBlock + 1) * Word = call.at + idx + n
                     ELSE WordInBlock = 0 /\ (block + 1) * Block = call.at + idx + n
  <1> DEFINE from == block * Block + WordInBlock * Word
             n == TakeOf(from, Unit)
  <1>1. /\ call.at \in Nat /\ call.length \in Nat /\ call.at + call.length <= Size
        /\ idx \in Nat /\ block \in Nat /\ idx < call.length /\ word \in Nat
        /\ Size \in {32, 36, 64, 72, 128, 320, 416}
    BY Sizes DEF TypeOK, Called, Filling, Reading, Accepts, Sound, Ops
  <1>2. CASE unit = Word
    <2>1. /\ Unit = Word /\ WordInBlock = word /\ from = call.at + idx /\ idx > 0
          /\ block * Block + word * Word = call.at + idx
      BY <1>2 DEF Unit, WordInBlock, Filling, Reading, Word, Block
    <2>2. SkipOf(from) = 0
      BY <2>1, <1>1 DEF SkipOf
    <2>3. n = IF call.length - idx < 4 THEN call.length - idx ELSE 4
      BY <2>1, <2>2, <1>1 DEF TakeOf, Word
    <2>4. from % 4 = 0 /\ from < Size
      BY <2>1, <1>1 DEF Word, Block
    <2>5. Inside(from \div Word, Unit \div Word)
      BY <2>1, <2>4, <1>1 DEF Inside, Word
    <2> QED BY <1>1, <2>1, <2>2, <2>3, <2>5 DEF Word, Block
  <1>3. CASE unit = Block /\ Size - block * Block < Block
    <2>1. /\ Unit = 4 /\ WordInBlock = ((idx + call.at) \div 4) % 8
          /\ IF idx = 0 THEN block = call.at \div 32 ELSE block * 32 = call.at + idx
      BY <1>3 DEF Unit, WordInBlock, Filling, Reading, Word, Block
    <2>2. PICK x \in Nat : x = call.at + idx /\ x = idx + call.at
      BY <1>1
    <2>3. /\ x = 4 * (x \div 4) + (x % 4) /\ x % 4 \in 0..3 /\ x \div 4 \in Nat
          /\ x \div 4 = 8 * (x \div 32) + ((x \div 4) % 8) /\ x \div 32 \in Nat
          /\ (x \div 4) % 8 \in 0..7
          /\ \A k \in Nat : k * 32 = x => k = x \div 32 /\ x % 4 = 0
      BY InWords
    <2>4. PICK q \in Nat, r \in 0..3, w \in 0..7 :
             /\ q = x \div 4 /\ r = x % 4 /\ w = (x \div 4) % 8
             /\ x = 4 * q + r /\ q = 8 * (x \div 32) + w
             /\ \A k \in Nat : k * 32 = x => k = x \div 32 /\ r = 0
      BY <2>3
    <2>5. x = 4 * q + r /\ x < Size /\ x = call.at + idx /\ (idx = 0 => x = call.at)
      <3>1. x = 4 * q + r
        BY <2>4
      <3> QED BY <3>1, <2>2, <1>1
    <2>6. block = x \div 32 /\ (idx > 0 => r = 0) /\ WordInBlock = w
      <3>1. w = ((idx + call.at) \div 4) % 8
        <4>1. w = (x \div 4) % 8 /\ x = idx + call.at
          BY <2>2, <2>4
        <4> QED BY ONLY <4>1
      <3>2. CASE idx = 0
        BY <3>1, <3>2, <2>1, <2>5
      <3>3. CASE idx > 0
        BY <3>1, <3>3, <2>1, <2>4, <2>5, <1>1
      <3> QED BY <3>2, <3>3, <1>1
    <2>7. q = 8 * block + w
      BY <2>4, <2>6
    <2> HIDE DEF n, from
    <2>8. from = 4 * q
      BY <2>6, <2>7, <1>1 DEF from, Word, Block
    <2>9. SkipOf(from) = r
      <3>1. from < call.at => idx = 0 /\ call.at - from = r
        BY <2>5, <2>6, <2>8, <1>1
      <3>2. ~(from < call.at) => r = 0
        BY <2>5, <2>6, <2>8, <1>1
      <3> QED BY <3>1, <3>2 DEF SkipOf
    <2>10. n = IF call.length - idx < 4 - r THEN call.length - idx ELSE 4 - r
      BY <2>1, <2>9 DEF n, TakeOf
    <2>11. Inside(from \div Word, Unit \div Word)
      <3>1. from \div 4 = q /\ Unit \div 4 = 1
        BY <2>1, <2>8
      <3>2. q + 1 <= Size \div 4
        BY <2>5, <1>1
      <3> QED BY <3>1, <3>2 DEF Inside, Word
    <2>12. n \in Nat /\ n > 0 /\ idx + n <= call.length
      BY <2>10, <1>1
    <2>13. idx + n < call.length => block * Block + (WordInBlock + 1) * Word = call.at + idx + n
      <3>1. block * 32 + (WordInBlock + 1) * 4 = 4 * q + 4
        BY <2>6, <2>7, <1>1
      <3>2. idx + n < call.length => n = 4 - r
        BY <2>10, <1>1
      <3> QED BY <3>1, <3>2, <2>5, <2>12, <1>1 DEF Word, Block
    <2>14. from + SkipOf(from) = call.at + idx
      BY <2>5, <2>8, <2>9, <1>1
    <2>15. Unit = Word /\ WordInBlock \in Nat
      BY <2>1, <2>6 DEF Word
    <2> QED BY <1>1, <2>11, <2>12, <2>13, <2>14, <2>15 DEF n, from
  <1>4. CASE unit = Block /\ ~(Size - block * Block < Block)
    <2>1. /\ Unit = Block /\ WordInBlock = 0 /\ word = 0 /\ from = block * 32
          /\ IF idx = 0 THEN block = call.at \div 32 ELSE block * 32 = call.at + idx
      BY <1>4, <1>1 DEF Unit, WordInBlock, Filling, Reading, Word, Block
    <2>2. SkipOf(from) = (call.at + idx) - block * 32 /\ SkipOf(from) \in 0..31
      BY <2>1, <1>1 DEF SkipOf
    <2>3. n = IF call.length - idx < 32 - SkipOf(from) THEN call.length - idx ELSE 32 - SkipOf(from)
      BY <2>1 DEF TakeOf, Block
    <2>5. Inside(from \div Word, Unit \div Word)
      BY <2>1, <1>1, <1>4 DEF Inside, Word, Block
    <2> QED BY <1>1, <2>1, <2>2, <2>3, <2>5 DEF Word, Block
  <1> QED BY <1>2, <1>3, <1>4 DEF TypeOK

\* The bytes a comparison looks at are the words that are the host's to write.
LEMMA ComparedWords ==
    (\A b \in Compared : mem[b \div 4] = b \div 4) <=> (\A w \in HostsWords : mem[w] = w)
  <1>1. ASSUME \A b \in Compared : mem[b \div 4] = b \div 4, NEW w \in HostsWords
        PROVE  mem[w] = w
    <2>1. w \in Nat /\ (w \in 4..12 \/ w \in 17..20 \/ w \in 22..31)
      BY DEF HostsWords, ExtraWord
    <2>2. 4 * w + 3 \in Compared
      BY <2>1 DEF Compared
    <2>3. (4 * w + 3) \div 4 = w
      BY <2>1
    <2> QED BY <1>1, <2>2, <2>3
  <1>2. ASSUME \A w \in HostsWords : mem[w] = w, NEW b \in Compared
        PROVE  mem[b \div 4] = b \div 4
    <2>1. b \in 16..51 \/ b \in 68..83 \/ b \in 90..127
      BY DEF Compared
    <2>2. b \div 4 \in HostsWords
      BY <2>1 DEF HostsWords, ExtraWord
    <2> QED BY <1>2, <2>2
  <1> QED BY <1>1, <1>2

\* A packet of a read that was answered.
LEMMA ReadOn ==
    ASSUME IInv, pc \in {"read", "compare"}, NEW n \in Nat, idx + n <= call.length,
           Read(n, call.at + idx), UNCHANGED <<target, mem, extra, locked, call>>
    PROVE  /\ DOMAIN buf' = 0..(call.length - 1) /\ \A i \in 0..(idx' - 1) : buf'[i] = call.at + i
           /\ idx' = idx + n /\ status' = "ok" /\ pc' = IF idx' < call.length THEN pc ELSE "idle"
           /\ Filled' /\ CompareTells' /\ ReadingKey' /\ Clean'
  <1>1. /\ pc = call.op /\ Sound(call) /\ call.at \in Nat /\ call.length \in Nat /\ idx \in Nat
        /\ DOMAIN buf = 0..(call.length - 1) /\ \A i \in 0..(idx - 1) : buf[i] = call.at + i
    BY DEF IInv, Called, Sound, Ops, TypeOK, Filling
  <1>2. /\ idx' = idx + n /\ status' = "ok" /\ pc' = IF idx' < call.length THEN pc ELSE "idle"
        /\ pc' = "idle" => same' = (call.op = "compare" /\ Same)
    BY <1>1 DEF Read, Stay, Return, Ops
  <1>3. DOMAIN buf' = 0..(call.length - 1) /\ \A i \in 0..(idx + n - 1) : buf'[i] = call.at + i
    BY <1>1, CopiedOn DEF Read
  <1>4. pc' = "idle" => \A i \in 0..(call.length - 1) : buf'[i] = call.at + i
    BY <1>1, <1>2, <1>3
  <1>5. Filled'
    BY <1>3, <1>4 DEF Filled
  <1>6. CompareTells'
    <2> SUFFICES ASSUME pc' = "idle", call.op = "compare", target.dev = "ecc608"
                 PROVE  same' <=> \A w \in HostsWords : mem[w] = w
      BY DEF CompareTells, Returned
    <2>1. call.at = 0 /\ call.length = 128
      BY <1>1, Sizes DEF Sound, IInv, TypeOK
    <2>2. ASSUME NEW b \in Compared PROVE Agrees(b) <=> mem[b \div 4] = b \div 4
      <3>1. b \in 0..127
        BY DEF Compared
      <3>2. buf'[b] = b
        BY <1>4, <2>1, <3>1
      <3> QED BY <3>2 DEF Agrees, Word
    <2>3. same' <=> \A b \in Compared : Agrees(b)
      BY <1>2 DEF Same
    <2> QED BY <2>2, <2>3, ComparedWords
  <1>7. ReadingKey'
    BY <1>1, <1>2 DEF ReadingKey, Returned
  <1>8. Clean'
    <2>1. status' = "ok"
      BY <1>2
    <2> QED BY ONLY <2>1 DEF Clean
  <1>9. \A i \in 0..(idx' - 1) : buf'[i] = call.at + i
    <2>1. idx' = idx + n /\ idx \in Nat
      BY <1>1, <1>2
    <2>2. SUFFICES ASSUME NEW i \in 0..(idx' - 1) PROVE buf'[i] = call.at + i
      OBVIOUS
    <2>3. i \in 0..(idx + n - 1)
      BY <2>1
    <2> QED BY <1>3, <2>3
  <1> QED BY <1>2, <1>3, <1>5, <1>6, <1>7, <1>8, <1>9

\* A read that is given up.
LEMMA ReadGivesUp ==
    ASSUME IInv, pc \in {"read", "compare", "read_pubkey"}, NEW legal \in BOOLEAN, legal,
           NEW fate \in Fates(legal), Count(fate), fate # "done", Failed(fate),
           UNCHANGED <<target, mem, extra, locked, call, made>>
    PROVE  IInv'
  <1>1. pc' = "idle" /\ status' # "ok" /\ lately' # 0 /\ faults' \in Nat /\ lately' \in Nat
    BY Fated DEF Failed, Return, IInv
  <1>2. TypeOK'
    BY <1>1, SameCall DEF IInv, TypeOK, Failed, position
  <1>3. Filling' /\ Filled' /\ CompareTells' /\ ReadingKey' /\ Clean'
    BY <1>1 DEF Filling, Filled, CompareTells, ReadingKey, Clean, Returned
  <1> QED BY <1>1, <1>2, <1>3, ReaderKeeps DEF IInv

\* An iteration of calib_read_bytes_zone.
LEMMA ReadBytesKeeps == ASSUME IInv, ReadBytes PROVE IInv'
  <1> DEFINE from == block * Block + WordInBlock * Word
             n == TakeOf(from, Unit)
  <1>1. /\ TypeOK /\ Called /\ Filling /\ Reading("ecc608") /\ UNCHANGED <<target, mem, extra, locked, call, made>>
        /\ pc \in {"read", "compare"}
    BY DEF IInv, ReadBytes, Reading
  <1>2. PICK fate \in Fates(Inside(from \div Word, Unit \div Word)) :
           /\ Count(fate)
           /\ IF fate # "done" THEN Failed(fate)
              ELSE /\ Read(n, from + SkipOf(from)) /\ unit' = Unit
                   /\ block' = IF Unit = Block THEN block + 1 ELSE block
                   /\ word' = IF Unit = Block THEN WordInBlock ELSE WordInBlock + 1
    BY DEF ReadBytes
  <1>3. /\ Inside(from \div Word, Unit \div Word) \in BOOLEAN /\ Inside(from \div Word, Unit \div Word)
        /\ Unit \in {Word, Block} /\ WordInBlock \in Nat
        /\ from + SkipOf(from) = call.at + idx
        /\ n \in Nat /\ n > 0 /\ idx + n <= call.length
        /\ idx + n < call.length =>
              IF Unit = Word THEN block * Block + (WordInBlock + 1) * Word = call.at + idx + n
              ELSE WordInBlock = 0 /\ (block + 1) * Block = call.at + idx + n
    BY <1>1, NextBytes DEF Inside
  <1> HIDE DEF from, n
  <1>4. CASE fate # "done"
    BY <1>1, <1>2, <1>3, <1>4, ReadGivesUp
  <1>5. CASE fate = "done"
    <2>1. /\ Read(n, call.at + idx) /\ unit' = Unit
          /\ block' = IF Unit = Block THEN block + 1 ELSE block
          /\ word' = IF Unit = Block THEN WordInBlock ELSE WordInBlock + 1
      BY <1>2, <1>3, <1>5
    <2>2. /\ DOMAIN buf' = 0..(call.length - 1) /\ \A i \in 0..(idx' - 1) : buf'[i] = call.at + i
          /\ idx' = idx + n /\ status' = "ok" /\ pc' = IF idx' < call.length THEN pc ELSE "idle"
          /\ Filled' /\ CompareTells' /\ ReadingKey' /\ Clean'
      BY <1>1, <1>3, <2>1, ReadOn
    <2>3. faults' \in Nat /\ lately' \in Nat
      BY <1>1, <1>2, <1>3, Fated
    <2>4. TypeOK'
      BY <1>1, <1>3, <2>1, <2>2, <2>3, SameCall DEF TypeOK
    <2>5. Filling'
      <3> SUFFICES ASSUME pc' # "idle" PROVE Filling'
        BY DEF Filling
      <3>1. /\ call.at \in Nat /\ call.length \in Nat /\ idx \in Nat /\ idx + n < call.length /\ idx' = idx + n
            /\ block \in Nat /\ UNCHANGED <<target, call>> /\ target.dev = "ecc608" /\ word \in Nat
        BY <1>1, <2>2 DEF TypeOK, Called, Sound, Reading, Ops
      <3>2. IF unit' = Word THEN idx' > 0 /\ block' * Block + word' * Word = call.at + idx'
            ELSE word' = 0 /\ idx' > 0 /\ block' * Block = call.at + idx'
        BY <1>3, <2>1, <3>1 DEF Word, Block
      <3> QED BY <2>2, <3>1, <3>2 DEF Filling
    <2> QED BY <1>1, <2>2, <2>4, <2>5, ReaderKeeps DEF IInv
  <1> QED BY <1>4, <1>5

\* An iteration of calib_ca2_read_bytes_zone or calib_ca2_read_config_zone:
\* where it reads from, and that this is in the zone.
LEMMA NextSet ==
    ASSUME TypeOK, Called, Filling, Reading("ecc204")
    PROVE  LET from == block * SetSize
               n == TakeOf(from, SetSize)
           IN  /\ Inside(from \div Word, SetSize \div Word)
               /\ from + SkipOf(from) = call.at + idx
               /\ n \in Nat /\ n > 0 /\ idx + n <= call.length
               /\ idx + n < call.length => (block + 1) * SetSize = call.at + idx + n
  <1> DEFINE from == block * SetSize
             n == TakeOf(from, SetSize)
  <1>1. /\ call.at \in Nat /\ call.length \in Nat /\ idx \in Nat /\ block \in Nat /\ idx < call.length
        /\ Size \in {32, 64, 320} /\ SetSize \in {16, 32} /\ (SetSize = 16 <=> target.zone = Config)
        /\ target.zone = Config => Size = 64
        /\ call.op \in {"read", "compare"}
        /\ call.op = "compare" => call.at = 0 /\ call.length = Size
        /\ target.zone = Config => call.at < 64
    BY Sizes DEF TypeOK, Called, Filling, Reading, Sound, Ops, Config, Data, Otp
  <1>2. IF idx = 0 THEN block = call.at \div SetSize ELSE block * SetSize = call.at + idx
    BY DEF Filling, Reading
  <1>3. call.op = "read" => IF target.zone = Config THEN (call.at % 16) + call.length <= 16
                            ELSE call.at + call.length <= Size
    BY DEF Called, Reading, Accepts
  <1>4. CASE SetSize = 16
    <2>1. IF idx = 0 THEN block = call.at \div 16 ELSE block * 16 = call.at + idx
      BY <1>2, <1>4
    <2>2. from = block * 16 /\ from <= call.at + idx /\ call.at + idx < from + 16
      BY <1>1, <1>4, <2>1
    <2>3. idx > 0 => from = call.at + idx
      BY <1>1, <1>4, <2>1
    <2>4. SkipOf(from) = call.at + idx - from
      <3>1. CASE idx = 0
        BY <1>1, <2>2, <3>1 DEF SkipOf
      <3>2. CASE idx > 0
        BY <1>1, <2>2, <2>3, <3>2 DEF SkipOf
      <3> QED BY <1>1, <3>1, <3>2
    <2>5. n = IF call.length - idx < from + 16 - (call.at + idx) THEN call.length - idx
              ELSE from + 16 - (call.at + idx)
      <3>1. n = IF call.length - idx < 16 - SkipOf(from) THEN call.length - idx ELSE 16 - SkipOf(from)
        BY <1>4 DEF TakeOf
      <3> HIDE DEF n, from
      <3> QED BY <1>1, <2>2, <2>4, <3>1
    <2>6. from + 16 <= 64
      <3>1. CASE call.op = "compare"
        BY <1>1, <1>4, <2>2, <3>1
      <3>2. CASE call.op = "read"
        BY <1>1, <1>3, <1>4, <2>1, <3>2
      <3> QED BY <1>1, <3>1, <3>2
    <2>7. Inside(from \div Word, SetSize \div Word)
      BY <1>1, <1>4, <2>2, <2>6 DEF Inside, Word
    <2>8. /\ from + SkipOf(from) = call.at + idx
          /\ n \in Nat /\ n > 0 /\ idx + n <= call.length
          /\ idx + n < call.length => (block + 1) * 16 = call.at + idx + n
      BY <1>1, <2>2, <2>4, <2>5
    <2> QED BY <1>4, <2>7, <2>8
  <1>5. CASE SetSize = 32
    <2>1. IF idx = 0 THEN block = call.at \div 32 ELSE block * 32 = call.at + idx
      BY <1>2, <1>5
    <2>2. from = block * 32 /\ from <= call.at + idx /\ call.at + idx < from + 32
      BY <1>1, <1>5, <2>1
    <2>3. idx > 0 => from = call.at + idx
      BY <1>1, <1>5, <2>1
    <2>4. SkipOf(from) = call.at + idx - from
      <3>1. CASE idx = 0
        BY <1>1, <2>2, <3>1 DEF SkipOf
      <3>2. CASE idx > 0
        BY <1>1, <2>2, <2>3, <3>2 DEF SkipOf
      <3> QED BY <1>1, <3>1, <3>2
    <2>5. n = IF call.length - idx < from + 32 - (call.at + idx) THEN call.length - idx
              ELSE from + 32 - (call.at + idx)
      <3>1. n = IF call.length - idx < 32 - SkipOf(from) THEN call.length - idx ELSE 32 - SkipOf(from)
        BY <1>5 DEF TakeOf
      <3> HIDE DEF n, from
      <3> QED BY <1>1, <2>2, <2>4, <3>1
    <2>6. from + 32 <= Size
      <3>1. call.at + call.length <= Size
        BY <1>1, <1>3, <1>5
      <3> QED BY <1>1, <2>2, <3>1
    <2>7. Inside(from \div Word, SetSize \div Word)
      BY <1>1, <1>5, <2>2, <2>6 DEF Inside, Word
    <2>8. /\ from + SkipOf(from) = call.at + idx
          /\ n \in Nat /\ n > 0 /\ idx + n <= call.length
          /\ idx + n < call.length => (block + 1) * 32 = call.at + idx + n
      <3> HIDE DEF n, from
      <3> QED BY <1>1, <2>2, <2>4, <2>5
    <2> QED BY <1>5, <2>7, <2>8
  <1> QED BY <1>1, <1>4, <1>5

\* An iteration of calib_ca2_read_bytes_zone, or of calib_ca2_read_config_zone.
LEMMA ReadSetKeeps == ASSUME IInv, ReadSet PROVE IInv'
  <1> DEFINE from == block * SetSize
             n == TakeOf(from, SetSize)
  <1>1. /\ TypeOK /\ Called /\ Filling /\ Reading("ecc204") /\ UNCHANGED <<target, mem, extra, locked, call, made>>
        /\ pc \in {"read", "compare"}
    BY DEF IInv, ReadSet, Reading
  <1>2. PICK fate \in Fates(Inside(from \div Word, SetSize \div Word)) :
           /\ Count(fate)
           /\ IF fate # "done" THEN Failed(fate)
              ELSE Read(n, from + SkipOf(from)) /\ block' = block + 1 /\ UNCHANGED <<word, unit>>
    BY DEF ReadSet
  <1>3. /\ Inside(from \div Word, SetSize \div Word) \in BOOLEAN /\ Inside(from \div Word, SetSize \div Word)
        /\ from + SkipOf(from) = call.at + idx
        /\ n \in Nat /\ n > 0 /\ idx + n <= call.length
        /\ idx + n < call.length => (block + 1) * SetSize = call.at + idx + n
    BY <1>1, NextSet DEF Inside
  <1> HIDE DEF from, n
  <1>4. CASE fate # "done"
    BY <1>1, <1>2, <1>3, <1>4, ReadGivesUp
  <1>5. CASE fate = "done"
    <2>1. Read(n, call.at + idx) /\ block' = block + 1 /\ UNCHANGED <<word, unit>>
      BY <1>2, <1>3, <1>5
    <2>2. /\ DOMAIN buf' = 0..(call.length - 1) /\ \A i \in 0..(idx' - 1) : buf'[i] = call.at + i
          /\ idx' = idx + n /\ status' = "ok" /\ pc' = IF idx' < call.length THEN pc ELSE "idle"
          /\ Filled' /\ CompareTells' /\ ReadingKey' /\ Clean'
      BY <1>1, <1>3, <2>1, ReadOn
    <2>3. faults' \in Nat /\ lately' \in Nat
      BY <1>1, <1>2, <1>3, Fated
    <2>4. TypeOK'
      BY <1>1, <1>3, <2>1, <2>2, <2>3, SameCall DEF TypeOK
    <2>5. Filling'
      <3> SUFFICES ASSUME pc' # "idle" PROVE Filling'
        BY DEF Filling
      <3>1. /\ call.at \in Nat /\ call.length \in Nat /\ idx \in Nat /\ idx + n < call.length /\ idx' = idx + n
            /\ block \in Nat /\ UNCHANGED <<target, call>> /\ target.dev = "ecc204" /\ SetSize' = SetSize
        BY <1>1, <2>2, SameCall DEF TypeOK, Called, Sound, Reading, Ops
      <3>2. idx' > 0 /\ block' * SetSize = call.at + idx'
        BY <1>3, <2>1, <3>1
      <3> QED BY <2>2, <3>1, <3>2 DEF Filling
    <2> QED BY <1>1, <2>2, <2>4, <2>5, ReaderKeeps DEF IInv
  <1> QED BY <1>4, <1>5

\* A block of a key that is read.
LEMMA ReadPubkeyKeeps == ASSUME IInv, ReadPubkey PROVE IInv'
  <1>1. /\ TypeOK /\ Called /\ ReadingKey /\ pc = "read_pubkey"
        /\ UNCHANGED <<target, mem, extra, locked, call, made>>
    BY DEF IInv, ReadPubkey
  <1>2. PICK fate \in Fates(TRUE) :
           /\ Count(fate)
           /\ IF fate # "done" THEN Failed(fate)
              ELSE /\ buf' = [i \in DOMAIN buf |->
                         IF \E c \in KeyCopies(block) : Covers(c.at, c.n, i)
                         THEN LET c == CHOOSE c \in KeyCopies(block) : Covers(c.at, c.n, i)
                              IN  c.from + (i - c.at)
                         ELSE buf[i]]
                   /\ block' = block + 1
                   /\ IF block = 2 THEN Return("ok") ELSE Stay
                   /\ UNCHANGED <<word, unit, idx, same>>
    BY DEF ReadPubkey
  <1>3. CASE fate # "done"
    BY <1>1, <1>2, <1>3, ReadGivesUp
  <1>4. CASE fate = "done"
    <2>1. /\ DOMAIN buf = 0..63 /\ block \in 0..2 /\ call.op = "read_pubkey"
          /\ \A i \in 0..63 : i < KeyRead(block) => buf[i] = PlaceOfKey(i)
      BY <1>1 DEF ReadingKey, Called
    <2>2. /\ block' = block + 1 /\ status' = "ok" /\ pc' = IF block = 2 THEN "idle" ELSE pc
          /\ UNCHANGED <<word, unit, idx, same>> /\ faults' \in Nat /\ lately' \in Nat
      BY <1>1, <1>2, <1>4, Fated DEF Return, Stay
    <2>3. DOMAIN buf' = 0..63
      BY <1>2, <1>4, <2>1
    <2>4. ASSUME NEW i \in 0..63, i < KeyRead(block + 1) PROVE buf'[i] = PlaceOfKey(i)
      <3> DEFINE P(c) == c \in KeyCopies(block) /\ Covers(c.at, c.n, i)
      <3>1. CASE i < KeyRead(block)
        <4>1. ~\E c \in KeyCopies(block) : Covers(c.at, c.n, i)
          BY <2>1, <3>1 DEF KeyCopies, Covers, KeyRead
        <4> QED BY <1>2, <1>4, <2>1, <3>1, <4>1
      <3>2. CASE ~(i < KeyRead(block))
        <4>1. \E c \in KeyCopies(block) : Covers(c.at, c.n, i)
          <5>1. CASE block = 0
            <6> DEFINE c == [at |-> 0, from |-> 4, n |-> 28]
            <6>1. c \in KeyCopies(block) /\ Covers(c.at, c.n, i)
              BY <2>4, <5>1 DEF KeyCopies, Covers, KeyRead
            <6> QED BY <6>1
          <5>2. CASE block = 1 /\ i < 32
            <6> DEFINE c == [at |-> 28, from |-> 32, n |-> 4]
            <6>1. c \in KeyCopies(block) /\ Covers(c.at, c.n, i)
              BY <3>2, <5>2 DEF KeyCopies, Covers, KeyRead
            <6> QED BY <6>1
          <5>3. CASE block = 1 /\ i >= 32
            <6> DEFINE c == [at |-> 32, from |-> 40, n |-> 24]
            <6>1. c \in KeyCopies(block) /\ Covers(c.at, c.n, i)
              BY <2>4, <5>3 DEF KeyCopies, Covers, KeyRead
            <6> QED BY <6>1
          <5>4. CASE block = 2
            <6> DEFINE c == [at |-> 56, from |-> 64, n |-> 8]
            <6>1. c \in KeyCopies(block) /\ Covers(c.at, c.n, i)
              BY <3>2, <5>4 DEF KeyCopies, Covers, KeyRead
            <6> QED BY <6>1
          <5> QED BY <2>1, <5>1, <5>2, <5>3, <5>4
        <4>2. \A c \in KeyCopies(block) : Covers(c.at, c.n, i) => c.from + (i - c.at) = PlaceOfKey(i)
          BY <2>1, <2>4, <3>2 DEF KeyCopies, Covers, KeyRead, PlaceOfKey
        <4>3. PICK c \in KeyCopies(block) : Covers(c.at, c.n, i) /\ buf'[i] = c.from + (i - c.at)
          BY <1>2, <1>4, <2>1, <4>1
        <4> QED BY <4>2, <4>3
      <3> QED BY <3>1, <3>2
    <2>5. ReadingKey'
      <3>1. \A i \in 0..63 : i < KeyRead(block') => buf'[i] = PlaceOfKey(i)
        BY <2>2, <2>4
      <3>2. CASE block = 2
        <4>1. \A i \in 0..63 : buf'[i] = PlaceOfKey(i)
          BY <2>2, <3>1, <3>2 DEF KeyRead
        <4> QED BY <2>2, <3>2, <4>1 DEF ReadingKey
      <3>3. CASE block # 2
        BY <1>1, <2>1, <2>2, <2>3, <3>1, <3>3 DEF ReadingKey, Returned
      <3> QED BY <3>2, <3>3
    <2>6. TypeOK'
      BY <1>1, <2>1, <2>2, SameCall DEF TypeOK
    <2>7. Filling' /\ Filled' /\ CompareTells'
      BY <1>1, <2>1, <2>2 DEF Filling, Filled, CompareTells, Returned
    <2>8. Clean'
      BY <2>2 DEF Clean
    <2> QED BY <1>1, <2>2, <2>5, <2>6, <2>7, <2>8, ReaderKeeps DEF IInv
  <1> QED BY <1>3, <1>4

-----------------------------------------------------------------------------
(* Writing *)

\* The state of a call that writes, but for the words it writes.
LEMMA WriterKeeps ==
    ASSUME IInv, call.op \in {"write", "config"}, UNCHANGED <<target, call, locked>>,
           pc' \in {"write", "config", "user_extra", "selector", "idle"}
    PROVE  Filling' /\ Filled' /\ CompareTells' /\ ReadingKey' /\ WritingKey' /\ Locking'
  <1>1. Filling' /\ Filled' /\ CompareTells'
    BY DEF Filling, Filled, CompareTells, Returned
  <1>2. ReadingKey' /\ WritingKey' /\ Locking'
    BY DEF ReadingKey, WritingKey, Locking, Returned
  <1> QED BY <1>1, <1>2

\* Words of the range that follow those that were written are written.
LEMMA WrittenOn ==
    ASSUME NEW w0 \in Nat, NEW n \in Nat, TypeOK, Own, UNCHANGED <<target, call>>,
           mem' = Written(w0, n, w0)
    PROVE  /\ mem' \in [Words' -> Int] /\ Own'
           /\ WrittenTo(w0) /\ (\A w \in Words : Covers(w0, n, w) => w \in Wanted(call))
                 => WrittenTo(w0 + n)'
  <1>0. /\ Size' = Size /\ Words' = Words /\ Counters' = Counters /\ Wanted(call)' = Wanted(call)
        /\ Words \subseteq Nat
    BY SameCall, Sizes DEF TypeOK
  <1>1. \A w \in Words : mem'[w] = IF w0 <= w /\ w < w0 + n THEN w ELSE mem[w]
    BY <1>0 DEF Written, Covers
  <1>2. mem' \in [Words' -> Int]
    <2>1. \A w \in Words : (IF Covers(w0, n, w) THEN w0 + (w - w0) ELSE mem[w]) \in Int
      BY <1>0 DEF TypeOK
    <2> QED BY <1>0, <2>1 DEF Written
  <1>3. Own'
    BY <1>0, <1>1 DEF Own
  <1>4. ASSUME WrittenTo(w0), \A w \in Words : Covers(w0, n, w) => w \in Wanted(call),
               NEW w \in Words \ Counters
        PROVE  mem'[w] = IF w \in Wanted(call) /\ w < w0 + n THEN w ELSE call.old[w]
    <2>1. w \in Nat /\ mem[w] = IF w \in Wanted(call) /\ w < w0 THEN w ELSE call.old[w]
      BY <1>0, <1>4 DEF WrittenTo
    <2>2. CASE w0 <= w /\ w < w0 + n
      BY <1>1, <1>4, <2>2 DEF Covers
    <2>3. CASE ~(w0 <= w /\ w < w0 + n)
      BY <1>1, <2>1, <2>3
    <2> QED BY <2>2, <2>3
  <1>5. WrittenTo(w0) /\ (\A w \in Words : Covers(w0, n, w) => w \in Wanted(call)) => WrittenTo(w0 + n)'
    <2>1. WrittenTo(w0) /\ (\A w \in Words : Covers(w0, n, w) => w \in Wanted(call)) =>
             \A w \in Words \ Counters :
                mem'[w] = IF w \in Wanted(call) /\ w < w0 + n THEN w ELSE call.old[w]
      BY <1>4
    <2> QED BY <1>0, <2>1 DEF WrittenTo
  <1> QED BY <1>2, <1>3, <1>5

\* All of a range is written once its last word is.
LEMMA WrittenAll ==
    ASSUME NEW k \in Nat, TypeOK, Sound(call), UNCHANGED <<target, call>>,
           call.at + call.length <= 4 * k, WrittenTo(k)'
    PROVE  WrittenTo(Size \div Word)'
  <1>0. /\ Words = 0..(Size \div 4 - 1) /\ Words \subseteq Nat /\ Size \div 4 \in Nat
        /\ Words' = Words /\ Counters' = Counters /\ Wanted(call)' = Wanted(call) /\ Size' = Size
    BY Sizes, SameCall DEF TypeOK
  <1>1. \A w \in Wanted(call) : w < k
    BY <1>0 DEF Wanted, Covers, Sound, Word
  <1>2. \A w \in Words : w < Size \div 4
    BY <1>0
  <1> QED BY <1>0, <1>1, <1>2 DEF WrittenTo, Word

\* Where a packet of calib_write_bytes_zone goes.
LEMMA NextWords ==
    ASSUME TypeOK, Called, Placed, pc \in {"write", "config"}, target.dev = "ecc608"
    PROVE  LET n == IF WholeBlock THEN 8 ELSE 1
               at == block * 8 + word
           IN  /\ at \in Nat /\ n \in {1, 8} /\ (call.at + idx) \div Word = at
               /\ 4 * at = call.at + idx /\ idx + 4 * n <= call.length
               /\ call.at + call.length <= Size /\ Inside(at, n)
               /\ (8 * (IF word + n = 8 THEN block + 1 ELSE block) + ((word + n) % 8)) = at + n
               /\ (word + n) % 8 \in 0..7
               /\ target.zone = Config /\ Covers(at, n, ExtraWord) => Skipped
               /\ Skipped => target.zone = Config /\ at = ExtraWord /\ n = 1
               /\ \A w \in Words : Covers(at, n, w) /\ ~Skipped => w \in Wanted(call)
  <1> DEFINE n == IF WholeBlock THEN 8 ELSE 1
             at == block * 8 + word
  <1>1. /\ call.at \in Nat /\ call.length \in Nat /\ idx \in Nat
        /\ word \in 0..7 /\ block \in Nat /\ (8 * block + word) * 4 = call.at + idx
        /\ call.at + call.length <= Size /\ idx < call.length
    BY DEF TypeOK, Called, Placed, Sound, Ops, Word
  <1>2. PICK a \in Nat, b \in Nat, i \in Nat, z \in Nat :
           /\ call.at = 4 * a /\ call.length = 4 * b /\ idx = 4 * i /\ Size = 4 * z
           /\ call.at \div 4 = a /\ call.length \div 4 = b /\ Size \div 4 = z
    <2>1. call.at % 4 = 0 /\ call.length % 4 = 0 /\ idx % 4 = 0
      BY DEF Placed, Word
    <2>2. Size \in {32, 36, 64, 72, 128, 320, 416}
      BY Sizes DEF TypeOK
    <2>3. PICK a \in Nat : call.at = 4 * a /\ call.at \div 4 = a
      BY <1>1, <2>1
    <2>4. PICK b \in Nat : call.length = 4 * b /\ call.length \div 4 = b
      BY <1>1, <2>1
    <2>5. PICK i \in Nat : idx = 4 * i
      BY <1>1, <2>1
    <2>6. PICK z \in Nat : Size = 4 * z /\ Size \div 4 = z
      BY <2>2
    <2> QED BY <2>3, <2>4, <2>5, <2>6
  <1>3. at \in Nat /\ at = a + i /\ a + b <= z /\ i < b
    BY <1>1, <1>2
  <1>4. 4 * at = call.at + idx /\ (call.at + idx) \div Word = at
    BY <1>2, <1>3 DEF Word
  <1>5. n = 1 \/ (n = 8 /\ word = 0 /\ ~(target.zone = Config /\ block = 2) /\ call.length - idx >= 32)
    BY DEF WholeBlock, Block
  <1> HIDE DEF n
  <1>6. n \in {1, 8} /\ i + n <= b /\ at + n <= z /\ idx + 4 * n <= call.length
    <2>1. CASE n = 1
      BY <1>2, <1>3, <2>1
    <2>2. CASE n = 8 /\ call.length - idx >= 32
      BY <1>2, <1>3, <2>2
    <2> QED BY <1>5, <2>1, <2>2
  <1>7. Inside(at, n)
    <2> HIDE DEF at
    <2> QED BY <1>2, <1>3, <1>6 DEF Inside, Word
  <1>8. /\ (8 * (IF word + n = 8 THEN block + 1 ELSE block) + ((word + n) % 8)) = at + n
        /\ (word + n) % 8 \in 0..7
    <2>1. CASE n = 8 /\ word = 0
      <3>1. word + n = 8 /\ (word + n) % 8 = 0
        BY <2>1
      <3> QED BY <1>1, <2>1, <3>1
    <2>2. CASE n = 1 /\ word = 7
      <3>1. word + n = 8 /\ (word + n) % 8 = 0
        BY <2>2
      <3> QED BY <1>1, <2>2, <3>1
    <2>3. CASE n = 1 /\ word # 7
      <3>1. word + n # 8 /\ (word + n) % 8 = word + 1
        BY <1>1, <2>3
      <3> QED BY <1>1, <2>3, <3>1
    <2> QED BY <1>5, <2>1, <2>2, <2>3
  <1>9. target.zone = Config /\ Covers(at, n, ExtraWord) => Skipped
    <2>1. CASE n = 8 /\ word = 0 /\ ~(target.zone = Config /\ block = 2)
      <3>1. Covers(at, n, 21) => block = 2
        BY <1>1, <2>1 DEF Covers
      <3> QED BY <2>1, <3>1 DEF ExtraWord
    <2>2. CASE n = 1
      <3>1. Covers(at, n, 21) => block = 2 /\ word = 5
        BY <1>1, <2>2 DEF Covers
      <3> QED BY <3>1 DEF Skipped, IsExtra, ExtraWord
    <2> QED BY <1>5, <2>1, <2>2
  <1>10. Skipped => target.zone = Config /\ at = ExtraWord /\ n = 1
    BY <1>5 DEF Skipped, IsExtra, ExtraWord
  <1>11. ASSUME NEW w \in Words, Covers(at, n, w), ~Skipped PROVE w \in Wanted(call)
    <2>0. w \in Nat
      BY Sizes DEF TypeOK
    <2>1. Covers(call.at \div Word, call.length \div Word, w)
      <3> HIDE DEF at
      <3> QED BY <1>2, <1>3, <1>6, <1>11, <2>0 DEF Covers, Word
    <2>2. target.zone = Config => w # ExtraWord
      BY <1>9, <1>11
    <2> QED BY <2>1, <2>2 DEF Wanted
  <1> HIDE DEF at
  <1> QED BY <1>1, <1>3, <1>4, <1>6, <1>7, <1>8, <1>9, <1>10, <1>11 DEF n, at

\* An iteration of calib_write_bytes_zone.
LEMMA WriteBytesKeeps == ASSUME IInv, WriteBytes PROVE IInv'
  <1> DEFINE n == IF WholeBlock THEN 8 ELSE 1
             at == block * 8 + word
  <1>1. /\ TypeOK /\ Called /\ Placed /\ pc \in {"write", "config"} /\ target.dev = "ecc608"
        /\ UNCHANGED <<target, extra, locked, call, made>>
    BY DEF IInv, WriteBytes
  <1>2. /\ call.op = pc /\ Sound(call) /\ Writes(call) /\ call.at \in Nat /\ call.length \in Nat /\ idx \in Nat
        /\ WrittenTo((call.at + idx) \div Word)
    BY <1>1 DEF Called, IInv, Writing, Writes, Sound, Ops, TypeOK
  <1>3. PICK fate \in IF Skipped THEN {"done"} ELSE Fates(Writable(at, n)) :
           /\ Count(fate)
           /\ mem' = IF Happens(fate) /\ ~Skipped
                     THEN Written(at, n, (call.at + idx) \div Word) ELSE mem
           /\ IF fate # "done" THEN Failed(fate)
              ELSE /\ idx' = idx + n * Word
                   /\ block' = IF word + n = 8 THEN block + 1 ELSE block
                   /\ word' = (word + n) % 8
                   /\ IF idx' < call.length THEN Stay
                      ELSE IF pc = "config" THEN pc' = "user_extra" /\ status' = "ok"
                      ELSE Return("ok")
                   /\ UNCHANGED <<unit, buf, same>>
    BY DEF WriteBytes
  <1>4. /\ at \in Nat /\ n \in {1, 8} /\ (call.at + idx) \div Word = at
        /\ 4 * at = call.at + idx /\ idx + 4 * n <= call.length
        /\ call.at + call.length <= Size /\ Inside(at, n)
        /\ (8 * (IF word + n = 8 THEN block + 1 ELSE block) + ((word + n) % 8)) = at + n
        /\ (word + n) % 8 \in 0..7
        /\ target.zone = Config /\ Covers(at, n, ExtraWord) => Skipped
        /\ Skipped => target.zone = Config /\ at = ExtraWord /\ n = 1
        /\ \A w \in Words : Covers(at, n, w) /\ ~Skipped => w \in Wanted(call)
    BY <1>1, NextWords
  <1> HIDE DEF at, n
  <1>p. PICK p \in Nat, m \in {1, 8} : p = at /\ m = n
    BY <1>4
  <1>5. /\ fate \in {"done", "refused", "failed", "lost"}
        /\ StatusOf(fate) = "ok" <=> fate = "done"
        /\ faults' \in Nat /\ lately' \in Nat
        /\ lately' = 0 => lately = 0 /\ (fate = "done" \/ (~Skipped /\ ~Writable(at, n)))
    <2>1. CASE Skipped
      BY <1>1, <1>3, <2>1 DEF Count, StatusOf, TypeOK
    <2>2. CASE ~Skipped
      <3>1. Writable(at, n) \in BOOLEAN /\ fate \in Fates(Writable(at, n))
        BY <1>3, <2>2 DEF Writable
      <3> QED BY <1>1, <1>3, <3>1, <2>2, Fated
    <2> QED BY <2>1, <2>2
  <1>6. lately' = 0 /\ Legal(call) => fate = "done"
    <2> SUFFICES ASSUME Legal(call), ~Skipped PROVE Writable(at, n)
      BY <1>5
    <2>1. target.zone = Config => call.at >= 16
      BY <1>1, <1>2 DEF Legal, Sound
    <2>2. target.zone = Config => ~\E w \in (0..3) \cup {ExtraWord} : Covers(at, n, w)
      BY <1>2, <1>4, <2>1 DEF Covers
    <2> QED BY <1>1, <1>4, <2>2 DEF Writable
  <1>7. Size' = Size /\ Words' = Words /\ Size \div Word \in Nat /\ at + n <= Size \div Word
    <2>1. Size' = Size /\ Words' = Words
      BY <1>1, SameCall
    <2>2. Size \div Word \in Nat
      BY <1>1, Sizes DEF TypeOK, Word
    <2> QED BY <1>4, <2>1, <2>2 DEF Inside
  <1>8. /\ mem' \in [Words' -> Int] /\ Own' /\ (WrittenTo(p)' \/ WrittenTo(p + m)')
        /\ fate = "done" => WrittenTo(p + m)'
    <2>0. TypeOK /\ Own /\ WrittenTo(at) /\ UNCHANGED <<target, call>>
      BY <1>1, <1>2, <1>4 DEF IInv
    <2>1. CASE mem' = Written(at, n, at) /\ ~Skipped
      BY <1>p, <1>4, <2>0, <2>1, WrittenOn
    <2>2. CASE mem' = mem
      <3>1. mem' \in [Words' -> Int] /\ Own' /\ WrittenTo(p)'
        BY <1>p, <1>1, <1>7, <2>0, <2>2, SameCall DEF TypeOK, Own, WrittenTo
      <3>2. Skipped => WrittenTo(p + m)'
        <4> SUFFICES ASSUME Skipped PROVE WrittenTo(p + m)'
          OBVIOUS
        <4>1. ExtraWord \notin Wanted(call) /\ at = ExtraWord /\ n = 1
          BY <1>1, <1>4 DEF Wanted
        <4>2. Words \subseteq Nat /\ Wanted(call)' = Wanted(call) /\ Counters' = Counters
          BY <1>1, Sizes, SameCall DEF TypeOK
        <4>3. ASSUME NEW w \in Words \ Counters
              PROVE  mem[w] = IF w \in Wanted(call) /\ w < at + n THEN w ELSE call.old[w]
          <5>1. mem[w] = IF w \in Wanted(call) /\ w < 21 THEN w ELSE call.old[w]
            BY <2>0, <4>1 DEF WrittenTo, ExtraWord
          <5>2. w \in Nat /\ (w = 21 => w \notin Wanted(call)) /\ at + n = 22
            BY <4>1, <4>2 DEF ExtraWord
          <5> QED BY <5>1, <5>2
        <4> QED BY <1>p, <1>1, <1>7, <2>2, <4>2, <4>3 DEF WrittenTo
      <3>3. fate = "done" => Skipped \/ mem' = Written(at, n, at)
        BY <1>3, <1>4 DEF Happens
      <3>4. fate = "done" => WrittenTo(p + m)'
        BY <1>p, <3>2, <3>3, <2>0, <1>4, WrittenOn
      <3> QED BY <3>1, <3>4
    <2> QED BY <1>3, <1>4, <2>1, <2>2
  <1>9. CASE fate # "done"
    <2>1. pc' = "idle" /\ status' # "ok" /\ (lately' # 0 \/ ~Legal(call))
      <3>1. Failed(fate)
        BY <1>3, <1>9
      <3> QED BY <1>5, <1>6, <1>9, <3>1 DEF Failed, Return
    <2>2. UNCHANGED <<position, buf, same>>
      BY <1>3, <1>9 DEF Failed
    <2>3. TypeOK'
      BY <1>1, <1>5, <1>8, <2>1, <2>2, SameCall DEF TypeOK, position
    <2>4. Called'
      BY <1>1, <1>2, <2>1, SameCall DEF Called, Sound, Ops
    <2>5. Placed' /\ Extras'
      BY <1>1, <1>2, <2>1 DEF Placed, Extras, Returned
    <2>6. Writing'
      <3>1. \E k \in 0..(Size \div Word) : WrittenTo(k)'
        BY <1>p, <1>4, <1>7, <1>8
      <3> QED BY <1>1, <1>7, <2>1, <3>1 DEF Writing
    <2>7. Clean'
      BY <1>1, <2>1, SameLegal DEF Clean
    <2> QED BY <1>1, <1>2, <1>8, <2>1, <2>3, <2>4, <2>5, <2>6, <2>7, WriterKeeps DEF IInv
  <1>10. CASE fate = "done"
    <2>1. /\ idx' = idx + 4 * n
          /\ block' = IF word + n = 8 THEN block + 1 ELSE block
          /\ word' = (word + n) % 8
          /\ status' = "ok"
          /\ pc' = IF idx' < call.length THEN pc ELSE IF pc = "config" THEN "user_extra" ELSE "idle"
          /\ UNCHANGED <<unit, buf, same>>
      BY <1>3, <1>4, <1>10 DEF Word, Stay, Return
    <2>2. TypeOK'
      <3>1. block' \in Nat /\ word' \in Nat /\ idx' \in Nat
        BY <1>1, <1>2, <1>4, <2>1 DEF TypeOK
      <3> QED BY <1>1, <1>5, <1>8, <2>1, <3>1, SameCall DEF TypeOK
    <2>3. Called'
      BY <1>1, <1>2, <2>1, SameCall DEF Called, Sound, Ops
    <2>4. 8 * block' + word' = at + n /\ 4 * (at + n) = call.at + idx' /\ (call.at + idx') \div Word = at + n
      <3>1. 8 * block' + word' = at + n
        BY <1>4, <2>1
      <3>2. 4 * (at + n) = call.at + idx'
        BY <1>2, <1>4, <2>1
      <3>3. at + n \in Nat
        BY <1>4
      <3> QED BY <3>1, <3>2, <3>3 DEF Word
    <2>5. Placed'
      <3> SUFFICES ASSUME pc' \in {"write", "config"} PROVE Placed'
        BY DEF Placed
      <3>1. /\ call.at % Word = 0 /\ call.length % Word = 0 /\ idx % Word = 0
        BY <1>1 DEF Placed
      <3>2. idx' % Word = 0
        BY <1>2, <1>4, <2>1, <3>1 DEF Word
      <3>3. idx' < call.length
        BY <2>1
      <3>4. word' \in 0..7 /\ (8 * block' + word') * Word = call.at + idx'
        BY <1>4, <2>1, <2>4 DEF Word
      <3> QED BY <1>1, <1>4, <1>7, <3>1, <3>2, <3>3, <3>4 DEF Placed
    <2>6. Extras'
      BY <1>1, <1>2, <2>1 DEF IInv, Extras, Returned
    <2>7. Writing'
      <3>1. WrittenTo(p + m)' /\ p + m \in 0..(Size' \div Word) /\ p + m = at + n
        BY <1>p, <1>4, <1>7, <1>8, <1>10
      <3>2. pc' \in {"write", "config"} => WrittenTo((call.at + idx) \div Word)'
        BY <2>4, <3>1, <1>1 DEF WrittenTo
      <3>3. pc' \notin {"write", "config"} => WrittenTo(Size \div Word)'
        <4> SUFFICES ASSUME pc' \notin {"write", "config"} PROVE WrittenTo(Size \div Word)'
          OBVIOUS
        <4>1. call.at + call.length <= 4 * (p + m) /\ p + m \in Nat
          BY <1>p, <1>1, <1>2, <1>4, <2>1, <2>4
        <4> QED BY <1>1, <1>2, <3>1, <4>1, WrittenAll
      <3> QED BY <2>1, <3>1, <3>2, <3>3 DEF Writing
    <2>8. Clean'
      BY <2>1 DEF Clean
    <2> QED BY <1>1, <1>2, <1>8, <2>1, <2>2, <2>3, <2>5, <2>6, <2>7, <2>8, WriterKeeps DEF IInv
  <1> QED BY <1>9, <1>10

\* Where a packet of calib_ca2_write_bytes_zone goes.
LEMMA NextSlot ==
    ASSUME TypeOK, Called, Placed, pc \in {"write", "config"}, target.dev = "ecc204"
    PROVE  LET n == SetSize \div Word
               at == block * n
           IN  /\ at \in Nat /\ n \in {4, 8} /\ (call.at + idx) \div Word = at /\ SetSize = 4 * n
               /\ 4 * at = call.at + idx /\ idx + SetSize <= call.length
               /\ call.at + call.length <= Size /\ Inside(at, n)
               /\ (idx + SetSize) % SetSize = 0
               /\ target.zone = Config => n = 4 /\ at \div 4 = block
               /\ \A w \in Words : Covers(at, n, w) => w \in Wanted(call)
  <1>1. /\ call.at \in Nat /\ call.length \in Nat /\ idx \in Nat /\ block \in Nat
        /\ call.at + call.length <= Size /\ idx < call.length
        /\ call.length % SetSize = 0 /\ idx % SetSize = 0 /\ call.at % SetSize = 0
        /\ block * SetSize = call.at + idx
    BY DEF TypeOK, Called, Placed, Sound, Ops
  <1>2. /\ Size \in {32, 64, 320} /\ Words \subseteq Nat /\ SetSize \in {16, 32}
        /\ (target.zone = Config => SetSize = 16)
    BY Sizes DEF TypeOK, Config, Data
  <1>3. PICK z \in Nat : Size = 4 * z /\ Size \div 4 = z
    BY <1>2
  <1>4. PICK s \in {16, 32}, n \in {4, 8} : s = SetSize /\ s = 4 * n /\ n = SetSize \div Word
    BY <1>2 DEF Word
  <1>5. PICK at \in Nat : at = block * n /\ 4 * at = call.at + idx
    <2>1. CASE s = 16
      BY <1>1, <1>4, <2>1
    <2>2. CASE s = 32
      BY <1>1, <1>4, <2>2
    <2> QED BY <1>4, <2>1, <2>2
  <1>6. idx + SetSize <= call.length /\ (idx + SetSize) % SetSize = 0
    <2>1. CASE s = 16
      <3>1. idx % 16 = 0 /\ call.length % 16 = 0
        BY <1>1, <1>4, <2>1
      <3>2. PICK i \in Nat, b \in Nat : idx = 16 * i /\ call.length = 16 * b
        BY <1>1, <3>1
      <3>3. idx + 16 <= call.length /\ (idx + 16) % 16 = 0
        BY <1>1, <3>2
      <3> QED BY <1>4, <2>1, <3>3
    <2>2. CASE s = 32
      <3>1. idx % 32 = 0 /\ call.length % 32 = 0
        BY <1>1, <1>4, <2>2
      <3>2. PICK i \in Nat, b \in Nat : idx = 32 * i /\ call.length = 32 * b
        BY <1>1, <3>1
      <3>3. idx + 32 <= call.length /\ (idx + 32) % 32 = 0
        BY <1>1, <3>2
      <3> QED BY <1>4, <2>2, <3>3
    <2> QED BY <1>4, <2>1, <2>2
  <1>7. Inside(at, n)
    <2>1. 4 * (at + n) <= 4 * z
      BY <1>1, <1>3, <1>4, <1>5, <1>6
    <2> QED BY <1>3, <2>1 DEF Inside, Word
  <1>8. (call.at + idx) \div Word = at
    BY <1>5 DEF Word
  <1>9. target.zone = Config => n = 4 /\ at \div 4 = block
    BY <1>1, <1>2, <1>4, <1>5
  <1>10. ASSUME NEW w \in Words, Covers(at, n, w) PROVE w \in Wanted(call)
    <2>1. w \in Nat
      BY <1>2
    <2>2. PICK a \in Nat, b \in Nat :
             call.at = 4 * a /\ call.at \div 4 = a /\ call.length = 4 * b /\ call.length \div 4 = b
      <3>1. CASE s = 16
        BY <1>1, <1>4, <3>1
      <3>2. CASE s = 32
        BY <1>1, <1>4, <3>2
      <3> QED BY <1>4, <3>1, <3>2
    <2>3. a <= at /\ at + n <= a + b
      <3>1. 4 * at + 4 * n <= 4 * a + 4 * b /\ a <= at
        BY <1>1, <1>4, <1>5, <1>6, <2>2
      <3> QED BY <3>1
    <2>4. Covers(a, b, w)
      BY <1>4, <1>10, <2>1, <2>2, <2>3 DEF Covers
    <2> QED BY <2>2, <2>4 DEF Wanted, Word
  <1> QED BY <1>1, <1>4, <1>5, <1>6, <1>7, <1>8, <1>9, <1>10

\* An iteration of calib_ca2_write_bytes_zone or calib_ca2_write_config_zone.
LEMMA WriteSetKeeps == ASSUME IInv, WriteSet PROVE IInv'
  <1> DEFINE n == SetSize \div Word
             at == block * n
  <1>1. /\ TypeOK /\ Own /\ Called /\ Placed /\ pc \in {"write", "config"} /\ target.dev = "ecc204"
        /\ UNCHANGED <<target, extra, locked, call, made>>
    BY DEF IInv, WriteSet
  <1>2. /\ call.op = pc /\ Sound(call) /\ call.at \in Nat /\ call.length \in Nat /\ idx \in Nat /\ block \in Nat
        /\ Writes(call) <=> call.op = "write"
        /\ Writes(call) => WrittenTo((call.at + idx) \div Word)
    BY <1>1 DEF Called, IInv, Writing, Writes, Sound, Ops, TypeOK
  <1>3. PICK fate \in Fates(Writable(at, n)) :
           /\ Count(fate)
           /\ mem' = IF Happens(fate) THEN Written(at, n, (call.at + idx) \div Word) ELSE mem
           /\ IF ~GoesOn(fate) THEN Failed(fate)
              ELSE /\ idx' = idx + SetSize /\ block' = block + 1
                   /\ status' = StatusOf(fate)
                   /\ pc' = IF idx' < call.length THEN pc ELSE "idle"
                   /\ UNCHANGED <<word, unit, buf, same>>
    BY DEF WriteSet
  <1>4. /\ at \in Nat /\ n \in {4, 8} /\ (call.at + idx) \div Word = at /\ SetSize = 4 * n
        /\ 4 * at = call.at + idx /\ idx + SetSize <= call.length
        /\ call.at + call.length <= Size /\ Inside(at, n)
        /\ (idx + SetSize) % SetSize = 0
        /\ target.zone = Config => n = 4 /\ at \div 4 = block
        /\ \A w \in Words : Covers(at, n, w) => w \in Wanted(call)
    BY <1>1, NextSlot
  <1> HIDE DEF at, n
  <1>p. PICK p \in Nat, m \in {4, 8} : p = at /\ m = n
    BY <1>4
  <1>5. /\ fate \in {"done", "refused", "failed", "lost"}
        /\ StatusOf(fate) = "ok" <=> fate = "done"
        /\ faults' \in Nat /\ lately' \in Nat
        /\ lately' = 0 => lately = 0 /\ (fate = "done" \/ ~Writable(at, n))
    <2>1. Writable(at, n) \in BOOLEAN
      BY DEF Writable
    <2> QED BY <1>1, <1>3, <2>1, Fated
  <1>6. lately' = 0 /\ Legal(call) => fate = "done"
    <2> SUFFICES ASSUME Legal(call) PROVE Writable(at, n)
      BY <1>5
    <2>1. target.zone = Config => block # 0 /\ block \notin locked
      <3> SUFFICES ASSUME target.zone = Config PROVE block # 0 /\ block \notin locked
        OBVIOUS
      <3>1. SetSize = 16 /\ 16 * block = call.at + idx
        BY <1>1, <1>2, <1>4 DEF Placed
      <3>2. call.at >= 16
        BY <1>1, <1>2 DEF Legal, Sound
      <3>3. CASE call.op = "config"
        BY <1>2, <3>1, <3>2, <3>3 DEF Legal
      <3>4. CASE call.op = "write"
        <4>1. \A s \in locked : call.at >= 16 * (s + 1) \/ call.at + call.length <= 16 * s
          BY <1>1, <3>4 DEF Legal
        <4>2. idx + 16 <= call.length
          BY <1>4, <3>1
        <4>3. locked \subseteq 0..3
          BY <1>1 DEF TypeOK
        <4>4. ASSUME block \in locked PROVE FALSE
          <5>1. call.at >= 16 * (block + 1) \/ call.at + call.length <= 16 * block
            BY <4>1, <4>4
          <5> QED BY <1>2, <3>1, <4>2, <5>1
        <4> QED BY <1>2, <3>1, <3>2, <4>4
      <3> QED BY <1>1, <1>2, <3>3, <3>4
    <2> QED BY <1>1, <1>4, <2>1 DEF Writable
  <1>7. Size' = Size /\ Words' = Words /\ Writes(call)' = Writes(call) /\ at + n <= Size \div Word
    BY <1>1, <1>4, SameCall DEF Inside
  <1>8. /\ mem' \in [Words' -> Int] /\ Own'
        /\ Writes(call) => (WrittenTo(p)' \/ WrittenTo(p + m)')
        /\ fate = "done" /\ Writes(call) => WrittenTo(p + m)'
    <2>1. CASE mem' = Written(at, n, at)
      <3>1. mem' = Written(p, m, p) /\ \A w \in Words : Covers(p, m, w) => w \in Wanted(call)
        BY <1>p, <1>4, <2>1
      <3>2. Writes(call) => WrittenTo(p)
        BY <1>p, <1>2, <1>4
      <3> QED BY <1>1, <3>1, <3>2, WrittenOn
    <2>2. CASE mem' = mem /\ fate # "done"
      BY <1>p, <1>1, <1>2, <1>4, <1>7, <2>2, SameCall DEF TypeOK, Own, WrittenTo
    <2> QED BY <1>3, <1>4, <1>5, <2>1, <2>2 DEF Happens
  <1>9. Extras' /\ (pc' = "idle" \/ pc' = pc)
    <2>1. pc' = "idle" \/ pc' = pc
      BY <1>3 DEF Failed, Return
    <2> QED BY <1>1, <1>2, <2>1 DEF IInv, Extras, Returned
  <1>10. CASE ~GoesOn(fate)
    <2>1. pc' = "idle" /\ status' # "ok" /\ (lately' # 0 \/ ~Legal(call))
      <3>1. Failed(fate) /\ fate # "done"
        BY <1>3, <1>10 DEF GoesOn
      <3> QED BY <1>5, <1>6, <3>1 DEF Failed, Return
    <2>2. UNCHANGED <<position, buf, same>>
      BY <1>3, <1>10 DEF Failed
    <2>3. TypeOK'
      BY <1>1, <1>5, <1>8, <2>1, <2>2, SameCall DEF TypeOK, position
    <2>4. Called'
      BY <1>1, <1>2, <2>1, SameCall DEF Called, Sound, Ops
    <2>5. Placed'
      BY <2>1 DEF Placed
    <2>6. Writing'
      <3>1. Writes(call) => \E k \in 0..(Size \div Word) : WrittenTo(k)'
        <4>1. Size \div Word \in Nat
          BY <1>1, Sizes DEF TypeOK, Word
        <4>2. p \in 0..(Size \div Word) /\ p + m \in 0..(Size \div Word)
          BY <1>p, <1>4, <1>7, <4>1
        <4> QED BY <1>8, <4>2
      <3> QED BY <1>1, <1>7, <2>1, <3>1 DEF Writing
    <2>7. Clean'
      BY <1>1, <2>1, SameLegal DEF Clean
    <2> QED BY <1>1, <1>2, <1>8, <1>9, <2>1, <2>3, <2>4, <2>5, <2>6, <2>7, WriterKeeps DEF IInv
  <1>11. CASE GoesOn(fate)
    <2>1. /\ idx' = idx + SetSize /\ block' = block + 1 /\ status' = StatusOf(fate)
          /\ pc' = IF idx' < call.length THEN pc ELSE "idle"
          /\ UNCHANGED <<word, unit, buf, same>>
      BY <1>3, <1>11
    <2>2. TypeOK'
      <3>1. block' \in Nat /\ idx' \in Nat
        BY <1>2, <1>4, <2>1
      <3> QED BY <1>1, <1>5, <1>8, <2>1, <3>1, SameCall DEF TypeOK
    <2>3. Called'
      BY <1>1, <1>2, <2>1, SameCall DEF Called, Sound, Ops
    <2>4. 4 * (p + m) = call.at + idx' /\ (call.at + idx') \div Word = p + m /\ block' * SetSize = call.at + idx'
      <3>1. 4 * (p + m) = call.at + idx'
        BY <1>p, <1>2, <1>4, <2>1
      <3>2. (call.at + idx') \div Word = p + m
        BY <3>1 DEF Word
      <3>3. block * SetSize = call.at + idx
        BY <1>1 DEF Placed
      <3>4. block' * SetSize = call.at + idx'
        <4>1. CASE SetSize = 16
          BY <1>2, <2>1, <3>3, <4>1
        <4>2. CASE SetSize = 32
          BY <1>2, <2>1, <3>3, <4>2
        <4> QED BY <1>4, <4>1, <4>2
      <3> QED BY <3>1, <3>2, <3>4
    <2>5. Placed'
      <3> SUFFICES ASSUME pc' \in {"write", "config"} PROVE Placed'
        BY DEF Placed
      <3>1. call.at % SetSize = 0 /\ call.length % SetSize = 0 /\ idx' % SetSize = 0 /\ idx' < call.length
        BY <1>1, <1>4, <2>1 DEF Placed
      <3> QED BY <1>1, <1>4, <1>7, <2>4, <3>1, SameCall DEF Placed
    <2>6. Writing'
      <3> SUFFICES ASSUME Writes(call) PROVE Writing'
        BY <1>7 DEF Writing
      <3>1. WrittenTo(p + m)' /\ p + m \in 0..(Size' \div Word) /\ fate = "done"
        BY <1>p, <1>2, <1>4, <1>7, <1>8, <1>11 DEF GoesOn, Inside
      <3>2. pc' \in {"write", "config"} => WrittenTo((call.at + idx) \div Word)'
        BY <2>4, <3>1, <1>1 DEF WrittenTo
      <3>3. pc' \notin {"write", "config"} => WrittenTo(Size \div Word)'
        <4> SUFFICES ASSUME pc' \notin {"write", "config"} PROVE WrittenTo(Size \div Word)'
          OBVIOUS
        <4>1. call.at + call.length <= 4 * (p + m) /\ p + m \in Nat
          BY <1>p, <1>1, <1>2, <1>4, <2>1, <2>4
        <4> QED BY <1>1, <1>2, <3>1, <4>1, WrittenAll
      <3> QED BY <2>1, <3>1, <3>2, <3>3 DEF Writing
    <2>7. Clean'
      BY <1>1, <1>5, <1>6, <2>1, SameLegal DEF Clean
    <2> QED BY <1>1, <1>2, <1>8, <1>9, <2>2, <2>3, <2>5, <2>6, <2>7, WriterKeeps DEF IInv
  <1> QED BY <1>10, <1>11

\* calib_updateextra for UserExtra or Selector.
LEMMA UpdateExtraKeeps == ASSUME IInv, UpdateExtra PROVE IInv'
  <1> DEFINE k == IF pc = "user_extra" THEN 1 ELSE 2
  <1>1. /\ TypeOK /\ Own /\ Called /\ Extras /\ Writing /\ pc \in {"user_extra", "selector"}
        /\ UNCHANGED <<target, mem, locked, call, position, buf, same, made>>
        /\ call.op = "config" /\ target.dev = "ecc608" /\ Sound(call)
    BY DEF IInv, UpdateExtra, Called, Sound, Ops
  <1>2. PICK fate \in Fates(~extra[k]) :
           /\ Count(fate)
           /\ extra' = IF Happens(fate) THEN [extra EXCEPT ![k] = call.extra[k]] ELSE extra
           /\ IF fate = "done" /\ k = 1 THEN pc' = "selector" /\ status' = "ok"
              ELSE Return(StatusOf(fate))
    BY <1>1 DEF UpdateExtra
  <1>3. /\ extra \in Pairs /\ call.extra \in Pairs /\ call.before \in Pairs /\ k \in {1, 2}
        /\ \A p \in Pairs : p = <<p[1], p[2]>> /\ p[1] \in BOOLEAN /\ p[2] \in BOOLEAN
    BY <1>1 DEF TypeOK, Sound, Pairs
  <1>4. /\ fate \in {"done", "refused", "failed", "lost"}
        /\ StatusOf(fate) = "ok" <=> fate = "done"
        /\ faults' \in Nat /\ lately' \in Nat
        /\ lately' = 0 => lately = 0 /\ (fate = "done" \/ extra[k])
    <2>1. (~extra[k]) \in BOOLEAN
      OBVIOUS
    <2> QED BY <1>1, <1>2, <2>1, Fated
  <1>5. lately' = 0 /\ Legal(call) => fate = "done"
    <2> SUFFICES ASSUME Legal(call) PROVE ~extra[k]
      BY <1>4
    <2>1. call.before = <<FALSE, FALSE>>
      BY <1>1 DEF Legal
    <2>2. ~call.before[1] /\ ~call.before[2]
      BY <2>1
    <2>3. CASE pc = "user_extra"
      <3>1. extra = call.before
        BY <1>1, <2>3 DEF Extras
      <3> QED BY <2>2, <2>3, <3>1
    <2>4. CASE pc = "selector"
      <3>1. extra[2] = call.before[2]
        BY <1>1, <2>4 DEF Extras
      <3> QED BY <2>2, <2>4, <3>1
    <2> QED BY <1>1, <2>3, <2>4
  <1>6. extra' \in Pairs
    <2>1. k = 1 => [extra EXCEPT ![k] = call.extra[k]] = <<call.extra[1], extra[2]>>
      BY <1>3
    <2>2. k = 2 => [extra EXCEPT ![k] = call.extra[k]] = <<extra[1], call.extra[2]>>
      BY <1>3
    <2>3. <<call.extra[1], extra[2]>> \in Pairs /\ <<extra[1], call.extra[2]>> \in Pairs
      BY <1>3 DEF Pairs
    <2> QED BY <1>2, <1>3, <2>1, <2>2, <2>3
  <1>7. /\ pc' = (IF fate = "done" /\ k = 1 THEN "selector" ELSE "idle")
        /\ status' = "ok" <=> fate = "done"
    BY <1>2, <1>4 DEF Return
  <1>8. TypeOK' /\ Own'
    BY <1>1, <1>4, <1>6, <1>7, SameCall DEF TypeOK, Own, position
  <1>9. Called'
    BY <1>1, <1>7, SameCall DEF Called, Sound, Ops
  <1>10. Extras'
    <2>1. fate = "done" => extra' = [extra EXCEPT ![k] = call.extra[k]]
      BY <1>2 DEF Happens
    <2>2. CASE k = 1
      <3>1. pc = "user_extra" /\ extra = call.before
        BY <1>1, <2>2 DEF Extras
      <3>2. fate = "done" => extra'[1] = call.extra[1] /\ extra'[2] = call.before[2]
        BY <1>3, <2>1, <2>2, <3>1
      <3> QED BY <1>1, <1>4, <1>7, <2>2, <3>2 DEF Extras, Returned
    <2>3. CASE k = 2
      <3>1. pc = "selector" /\ extra[1] = call.extra[1]
        BY <1>1, <2>3 DEF Extras
      <3>2. fate = "done" => extra'[1] = call.extra[1] /\ extra'[2] = call.extra[2]
        BY <1>3, <2>1, <2>3, <3>1
      <3>3. fate = "done" => extra' = call.extra
        BY <1>3, <1>6, <3>2
      <3> QED BY <1>1, <1>4, <1>7, <2>3, <3>3 DEF Extras, Returned
    <2> QED BY <1>3, <2>2, <2>3
  <1>11. Placed'
    BY <1>7 DEF Placed
  <1>12. Writing'
    <2>1. Writes(call) /\ WrittenTo(Size \div Word) /\ \E j \in 0..(Size \div Word) : WrittenTo(j)
      BY <1>1 DEF Writing, Writes
    <2>2. WrittenTo(Size \div Word)' /\ \E j \in 0..(Size' \div Word) : WrittenTo(j)'
      BY <1>1, <2>1, SameCall DEF WrittenTo
    <2> QED BY <1>7, <2>2 DEF Writing
  <1>13. Clean'
    BY <1>1, <1>5, <1>7, SameLegal DEF Clean
  <1> QED BY <1>1, <1>7, <1>8, <1>9, <1>10, <1>11, <1>12, <1>13, WriterKeeps DEF IInv

\* A block of a key that is written.
LEMMA WritePubkeyKeeps == ASSUME IInv, WritePubkey PROVE IInv'
  <1>1. /\ TypeOK /\ Own /\ Called /\ WritingKey /\ Extras /\ pc = "write_pubkey"
        /\ UNCHANGED <<target, extra, locked, call, made>>
        /\ call.op = "write_pubkey" /\ Sound(call) /\ block \in 0..2
        /\ \A w \in Words : w < 8 * block => mem[w] = KeyWord(w)
    BY DEF IInv, WritePubkey, Called, WritingKey
  <1>2. PICK fate \in Fates(TRUE) :
           /\ Count(fate)
           /\ mem' = IF Happens(fate)
                     THEN [w \in Words |-> IF w \div 8 = block THEN KeyWord(w) ELSE mem[w]]
                     ELSE mem
           /\ IF fate # "done" THEN Failed(fate)
              ELSE /\ block' = block + 1
                   /\ IF block = 2 THEN Return("ok") ELSE Stay
                   /\ UNCHANGED <<word, unit, idx, buf, same>>
    BY DEF WritePubkey
  <1>3. /\ fate \in {"done", "refused", "failed", "lost"} /\ (StatusOf(fate) = "ok" <=> fate = "done")
        /\ faults' \in Nat /\ lately' \in Nat /\ (lately' = 0 => fate = "done")
    BY <1>1, <1>2, Fated
  <1>4. /\ Words' = Words /\ Words \subseteq Nat /\ 0..17 \subseteq Words
        /\ \A w \in Words : KeyWord(w) \in Int
    <2>1. Size \in {72, 416} /\ Words = 0..(Size \div 4 - 1) /\ Words' = Words
      BY <1>1, Sizes, SameCall DEF TypeOK, Sound
    <2>2. Words \subseteq Nat /\ 0..17 \subseteq Words
      BY <2>1
    <2> QED BY <2>1, <2>2 DEF KeyWord, Pad
  <1>5. mem' \in [Words' -> Int] /\ Own'
    <2>1. CASE Happens(fate)
      <3>1. mem' = [w \in Words |-> IF w \div 8 = block THEN KeyWord(w) ELSE mem[w]]
        BY <1>2, <2>1
      <3> QED BY <1>1, <1>4, <3>1 DEF TypeOK, Own
    <2>2. CASE ~Happens(fate)
      BY <1>1, <1>2, <1>4, <2>2 DEF TypeOK, Own
    <2> QED BY <2>1, <2>2
  <1>6. \A w \in Words : fate = "done" /\ w < 8 * (block + 1) => mem'[w] = KeyWord(w)
    <2> SUFFICES ASSUME NEW w \in Words, fate = "done", w < 8 * (block + 1) PROVE mem'[w] = KeyWord(w)
      OBVIOUS
    <2>1. mem' = [v \in Words |-> IF v \div 8 = block THEN KeyWord(v) ELSE mem[v]]
      BY <1>2 DEF Happens
    <2>2. w \in Nat /\ (w \div 8 = block \/ w < 8 * block)
      BY <1>1, <1>4
    <2> QED BY <1>1, <2>1, <2>2
  <1>7. /\ pc' \in {"write_pubkey", "idle"} /\ UNCHANGED <<word, unit, idx, buf, same>>
        /\ fate # "done" => pc' = "idle" /\ status' # "ok" /\ lately' # 0 /\ block' = block
        /\ fate = "done" => /\ block' = block + 1 /\ status' = "ok"
                            /\ pc' = IF block = 2 THEN "idle" ELSE "write_pubkey"
    BY <1>1, <1>2, <1>3 DEF Failed, Return, Stay, position
  <1>8. TypeOK'
    BY <1>1, <1>3, <1>5, <1>7, SameCall DEF TypeOK, Ops
  <1>9. Called'
    BY <1>1, <1>7, SameCall DEF Called, IInv, Sound, Ops
  <1>10. WritingKey'
    <2>1. pc' = "write_pubkey" => block' \in 0..2 /\ \A w \in Words : w < 8 * block' => mem'[w] = KeyWord(w)
      BY <1>1, <1>6, <1>7
    <2>2. pc' = "idle" /\ status' = "ok" => \A w \in 0..17 : mem'[w] = KeyWord(w)
      BY <1>4, <1>6, <1>7
    <2> QED BY <1>4, <2>1, <2>2 DEF WritingKey, Returned
  <1>11. Filling' /\ Filled' /\ CompareTells' /\ ReadingKey' /\ Placed' /\ Locking'
    BY <1>1, <1>7 DEF Filling, Filled, CompareTells, ReadingKey, Placed, Locking, Returned
  <1>12. Writing'
    BY <1>1, <1>7 DEF Writing, Writes
  <1>13. Extras'
    BY <1>1, <1>7 DEF Extras, Returned
  <1>14. Clean'
    BY <1>7 DEF Clean
  <1> QED BY <1>5, <1>8, <1>9, <1>10, <1>11, <1>12, <1>13, <1>14 DEF IInv

\* An iteration of calib_ca2_lock_config_zone.
LEMMA LockSlotKeeps == ASSUME IInv, LockSlot PROVE IInv'
  <1>1. /\ TypeOK /\ Own /\ Called /\ Locking /\ Extras /\ pc = "lock"
        /\ UNCHANGED <<target, mem, extra, call, made>>
        /\ call.op = "lock" /\ Sound(call) /\ block \in 0..3 /\ 0..(block - 1) \subseteq locked
    BY DEF IInv, LockSlot, Called, Locking
  <1>2. PICK fate \in Fates(block \notin locked) :
           /\ Count(fate)
           /\ locked' = IF Happens(fate) THEN locked \cup {block} ELSE locked
           /\ IF ~Passes(fate) THEN Failed(fate)
              ELSE /\ block' = block + 1
                   /\ IF block = 3 THEN Return("ok") ELSE Stay
                   /\ UNCHANGED <<word, unit, idx, buf, same>>
    BY DEF LockSlot
  <1>3. /\ fate \in {"done", "refused", "failed", "lost"} /\ (StatusOf(fate) = "ok" <=> fate = "done")
        /\ fate = "refused" => block \in locked
        /\ faults' \in Nat /\ lately' \in Nat /\ (lately' = 0 => fate \in {"done", "refused"})
    <2>1. (block \notin locked) \in BOOLEAN
      OBVIOUS
    <2> QED BY <1>1, <1>2, <2>1, Fated
  <1>4. /\ pc' \in {"lock", "idle"} /\ UNCHANGED <<word, unit, idx, buf, same>>
        /\ ~Passes(fate) => pc' = "idle" /\ status' # "ok" /\ lately' # 0 /\ block' = block
        /\ Passes(fate) => /\ block' = block + 1 /\ status' = "ok"
                           /\ pc' = IF block = 3 THEN "idle" ELSE "lock"
                           /\ block \in locked'
    BY <1>1, <1>2, <1>3 DEF Failed, Return, Stay, position, Passes, Happens
  <1>5. locked' \subseteq 0..3 /\ locked \subseteq locked'
    BY <1>1, <1>2 DEF TypeOK
  <1>6. TypeOK' /\ Own'
    BY <1>1, <1>3, <1>4, <1>5, SameCall DEF TypeOK, Own, Ops
  <1>7. Called'
    BY <1>1, <1>4, SameCall DEF Called, IInv, Sound, Ops
  <1>8. Locking'
    <2>1. Passes(fate) => 0..block \subseteq locked'
      BY <1>1, <1>4, <1>5
    <2>2. CASE pc' = "lock"
      <3>1. block' \in 0..3 /\ block' - 1 = block /\ 0..block \subseteq locked'
        BY <1>1, <1>4, <2>1, <2>2
      <3> QED BY <2>2, <3>1 DEF Locking, Returned
    <2>3. CASE pc' = "idle" /\ status' = "ok"
      BY <1>4, <1>5, <2>1, <2>3 DEF Locking, Returned
    <2> QED BY <1>4, <2>2, <2>3 DEF Locking, Returned
  <1>9. Filling' /\ Filled' /\ CompareTells' /\ ReadingKey' /\ WritingKey' /\ Placed'
    BY <1>1, <1>4 DEF Filling, Filled, CompareTells, ReadingKey, WritingKey, Placed, Returned
  <1>10. Writing' /\ Extras'
    BY <1>1, <1>4 DEF Writing, Writes, Extras, Returned
  <1>11. Clean'
    BY <1>4 DEF Clean
  <1> QED BY <1>6, <1>7, <1>8, <1>9, <1>10, <1>11 DEF IInv

\* A counter moves.
LEMMA CountUpKeeps == ASSUME IInv, CountUp PROVE IInv'
  <1>1. PICK c \in CounterWords : mem' = [mem EXCEPT ![c] = None]
    BY DEF CountUp
  <1>2. /\ TypeOK /\ Own /\ Called /\ pc = "idle" /\ target.dev = "ecc608" /\ target.zone = Config
        /\ UNCHANGED <<target, extra, locked, call, pc, position, buf, status, same, made, faults, lately>>
    BY DEF IInv, CountUp
  <1>3. Size' = Size /\ Words' = Words /\ Counters' = Counters /\ Counters = CounterWords /\ Words = 0..31
    <2>1. Size = 128 /\ Words = 0..(Size \div 4 - 1)
      BY <1>2, Sizes DEF TypeOK
    <2> QED BY <1>2, <2>1, SameCall DEF Counters
  <1>4. mem' \in [Words' -> Int] /\ \A w \in Words : mem'[w] = IF w = c THEN None ELSE mem[w]
    <2>1. mem \in [Words -> Int] /\ None \in Int
      BY <1>2 DEF TypeOK, None
    <2> QED BY <1>1, <1>3, <2>1
  <1>5. TypeOK' /\ Own'
    BY <1>2, <1>3, <1>4 DEF TypeOK, Own, position
  <1>6. Called' /\ Filling' /\ Filled' /\ ReadingKey' /\ Placed' /\ Extras' /\ Locking'
    <2>1. Called'
      BY <1>2, SameCall DEF Called
    <2> QED BY <1>2, <2>1 DEF IInv, Filling, Filled, ReadingKey, Placed, Extras, Locking, Returned, position
  <1>7. CompareTells'
    <2>1. \A w \in HostsWords : w # c /\ w \in Words
      BY <1>3 DEF HostsWords, CounterWords
    <2> QED BY <1>2, <1>4, <2>1 DEF IInv, CompareTells, Returned
  <1>8. WritingKey'
    <2>1. call.op # "write_pubkey"
      BY <1>2 DEF Called, Sound, Config, Data
    <2> QED BY <1>2, <2>1 DEF WritingKey, Returned
  <1>9. Writing'
    <2>1. ASSUME NEW k \in Int PROVE WrittenTo(k) => WrittenTo(k)'
      BY <1>2, <1>1, <1>3, <1>4, SameCall DEF WrittenTo
    <2>2. Size \div Word \in Nat
      BY <1>2, Sizes DEF TypeOK, Word
    <2>3. Writes(call) /\ WrittenTo(Size \div Word) => WrittenTo(Size \div Word)'
      <3>1. PICK s \in Int : s = Size \div Word /\ s = Size' \div Word
        BY <1>3, <2>2
      <3>2. WrittenTo(s) => WrittenTo(s)'
        BY <2>1
      <3> QED BY <3>1, <3>2 DEF WrittenTo
    <2>4. (\E k \in 0..(Size \div Word) : WrittenTo(k)) => \E k \in 0..(Size' \div Word) : WrittenTo(k)'
      BY <1>3, <2>1, <2>2
    <2> QED BY <1>2, <2>3, <2>4, SameCall DEF IInv, Writing
  <1>10. Clean'
    BY <1>2, SameLegal DEF IInv, Clean
  <1> QED BY <1>5, <1>6, <1>7, <1>8, <1>9, <1>10 DEF IInv

-----------------------------------------------------------------------------
(* Calls *)

\* What a call is given is what its function says, and the chip as it is.
LEMMA Requested ==
    ASSUME TypeOK, NEW request \in CallsOn(target), UNCHANGED <<target, mem, extra, locked>>,
           call' = [Ranged(request) EXCEPT !.before = extra, !.old = mem]
    PROVE  /\ Sound(call)' /\ call'.op = Ranged(request).op /\ call'.at = Ranged(request).at
           /\ call'.length = Ranged(request).length /\ call'.before = extra /\ call'.old = mem
  <1> DEFINE c == Ranged(request)
  <1>0. target \in Targets
    BY DEF TypeOK
  <1>1. /\ request.op \in Ops /\ request.at \in Nat /\ request.length \in Nat /\ request.extra \in Pairs
        /\ DOMAIN request = {"op", "at", "length", "extra", "before", "old"}
        /\ request.op \in {"config", "compare", "lock"} => target.zone = Config
        /\ request.op = "lock" => target.dev = "ecc204"
        /\ request.op \in {"read_pubkey", "write_pubkey"} =>
               target.dev = "ecc608" /\ target.zone = Data /\ target.slot \in 8..15
        /\ request.op \notin {"read", "write"} => request.at = 0
        /\ target.dev = "ecc204" /\ request.op = "write" => request.at % SetSize = 0
        /\ target.dev = "ecc204" /\ target.zone = Config => request.at < 64
    BY <1>0, CallsAssumption DEF Pairs, SetSize
  <1>2. Size \in {32, 36, 64, 72, 128, 320, 416} /\ Size - 16 \in Nat /\ Size \in Nat
    BY <1>0, Sizes
  <1>3. DOMAIN c = {"op", "at", "length", "extra", "before", "old"} /\ c.op = request.op /\ c.extra = request.extra
    BY <1>1 DEF Ranged
  <1>4. /\ c.at = (IF request.op = "config" THEN 16 ELSE request.at)
        /\ c.length = IF request.op = "config" THEN Size - 16
                      ELSE IF request.op \in {"compare", "lock"} THEN Size
                      ELSE IF request.op \in {"read_pubkey", "write_pubkey"} THEN 64
                      ELSE request.length
    BY <1>1 DEF Ranged
  <1> HIDE DEF c
  <1>5. /\ call'.op = c.op /\ call'.at = c.at /\ call'.length = c.length /\ call'.extra = c.extra
        /\ call'.before = extra /\ call'.old = mem
    BY <1>3 DEF c
  <1>6. Size' = Size /\ SetSize' = SetSize /\ Words' = Words
    BY DEF Size, SetSize, Words
  <1>7. /\ call'.op \in Ops /\ call'.at \in Nat /\ call'.length \in Nat
        /\ call'.extra \in Pairs /\ call'.before \in Pairs /\ call'.old \in [Words -> Int]
    BY <1>1, <1>2, <1>3, <1>4, <1>5 DEF TypeOK
  <1>8. Sound(call)'
    BY <1>1, <1>3, <1>4, <1>5, <1>6, <1>7 DEF Sound
  <1> QED BY <1>5, <1>8 DEF c

\* A call that has to succeed is accepted.
LEMMA LegalAccepted ==
    ASSUME target \in Targets, NEW c, c.at \in Nat, c.length \in Nat, Legal(c)
    PROVE  Accepts(c)
  <1>1. /\ Size \in {32, 36, 64, 72, 128, 320, 416}
        /\ target.dev \in {"ecc608", "ecc204"} /\ target.slot \in 0..15
        /\ target.dev = "ecc204" => target.slot \in 0..3
    BY Sizes
  <1>2. CASE c.op = "read"
    BY <1>1, <1>2 DEF Legal, Accepts
  <1>3. CASE c.op = "write"
    BY <1>1, <1>3 DEF Legal, Accepts
  <1>4. CASE c.op \notin {"read", "write"}
    BY <1>4 DEF Accepts
  <1> QED BY <1>2, <1>3, <1>4

\* A call.
LEMMA BeginKeeps == ASSUME IInv, Begin PROVE IInv'
  <1> DEFINE set == IF target.dev = "ecc204" THEN SetSize ELSE Block
             served == call'.length > 0 /\ Accepts(call)'
  <1>1. /\ TypeOK /\ Own /\ UNCHANGED <<target, mem, extra, locked, faults>>
        /\ unit' = Block /\ idx' = 0 /\ same' = FALSE /\ lately' = 0 /\ made' = made + 1
    BY DEF IInv, Begin
  <1>2. /\ Sound(call)' /\ call'.before = extra /\ call'.old = mem
        /\ buf' = [i \in {j \in 0..(call'.length - 1) : served /\ IsRead(call)'} |-> None]
        /\ IF served THEN pc' = call'.op /\ status' = "ok"
           ELSE pc' = "idle" /\ status' = IF call'.length = 0 THEN "ok" ELSE "bad_param"
        /\ block' = call'.at \div set
        /\ word' = IF IsRead(call)' THEN 0 ELSE (call'.at % Block) \div Word
    <2>1. PICK request \in CallsOn(target) :
             LET c == Ranged(request) IN
             /\ call' = [c EXCEPT !.before = extra, !.old = mem]
             /\ buf' = [i \in {j \in 0..(c.length - 1) : c.length > 0 /\ Accepts(c) /\ IsRead(c)} |-> None]
             /\ IF c.length > 0 /\ Accepts(c) THEN pc' = c.op /\ status' = "ok"
                ELSE Return(IF c.length = 0 THEN "ok" ELSE "bad_param")
             /\ block' = c.at \div set
             /\ word' = IF IsRead(c) THEN 0 ELSE (c.at % Block) \div Word
      BY DEF Begin
    <2> DEFINE c == Ranged(request)
    <2>2. /\ Sound(call)' /\ call'.op = c.op /\ call'.at = c.at /\ call'.length = c.length
          /\ call'.before = extra /\ call'.old = mem
      BY <1>1, <2>1, Requested
    <2>3. Size' = Size /\ SetSize' = SetSize
      BY <1>1 DEF Size, SetSize
    <2>4. (Accepts(call)' <=> Accepts(c)) /\ (IsRead(call)' <=> IsRead(c))
      BY <1>1, <2>2, <2>3 DEF Accepts, IsRead
    <2> HIDE DEF c
    <2>5. /\ buf' = [i \in {j \in 0..(c.length - 1) : c.length > 0 /\ Accepts(c) /\ IsRead(c)} |-> None]
          /\ IF c.length > 0 /\ Accepts(c) THEN pc' = c.op /\ status' = "ok"
             ELSE pc' = "idle" /\ status' = (IF c.length = 0 THEN "ok" ELSE "bad_param")
          /\ block' = c.at \div set
          /\ word' = IF IsRead(c) THEN 0 ELSE (c.at % Block) \div Word
      BY <2>1 DEF c, Return
    <2> QED BY <2>2, <2>4, <2>5
  <1>3. PICK at \in Nat, length \in Nat, op \in Ops :
           /\ at = call'.at /\ length = call'.length /\ op = call'.op
    BY <1>2 DEF Sound
  <1>4. /\ Size' = Size /\ SetSize' = SetSize /\ Words' = Words /\ Counters' = Counters
        /\ Size \in {32, 36, 64, 72, 128, 320, 416} /\ SetSize \in {16, 32} /\ set \in {16, 32}
        /\ target.dev = "ecc608" /\ target.zone = Config => Size = 128
        /\ target.dev = "ecc204" /\ target.zone = Config => Size = 64 /\ SetSize = 16
        /\ target.dev \in {"ecc608", "ecc204"} /\ Words = 0..(Size \div 4 - 1) /\ Words \subseteq Nat
    BY <1>1, Sizes DEF TypeOK, Size, SetSize, Words, Counters, Block, Config, Data
  <1>5. /\ op \in {"config", "compare", "lock"} => target.zone = Config
        /\ op = "config" => at = 16 /\ length = Size - 16
        /\ op \in {"compare", "lock"} => at = 0 /\ length = Size
        /\ op \in {"read_pubkey", "write_pubkey"} => at = 0 /\ length = 64
        /\ target.dev = "ecc204" /\ op = "write" => at % SetSize = 0
    BY <1>1, <1>2, <1>3, <1>4 DEF Sound
  <1>6. op \notin {"read", "write"} => served
    <2> SUFFICES ASSUME op \notin {"read", "write"} PROVE served
      OBVIOUS
    <2>1. Accepts(call)'
      BY <1>3 DEF Accepts
    <2>2. length > 0
      BY <1>3, <1>4, <1>5 DEF Ops
    <2> QED BY <1>3, <2>1, <2>2
  <1>7. /\ served => pc' = op /\ status' = "ok" /\ length > 0
        /\ ~served => pc' = "idle" /\ op \in {"read", "write"} /\ (status' = "ok" => length = 0)
        /\ op # "idle"
    BY <1>2, <1>3, <1>6 DEF Ops
  <1>8. block' \in Nat /\ word' \in Nat /\ (op \in {"compare", "lock", "read_pubkey", "write_pubkey"} => block' = 0)
    <2>1. CASE set = 16
      BY <1>2, <1>3, <1>5, <2>1 DEF Block, Word
    <2>2. CASE set = 32
      BY <1>2, <1>3, <1>5, <2>2 DEF Block, Word
    <2> QED BY <1>4, <2>1, <2>2
  <1>9. TypeOK' /\ Own'
    BY <1>1, <1>4, <1>7, <1>8 DEF TypeOK, Own, Ops
  <1>10. Called'
    BY <1>2, <1>3, <1>7 DEF Called, Ops
  <1>11. Filling' /\ Filled' /\ ReadingKey' /\ CompareTells'
    <2>1. served /\ op \in {"read", "compare", "read_pubkey"} => DOMAIN buf' = 0..(length - 1)
      BY <1>2, <1>3 DEF IsRead
    <2>2. Filling'
      <3> SUFFICES ASSUME pc' \in {"read", "compare"} PROVE Filling'
        BY DEF Filling
      <3>1. served /\ op = pc' /\ length > 0
        BY <1>7
      <3>2. word' = 0
        BY <1>2, <1>3, <3>1 DEF IsRead
      <3>3. DOMAIN buf' = 0..(call'.length - 1) /\ idx' < call'.length
        BY <1>1, <1>3, <2>1, <3>1
      <3>4. \A i \in 0..(idx' - 1) : buf'[i] = call'.at + i
        BY <1>1
      <3>5. /\ target.dev = "ecc608" => block' = call'.at \div Block
            /\ target.dev = "ecc204" => block' = call'.at \div SetSize'
        BY <1>2, <1>4
      <3> QED BY <1>1, <3>2, <3>3, <3>4, <3>5 DEF Filling, Word, Block
    <2>3. Filled'
      <3>1. ~served => DOMAIN buf' = {}
        BY <1>2
      <3> QED BY <1>3, <1>7, <3>1 DEF Filled
    <2>4. ReadingKey' /\ CompareTells'
      <3>1. pc' = "idle" => call'.op \in {"read", "write"}
        BY <1>3, <1>7
      <3>2. CompareTells'
        BY <3>1 DEF CompareTells, Returned
      <3>3. ~Returned("read_pubkey")'
        BY <3>1 DEF Returned
      <3>4. pc' = "read_pubkey" => DOMAIN buf' = 0..63 /\ block' = 0
        <4> SUFFICES ASSUME pc' = "read_pubkey" PROVE DOMAIN buf' = 0..63 /\ block' = 0
          OBVIOUS
        <4>1. served /\ op = "read_pubkey"
          BY <1>7
        <4>2. length = 64 /\ block' = 0
          BY <1>5, <1>8, <4>1
        <4> QED BY <2>1, <4>1, <4>2
      <3> QED BY <3>2, <3>3, <3>4 DEF ReadingKey, KeyRead
    <2> QED BY <2>2, <2>3, <2>4
  <1>12. WritingKey' /\ Locking' /\ Extras'
    <2>1. WritingKey'
      <3>1. ~Returned("write_pubkey")'
        BY <1>3, <1>7 DEF Returned
      <3>2. pc' = "write_pubkey" => block' = 0
        BY <1>7, <1>8
      <3>3. \A w \in Words' : ~(w < 8 * 0)
        BY <1>4
      <3> QED BY <3>1, <3>2, <3>3 DEF WritingKey
    <2>2. Locking'
      <3>1. ~Returned("lock")'
        BY <1>3, <1>7 DEF Returned
      <3>2. pc' = "lock" => block' = 0
        BY <1>7, <1>8
      <3> QED BY <3>1, <3>2 DEF Locking
    <2>3. Extras'
      BY <1>1, <1>2, <1>3, <1>7 DEF Extras, Returned, Ops
    <2> QED BY <2>1, <2>2, <2>3
  <1>13. Placed'
    <2> SUFFICES ASSUME pc' \in {"write", "config"} PROVE Placed'
      BY DEF Placed
    <2>1. served /\ op = pc' /\ length > 0 /\ Accepts(call)'
      BY <1>7
    <2>2. CASE target.dev = "ecc608"
      <3>1. at + length <= Size /\ at % 4 = 0 /\ length % 4 = 0
        <4>1. CASE op = "write"
          BY <1>1, <1>3, <1>4, <2>1, <2>2, <4>1 DEF Accepts, Word
        <4>2. CASE op = "config"
          BY <1>4, <1>5, <2>2, <4>2
        <4> QED BY <2>1, <4>1, <4>2
      <3>2. block' = at \div 32 /\ word' = (at % 32) \div 4
        BY <1>2, <1>3, <2>1, <2>2 DEF IsRead, Block, Word
      <3>3. word' \in 0..7 /\ (8 * block' + word') * 4 = at
        BY <3>1, <3>2
      <3> QED BY <1>1, <1>3, <1>4, <2>1, <2>2, <3>1, <3>3 DEF Placed, Word
    <2>3. CASE target.dev = "ecc204"
      <3>1. at + length <= Size /\ at % SetSize = 0 /\ length % SetSize = 0
        <4>1. CASE op = "write"
          BY <1>1, <1>3, <1>4, <1>5, <2>1, <2>3, <4>1, SameCall DEF Accepts
        <4>2. CASE op = "config"
          BY <1>4, <1>5, <2>3, <4>2
        <4> QED BY <2>1, <4>1, <4>2
      <3>2. block' = at \div SetSize
        BY <1>2, <1>3, <2>3
      <3>3. block' * SetSize = at
        <4>1. CASE SetSize = 16
          BY <3>1, <3>2, <4>1
        <4>2. CASE SetSize = 32
          BY <3>1, <3>2, <4>2
        <4> QED BY <1>4, <4>1, <4>2
      <3>4. 0 % SetSize = 0
        BY <1>4
      <3> QED BY <1>1, <1>3, <1>4, <2>1, <2>3, <3>1, <3>3, <3>4 DEF Placed
    <2> QED BY <1>4, <2>2, <2>3
  <1>14. Writing'
    <2>1. \A w \in Wanted(call)' : w \in Nat /\ at \div 4 <= w /\ length > 0
      <3>1. \A w \in Wanted(call)' : w \in Words /\ Covers(at \div 4, length \div 4, w)
        BY <1>3, <1>4 DEF Wanted, Word
      <3> QED BY <1>3, <1>4, <3>1 DEF Covers
    <2>2. ASSUME NEW k \in Nat, k <= at \div 4 \/ length = 0 PROVE WrittenTo(k)'
      <3>1. \A w \in Words' \ Counters' :
               mem'[w] = IF w \in Wanted(call)' /\ w < k THEN w ELSE call'.old[w]
        BY <1>1, <1>2, <1>3, <1>4, <2>1, <2>2
      <3> QED BY <3>1 DEF WrittenTo
    <2>3. PICK a \in Nat, z \in Nat : a = at \div 4 /\ z = Size' \div Word /\ a = (call.at + idx)' \div Word
      <3>1. (call.at + idx)' = at /\ at \div 4 \in Nat
        BY <1>1, <1>3
      <3>2. Size' \div Word \in Nat
        BY <1>4 DEF Word
      <3> QED BY <3>1, <3>2 DEF Word
    <2>4. WrittenTo(a)' /\ WrittenTo(0)' /\ (length = 0 => WrittenTo(z)')
      BY <2>2, <2>3
    <2>5. \E k \in 0..(Size' \div Word) : WrittenTo(k)'
      BY <2>3, <2>4
    <2>6. pc' \in {"write", "config"} => WrittenTo((call.at + idx) \div Word)'
      BY <2>3, <2>4 DEF WrittenTo
    <2>7. pc' = "idle" /\ status' = "ok" => WrittenTo(Size \div Word)'
      BY <1>7, <2>3, <2>4 DEF WrittenTo
    <2>8. pc' \notin {"user_extra", "selector"}
      BY <1>7 DEF Ops
    <2> QED BY <2>5, <2>6, <2>7, <2>8 DEF Writing
  <1>15. Clean'
    <2> SUFFICES ASSUME Legal(call)', ~served, length # 0 PROVE FALSE
      BY <1>2, <1>3 DEF Clean
    <2>1. Legal(call')
      BY <1>1, <1>4 DEF Legal
    <2>2. Accepts(call')
      BY <1>1, <1>3, <2>1, LegalAccepted DEF TypeOK
    <2>3. Accepts(call)'
      BY <1>1, <1>4, <2>2 DEF Accepts
    <2>4. length > 0
      BY <1>3
    <2> QED BY <1>3, <2>3, <2>4
  <1> QED BY <1>9, <1>10, <1>11, <1>12, <1>13, <1>14, <1>15 DEF IInv

-----------------------------------------------------------------------------
(* The invariant *)

\* Before the first call.
LEMMA InitEstablishes == Init => IInv
  <1> SUFFICES ASSUME Init PROVE IInv
    OBVIOUS
  <1>1. target \in Targets /\ Words \subseteq Nat
    BY Sizes DEF Init
  <1>2. call.op = "none" /\ pc = "idle" /\ status = "ok"
    BY DEF Init, NoCall
  <1>3. TypeOK
    <2>1. mem \in [Words -> Int]
      BY DEF Init, None
    <2>2. extra \in Pairs
      BY DEF Init, Pairs
    <2> QED BY <1>1, <2>1, <2>2 DEF Init, TypeOK, Ops, Block
  <1>4. Called /\ Filling /\ Filled /\ CompareTells /\ ReadingKey /\ WritingKey /\ Placed
    BY <1>2 DEF Called, Filling, Filled, CompareTells, ReadingKey, WritingKey, Placed, Returned
  <1>5. Writing /\ Extras /\ Locking /\ Clean
    BY <1>2 DEF Writing, Writes, Extras, Locking, Clean, Returned
  <1>6. Own
    BY DEF Init, Own
  <1> QED BY <1>3, <1>4, <1>5, <1>6 DEF IInv

\* Every step keeps the invariant.
LEMMA NextKeeps == IInv /\ [Next]_vars => IInv'
  <1> SUFFICES ASSUME IInv, [Next]_vars PROVE IInv'
    OBVIOUS
  <1>1. CASE Begin
    BY <1>1, BeginKeeps
  <1>2. CASE ReadBytes
    BY <1>2, ReadBytesKeeps
  <1>3. CASE ReadSet
    BY <1>3, ReadSetKeeps
  <1>4. CASE ReadPubkey
    BY <1>4, ReadPubkeyKeeps
  <1>5. CASE WriteBytes
    BY <1>5, WriteBytesKeeps
  <1>6. CASE UpdateExtra
    BY <1>6, UpdateExtraKeeps
  <1>7. CASE WritePubkey
    BY <1>7, WritePubkeyKeeps
  <1>8. CASE WriteSet
    BY <1>8, WriteSetKeeps
  <1>9. CASE LockSlot
    BY <1>9, LockSlotKeeps
  <1>10. CASE CountUp
    BY <1>10, CountUpKeeps
  <1>11. CASE UNCHANGED vars
    <2>1. UNCHANGED <<target, mem, extra, locked, call, pc, block, word, unit, idx, buf, status, same, made, faults, lately>>
      BY <1>11 DEF vars, position
    <2>2. /\ Size' = Size /\ Words' = Words /\ SetSize' = SetSize /\ Counters' = Counters
          /\ Accepts(call)' = Accepts(call) /\ Wanted(call)' = Wanted(call)
          /\ Writes(call)' = Writes(call) /\ Sound(call)' = Sound(call) /\ Legal(call)' = Legal(call)
      BY <2>1, SameCall, SameLegal
    <2>3. TypeOK' /\ Called' /\ Filling' /\ Filled' /\ CompareTells'
      BY <2>1, <2>2 DEF IInv, TypeOK, Called, Filling, Filled, CompareTells, Returned
    <2>4. ReadingKey' /\ WritingKey' /\ Placed' /\ Own'
      BY <2>1, <2>2 DEF IInv, ReadingKey, WritingKey, Placed, Own, Returned
    <2>5. Extras' /\ Locking' /\ Clean'
      BY <2>1, <2>2 DEF IInv, Extras, Locking, Clean, Returned
    <2>6. Writing'
      <3>1. ASSUME NEW k PROVE WrittenTo(k) => WrittenTo(k)'
        BY <2>1, <2>2 DEF WrittenTo
      <3>2. PICK z, a : z = Size \div Word /\ a = (call.at + idx) \div Word
        OBVIOUS
      <3>3. (WrittenTo(z) => WrittenTo(z)') /\ (WrittenTo(a) => WrittenTo(a)')
        BY <3>1
      <3>4. /\ WrittenTo(Size \div Word) => WrittenTo(Size \div Word)'
            /\ WrittenTo((call.at + idx) \div Word) => WrittenTo((call.at + idx) \div Word)'
        BY <2>1, <2>2, <3>2, <3>3 DEF WrittenTo
      <3> QED BY <2>1, <2>2, <3>1, <3>4 DEF IInv, Writing
    <2> QED BY <2>3, <2>4, <2>5, <2>6 DEF IInv
  <1> QED BY <1>1, <1>2, <1>3, <1>4, <1>5, <1>6, <1>7, <1>8, <1>9, <1>10, <1>11 DEF Next

\* The invariant of calls on zones.
THEOREM Invariant == Spec => []IInv
  BY InitEstablishes, NextKeeps, PTL DEF Spec

-----------------------------------------------------------------------------
(* What the calls promise *)

\* A read that succeeds has filled the buffer with the range it was asked for
\* (calib_read_bytes_zone, calib_ca2_read_bytes_zone).
THEOREM ReadsItsRange == Spec => []ReadIsRange
  <1>1. IInv => ReadIsRange
    BY DEF IInv, Filled, ReadIsRange, Returned
  <1> QED BY Invariant, <1>1, PTL

\* A write changes its range from the front and nothing else, wherever it is
\* given up (calib_write_bytes_zone, calib_ca2_write_bytes_zone).
THEOREM WritesAPrefix == Spec => []WriteIsPrefix
  <1>1. IInv => WriteIsPrefix
    BY DEF IInv, Writing, WrittenTo, Own, WriteIsPrefix
  <1> QED BY Invariant, <1>1, PTL

\* What a successful write, configuration or lock was to change is changed
\* (calib_write_config_zone, calib_ca2_lock_config_zone).
THEOREM SuccessIsWhole == Spec => []WholeWhenOk
  <1> SUFFICES ASSUME IInv PROVE WholeWhenOk
    BY Invariant, PTL
  <1>1. ASSUME NEW op \in {"write", "config"}, Returned(op), Writes(call)
        PROVE  /\ \A w \in Wanted(call) \ Counters : mem[w] = w
               /\ op = "config" => extra = call.extra
    <2>1. WrittenTo(Size \div Word)
      BY <1>1 DEF IInv, Writing, Returned
    <2>2. ASSUME NEW w \in Wanted(call) \ Counters PROVE mem[w] = w
      <3>1. w \in Words \ Counters /\ w < Size \div Word
        <4>1. w \in Words /\ w \notin Counters /\ Words = 0..(Size \div 4 - 1) /\ Size \in {32, 36, 64, 72, 128, 320, 416}
          BY Sizes DEF IInv, TypeOK, Wanted
        <4> QED BY <4>1 DEF Word
      <3> QED BY <2>1, <2>2, <3>1 DEF WrittenTo
    <2>3. op = "config" => extra = call.extra
      BY <1>1 DEF IInv, Extras, Returned, Writes
    <2> QED BY <2>2, <2>3
  <1>2. Returned("lock") => locked = 0..3
    BY DEF IInv, Locking
  <1> QED BY <1>1, <1>2 DEF WholeWhenOk

\* No packet of a legal call is refused by the chip, and no legal call by the
\* library.
THEOREM LegalCallSucceeds == Spec => []CleanCallSucceeds
  <1>1. IInv => CleanCallSucceeds
    BY DEF IInv, Clean, CleanCallSucceeds
  <1> QED BY Invariant, <1>1, PTL

\* The comparison tells whether the host's part of a configuration is on the
\* chip (calib_ecc608_compare_config).
THEOREM ComparesRightly == Spec => []CompareTells
  <1>1. IInv => CompareTells
    BY DEF IInv
  <1> QED BY Invariant, <1>1, PTL

\* A public key that is written and read is the same key
\* (calib_write_pubkey, calib_read_pubkey).
THEOREM KeySurvives == Spec => []KeyRoundTrip
  <1> SUFFICES ASSUME IInv PROVE KeyRoundTrip
    BY Invariant, PTL
  <1>1. Returned("write_pubkey") => \A w \in 0..17 : mem[w] = KeyWord(w)
    BY DEF IInv, WritingKey
  <1>2. ASSUME Returned("read_pubkey"), \A w \in 0..17 : mem[w] = KeyWord(w), NEW i \in 0..63
        PROVE  mem[buf[i] \div Word] = i \div Word /\ buf[i] % Word = i % Word
    <2>1. buf[i] = PlaceOfKey(i)
      BY <1>2 DEF IInv, ReadingKey
    <2>2. CASE i < 32
      <3>1. buf[i] = i + 4 /\ (i + 4) \div 4 = (i \div 4) + 1 /\ (i + 4) % 4 = i % 4 /\ i \div 4 \in 0..7
        BY <2>1, <2>2 DEF PlaceOfKey
      <3>2. mem[(i \div 4) + 1] = KeyWord((i \div 4) + 1)
        BY <1>2, <3>1
      <3>3. \A q \in 0..7 : KeyWord(q + 1) = q
        BY DEF KeyWord
      <3> QED BY <3>1, <3>2, <3>3 DEF Word
    <2>3. CASE ~(i < 32)
      <3>1. buf[i] = i + 8 /\ (i + 8) \div 4 = (i \div 4) + 2 /\ (i + 8) % 4 = i % 4 /\ i \div 4 \in 8..15
        BY <2>1, <2>3 DEF PlaceOfKey
      <3>2. mem[(i \div 4) + 2] = KeyWord((i \div 4) + 2)
        BY <1>2, <3>1
      <3>3. \A q \in 8..15 : KeyWord(q + 2) = q
        BY DEF KeyWord
      <3> QED BY <3>1, <3>2, <3>3 DEF Word
    <2> QED BY <2>2, <2>3
  <1> QED BY <1>1, <1>2 DEF KeyRoundTrip
=============================================================================
