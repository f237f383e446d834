----------------------------- MODULE ZoneAccess -----------------------------
(* The chip's memory zones read and written through packets of one word or  *)
(* one block (lib/calib/calib_read.c, calib_write.c, calib_basic.c,         *)
(* calib_lock.c): arbitrary byte ranges, the whole configuration zone with  *)
(* its two extra bytes, its comparison with a template, public keys in      *)
(* their padded layout, and the same for the CA2 family (ECC204), whose     *)
(* zones have no words.                                                     *)
(*                                                                          *)
(* Data is known by where it belongs: the word w of a zone holds w once the *)
(* caller's word for it is there, and the byte i of a read holds the        *)
(* address it was read from.  One call at a time, on one zone or slot; a    *)
(* packet may be refused, fail, or be carried out and its answer lost.      *)
EXTENDS Integers, FiniteSets

CONSTANTS
    Targets,     \* the zones and slots calls are made on: [dev, zone, slot]
    CallsOn(_),  \* the calls made on one: [op, at, length, extra]
    MaxCalls,    \* bound: calls of a behaviour
    MaxFaults    \* bound: packets that fail or whose answer is lost

Word == 4        \* ATCA_WORD_SIZE
Block == 32      \* ATCA_BLOCK_SIZE
Config == 0      \* ATCA_ZONE_CONFIG
Otp == 1         \* ATCA_ZONE_OTP
Data == 2        \* ATCA_ZONE_DATA
None == -1       \* not yet written, or not yet read
Pad == -2        \* a zero the public key's layout puts between the halves

\* calib_get_zone_size
SizeOf(t) ==
    IF t.dev = "ecc204"
    THEN IF t.zone = Config \/ t.slot = 2 THEN 64 ELSE IF t.slot = 1 THEN 320 ELSE 32
    ELSE IF t.zone = Config THEN 128
    ELSE IF t.zone = Otp THEN 64
    ELSE IF t.slot < 8 THEN 36 ELSE IF t.slot = 8 THEN 416 ELSE 72

Ops == {"read", "write", "config", "compare", "lock", "read_pubkey", "write_pubkey"}

\* The zones and slots of the two families, and what the functions' signatures
\* say of a call: the configuration functions have no range of their own, the
\* lock of all slots is the CA2 family's, a public key has the slots from 8 on,
\* and a CA2 write names a block, or a slot of the configuration.
ASSUME TargetsAssumption ==
    \A t \in Targets :
        /\ t \in [dev : {"ecc608", "ecc204"}, zone : {Config, Otp, Data}, slot : 0..15]
        /\ t.dev = "ecc204" => t.zone # Otp /\ t.slot \in 0..3
ASSUME CallsAssumption ==
    \A t \in Targets : \A c \in CallsOn(t) :
        /\ c.op \in Ops /\ c.at \in Nat /\ c.length \in Nat /\ c.extra \in BOOLEAN \X BOOLEAN
        /\ DOMAIN c = {"op", "at", "length", "extra", "before", "old"}
        /\ c.op \in {"config", "compare", "lock"} => t.zone = Config
        /\ c.op = "lock" => t.dev = "ecc204"
        /\ c.op \in {"read_pubkey", "write_pubkey"} =>
               t.dev = "ecc608" /\ t.zone = Data /\ t.slot \in 8..15
        /\ c.op \notin {"read", "write"} => c.at = 0
        /\ t.dev = "ecc204" /\ c.op = "write" => c.at % (IF t.zone = Data THEN Block ELSE 16) = 0
        /\ t.dev = "ecc204" /\ t.zone = Config => c.at < 64
ASSUME BoundsAssumption == MaxCalls \in Nat /\ MaxFaults \in Nat

\* The word that UpdateExtra writes: UserExtra, Selector and the lock bytes.
ExtraWord == 21
\* A mutant: it takes the word of the slot locks for an extra word, too.
IsExtraOrLocks(t, b, w) == t.zone = Config /\ b = 2 /\ w \in {5, 6}
IsExtra(t, b, w) == t.zone = Config /\ b = 2 /\ w = 5

VARIABLES
    target,   \* the zone or slot of this behaviour
    mem,      \* the chip's words of it
    extra,    \* the chip's UserExtra and Selector are no longer zero
    locked,   \* CA2: the slots of the zone that are locked
    call,     \* the call under way or the last one, with what it found
    pc,       \* where it is; "idle": it has returned
    block, word, unit, idx,  \* cur_block, cur_offset/cur_word, read_size, data_idx
    buf,      \* the caller's buffer of a read
    status,   \* what the call has to return so far
    same,     \* calib_cmp_config_zone's answer
    made, faults, lately  \* counters, and the faults of this call

position == <<block, word, unit, idx>>
vars == <<target, mem, extra, locked, call, pc, position, buf, status, same, made, faults, lately>>

Size == SizeOf(target)
Words == 0..(Size \div Word - 1)
NoCall == [op |-> "none", at |-> 0, length |-> 0, extra |-> <<FALSE, FALSE>>,
           before |-> <<FALSE, FALSE>>, old |-> <<>>]

\* calib_ca2_read_bytes_zone and the others take 16 bytes of the configuration.
SetSize == IF target.zone = Data THEN Block ELSE 16

Init ==
    /\ target \in Targets
    /\ mem = [w \in Words |-> None]
    /\ extra = <<FALSE, FALSE>>
    /\ locked = {}
    /\ call = NoCall /\ pc = "idle"
    /\ block = 0 /\ word = 0 /\ unit = Block /\ idx = 0
    /\ buf = [i \in {} |-> None]
    /\ status = "ok" /\ same = FALSE
    /\ made = 0 /\ faults = 0 /\ lately = 0

---------------------------------------------------------------------------
(* A packet and its fate.  The chip refuses an address outside the zone and *)
(* a write to what it keeps for itself: the serial number, the extra word,  *)
(* a locked slot.                                                           *)

Covers(at, n, w) == at <= w /\ w < at + n
Inside(at, n) == at >= 0 /\ at + n <= Size \div Word
Writable(at, n) ==
    /\ Inside(at, n)
    /\ target.dev = "ecc608" /\ target.zone = Config
          => ~\E w \in (0..3) \cup {ExtraWord} : Covers(at, n, w)
    /\ target.dev = "ecc204" /\ target.zone = Config
          => at \div 4 \notin locked \cup {0}

\* What becomes of a packet that the chip would take if it is legal.
Fates(legal) ==
    (IF legal THEN {"done"} ELSE {"refused"})
        \cup (IF faults < MaxFaults THEN {"failed"} ELSE {})
        \cup (IF legal /\ faults < MaxFaults THEN {"lost"} ELSE {})
Happens(fate) == fate \in {"done", "lost"}
StatusOf(fate) ==
    IF fate = "done" THEN "ok" ELSE IF fate = "refused" THEN "execution" ELSE "comm"
Count(fate) ==
    /\ faults' = IF fate \in {"failed", "lost"} THEN faults + 1 ELSE faults
    /\ lately' = IF fate \in {"failed", "lost"} THEN lately + 1 ELSE lately

\* The words the chip holds after n words at `at` were written with what
\* belongs to the words from `from` on.
Written(at, n, from) ==
    [w \in Words |-> IF Covers(at, n, w) THEN from + (w - at) ELSE mem[w]]
Copied(n, from) ==
    [i \in DOMAIN buf |-> IF Covers(idx, n, i) THEN from + (i - idx) ELSE buf[i]]

Return(s) == pc' = "idle" /\ status' = s
Stay == pc' = pc /\ status' = "ok"

---------------------------------------------------------------------------
(* The calls.                                                               *)

\* The parameter checks of calib_read_bytes_zone, calib_write_bytes_zone and
\* of their CA2 counterparts; at is a byte address of the zone, which in the
\* configuration of a CA2 chip names the slot.
Accepts(c) ==
    LET end == c.at + c.length IN
    /\ c.op = "read" /\ target.dev = "ecc608" =>
          c.length <= 416 /\ c.at <= 416 /\ end <= Size
    /\ c.op = "write" /\ target.dev = "ecc608" =>
          c.at % Word = 0 /\ c.length % Word = 0 /\ end <= Size
    /\ c.op = "read" /\ target.dev = "ecc204" =>
          IF target.zone = Config THEN (c.at % 16) + c.length <= 16
          ELSE target.slot \notin {0, 3} /\ end <= Size
    /\ c.op = "write" /\ target.dev = "ecc204" =>
          /\ c.length % SetSize = 0 /\ end <= Size
          /\ target.zone = Data => target.slot # 0

\* The range of the calls that have a fixed one.
Ranged(c) ==
    IF c.op = "config" THEN [c EXCEPT !.at = 16, !.length = Size - 16]
    ELSE IF c.op \in {"compare", "lock"} THEN [c EXCEPT !.length = Size]
    ELSE IF c.op \in {"read_pubkey", "write_pubkey"} THEN [c EXCEPT !.length = 64]
    ELSE c

IsRead(c) == c.op \in {"read", "compare", "read_pubkey"}

\* A call: a bad parameter or an empty range is answered without a packet.
Begin ==
    /\ pc = "idle" /\ made < MaxCalls
    /\ \E request \in CallsOn(target) :
        LET c == Ranged(request)
            set == IF target.dev = "ecc204" THEN SetSize ELSE Block
            served == c.length > 0 /\ Accepts(c) IN
        /\ call' = [c EXCEPT !.before = extra, !.old = mem]
        /\ buf' = [i \in {j \in 0..(c.length - 1) : served /\ IsRead(c)} |-> None]
        /\ IF served THEN pc' = c.op /\ status' = "ok"
           ELSE Return(IF c.length = 0 THEN "ok" ELSE "bad_param")
        /\ block' = c.at \div set
        /\ word' = IF IsRead(c) THEN 0 ELSE (c.at % Block) \div Word
    /\ unit' = Block /\ idx' = 0 /\ same' = FALSE /\ lately' = 0
    /\ made' = made + 1
    /\ UNCHANGED <<target, mem, extra, locked, faults>>

---------------------------------------------------------------------------
(* Reading.                                                                 *)

\* A mutant: it goes on in blocks beyond the end.
UnitKept == unit
\* Less than a block is left of the zone: go on in words.
Unit == IF unit = Block /\ Size - block * Block < Block THEN Word ELSE unit
\* A mutant: it forgets what has been read.
WordOfStart == IF Unit = unit THEN word ELSE (call.at \div Word) % 8
WordInBlock == IF Unit = unit THEN word ELSE ((idx + call.at) \div Word) % 8
\* Where the wanted bytes begin in what is read, and how many they are.
SkipOf(from) == IF from < call.at THEN call.at - from ELSE 0
TakeOf(from, size) ==
    LET rest == size - SkipOf(from) IN
    IF call.length - idx < rest THEN call.length - idx ELSE rest

\* A mutant: everything after the serial number.
ComparedRest == 16..127
\* calib_ecc608_compare_config: the bytes a template decides.
Compared == (16..51) \cup (68..83) \cup (90..127)
Agrees(b) == mem[buf'[b] \div Word] = b \div Word
\* calib_ca2_compare_config: slot 1 or slot 3.
Same ==
    IF target.dev = "ecc608" THEN \A b \in Compared : Agrees(b)
    ELSE (\A b \in 16..31 : Agrees(b)) \/ (\A b \in 48..63 : Agrees(b))

\* The end of a loop, which also compares if that was asked.
Read(n, from) ==
    /\ buf' = Copied(n, from) /\ idx' = idx + n
    /\ IF idx' < call.length THEN Stay /\ same' = same
       ELSE Return("ok") /\ same' = (call.op = "compare" /\ Same)

Reading(dev) == pc \in {"read", "compare"} /\ target.dev = dev
Failed(fate) == Return(StatusOf(fate)) /\ UNCHANGED <<position, buf, same>>

\* An iteration of calib_read_bytes_zone.
ReadBytes ==
    LET from == block * Block + WordInBlock * Word IN
    /\ Reading("ecc608")
    /\ \E fate \in Fates(Inside(from \div Word, Unit \div Word)) :
        /\ Count(fate)
        /\ IF fate # "done" THEN Failed(fate)
           ELSE /\ Read(TakeOf(from, Unit), from + SkipOf(from))
                /\ unit' = Unit
                /\ block' = IF Unit = Block THEN block + 1 ELSE block
                /\ word' = IF Unit = Block THEN WordInBlock ELSE WordInBlock + 1
    /\ UNCHANGED <<target, mem, extra, locked, call, made>>

\* An iteration of calib_ca2_read_bytes_zone; of calib_ca2_read_config_zone,
\* which reads all four slots, for a comparison.
ReadSet ==
    LET from == block * SetSize IN
    /\ Reading("ecc204")
    /\ \E fate \in Fates(Inside(from \div Word, SetSize \div Word)) :
        /\ Count(fate)
        /\ IF fate # "done" THEN Failed(fate)
           ELSE /\ Read(TakeOf(from, SetSize), from + SkipOf(from))
                /\ block' = block + 1
                /\ UNCHANGED <<word, unit>>
    /\ UNCHANGED <<target, mem, extra, locked, call, made>>

\* A mutant: it overlooks the padding before the second half.
KeyCopiesUnpadded(b) ==
    {[at |-> IF b = 0 THEN 0 ELSE 32 * b - 4, from |-> IF b = 0 THEN 4 ELSE 32 * b,
      n |-> <<28, 32, 4>>[b + 1]]}
\* calib_read_pubkey: where the key's bytes are in the three blocks.
KeyCopies(b) ==
    IF b = 0 THEN {[at |-> 0, from |-> 4, n |-> 28]}
    ELSE IF b = 1 THEN {[at |-> 28, from |-> 32, n |-> 4], [at |-> 32, from |-> 40, n |-> 24]}
    ELSE {[at |-> 56, from |-> 64, n |-> 8]}

ReadPubkey ==
    /\ pc = "read_pubkey"
    /\ \E fate \in Fates(TRUE) :
        /\ Count(fate)
        /\ IF fate # "done" THEN Failed(fate)
           ELSE /\ buf' = [i \in DOMAIN buf |->
                      IF \E c \in KeyCopies(block) : Covers(c.at, c.n, i)
                      THEN LET c == CHOOSE c \in KeyCopies(block) : Covers(c.at, c.n, i)
                           IN  c.from + (i - c.at)
                      ELSE buf[i]]
                /\ block' = block + 1
                /\ IF block = 2 THEN Return("ok") ELSE Stay
                /\ UNCHANGED <<word, unit, idx, same>>
    /\ UNCHANGED <<target, mem, extra, locked, call, made>>

---------------------------------------------------------------------------
(* Writing.                                                                 *)

\* A whole block at once, but not the one with the extra word.
WholeBlock ==
    word = 0 /\ call.length - idx >= Block /\ ~(target.zone = Config /\ block = 2)
Skipped == IsExtra(target, block, word)

\* An iteration of calib_write_bytes_zone, alone or for the configuration.
WriteBytes ==
    LET n == IF WholeBlock THEN 8 ELSE 1
        at == block * 8 + word IN
    /\ pc \in {"write", "config"} /\ target.dev = "ecc608"
    /\ \E fate \in IF Skipped THEN {"done"} ELSE Fates(Writable(at, n)) :
        /\ Count(fate)
        /\ mem' = IF Happens(fate) /\ ~Skipped
                  THEN Written(at, n, (call.at + idx) \div Word) ELSE mem
        /\ IF fate # "done" THEN Failed(fate)
           ELSE /\ idx' = idx + n * Word
                /\ block' = IF word + n = 8 THEN block + 1 ELSE block
                /\ word' = (word + n) % 8
                /\ IF idx' < call.length THEN Stay
                   ELSE IF pc = "config" THEN pc' = "user_extra" /\ status' = "ok"
                   ELSE Return("ok")
                /\ UNCHANGED <<unit, buf, same>>
    /\ UNCHANGED <<target, extra, locked, call, made>>

\* calib_updateextra, twice: the chip takes a value only while it has none.
UpdateExtra ==
    /\ pc \in {"user_extra", "selector"}
    /\ LET k == IF pc = "user_extra" THEN 1 ELSE 2 IN
       \E fate \in Fates(~extra[k]) :
        /\ Count(fate)
        /\ extra' = IF Happens(fate) THEN [extra EXCEPT ![k] = call.extra[k]] ELSE extra
        /\ IF fate = "done" /\ k = 1 THEN pc' = "selector" /\ status' = "ok"
           ELSE Return(StatusOf(fate))
    /\ UNCHANGED <<target, mem, locked, call, position, buf, same, made>>

\* calib_write_pubkey: the key in its layout, as three whole blocks; the chip
\* takes the third, which is longer than the slot, while it is unlocked.
KeyWord(w) == IF w \in 1..8 THEN w - 1 ELSE IF w \in 10..17 THEN w - 2 ELSE Pad
WritePubkey ==
    /\ pc = "write_pubkey"
    /\ \E fate \in Fates(TRUE) :
        /\ Count(fate)
        /\ mem' = IF Happens(fate)
                  THEN [w \in Words |-> IF w \div 8 = block THEN KeyWord(w) ELSE mem[w]]
                  ELSE mem
        /\ IF fate # "done" THEN Failed(fate)
           ELSE /\ block' = block + 1
                /\ IF block = 2 THEN Return("ok") ELSE Stay
                /\ UNCHANGED <<word, unit, idx, buf, same>>
    /\ UNCHANGED <<target, extra, locked, call, made>>

\* A mutant: every write goes on.
GoesOnAlways(fate) == fate \in {"done", "refused", "failed", "lost"}
\* An iteration of calib_ca2_write_bytes_zone, and of
\* calib_ca2_write_config_zone, which goes on after a failure.
GoesOn(fate) == fate = "done" \/ pc = "config"
WriteSet ==
    LET n == SetSize \div Word
        at == block * n IN
    /\ pc \in {"write", "config"} /\ target.dev = "ecc204"
    /\ \E fate \in Fates(Writable(at, n)) :
        /\ Count(fate)
        /\ mem' = IF Happens(fate) THEN Written(at, n, (call.at + idx) \div Word) ELSE mem
        /\ IF ~GoesOn(fate) THEN Failed(fate)
           ELSE /\ idx' = idx + SetSize /\ block' = block + 1
                /\ status' = StatusOf(fate)
                /\ pc' = IF idx' < call.length THEN pc ELSE "idle"
                /\ UNCHANGED <<word, unit, buf, same>>
    /\ UNCHANGED <<target, extra, locked, call, made>>

\* An iteration of calib_ca2_lock_config_zone: a slot that is locked is fine.
Passes(fate) == fate \in {"done", "refused"}
LockSlot ==
    /\ pc = "lock"
    /\ \E fate \in Fates(block \notin locked) :
        /\ Count(fate)
        /\ locked' = IF Happens(fate) THEN locked \cup {block} ELSE locked
        /\ IF ~Passes(fate) THEN Failed(fate)
           ELSE /\ block' = block + 1
                /\ IF block = 3 THEN Return("ok") ELSE Stay
                /\ UNCHANGED <<word, unit, idx, buf, same>>
    /\ UNCHANGED <<target, mem, extra, call, made>>

\* The chip's own doing: a monotonic counter of the configuration moves.
CounterWords == 13..16
CountUp ==
    /\ pc = "idle" /\ target.dev = "ecc608" /\ target.zone = Config
    /\ \E w \in CounterWords : mem[w] # None /\ mem' = [mem EXCEPT ![w] = None]
    /\ UNCHANGED <<target, extra, locked, call, pc, position, buf, status, same, made, faults, lately>>

Next ==
    \/ Begin \/ ReadBytes \/ ReadSet \/ ReadPubkey
    \/ WriteBytes \/ UpdateExtra \/ WritePubkey \/ WriteSet \/ LockSlot \/ CountUp

Spec == Init /\ [][Next]_vars

---------------------------------------------------------------------------
(* Properties.                                                              *)

\* The words a write is to change: its range, but for what the chip keeps.
Wanted(c) ==
    {w \in Words : Covers(c.at \div Word, c.length \div Word, w)}
        \ (IF target.dev = "ecc608" /\ target.zone = Config THEN {ExtraWord} ELSE {})
\* The words that the chip changes by itself.
Counters == IF target.dev = "ecc608" /\ target.zone = Config THEN CounterWords ELSE {}
Returned(op) == pc = "idle" /\ call.op = op /\ status = "ok"
Writes(c) == c.op = "write" \/ (c.op = "config" /\ target.dev = "ecc608")

\* A read that succeeds has filled every byte of the caller's buffer from the
\* address it stands for, whatever the alignment of its ends, also where the
\* zone ends within a block and the walk changes from blocks to words.
ReadIsRange ==
    Returned("read") => \A i \in DOMAIN buf : buf[i] = call.at + i

\* A write changes nothing but its range and changes it from the front, each
\* word to the caller's word for it, at every moment and wherever it is given
\* up: a later call that repeats it completes it.  No call brings a word to a
\* place that is not its own.
WriteIsPrefix ==
    /\ Writes(call) =>
         LET wanted == Wanted(call)
         IN  \E k \in 0..(Size \div Word) :
                \A w \in Words \ Counters :
                    mem[w] = IF w \in wanted /\ w < k THEN w ELSE call.old[w]
    /\ \A w \in Words : mem[w] \in {w, None, KeyWord(w)}

\* A write that reports success has written all it was given, the extra bytes
\* of a configuration included; locking the configuration of a CA2 chip has
\* locked all of its slots, those that an earlier attempt had locked included.
WholeWhenOk ==
    /\ \A op \in {"write", "config"} : Returned(op) /\ Writes(call) =>
          /\ \A w \in Wanted(call) \ Counters : mem[w] = w
          /\ op = "config" => extra = call.extra
    /\ Returned("lock") => locked = 0..3

\* Without a failing packet, a call on a range that the chip has and lets the
\* host have succeeds: no packet of it leaves the zone or touches the words the
\* chip keeps, and a configuration can be written again after a failure if
\* UserExtra and Selector are still zero.
Legal(c) ==
    /\ c.op \in {"read", "write"} => c.at + c.length <= Size
    /\ c.op = "read" /\ target.dev = "ecc204" =>
          IF target.zone = Config THEN (c.at % 16) + c.length <= 16
          ELSE target.slot \in {1, 2}
    /\ c.op = "write" =>
          /\ c.at % Word = 0 /\ c.length % Word = 0
          /\ target.dev = "ecc204" =>
               c.length % SetSize = 0 /\ (target.zone = Data => target.slot # 0)
          /\ target.zone = Config => c.at >= 16
          /\ target.zone = Config /\ target.dev = "ecc204" =>
               \A s \in locked : c.at >= 16 * (s + 1) \/ c.at + c.length <= 16 * s
    /\ c.op = "config" => c.before = <<FALSE, FALSE>> /\ locked = {}
CleanCallSucceeds ==
    pc = "idle" /\ lately = 0 /\ Legal(call) => status = "ok"

\* The comparison says "same" exactly when everything of the template that is
\* the host's to write is on the chip, though the chip's counters have moved.
HostsWords == (4..31) \ ({13, 14, 15, 16, ExtraWord})
CompareTells ==
    Returned("compare") /\ target.dev = "ecc608"
        => (same <=> \A w \in HostsWords : mem[w] = w)

\* A public key that was written is in the slot in its layout, and read back
\* from there it is the key that was written.
KeyRoundTrip ==
    LET stored == \A w \in 0..17 : mem[w] = KeyWord(w) IN
    /\ Returned("write_pubkey") => stored
    /\ Returned("read_pubkey") /\ stored
         => \A i \in 0..63 : mem[buf[i] \div Word] = i \div Word /\ buf[i] % Word = i % Word

=============================================================================
