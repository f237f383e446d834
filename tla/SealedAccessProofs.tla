------------------------- MODULE SealedAccessProofs -------------------------
(* For any number of users, slots and contents: what a sealed write may put *)
(* into a slot, what its success says, what a confirmed signature says, and *)
(* that a call nobody disturbs succeeds and returns what it is about.       *)
EXTENDS SealedAccess, TLAPS

Ops == {"write", "priv", "plain", "read", "ecdh", "sign", "verify", "verify_mac", "secureboot"}
Terms == [how : {"rand", "msg", "dig", "io"}, n : Nat, slot : Slots, data : Data \cup {NoData}]
Chips == [tk : Seq(Terms), valid : BOOLEAN, dig : Slots \cup {NoData}, msg : Data \cup {NoData},
          nonce : Users \cup {NoData}, filled : BOOLEAN, slot : [Slots -> Data], is608 : BOOLEAN]

\* The fields of a call; its answer may be anything.
CallOK(c) ==
    /\ DOMAIN c = {"op", "slot", "data", "key", "keyId", "sig", "step", "tk", "out", "verified", "status"}
    /\ c.op \in Ops /\ c.slot \in Slots /\ c.keyId \in Slots
    /\ c.data \in Data /\ c.key \in Data /\ c.sig \in Data
    /\ c.step \in Nat /\ c.tk \in Seq(Terms)
    /\ c.status \in {"open", "ok", "failed"}

\* What a call under way has brought together before each of its packets.
UnderWay(c) ==
    /\ c.step \in 1..Len(Packets(c.op))
    /\ c.verified = FALSE
    /\ c.op \in {"write", "priv"} =>
          /\ c.step = 3 => \E n \in Nat : c.tk = HostNonce(n)
          /\ c.step = 4 => \E n \in Nat : c.tk = HostGenDig(HostNonce(n), c.keyId, c.key)
    /\ c.op = "secureboot" /\ c.step = 3 =>
          \E tk \in Seq(Terms) : c.out = [key |-> HashedKey(tk, IoKey), msg |-> c.sig,
                                          nonce |-> NoData, sig |-> c.sig]

\* A TempKey that authorizes ends with the key that is in the slot now.
KeyHolds(ch) ==
    ch.valid /\ ch.dig = KeySlot =>
        ch.tk # <<>> /\ ch.tk[Len(ch.tk)] = Dig(KeySlot, ch.slot[KeySlot])

Typed == /\ chip \in Chips /\ drawn \in Nat
         /\ DOMAIN call = Users /\ \A u \in Users : CallOK(call[u])
Calling == \A u \in Users : Open(u) => UnderWay(call[u])
\* No premaster secret goes into the slot of the keys.
KeptOut == \A u \in Users : Open(u) /\ call[u].op = "ecdh" => call[u].slot # KeySlot
KeySlotIsNoTarget == \A c \in Calls : c.op = "ecdh" => c.slot # KeySlot

-----------------------------------------------------------------------------
(* Packets and their place *)

\* Where in its call a packet stands.
LEMMA PlaceOf ==
    ASSUME NEW c, c.op \in Ops, c.step \in 1..Len(Packets(c.op))
    PROVE  LET p == Packets(c.op)[c.step]
           IN  /\ Len(Packets(c.op)) \in Nat
               /\ p \in {"serial", "random", "config", "nonce", "gendig", "write", "priv", "plain",
                         "read", "ecdh", "load", "sign", "verify", "verify_mac", "secureboot"}
               /\ c.op \in {"write", "priv"} =>
                     (c.step = 2 => p = "nonce") /\ (c.step = 3 => p = "gendig")
               /\ c.op = "secureboot" =>
                     /\ p \in {"nonce", "secureboot", "config"}
                     /\ c.step = 2 => p = "secureboot"
               /\ c.op = "verify_mac" => p \in {"load", "verify_mac"}
               /\ c.op \in {"write", "priv"} /\ c.step = Len(Packets(c.op)) => p = c.op
               /\ p \in {"write", "priv"} => c.op = p /\ c.step = 4
               /\ p \in {"ecdh", "secureboot", "verify_mac"} => c.op = p
               /\ p = "config" => c.step = 3
               /\ p \in {"verify", "verify_mac", "config"} => c.step = Len(Packets(c.op))
  <1>1. CASE c.op \in {"write", "priv"} BY <1>1 DEF Packets
  <1>2. CASE c.op = "plain" BY <1>2 DEF Packets
  <1>3. CASE c.op = "read" BY <1>3 DEF Packets
  <1>4. CASE c.op = "ecdh" BY <1>4 DEF Packets
  <1>5. CASE c.op = "sign" BY <1>5 DEF Packets
  <1>6. CASE c.op = "verify" BY <1>6 DEF Packets
  <1>7. CASE c.op = "verify_mac" BY <1>7 DEF Packets
  <1>8. CASE c.op = "secureboot" BY <1>8 DEF Packets
  <1> QED BY <1>1, <1>2, <1>3, <1>4, <1>5, <1>6, <1>7, <1>8 DEF Ops

\* A write the chip takes was sealed under the chip's own TempKey.
LEMMA WriteTaken ==
    ASSUME NEW c, OnWrite(c).ok
    PROVE  /\ Authorized /\ c.tk = chip.tk
           /\ OnWrite(c).chip = [Spent EXCEPT !.slot[c.slot] = c.data]
  <1> DEFINE plain == Decrypt(Sealed(c).cipher, chip.tk)
  <1>1. Authorized /\ Sealed(c).mac = Mac(chip.tk, c.op, c.slot, plain)
    BY DEF OnWrite, Refuses
  <1>2. Mac(c.tk, c.op, c.slot, c.data) = Mac(chip.tk, c.op, c.slot, plain)
    BY <1>1 DEF Sealed, SealedUnder
  <1>3. c.tk = chip.tk /\ c.data = plain
    BY <1>2 DEF Mac
  <1>4. OnWrite(c).chip = [Spent EXCEPT !.slot[c.slot] = plain]
    BY <1>1 DEF OnWrite, Answers
  <1> QED BY <1>1, <1>3, <1>4

-----------------------------------------------------------------------------
(* What a packet does to the chip *)

\* What the reaction r to packet p leaves of the chip.
After(p, c, u, r) ==
    /\ p \in {"serial", "random", "config"} => r.chip = chip
    /\ p = "nonce" =>
          r.chip = [chip EXCEPT !.tk = HostNonce(drawn + 1), !.valid = TRUE, !.dig = NoData]
    /\ p = "gendig" =>
          \/ r.chip = [chip EXCEPT !.tk = Append(chip.tk, Dig(c.keyId, chip.slot[c.keyId])),
                                   !.dig = c.keyId]
          \/ r.chip = Spent
    /\ p \in {"write", "priv"} => r = OnWrite(c)
    /\ p \in {"plain", "read", "secureboot"} => r.chip = Spent
    /\ p = "ecdh" => r.chip = [chip EXCEPT !.slot[c.slot] = c.data]
    /\ p = "load" => r = OnLoad(c, u)
    /\ p \in {"sign", "verify", "verify_mac"} => r.chip \in {chip, Spent}

\* After says what every reaction leaves of the chip.
LEMMA ChipAfter ==
    ASSUME NEW c, NEW u, NEW p
    PROVE  After(p, c, u, Reaction(p, c, u))
  <1> DEFINE r == Reaction(p, c, u)
  <1> SUFFICES ASSUME p \in {"serial", "random", "config", "nonce", "gendig", "write", "priv", "plain",
                             "read", "ecdh", "load", "sign", "verify", "verify_mac", "secureboot"}
               PROVE  After(p, c, u, r)
    BY DEF After
  <1>1. CASE p \in {"serial", "random", "config"}
    BY <1>1 DEF Reaction, Answers, After
  <1>2. CASE p = "nonce"
    BY <1>2 DEF Reaction, Answers, After
  <1>3. CASE p = "gendig"
    BY <1>3 DEF Reaction, Answers, Refuses, After
  <1>4. CASE p \in {"write", "priv"}
    BY <1>4 DEF Reaction, After
  <1>5. CASE p \in {"plain", "read"}
    BY <1>5 DEF Reaction, Answers, Refuses, After
  <1>6. CASE p = "ecdh"
    BY <1>6 DEF Reaction, Answers, After
  <1>7. CASE p = "load"
    BY <1>7 DEF Reaction, After
  <1>8. CASE p = "sign"
    BY <1>8 DEF Reaction, Answers, Refuses, After
  <1>9. CASE p \in {"verify", "verify_mac"}
    <2>1. r \in {Refuses, OnVerify(c)}
      BY <1>9 DEF Reaction
    <2>2. OnVerify(c).chip \in {chip, Spent}
      BY DEF OnVerify, Answers, Refuses
    <2> QED BY <1>9, <2>1, <2>2 DEF Refuses, After
  <1>10. CASE p = "secureboot"
    <2>1. r = OnSecureboot(c)
      BY <1>10 DEF Reaction
    <2>2. OnSecureboot(c).chip = Spent
      BY DEF OnSecureboot, Answers, Refuses
    <2> QED BY <1>10, <2>1, <2>2 DEF After
  <1> QED
    BY <1>1, <1>2, <1>3, <1>4, <1>5, <1>6, <1>7, <1>8, <1>9, <1>10

\* A chip whose TempKey is spent.
LEMMA SpentChip ==
    ASSUME Typed
    PROVE  /\ Spent \in Chips /\ KeyHolds(Spent) /\ Spent.slot = chip.slot
           /\ Refuses.chip = Spent /\ Refuses.ok = FALSE
           /\ \A new, out : Answers(new, out).chip = new /\ Answers(new, out).out = out
  <1>1. Spent \in Chips /\ KeyHolds(Spent) /\ Spent.slot = chip.slot
    BY DEF Typed, Spent, Chips, KeyHolds
  <1> QED BY <1>1 DEF Refuses, Answers

\* A sealed write changes only its slot, to its data, and takes the slots' key.
LEMMA WriteWrites ==
    ASSUME Typed, NEW c, CallOK(c), UnderWay(c), c.op \in {"write", "priv"}, c.step = 4
    PROVE  /\ OnWrite(c).chip \in Chips /\ KeyHolds(OnWrite(c).chip)
           /\ OnWrite(c).ok => OnWrite(c).chip.slot[c.slot] = c.data
           /\ \A s \in Slots : OnWrite(c).chip.slot[s] # chip.slot[s] =>
                 /\ c.slot = s /\ OnWrite(c).chip.slot[s] = c.data
                 /\ KeyHolds(chip) => c.key = chip.slot[KeySlot]
  <1>1. CASE OnWrite(c).ok
    <2> DEFINE new == [Spent EXCEPT !.slot[c.slot] = c.data]
    <2>1. Authorized /\ c.tk = chip.tk /\ OnWrite(c).chip = new
      BY <1>1, WriteTaken
    <2>2. new \in Chips /\ new.valid = FALSE /\ new.slot = [chip.slot EXCEPT ![c.slot] = c.data]
      BY SpentChip DEF Chips, CallOK, Spent, Typed
    <2>3. ASSUME KeyHolds(chip) PROVE c.key = chip.slot[KeySlot]
      <3>1. PICK n \in Nat : c.tk = Append(<<Rand(n)>>, Dig(c.keyId, c.key))
        BY DEF UnderWay, HostGenDig, HostNonce
      <3>2. chip.tk[Len(chip.tk)] = Dig(KeySlot, chip.slot[KeySlot])
        BY <2>1, <2>3 DEF KeyHolds, Authorized
      <3>3. Dig(c.keyId, c.key) = Dig(KeySlot, chip.slot[KeySlot])
        <4>1. Len(<<Rand(n)>>) = 1 /\ <<Rand(n)>> \in Seq({Rand(n)})
          OBVIOUS
        <4>2. c.tk[Len(c.tk)] = Dig(c.keyId, c.key)
          BY <3>1, <4>1
        <4> QED BY <4>2, <3>2, <2>1
      <3> QED BY <3>3 DEF Dig
    <2> QED BY <2>1, <2>2, <2>3 DEF KeyHolds, Chips, CallOK, Typed
  <1>2. CASE ~OnWrite(c).ok
    <2>1. OnWrite(c) = Refuses
      BY <1>2 DEF OnWrite, Answers
    <2> QED BY <2>1, SpentChip
  <1> QED BY <1>1, <1>2

\* Every packet: what it leaves of the chip, and what it does to the slots.
LEMMA Reacts ==
    ASSUME Typed, Calling, NEW u \in Users, Open(u),
           NEW c, c = call[u], NEW p, p = Packets(c.op)[c.step],
           NEW r, r = Reaction(p, c, u)
    PROVE  /\ r.chip \in Chips
           /\ KeyHolds(chip) /\ KeptOut => KeyHolds(r.chip)
           /\ r.ok /\ p \in {"write", "priv"} => r.chip.slot[c.slot] = c.data
           /\ \A s \in Slots : r.chip.slot[s] # chip.slot[s] =>
                 /\ c.slot = s /\ r.chip.slot[s] = c.data
                 /\ c.op # "ecdh" /\ KeyHolds(chip) => c.key = chip.slot[KeySlot]
  <1>0. /\ CallOK(c) /\ UnderWay(c)
        /\ p \in {"write", "priv"} => c.op = p /\ c.step = 4
        /\ p = "ecdh" => c.op = p
        /\ p \in {"serial", "random", "config", "nonce", "gendig", "write", "priv", "plain",
                   "read", "ecdh", "load", "sign", "verify", "verify_mac", "secureboot"}
    <2>1. CallOK(c) /\ UnderWay(c)
      BY DEF Typed, Calling
    <2>2. c.op \in Ops /\ c.step \in 1..Len(Packets(c.op))
      BY <2>1 DEF CallOK, UnderWay
    <2> QED BY <2>1, <2>2, PlaceOf
  <1>a. After(p, c, u, r)
    BY ChipAfter
  <1>1. CASE p \in {"serial", "random", "config"}
    <2>1. r.chip = chip
      BY <1>1, <1>a DEF After
    <2> QED BY <1>1, <2>1 DEF Typed
  <1>2. CASE p = "nonce"
    <2> DEFINE new == [chip EXCEPT !.tk = HostNonce(drawn + 1), !.valid = TRUE, !.dig = NoData]
    <2>1. r.chip = new
      BY <1>2, <1>a DEF After
    <2>2. HostNonce(drawn + 1) \in Seq(Terms)
      BY KeyAssumption DEF HostNonce, Rand, Terms, Typed
    <2>3. new \in Chips /\ new.slot = chip.slot /\ new.dig = NoData
      BY <2>2 DEF Chips, Typed
    <2>4. KeyHolds(new)
      BY <2>3, KeyAssumption DEF KeyHolds
    <2> QED BY <1>2, <2>1, <2>3, <2>4
  <1>3. CASE p = "gendig"
    <2> DEFINE tk == Append(chip.tk, Dig(c.keyId, chip.slot[c.keyId]))
               new == [chip EXCEPT !.tk = tk, !.dig = c.keyId]
    <2>1. r.chip = new \/ r.chip = Spent
      BY <1>3, <1>a DEF After
    <2>2. Dig(c.keyId, chip.slot[c.keyId]) \in Terms
      BY <1>0 DEF CallOK, Typed, Chips, Dig, Terms
    <2>3. tk \in Seq(Terms) /\ tk # <<>> /\ tk[Len(tk)] = Dig(c.keyId, chip.slot[c.keyId])
      BY <2>2 DEF Typed, Chips
    <2>4. new \in Chips /\ new.slot = chip.slot /\ new.dig = c.keyId /\ new.tk = tk
      BY <2>3, <1>0 DEF Chips, Typed, CallOK
    <2>5. KeyHolds(new)
      BY <2>3, <2>4 DEF KeyHolds
    <2> QED BY <1>3, <2>1, <2>4, <2>5, SpentChip
  <1>4. CASE p \in {"write", "priv"}
    <2>1. r = OnWrite(c)
      BY <1>4, <1>a DEF After
    <2> QED BY <1>4, <1>0, <2>1, WriteWrites
  <1>5. CASE p \in {"plain", "read", "secureboot"}
    <2>1. r.chip = Spent
      BY <1>5, <1>a DEF After
    <2> QED BY <1>5, <2>1, SpentChip
  <1>6. CASE p = "ecdh"
    <2> DEFINE new == [chip EXCEPT !.slot[c.slot] = c.data]
    <2>1. r.chip = new
      BY <1>6, <1>a DEF After
    <2>2. c.op = "ecdh" /\ (KeptOut => c.slot # KeySlot)
      BY <1>6, <1>0 DEF KeptOut
    <2>3. /\ new \in Chips /\ new.slot = [chip.slot EXCEPT ![c.slot] = c.data]
          /\ new.tk = chip.tk /\ new.valid = chip.valid /\ new.dig = chip.dig
      BY <1>0 DEF Chips, Typed, CallOK
    <2>4. KeptOut => new.slot[KeySlot] = chip.slot[KeySlot]
      BY <2>2, <2>3, KeyAssumption DEF Chips, Typed
    <2>5. KeyHolds(chip) /\ KeptOut => KeyHolds(new)
      BY <2>3, <2>4 DEF KeyHolds
    <2> QED BY <1>6, <2>1, <2>2, <2>3, <2>5 DEF Chips, Typed, CallOK
  <1>7. CASE p = "load"
    <2>1. r = OnLoad(c, u)
      BY <1>7, <1>a DEF After
    <2> DEFINE buffered == [chip EXCEPT !.msg = c.data, !.nonce = u, !.filled = TRUE]
               loaded == [chip EXCEPT !.tk = <<Msg(c.data)>>, !.valid = TRUE, !.dig = NoData]
    <2>2. r.chip = buffered \/ r.chip = loaded
      BY <2>1, SpentChip DEF OnLoad
    <2>3. /\ buffered \in Chips /\ buffered.slot = chip.slot /\ buffered.tk = chip.tk
          /\ buffered.valid = chip.valid /\ buffered.dig = chip.dig
      BY <1>0 DEF Chips, Typed, CallOK
    <2>4. <<Msg(c.data)>> \in Seq(Terms)
      BY <1>0, KeyAssumption DEF Msg, Terms, CallOK
    <2>5. loaded \in Chips /\ loaded.slot = chip.slot /\ loaded.dig = NoData
      BY <2>4 DEF Chips, Typed
    <2>6. KeyHolds(chip) => KeyHolds(buffered)
      BY <2>3 DEF KeyHolds
    <2>7. KeyHolds(loaded)
      BY <2>5, KeyAssumption DEF KeyHolds
    <2> QED BY <1>7, <2>2, <2>3, <2>5, <2>6, <2>7
  <1>8. CASE p \in {"sign", "verify", "verify_mac"}
    <2>1. r.chip \in {chip, Spent}
      BY <1>8, <1>a DEF After
    <2>2. chip \in Chips
      BY DEF Typed
    <2> QED BY <1>8, <2>1, <2>2, SpentChip
  <1> QED BY <1>0, <1>1, <1>2, <1>3, <1>4, <1>5, <1>6, <1>7, <1>8

-----------------------------------------------------------------------------
(* What a packet does to the call *)

\* The record of a call that has returned.
LEMMA IdleCall == CallOK(Idle) /\ Idle.status = "ok" /\ Idle.verified = FALSE
  BY KeyAssumption DEF Idle, CallOK, Ops

\* A call that fails ends.
LEMMA GivenUp == ASSUME NEW c PROVE CallOK(GiveUp(c)) /\ GiveUp(c).status = "failed"
  BY KeyAssumption DEF GiveUp, Idle, CallOK, Ops

\* What call c keeps (k) of the answer to packet p.
Kept(c, u, p, out, k) ==
    /\ p = "nonce" => k = [c EXCEPT !.tk = HostNonce(out)]
    /\ p = "gendig" => k = [c EXCEPT !.tk = HostGenDig(c.tk, c.keyId, c.key)]
    /\ p = "read" => k = [c EXCEPT !.out = Decrypt(out, c.tk)]
    /\ p \in {"sign", "secureboot"} => k = [c EXCEPT !.out = out]
    /\ p = "verify" => k = [c EXCEPT !.verified = out]
    /\ p = "verify_mac" => k = [c EXCEPT !.verified = Accepts(out, VerifyMac(c, u))]
    /\ p = "config" => k = [c EXCEPT !.verified = Accepts(c.out, SecurebootMac(c))]
    /\ p \in {"serial", "random", "write", "priv", "plain", "ecdh", "load"} => k = c

\* Kept says what Keep does.
LEMMA Keeps == ASSUME NEW c, NEW u, NEW p, NEW out PROVE Kept(c, u, p, out, Keep(c, u, p, out))
  BY DEF Keep, Kept

\* The fields of a call that its packets do not change.
LEMMA KeptFields ==
    ASSUME NEW c, CallOK(c), NEW u, NEW p, NEW out, NEW k, Kept(c, u, p, out, k),
           p \in {"serial", "random", "config", "nonce", "gendig", "write", "priv", "plain",
                  "read", "ecdh", "load", "sign", "verify", "verify_mac", "secureboot"},
           p = "nonce" => out \in Nat
    PROVE  /\ CallOK(k) /\ k.op = c.op /\ k.slot = c.slot /\ k.data = c.data /\ k.key = c.key
           /\ k.keyId = c.keyId /\ k.sig = c.sig /\ k.step = c.step /\ k.status = c.status
           /\ p \notin {"verify", "verify_mac", "config"} => k.verified = c.verified
           /\ p = "nonce" => k.tk = HostNonce(out)
           /\ p = "gendig" => k.tk = HostGenDig(c.tk, c.keyId, c.key)
           /\ p = "secureboot" => k.out = out
  <1>1. CASE p = "nonce"
    <2>1. HostNonce(out) \in Seq(Terms)
      BY <1>1, KeyAssumption DEF HostNonce, Rand, Terms
    <2>2. k = [c EXCEPT !.tk = HostNonce(out)]
      BY <1>1 DEF Kept
    <2> QED BY <1>1, <2>1, <2>2 DEF CallOK
  <1>2. CASE p = "gendig"
    <2>1. HostGenDig(c.tk, c.keyId, c.key) \in Seq(Terms)
      BY DEF HostGenDig, Dig, Terms, CallOK
    <2>2. k = [c EXCEPT !.tk = HostGenDig(c.tk, c.keyId, c.key)]
      BY <1>2 DEF Kept
    <2> QED BY <1>2, <2>1, <2>2 DEF CallOK
  <1>3. CASE p \in {"read", "sign", "secureboot"}
    <2>1. k = [c EXCEPT !.out = IF p = "read" THEN Decrypt(out, c.tk) ELSE out]
      BY <1>3 DEF Kept
    <2> QED BY <1>3, <2>1 DEF CallOK
  <1>4. CASE p \in {"verify", "verify_mac", "config"}
    <2>1. PICK verdict : k = [c EXCEPT !.verified = verdict]
      BY <1>4 DEF Kept
    <2> QED BY <1>4, <2>1 DEF CallOK
  <1>5. CASE p \in {"serial", "random", "write", "priv", "plain", "ecdh", "load"}
    <2>1. k = c
      BY <1>5 DEF Kept
    <2> QED BY <1>5, <2>1
  <1> QED BY <1>1, <1>2, <1>3, <1>4, <1>5

\* A call that goes on.
LEMMA NextStep ==
    ASSUME NEW k, CallOK(k), NEW d, d = [k EXCEPT !.step = @ + 1]
    PROVE  /\ CallOK(d) /\ d.step = k.step + 1 /\ d.status = k.status /\ d.op = k.op /\ d.slot = k.slot
           /\ d.data = k.data /\ d.key = k.key /\ d.keyId = k.keyId /\ d.sig = k.sig /\ d.tk = k.tk /\ d.out = k.out
           /\ d.verified = k.verified
  BY DEF CallOK

\* The MAC of a verification is that of a good signature of the call's own
\* message, made with the chip's IO key.
LEMMA VerifyVerdict ==
    ASSUME Typed, NEW u \in Users, NEW c, CallOK(c), NEW r, r = Reaction("verify_mac", c, u),
           c.op = "verify_mac", r.ok, r.out = VerifyMac(c, u)
    PROVE  c.sig = c.data /\ c.key = IoKey
  <1>1. r = OnVerify(c)
    BY DEF Reaction, Refuses
  <1>2. VerifyMac(c, u) # NoData
    BY KeyAssumption DEF VerifyMac, CallOK
  <1>3. /\ c.sig = Message(c)
        /\ r.out = [key |-> IoKey, msg |-> Message(c), nonce |-> chip.nonce, sig |-> c.sig]
    BY <1>1, <1>2 DEF OnVerify, Answers, Refuses
  <1> QED BY <1>3 DEF VerifyMac

\* The MAC of a secure boot that the host confirms was made with its own
\* IO key over its own digest.
LEMMA SecurebootVerdict ==
    ASSUME NEW c, CallOK(c), NEW tk \in Seq(Terms), c.out = SecurebootMac(c),
           c.out = [key |-> HashedKey(tk, IoKey), msg |-> c.sig, nonce |-> NoData, sig |-> c.sig]
    PROVE  c.sig = c.data /\ c.key = IoKey
  <1>1. HashedKey(tk, IoKey) = HashedKey(c.tk, c.key) /\ c.sig = c.data
    BY DEF SecurebootMac
  <1>2. Append(tk, Io(IoKey)) = Append(c.tk, Io(c.key))
    BY <1>1 DEF HashedKey
  <1>3. /\ Io(IoKey) \in Terms /\ Io(c.key) \in Terms /\ c.tk \in Seq(Terms)
    BY KeyAssumption DEF Io, Terms, CallOK
  <1>4. Io(IoKey) = Io(c.key)
    <2>1. Append(tk, Io(IoKey))[Len(tk) + 1] = Io(IoKey) /\ Len(Append(tk, Io(IoKey))) = Len(tk) + 1
      BY <1>3
    <2>2. Append(c.tk, Io(c.key))[Len(c.tk) + 1] = Io(c.key) /\ Len(Append(c.tk, Io(c.key))) = Len(c.tk) + 1
      BY <1>3
    <2> QED BY <1>2, <2>1, <2>2
  <1> QED BY <1>1, <1>4 DEF Io

\* A secure boot that goes on has the chip's MAC over a good digest.
LEMMA SecurebootGoesOn ==
    ASSUME Typed, NEW u \in Users, NEW c, CallOK(c), NEW r, r = Reaction("secureboot", c, u),
           r.ok, r.out # NoData
    PROVE  \E tk \in Seq(Terms) : r.out = [key |-> HashedKey(tk, IoKey), msg |-> c.sig,
                                           nonce |-> NoData, sig |-> c.sig]
  <1>1. r = OnSecureboot(c)
    BY DEF Reaction
  <1>2. r.out = [key |-> HashedKey(chip.tk, IoKey), msg |-> c.sig, nonce |-> NoData, sig |-> c.sig]
    BY <1>1 DEF OnSecureboot, Answers, Refuses
  <1> QED BY <1>2 DEF Typed, Chips

\* A packet that was carried out and answered takes its call on, or ends it.
LEMMA Advances ==
    ASSUME Typed, Calling, NEW u \in Users, Open(u), NEW c, c = call[u],
           NEW p, p = Packets(c.op)[c.step], NEW r, r = Reaction(p, c, u), r.ok,
           NEW d, d = Advance(c, u, p, r.out)
    PROVE  /\ CallOK(d)
           /\ d.status = "ok" => Ends(c, p, r.out)
           /\ d.status = "open" => UnderWay(d) /\ d.op = c.op /\ d.slot = c.slot
           /\ d.status = "ok" /\ d.verified /\ c.op \in {"verify_mac", "secureboot"} =>
                 c.sig = c.data /\ c.key = IoKey
  <1>0. /\ CallOK(c) /\ UnderWay(c) /\ c.status = "open"
        /\ c.op \in Ops /\ c.step \in 1..Len(Packets(c.op))
        /\ c.verified = FALSE
    BY DEF Typed, Calling, Open, CallOK, UnderWay
  <1>1. /\ p \in {"serial", "random", "config", "nonce", "gendig", "write", "priv", "plain",
                  "read", "ecdh", "load", "sign", "verify", "verify_mac", "secureboot"}
        /\ c.op \in {"write", "priv"} => (c.step = 2 => p = "nonce") /\ (c.step = 3 => p = "gendig")
        /\ c.op = "secureboot" => p \in {"nonce", "secureboot", "config"}
        /\ c.op = "secureboot" /\ c.step = 2 => p = "secureboot"
        /\ c.op = "verify_mac" => p \in {"load", "verify_mac"}
        /\ p = "config" => c.step = 3
        /\ p \in {"verify", "verify_mac", "config"} => c.step = Len(Packets(c.op))
    BY <1>0, PlaceOf
  <1>2. p = "nonce" => r.out = drawn + 1 /\ r.out \in Nat
    BY DEF Reaction, Answers, Typed
  <1>3. PICK k : k = Keep(c, u, p, r.out) /\ Kept(c, u, p, r.out, k)
    BY Keeps
  <1>3a. Kept(c, u, p, r.out, k)
    BY <1>3
  <1>4. /\ CallOK(k) /\ k.op = c.op /\ k.slot = c.slot /\ k.key = c.key /\ k.sig = c.sig
        /\ k.keyId = c.keyId /\ k.step = c.step /\ k.status = c.status
        /\ p \notin {"verify", "verify_mac", "config"} => k.verified = FALSE
        /\ p = "nonce" => k.tk = HostNonce(r.out)
        /\ p = "gendig" => k.tk = HostGenDig(c.tk, c.keyId, c.key)
        /\ p = "secureboot" => k.out = r.out
    BY <1>0, <1>1, <1>2, <1>3a, KeptFields
  <1>5. CASE Ends(c, p, r.out)
    <2>1. d = [Idle EXCEPT !.out = k.out, !.verified = k.verified]
      BY <1>3, <1>5 DEF Advance
    <2>2. CallOK(d) /\ d.status = "ok" /\ d.verified = k.verified
      BY <2>1, IdleCall DEF CallOK, Idle
    <2>3. ASSUME k.verified, c.op = "verify_mac"
          PROVE  c.sig = c.data /\ c.key = IoKey
      <3>1. p = "verify_mac"
        BY <2>3, <1>1, <1>4
      <3>2. r.out = VerifyMac(c, u)
        <4>1. k = [c EXCEPT !.verified = Accepts(r.out, VerifyMac(c, u))]
          BY <3>1, <1>3 DEF Kept
        <4> QED BY <4>1, <2>3, <1>0 DEF Accepts, CallOK
      <3> QED BY <3>1, <3>2, <2>3, <1>0, VerifyVerdict
    <2>4. ASSUME k.verified, c.op = "secureboot"
          PROVE  c.sig = c.data /\ c.key = IoKey
      <3>1. p = "config" /\ c.step = 3
        BY <2>4, <1>0, <1>1, <1>4
      <3>2. c.out = SecurebootMac(c)
        <4>1. k = [c EXCEPT !.verified = Accepts(c.out, SecurebootMac(c))]
          BY <3>1, <1>3 DEF Kept
        <4> QED BY <4>1, <2>4, <1>0 DEF Accepts, CallOK
      <3> QED BY <3>1, <3>2, <2>4, <1>0, SecurebootVerdict DEF UnderWay
    <2> QED BY <2>2, <2>3, <2>4, <1>5
  <1>6. CASE ~Ends(c, p, r.out)
    <2>1. d = [k EXCEPT !.step = @ + 1]
      BY <1>3, <1>6 DEF Advance
    <2>2. /\ CallOK(d) /\ d.step = c.step + 1 /\ d.status = "open" /\ d.op = c.op /\ d.slot = c.slot
          /\ d.key = c.key /\ d.keyId = c.keyId /\ d.sig = c.sig /\ d.tk = k.tk /\ d.out = k.out
          /\ d.verified = k.verified
      BY <2>1, <1>4, <1>0, NextStep
    <2>3. c.step # Len(Packets(c.op)) /\ d.step \in 1..Len(Packets(d.op)) /\ d.verified = FALSE
      <3>1. c.step # Len(Packets(c.op))
        BY <1>6 DEF Ends
      <3>2. c.step \in 1..Len(Packets(c.op)) /\ Len(Packets(c.op)) \in Nat
        BY <1>0, PlaceOf
      <3>3. d.step \in 1..Len(Packets(c.op))
        BY <3>1, <3>2, <2>2
      <3>4. d.verified = FALSE
        BY <3>1, <2>2, <1>1, <1>4
      <3> QED BY <3>1, <3>3, <3>4, <2>2
    <2>4. ASSUME d.op \in {"write", "priv"}, d.step = 3
          PROVE  \E n \in Nat : d.tk = HostNonce(n)
      <3>1. p = "nonce"
        BY <2>4, <2>2, <1>0, <1>1 DEF CallOK
      <3> QED BY <3>1, <2>2, <1>2, <1>4
    <2>5. ASSUME d.op \in {"write", "priv"}, d.step = 4
          PROVE  \E n \in Nat : d.tk = HostGenDig(HostNonce(n), d.keyId, d.key)
      <3>1. c.step = 3 /\ p = "gendig" /\ \E n \in Nat : c.tk = HostNonce(n)
        BY <2>5, <2>2, <1>0, <1>1 DEF CallOK, UnderWay
      <3> QED BY <3>1, <2>2, <1>4
    <2>6. ASSUME d.op = "secureboot", d.step = 3
          PROVE  \E tk \in Seq(Terms) : d.out = [key |-> HashedKey(tk, IoKey), msg |-> d.sig,
                                                 nonce |-> NoData, sig |-> d.sig]
      <3>1. p = "secureboot" /\ r.out # NoData
        BY <2>6, <2>2, <1>0, <1>1, <1>6 DEF CallOK, Ends
      <3> QED BY <3>1, <2>2, <1>4, <1>0, SecurebootGoesOn
    <2> QED BY <2>2, <2>3, <2>4, <2>5, <2>6 DEF UnderWay
  <1> QED BY <1>5, <1>6

\* A packet, whatever becomes of it: what it leaves of the chip and the call.
LEMMA PacketStep ==
    ASSUME Typed, Calling, NEW u \in Users, Packet(u), NEW c, c = call[u]
    PROVE  /\ chip' \in Chips /\ drawn' \in Nat
           /\ KeyHolds(chip) /\ KeptOut => KeyHolds(chip')
           /\ \A s \in Slots : chip'.slot[s] # chip.slot[s] =>
                 /\ c.slot = s /\ chip'.slot[s] = c.data
                 /\ c.op # "ecdh" /\ KeyHolds(chip) => c.key = chip.slot[KeySlot]
           /\ \E d : /\ call' = [call EXCEPT ![u] = d] /\ CallOK(d)
                     /\ d.status = "open" => UnderWay(d) /\ d.op = c.op /\ d.slot = c.slot
                     /\ d.status = "ok" /\ d.verified /\ c.op \in {"verify_mac", "secureboot"} =>
                           c.sig = c.data /\ c.key = IoKey
                     /\ d.status = "ok" /\ c.op \in {"write", "priv"} => chip'.slot[c.slot] = c.data
  <1> DEFINE p == Packets(c.op)[c.step]
             r == Reaction(p, c, u)
  <1>1. PICK fate \in Fates :
          /\ chip' = IF fate = "failed" THEN chip ELSE r.chip
          /\ call' = [call EXCEPT ![u] = IF fate = "done" /\ r.ok THEN Advance(c, u, p, r.out)
                                         ELSE GiveUp(c)]
          /\ drawn' = IF p = "nonce" /\ fate # "failed" THEN drawn + 1 ELSE drawn
    BY DEF Packet
  <1>2. Open(u) /\ chip \in Chips /\ drawn \in Nat
    BY DEF Packet, Typed
  <1>3. /\ r.chip \in Chips
        /\ KeyHolds(chip) /\ KeptOut => KeyHolds(r.chip)
        /\ r.ok /\ p \in {"write", "priv"} => r.chip.slot[c.slot] = c.data
        /\ \A s \in Slots : r.chip.slot[s] # chip.slot[s] =>
              /\ c.slot = s /\ r.chip.slot[s] = c.data
              /\ c.op # "ecdh" /\ KeyHolds(chip) => c.key = chip.slot[KeySlot]
    BY <1>2, Reacts
  <1>4. CASE fate = "done" /\ r.ok
    <2> DEFINE d == Advance(c, u, p, r.out)
    <2>1. chip' = r.chip /\ call' = [call EXCEPT ![u] = d] /\ drawn' \in Nat
      BY <1>1, <1>2, <1>4
    <2>2. /\ CallOK(d)
          /\ d.status = "ok" => Ends(c, p, r.out)
          /\ d.status = "open" => UnderWay(d) /\ d.op = c.op /\ d.slot = c.slot
          /\ d.status = "ok" /\ d.verified /\ c.op \in {"verify_mac", "secureboot"} =>
                c.sig = c.data /\ c.key = IoKey
      BY <1>2, <1>4, Advances
    <2>3. ASSUME d.status = "ok", c.op \in {"write", "priv"}
          PROVE  chip'.slot[c.slot] = c.data
      <3>1. CallOK(c) /\ UnderWay(c)
        BY <1>2 DEF Typed, Calling
      <3>2. p = c.op
        BY <3>1, <2>2, <2>3, PlaceOf DEF Ends, CallOK, UnderWay
      <3> QED BY <3>2, <2>1, <2>3, <1>3, <1>4
    <2> QED BY <1>3, <2>1, <2>2, <2>3
  <1>5. CASE ~(fate = "done" /\ r.ok)
    <2>1. chip' = chip \/ chip' = r.chip
      BY <1>1
    <2>2. call' = [call EXCEPT ![u] = GiveUp(c)]
      BY <1>1, <1>5
    <2>3. drawn' \in Nat
      BY <1>1, <1>2
    <2>4. CallOK(GiveUp(c)) /\ GiveUp(c).status = "failed"
      BY GivenUp
    <2>5. /\ chip' \in Chips
          /\ KeyHolds(chip) /\ KeptOut => KeyHolds(chip')
          /\ \A s \in Slots : chip'.slot[s] # chip.slot[s] =>
                /\ c.slot = s /\ chip'.slot[s] = c.data
                /\ c.op # "ecdh" /\ KeyHolds(chip) => c.key = chip.slot[KeySlot]
      BY <1>2, <1>3, <2>1
    <2> QED BY <2>2, <2>3, <2>4, <2>5
  <1> QED BY <1>4, <1>5

-----------------------------------------------------------------------------
(* The specification *)

\* The records of calls that begin.
LEMMA BeginStep ==
    ASSUME Typed, Calling, NEW u \in Users, Begin(u)
    PROVE  /\ chip' = chip /\ drawn' = drawn /\ ~Open(u)
           /\ \E d : /\ call' = [call EXCEPT ![u] = d] /\ CallOK(d) /\ UnderWay(d)
                     /\ d.status = "open" /\ d.step = 1
                     /\ KeySlotIsNoTarget /\ d.op = "ecdh" => d.slot # KeySlot
  <1>1. PICK c \in Calls :
          call' = [call EXCEPT ![u] =
                     [op |-> c.op, slot |-> c.slot, data |-> c.data, key |-> c.key, keyId |-> c.keyId,
                      sig |-> c.sig, step |-> 1, tk |-> <<>>, out |-> NoData, verified |-> FALSE,
                      status |-> "open"]]
    BY DEF Begin
  <1> DEFINE d == [op |-> c.op, slot |-> c.slot, data |-> c.data, key |-> c.key, keyId |-> c.keyId,
                   sig |-> c.sig, step |-> 1, tk |-> <<>>, out |-> NoData, verified |-> FALSE,
                   status |-> "open"]
  <1>2. /\ c.op \in Ops /\ c.slot \in Slots /\ c.keyId \in Slots
        /\ c.data \in Data /\ c.key \in Data /\ c.sig \in Data
    BY CallsAssumption DEF Ops
  <1>3. CallOK(d) /\ d.status = "open" /\ d.step = 1 /\ d.op = c.op /\ d.slot = c.slot
    BY <1>2 DEF CallOK
  <1>4. UnderWay(d)
    <2>1. 1 \in 1..Len(Packets(c.op))
      BY <1>2 DEF Ops, Packets
    <2> QED BY <2>1 DEF UnderWay
  <1>5. KeySlotIsNoTarget /\ d.op = "ecdh" => d.slot # KeySlot
    BY <1>3 DEF KeySlotIsNoTarget
  <1> QED BY <1>1, <1>3, <1>4, <1>5 DEF Begin

\* What holds of every reachable state, and what more holds if no premaster
\* secret is aimed at the slot of the keys.
IInv == Typed /\ Calling
KInv == KeySlotIsNoTarget => KeptOut /\ KeyHolds(chip)

\* The first states have the invariants.
LEMMA Starts == Init => IInv /\ KInv
  <1> SUFFICES ASSUME Init PROVE IInv /\ KInv
    OBVIOUS
  <1>1. \A u \in Users : call[u] = Idle /\ CallOK(call[u]) /\ call[u].status = "ok"
    BY IdleCall DEF Init
  <1>2. chip \in Chips /\ KeyHolds(chip)
    BY DEF Init, Chips, KeyHolds
  <1>3. DOMAIN call = Users /\ drawn \in Nat
    BY DEF Init
  <1> QED BY <1>1, <1>2, <1>3 DEF IInv, KInv, Typed, Calling, KeptOut, Open

\* Every step keeps the invariants.
LEMMA Goes == IInv /\ KInv /\ [Next]_vars => IInv' /\ KInv'
  <1> SUFFICES ASSUME IInv, KInv, [Next]_vars PROVE IInv' /\ KInv'
    OBVIOUS
  <1>0. Typed /\ Calling
    BY DEF IInv
  <1>1. CASE Sleep
    <2>1. call' = call /\ drawn' = drawn
      BY <1>1 DEF Sleep
    <2>2. chip' = [chip EXCEPT !.valid = FALSE, !.filled = FALSE]
      BY <1>1 DEF Sleep
    <2>3. chip' \in Chips /\ KeyHolds(chip')
      BY <2>2, <1>0 DEF Typed, Chips, KeyHolds
    <2> QED BY <2>1, <2>3, <1>0 DEF IInv, KInv, Typed, Calling, KeptOut, Open
  <1>2. ASSUME NEW u \in Users, Begin(u) PROVE IInv' /\ KInv'
    <2>1. PICK d : /\ call' = [call EXCEPT ![u] = d] /\ CallOK(d) /\ UnderWay(d)
                   /\ d.status = "open"
                   /\ KeySlotIsNoTarget /\ d.op = "ecdh" => d.slot # KeySlot
      BY <1>0, <1>2, BeginStep
    <2>2. chip' = chip /\ drawn' = drawn
      BY <1>2 DEF Begin
    <2>3. DOMAIN call' = Users /\ \A v \in Users : call'[v] = IF v = u THEN d ELSE call[v]
      BY <2>1, <1>0 DEF Typed
    <2>4. Typed' /\ Calling'
      BY <2>1, <2>2, <2>3, <1>0 DEF Typed, Calling, Open
    <2>5. KInv'
      BY <2>1, <2>2, <2>3 DEF KInv, KeptOut, Open
    <2> QED BY <2>4, <2>5 DEF IInv
  <1>3. ASSUME NEW u \in Users, Packet(u) PROVE IInv' /\ KInv'
    <2>1. chip' \in Chips /\ drawn' \in Nat /\ (KeyHolds(chip) /\ KeptOut => KeyHolds(chip'))
      BY <1>0, <1>3, PacketStep
    <2>2. PICK d : /\ call' = [call EXCEPT ![u] = d] /\ CallOK(d)
                   /\ d.status = "open" => UnderWay(d) /\ d.op = call[u].op /\ d.slot = call[u].slot
      BY <1>0, <1>3, PacketStep
    <2>3. DOMAIN call' = Users /\ \A v \in Users : call'[v] = IF v = u THEN d ELSE call[v]
      BY <2>2, <1>0 DEF Typed
    <2>4. Typed' /\ Calling'
      BY <2>1, <2>2, <2>3, <1>0 DEF Typed, Calling, Open
    <2>5. Open(u)
      BY <1>3 DEF Packet
    <2>6. KInv'
      BY <2>1, <2>2, <2>3, <2>5 DEF KInv, KeptOut, Open
    <2> QED BY <2>4, <2>6 DEF IInv
  <1>4. CASE UNCHANGED vars
    BY <1>4 DEF vars, IInv, KInv, Typed, Calling, KeptOut, Open
  <1> QED BY <1>1, <1>2, <1>3, <1>4 DEF Next

-----------------------------------------------------------------------------
(* Calls that nobody disturbs *)

\* What a call that is undisturbed has in common with the chip: the nonce, the
\* nonce with a key hashed in, the message.
Nonced(c, ch) == ch.valid /\ \E n \in Nat : c.tk = HostNonce(n) /\ ch.tk = HostNonce(n)
Digged(c, ch) ==
    /\ ch.valid /\ ch.dig = c.keyId
    /\ \E n \in Nat : /\ c.tk = HostGenDig(HostNonce(n), c.keyId, c.key)
                      /\ ch.tk = HostGenDig(HostNonce(n), c.keyId, ch.slot[c.keyId])
Loaded(c, ch) ==
    IF ch.is608 THEN ch.filled /\ ch.msg = c.data ELSE ch.valid /\ ch.tk = <<Msg(c.data)>>
InStep(c, ch) ==
    /\ c.op \in {"write", "priv", "read"} =>
          (c.step = 3 => Nonced(c, ch)) /\ (c.step = 4 => Digged(c, ch))
    /\ c.op = "ecdh" =>
          /\ c.step > 1 => ch.slot[c.slot] = c.data
          /\ (c.step = 4 => Nonced(c, ch)) /\ (c.step = 5 => Digged(c, ch))
    /\ c.op = "secureboot" /\ c.step = 2 => Nonced(c, ch)
    /\ c.op = "sign" /\ c.step = 3 => Loaded(c, ch)
    /\ c.op = "verify" /\ c.step = 2 => Loaded(c, ch)
    /\ c.op = "verify_mac" /\ c.step = 2 => ch.filled /\ ch.msg = c.data
RInv == /\ DOMAIN mixed = Users
        /\ \A u \in Users : Open(u) /\ ~mixed[u] => InStep(call[u], chip)

\* Where each packet stands in each kind of call.
LEMMA WhereOf ==
    ASSUME NEW c, c.op \in Ops, c.step \in 1..Len(Packets(c.op)), NEW p, p = Packets(c.op)[c.step]
    PROVE  /\ p = "nonce" => \/ c.op \in {"write", "priv", "read"} /\ c.step = 2
                             \/ c.op = "ecdh" /\ c.step = 3
                             \/ c.op = "secureboot" /\ c.step = 1
           /\ p = "gendig" => \/ c.op \in {"write", "priv", "read"} /\ c.step = 3
                              \/ c.op = "ecdh" /\ c.step = 4
           /\ p = "read" => \/ c.op = "read" /\ c.step = 4
                            \/ c.op = "ecdh" /\ c.step = 5
           /\ p = "load" => \/ c.op = "sign" /\ c.step = 2
                            \/ c.op \in {"verify", "verify_mac"} /\ c.step = 1
           /\ p = "ecdh" => c.op = "ecdh" /\ c.step = 1
           /\ p = "serial" => \/ c.op \in {"write", "priv", "read"} /\ c.step = 1
                              \/ c.op = "ecdh" /\ c.step = 2
           /\ p = "random" => c.op = "sign" /\ c.step = 1
           /\ p = "sign" => c.op = "sign" /\ c.step = 3
           /\ p = "verify" => c.op = "verify" /\ c.step = 2
           /\ p = "verify_mac" => c.op = "verify_mac" /\ c.step = 2
           /\ p = "secureboot" => c.op = "secureboot" /\ c.step = 2
           /\ p = "plain" => c.op = "plain"
           /\ p = "config" => c.op = "secureboot"
  <1>1. CASE c.op \in {"write", "priv"} BY <1>1 DEF Packets
  <1>2. CASE c.op = "plain" BY <1>2 DEF Packets
  <1>3. CASE c.op = "read" BY <1>3 DEF Packets
  <1>4. CASE c.op = "ecdh" BY <1>4 DEF Packets
  <1>5. CASE c.op = "sign" BY <1>5 DEF Packets
  <1>6. CASE c.op = "verify" BY <1>6 DEF Packets
  <1>7. CASE c.op = "verify_mac" BY <1>7 DEF Packets
  <1>8. CASE c.op = "secureboot" BY <1>8 DEF Packets
  <1> QED BY <1>1, <1>2, <1>3, <1>4, <1>5, <1>6, <1>7, <1>8 DEF Ops

\* The packets that end a call.
LEMMA LastPackets ==
    ASSUME NEW c, c.op \in Ops, c.step \in 1..Len(Packets(c.op)),
           Packets(c.op)[c.step] \in {"config", "write", "priv", "plain", "read", "sign", "verify",
                                      "verify_mac"}
    PROVE  c.step = Len(Packets(c.op))
  <1>1. CASE c.op \in {"write", "priv"} BY <1>1 DEF Packets
  <1>2. CASE c.op = "plain" BY <1>2 DEF Packets
  <1>3. CASE c.op = "read" BY <1>3 DEF Packets
  <1>4. CASE c.op = "ecdh" BY <1>4 DEF Packets
  <1>5. CASE c.op = "sign" BY <1>5 DEF Packets
  <1>6. CASE c.op = "verify" BY <1>6 DEF Packets
  <1>7. CASE c.op = "verify_mac" BY <1>7 DEF Packets
  <1>8. CASE c.op = "secureboot" BY <1>8 DEF Packets
  <1> QED BY <1>1, <1>2, <1>3, <1>4, <1>5, <1>6, <1>7, <1>8 DEF Ops

\* A change of the chip that spares what a call relies on leaves it in step.
LEMMA Relied ==
    ASSUME NEW c, CallOK(c), NEW ch, ReliesOn(c, ch) = ReliesOn(c, chip), ch.is608 = chip.is608,
           InStep(c, chip)
    PROVE  InStep(c, ch)
  <1>1. CASE UsesBuffer(c)
    <2>1. ch.msg = chip.msg /\ ch.filled = chip.filled
      BY <1>1 DEF ReliesOn
    <2>2. c.op = "verify_mac" \/ (c.op \in {"sign", "verify"} /\ ch.is608)
      BY <1>1 DEF UsesBuffer
    <2> QED BY <2>1, <2>2 DEF InStep, Loaded
  <1>2. CASE ~UsesBuffer(c)
    <2>1. ch.tk = chip.tk /\ ch.valid = chip.valid /\ ch.dig = chip.dig /\ ch.slot = chip.slot
      BY <1>2 DEF ReliesOn
    <2>2. c.op # "verify_mac" /\ (c.op \in {"sign", "verify"} => ~ch.is608)
      BY <1>2 DEF UsesBuffer
    <2> QED BY <2>1, <2>2 DEF InStep, Loaded, Nonced, Digged
  <1> QED BY <1>1, <1>2

\* A packet carried out leaves the call under way in step with the chip.
LEMMA StaysInStep ==
    ASSUME Typed, Calling, NEW u \in Users, Open(u), NEW c, c = call[u],
           NEW p, p = Packets(c.op)[c.step], NEW r, r = Reaction(p, c, u), r.ok,
           NEW d, d = Advance(c, u, p, r.out), d.status = "open",
           Prepares(c, p) \/ InStep(c, chip)
    PROVE  InStep(d, r.chip)
  <1>0. /\ CallOK(c) /\ c.status = "open" /\ c.op \in Ops /\ c.step \in 1..Len(Packets(c.op))
        /\ c.step \in Nat /\ c.data \in Data /\ c.slot \in Slots /\ c.keyId \in Slots
        /\ chip \in Chips /\ drawn \in Nat
    BY DEF Typed, Calling, Open, CallOK, UnderWay
  <1>1. p \in {"serial", "random", "config", "nonce", "gendig", "write", "priv", "plain",
               "read", "ecdh", "load", "sign", "verify", "verify_mac", "secureboot"}
    BY <1>0, PlaceOf
  <1>2. p = "nonce" => r.out = drawn + 1 /\ r.out \in Nat
    BY <1>0 DEF Reaction, Answers
  <1>3. PICK k : k = Keep(c, u, p, r.out) /\ Kept(c, u, p, r.out, k)
    BY Keeps
  <1>4. /\ CallOK(k) /\ k.op = c.op /\ k.slot = c.slot /\ k.data = c.data /\ k.key = c.key
        /\ k.keyId = c.keyId /\ k.step = c.step
        /\ p = "nonce" => k.tk = HostNonce(r.out)
        /\ p = "gendig" => k.tk = HostGenDig(c.tk, c.keyId, c.key)
    BY <1>0, <1>1, <1>2, <1>3, KeptFields
  <1>5. ~Ends(c, p, r.out)
    BY DEF Advance, Ends, Idle
  <1>6. d = [k EXCEPT !.step = @ + 1]
    BY <1>3, <1>5 DEF Advance
  <1>7. /\ d.step = c.step + 1 /\ d.op = c.op /\ d.slot = c.slot /\ d.data = c.data /\ d.key = c.key
        /\ d.keyId = c.keyId /\ d.tk = k.tk
    BY <1>4, <1>6, NextStep
  <1>8. c.step # Len(Packets(c.op))
    BY <1>5 DEF Ends
  <1>9. After(p, c, u, r)
    BY ChipAfter
  <1>10. /\ p = "nonce" => \/ c.op \in {"write", "priv", "read"} /\ c.step = 2
                           \/ c.op = "ecdh" /\ c.step = 3
                           \/ c.op = "secureboot" /\ c.step = 1
         /\ p = "gendig" => \/ c.op \in {"write", "priv", "read"} /\ c.step = 3
                            \/ c.op = "ecdh" /\ c.step = 4
         /\ p = "load" => \/ c.op = "sign" /\ c.step = 2
                          \/ c.op \in {"verify", "verify_mac"} /\ c.step = 1
         /\ p = "ecdh" => c.op = "ecdh" /\ c.step = 1
         /\ p = "serial" => \/ c.op \in {"write", "priv", "read"} /\ c.step = 1
                            \/ c.op = "ecdh" /\ c.step = 2
         /\ p = "random" => c.op = "sign" /\ c.step = 1
         /\ p = "secureboot" => c.op = "secureboot" /\ c.step = 2
    BY <1>0, WhereOf
  <1>a. CASE p = "nonce"
    <2> DEFINE new == [chip EXCEPT !.tk = HostNonce(drawn + 1), !.valid = TRUE, !.dig = NoData]
    <2>1. r.chip = new
      BY <1>a, <1>9 DEF After
    <2>2. r.chip.valid /\ r.chip.tk = HostNonce(drawn + 1) /\ r.chip.slot = chip.slot
      BY <1>0, <2>1 DEF Chips
    <2>3. d.tk = HostNonce(drawn + 1) /\ drawn + 1 \in Nat
      BY <1>a, <1>0, <1>2, <1>4, <1>7
    <2>4. Nonced(d, r.chip)
      BY <2>2, <2>3 DEF Nonced
    <2>5. c.op = "ecdh" => r.chip.slot[d.slot] = d.data
      <3>1. c.op = "ecdh" => InStep(c, chip) /\ c.step = 3
        BY <1>a, <1>10 DEF Prepares
      <3>2. c.op = "ecdh" => chip.slot[c.slot] = c.data
        BY <3>1 DEF InStep
      <3> QED BY <3>2, <2>2, <1>7
    <2> QED BY <1>a, <1>0, <1>7, <2>4, <2>5, <1>10 DEF InStep
  <1>b. CASE p = "gendig"
    <2> DEFINE new == [chip EXCEPT !.tk = Append(chip.tk, Dig(c.keyId, chip.slot[c.keyId])),
                                   !.dig = c.keyId]
    <2>1. chip.valid /\ r.chip = new
      BY <1>b DEF Reaction, Answers, Refuses
    <2>2. /\ r.chip.valid /\ r.chip.tk = Append(chip.tk, Dig(c.keyId, chip.slot[c.keyId]))
          /\ r.chip.slot = chip.slot /\ r.chip.dig = c.keyId
      BY <1>0, <2>1 DEF Chips
    <2>3. InStep(c, chip)
      BY <1>b DEF Prepares
    <2>4. Nonced(c, chip) /\ (c.op = "ecdh" => chip.slot[c.slot] = c.data)
      BY <1>b, <1>0, <2>3, <1>10 DEF InStep
    <2>5. PICK n \in Nat : c.tk = HostNonce(n) /\ chip.tk = HostNonce(n)
      BY <2>4 DEF Nonced
    <2>6. Digged(d, r.chip)
      <3>1. d.tk = HostGenDig(HostNonce(n), d.keyId, d.key)
        BY <1>b, <1>4, <1>7, <2>5
      <3>2. r.chip.tk = HostGenDig(HostNonce(n), d.keyId, r.chip.slot[d.keyId])
        BY <1>7, <2>2, <2>5 DEF HostGenDig
      <3>3. r.chip.valid /\ r.chip.dig = d.keyId
        BY <1>7, <2>2
      <3> QED BY <3>1, <3>2, <3>3 DEF Digged
    <2>7. c.op = "ecdh" => r.chip.slot[d.slot] = d.data
      BY <1>7, <2>2, <2>4
    <2> QED BY <1>b, <1>7, <2>6, <2>7, <1>10 DEF InStep
  <1>c. CASE p = "load"
    <2> DEFINE buffered == [chip EXCEPT !.msg = c.data, !.nonce = u, !.filled = TRUE]
               loaded == [chip EXCEPT !.tk = <<Msg(c.data)>>, !.valid = TRUE, !.dig = NoData]
    <2>1. r.chip = IF c.op = "verify_mac" \/ chip.is608 THEN buffered ELSE loaded
      <3>1. r = OnLoad(c, u)
        BY <1>c, <1>9 DEF After
      <3>2. Target(c) = "msgdigbuf" <=> chip.is608
        BY DEF Target
      <3> QED BY <3>1, <3>2 DEF OnLoad, Answers
    <2>2. buffered.msg = c.data /\ buffered.filled /\ buffered.is608 = chip.is608
      BY <1>0 DEF Chips
    <2>3. loaded.valid /\ loaded.tk = <<Msg(c.data)>> /\ loaded.is608 = chip.is608
      BY <1>0 DEF Chips
    <2>4. /\ c.op = "verify_mac" => r.chip.filled /\ r.chip.msg = d.data
          /\ c.op # "verify_mac" => Loaded(d, r.chip)
      BY <1>7, <2>1, <2>2, <2>3 DEF Loaded
    <2> QED BY <1>c, <1>0, <1>7, <2>4, <1>10 DEF InStep
  <1>d. CASE p = "ecdh"
    <2>1. r.chip = [chip EXCEPT !.slot[c.slot] = c.data]
      BY <1>d, <1>9 DEF After
    <2>2. r.chip.slot[d.slot] = d.data
      BY <1>0, <1>7, <2>1 DEF Chips
    <2> QED BY <1>d, <1>0, <1>7, <2>2, <1>10 DEF InStep
  <1>e. CASE p \in {"serial", "random"}
    <2>1. r.chip = chip
      BY <1>e, <1>9 DEF After
    <2>2. InStep(c, chip)
      BY <1>e DEF Prepares
    <2>3. c.op = "ecdh" => r.chip.slot[d.slot] = d.data
      BY <1>e, <1>0, <1>7, <2>1, <2>2, <1>10 DEF InStep
    <2> QED BY <1>e, <1>0, <1>7, <2>3, <1>10 DEF InStep
  <1>f. CASE p = "secureboot"
    BY <1>f, <1>7, <1>10 DEF InStep
  <1>g. CASE p \in {"config", "write", "priv", "plain", "read", "sign", "verify", "verify_mac"}
    <2>1. c.step = Len(Packets(c.op))
      BY <1>g, <1>0, LastPackets
    <2> QED BY <2>1, <1>8
  <1> QED BY <1>1, <1>a, <1>b, <1>c, <1>d, <1>e, <1>f, <1>g

\* What a packet, or the sleep of the chip, leaves of its kind.
LEMMA SameKind ==
    ASSUME Typed, NEW c, NEW u, NEW p,
           p \in {"serial", "random", "config", "nonce", "gendig", "write", "priv", "plain",
                  "read", "ecdh", "load", "sign", "verify", "verify_mac", "secureboot"}
    PROVE  Reaction(p, c, u).chip.is608 = chip.is608
  <1> DEFINE r == Reaction(p, c, u)
  <1>1. After(p, c, u, r) /\ chip \in Chips
    BY ChipAfter DEF Typed
  <1>2. Spent.is608 = chip.is608
    BY <1>1 DEF Spent, Chips
  <1>3. CASE p \in {"serial", "random", "config", "nonce", "ecdh"}
    BY <1>1, <1>3 DEF After, Chips
  <1>4. CASE p = "gendig"
    BY <1>1, <1>2, <1>4 DEF After, Chips
  <1>5. CASE p \in {"write", "priv"}
    <2>1. r = OnWrite(c)
      BY <1>1, <1>5 DEF After
    <2> QED BY <2>1, <1>1 DEF OnWrite, Answers, Refuses, Spent, Chips
  <1>6. CASE p \in {"plain", "read", "secureboot", "sign", "verify", "verify_mac"}
    BY <1>1, <1>2, <1>6 DEF After
  <1>7. CASE p = "load"
    <2>1. r = OnLoad(c, u)
      BY <1>1, <1>7 DEF After
    <2> QED BY <2>1, <1>1 DEF OnLoad, Answers, Chips
  <1> QED BY <1>3, <1>4, <1>5, <1>6, <1>7

\* A call that is not the one to move, and stays undisturbed, stays in step.
LEMMA OthersStay ==
    ASSUME Typed, RInv, NEW v \in Users, Open(v), call'[v] = call[v], ~mixed'[v],
           mixed'[v] = (mixed[v] \/ (Open(v) /\ Touched(v))), chip'.is608 = chip.is608
    PROVE  InStep(call'[v], chip')
  <1>1. ~mixed[v] /\ ~Touched(v)
    OBVIOUS
  <1>2. ReliesOn(call[v], chip') = ReliesOn(call[v], chip)
    BY <1>1 DEF Touched
  <1>3. InStep(call[v], chip) /\ CallOK(call[v])
    BY <1>1 DEF RInv, Typed
  <1> QED BY <1>2, <1>3, Relied

\* Every step leaves the undisturbed calls in step with the chip.
LEMMA StepKeepsStep == IInv /\ RInv /\ [Next]_vars => RInv'
  <1> SUFFICES ASSUME IInv, RInv, [Next]_vars PROVE RInv'
    OBVIOUS
  <1>0. Typed /\ Calling /\ chip \in Chips
    BY DEF IInv, Typed
  <1>1. CASE Sleep
    <2>1. call' = call /\ mixed' = [v \in Users |-> mixed[v] \/ (Open(v) /\ Touched(v))]
      BY <1>1 DEF Sleep
    <2>2. chip'.is608 = chip.is608
      BY <1>0, <1>1 DEF Sleep, Chips
    <2>3. ASSUME NEW v \in Users, Open(v)', ~mixed'[v] PROVE InStep(call'[v], chip')
      <3>1. Open(v) /\ call'[v] = call[v] /\ mixed'[v] = (mixed[v] \/ (Open(v) /\ Touched(v)))
        BY <2>1, <2>3 DEF Open
      <3> QED BY <3>1, <2>2, <2>3, <1>0, OthersStay
    <2> QED BY <2>1, <2>3 DEF RInv
  <1>2. ASSUME NEW u \in Users, Begin(u) PROVE RInv'
    <2>1. PICK d : call' = [call EXCEPT ![u] = d] /\ d.step = 1
      BY <1>0, <1>2, BeginStep
    <2>2. chip' = chip /\ mixed' = [mixed EXCEPT ![u] = FALSE]
      BY <1>2 DEF Begin
    <2>3. ASSUME NEW v \in Users, Open(v)', ~mixed'[v] PROVE InStep(call'[v], chip')
      <3>1. CASE v = u
        <4>1. call'[v] = d
          BY <3>1, <2>1, <1>0 DEF Typed
        <4> QED BY <4>1, <2>1 DEF InStep
      <3>2. CASE v # u
        <4>1. call'[v] = call[v] /\ mixed'[v] = mixed[v]
          BY <3>2, <2>1, <2>2, <1>0 DEF Typed, RInv
        <4> QED BY <4>1, <2>2, <2>3 DEF RInv, Open
      <3> QED BY <3>1, <3>2
    <2> QED BY <2>2, <2>3 DEF RInv
  <1>3. ASSUME NEW u \in Users, Packet(u) PROVE RInv'
    <2>0. PICK c : c = call[u]
      OBVIOUS
    <2>p. PICK p : p = Packets(c.op)[c.step]
      OBVIOUS
    <2> DEFINE r == Reaction(p, c, u)
    <2>1. PICK fate \in Fates :
            /\ chip' = IF fate = "failed" THEN chip ELSE r.chip
            /\ call' = [call EXCEPT ![u] = IF fate = "done" /\ r.ok THEN Advance(c, u, p, r.out)
                                           ELSE GiveUp(c)]
            /\ mixed' = [v \in Users |-> IF v = u THEN mixed[u] /\ ~Prepares(c, p)
                                         ELSE mixed[v] \/ (Open(v) /\ Touched(v))]
      BY <1>3, <2>0, <2>p DEF Packet
    <2>2. Open(u) /\ CallOK(c) /\ UnderWay(c) /\ c.op \in Ops /\ c.step \in 1..Len(Packets(c.op))
      BY <1>0, <1>3, <2>0 DEF Packet, Typed, Calling, CallOK, UnderWay
    <2>3. chip'.is608 = chip.is608
      <3>1. r.chip.is608 = chip.is608
        BY <1>0, <2>2, <2>p, PlaceOf, SameKind
      <3> QED BY <3>1, <2>1
    <2>4. ASSUME NEW v \in Users, Open(v)', ~mixed'[v], v # u PROVE InStep(call'[v], chip')
      <3>1. call'[v] = call[v] /\ mixed'[v] = (mixed[v] \/ (Open(v) /\ Touched(v)))
        BY <2>1, <2>4, <1>0 DEF Typed
      <3> QED BY <3>1, <2>3, <2>4, <1>0, OthersStay DEF Open
    <2>5. ASSUME Open(u)', ~mixed'[u] PROVE InStep(call'[u], chip')
      <3> DEFINE d == Advance(c, u, p, r.out)
      <3>1. fate = "done" /\ r.ok /\ call'[u] = d
        <4>1. call'[u].status = "open"
          BY <2>5 DEF Open
        <4> QED BY <4>1, <2>1, <1>0, GivenUp DEF Typed
      <3>2. chip' = r.chip /\ d.status = "open"
        BY <3>1, <2>1, <2>5 DEF Open
      <3>3. Prepares(c, p) \/ InStep(c, chip)
        <4>1. ~mixed[u] \/ Prepares(c, p)
          BY <2>1, <2>5
        <4> QED BY <4>1, <2>0, <2>2 DEF RInv
      <3>4. InStep(d, r.chip)
        BY <1>0, <2>0, <2>p, <2>2, <3>1, <3>2, <3>3, StaysInStep
      <3> QED BY <3>1, <3>2, <3>4
    <2> QED BY <2>1, <2>4, <2>5 DEF RInv
  <1>4. CASE UNCHANGED vars
    <2>1. chip' = chip /\ call' = call /\ mixed' = mixed
      BY <1>4 DEF vars
    <2> QED BY <2>1 DEF RInv, Open
  <1> QED BY <1>1, <1>2, <1>3, <1>4 DEF Next

\* The first states have no call under way.
LEMMA StartsInStep == Init => RInv
  <1> SUFFICES ASSUME Init PROVE RInv
    OBVIOUS
  <1>1. \A u \in Users : call[u].status = "ok"
    BY IdleCall DEF Init
  <1> QED BY <1>1 DEF Init, RInv, Open

-----------------------------------------------------------------------------
(* The properties *)

\* The part of each property that one step shows.
LandedStep == \A u \in Users : Returns(u) /\ call[u].op \in {"write", "priv"}
                               => chip'.slot[call[u].slot] = call[u].data
ToldStep == \A u \in Users : Returns(u) /\ call'[u].verified /\ call[u].op \in {"verify_mac", "secureboot"}
                             => call[u].sig = call[u].data /\ call[u].key = IoKey
SealedStep == \A s \in Slots : chip'.slot[s] # chip.slot[s] =>
                \E u \in Users : /\ Open(u) /\ call[u].slot = s /\ chip'.slot[s] = call[u].data
                                 /\ call[u].op # "ecdh" => call[u].key = chip.slot[KeySlot]

\* A call that returns does so with its packet.
LEMMA ReturnStep ==
    ASSUME IInv, [Next]_vars, NEW u \in Users, Returns(u)
    PROVE  Packet(u)
  <1>0. Typed /\ Calling /\ Open(u) /\ call'[u].status = "ok"
    BY DEF IInv, Returns
  <1>1. CASE Sleep \/ UNCHANGED vars
    BY <1>0, <1>1 DEF Sleep, vars, Open
  <1>2. ASSUME NEW v \in Users, Begin(v) PROVE FALSE
    <2>1. PICK d : call' = [call EXCEPT ![v] = d]
      BY <1>0, <1>2, BeginStep
    <2>2. u # v
      BY <1>0, <1>2 DEF Begin
    <2> QED BY <2>1, <2>2, <1>0 DEF Typed, Open
  <1>3. ASSUME NEW v \in Users, Packet(v), v # u PROVE FALSE
    <2>1. PICK d : call' = [call EXCEPT ![v] = d]
      BY <1>0, <1>3, PacketStep
    <2> QED BY <2>1, <1>3, <1>0 DEF Typed, Open
  <1> QED BY <1>1, <1>2, <1>3 DEF Next

\* A step with which a write returns finds the data in the slot.
LEMMA StepLands == IInv /\ [Next]_vars => LandedStep
  <1> SUFFICES ASSUME IInv, [Next]_vars, NEW u \in Users, Returns(u), call[u].op \in {"write", "priv"}
               PROVE  chip'.slot[call[u].slot] = call[u].data
    BY DEF LandedStep
  <1>1. Packet(u) /\ Typed /\ Calling
    BY ReturnStep DEF IInv
  <1>2. PICK d : /\ call' = [call EXCEPT ![u] = d]
                 /\ d.status = "ok" /\ call[u].op \in {"write", "priv"} =>
                       chip'.slot[call[u].slot] = call[u].data
    BY <1>1, PacketStep
  <1> QED BY <1>1, <1>2 DEF Typed, Returns

\* A step with which a call confirms a signature confirms a good one.
LEMMA StepTells == IInv /\ [Next]_vars => ToldStep
  <1> SUFFICES ASSUME IInv, [Next]_vars, NEW u \in Users, Returns(u), call'[u].verified,
                      call[u].op \in {"verify_mac", "secureboot"}
               PROVE  call[u].sig = call[u].data /\ call[u].key = IoKey
    BY DEF ToldStep
  <1>1. Packet(u) /\ Typed /\ Calling
    BY ReturnStep DEF IInv
  <1>2. PICK d : /\ call' = [call EXCEPT ![u] = d]
                 /\ d.status = "ok" /\ d.verified /\ call[u].op \in {"verify_mac", "secureboot"} =>
                       call[u].sig = call[u].data /\ call[u].key = IoKey
    BY <1>1, PacketStep
  <1>3. call'[u] = d
    BY <1>1, <1>2 DEF Typed
  <1> QED BY <1>2, <1>3 DEF Returns

\* A step that changes a slot is the packet of a call that meant to.
LEMMA StepSeals == IInv /\ KeyHolds(chip) /\ [Next]_vars => SealedStep
  <1> SUFFICES ASSUME IInv, KeyHolds(chip), [Next]_vars, NEW s \in Slots, chip'.slot[s] # chip.slot[s]
               PROVE  \E u \in Users : /\ Open(u) /\ call[u].slot = s /\ chip'.slot[s] = call[u].data
                                       /\ call[u].op # "ecdh" => call[u].key = chip.slot[KeySlot]
    BY DEF SealedStep
  <1>1. Typed /\ Calling
    BY DEF IInv
  <1>2. PICK u \in Users : Packet(u)
    <2>1. ASSUME Sleep PROVE FALSE
      BY <2>1, <1>1 DEF Sleep, Typed, Chips
    <2>2. ASSUME NEW v \in Users, Begin(v) PROVE FALSE
      BY <2>2 DEF Begin
    <2>3. ASSUME UNCHANGED vars PROVE FALSE
      BY <2>3 DEF vars
    <2> QED BY <2>1, <2>2, <2>3 DEF Next
  <1>3. /\ call[u].slot = s /\ chip'.slot[s] = call[u].data
        /\ call[u].op # "ecdh" => call[u].key = chip.slot[KeySlot]
    BY <1>1, <1>2, PacketStep
  <1> QED BY <1>2, <1>3 DEF Packet

\* The message a signing or verifying command finds is the one its call loaded.
LEMMA MessageThere ==
    ASSUME NEW c, CallOK(c), Loaded(c, chip), c.op # "verify_mac"
    PROVE  Message(c) = c.data
  <1>1. Source(c) = "msgdigbuf" <=> chip.is608
    BY DEF Source
  <1>2. CASE chip.is608
    BY <1>1, <1>2 DEF Loaded, Message
  <1>3. CASE ~chip.is608
    <2>1. chip.valid /\ chip.tk = <<Msg(c.data)>>
      BY <1>3 DEF Loaded
    <2>2. chip.tk[1] = Msg(c.data) /\ Len(chip.tk) = 1
      BY <2>1
    <2>3. chip.tk[1].how = "msg" /\ chip.tk[1].data = c.data
      BY <2>2 DEF Msg
    <2>4. Message(c) = CASE ~chip.valid -> NoData
           [] chip.valid /\ chip.tk[1].how = "msg" /\ Len(chip.tk) = 1 -> chip.tk[1].data
           [] OTHER -> chip.tk
      BY <1>1, <1>3 DEF Message
    <2> QED BY <2>1, <2>2, <2>3, <2>4
  <1> QED BY <1>2, <1>3

\* With the key that is in the slot, the host has computed the chip's TempKey,
\* which authorizes if the key is the slots' key.
LEMMA SameTempKey ==
    ASSUME NEW c, Digged(c, chip), c.key = chip.slot[c.keyId]
    PROVE  c.tk = chip.tk /\ (c.keyId = KeySlot => Authorized)
  <1>1. PICK n \in Nat : /\ c.tk = HostGenDig(HostNonce(n), c.keyId, c.key)
                         /\ chip.tk = HostGenDig(HostNonce(n), c.keyId, chip.slot[c.keyId])
    BY DEF Digged
  <1>2. chip.tk[1] = Rand(n)
    BY <1>1 DEF HostGenDig, HostNonce
  <1>3. Rand(n).how = "rand"
    BY DEF Rand
  <1> QED BY <1>1, <1>2, <1>3 DEF Digged, Authorized

\* The chip refuses no packet of an undisturbed call that knows the keys.
LEMMA CleanPacket ==
    ASSUME Typed, Calling, RInv, NEW u \in Users, Open(u), ~mixed[u],
           NEW c, c = call[u], Entitled(c, chip), NEW p, p = Packets(c.op)[c.step]
    PROVE  Reaction(p, c, u).ok
  <1> DEFINE r == Reaction(p, c, u)
  <1>0. /\ CallOK(c) /\ c.op \in Ops /\ c.step \in 1..Len(Packets(c.op)) /\ c.data \in Data
        /\ chip \in Chips
    BY DEF Typed, Calling, CallOK, UnderWay
  <1>1. InStep(c, chip)
    BY DEF RInv
  <1>2. p \in {"serial", "random", "config", "nonce", "gendig", "write", "priv", "plain",
               "read", "ecdh", "load", "sign", "verify", "verify_mac", "secureboot"}
    BY <1>0, PlaceOf
  <1>3. /\ c.op \in {"write", "priv", "read", "ecdh"} => c.keyId = KeySlot /\ c.key = chip.slot[KeySlot]
        /\ c.op \in {"verify_mac", "secureboot"} => chip.is608
        /\ c.op # "plain"
    BY DEF Entitled
  <1>4. NoData \notin Data
    BY KeyAssumption
  <1>5. /\ p = "read" => \/ c.op = "read" /\ c.step = 4
                         \/ c.op = "ecdh" /\ c.step = 5
        /\ p = "sign" => c.op = "sign" /\ c.step = 3
        /\ p = "verify" => c.op = "verify" /\ c.step = 2
    BY <1>0, WhereOf
  <1>a. CASE p \in {"serial", "random", "config", "nonce", "ecdh"}
    BY <1>a DEF Reaction, Answers
  <1>b. CASE p = "gendig"
    <2>1. Nonced(c, chip)
      BY <1>b, <1>0, <1>1, WhereOf DEF InStep
    <2> QED BY <1>b, <2>1 DEF Nonced, Reaction, Answers
  <1>c. CASE p \in {"write", "priv"}
    <2>1. c.op = p /\ c.step = 4
      BY <1>c, <1>0, PlaceOf
    <2>2. Digged(c, chip)
      BY <1>c, <1>1, <2>1 DEF InStep
    <2>3. c.tk = chip.tk /\ Authorized
      BY <1>c, <1>3, <2>1, <2>2, SameTempKey
    <2>4. Decrypt(Sealed(c).cipher, chip.tk) = c.data
      BY <2>3 DEF Sealed, SealedUnder, Encrypt, Decrypt
    <2>5. Sealed(c).mac = Mac(chip.tk, c.op, c.slot, c.data)
      BY <2>3 DEF Sealed, SealedUnder
    <2>6. OnWrite(c).ok
      BY <2>3, <2>4, <2>5 DEF OnWrite, Answers
    <2> QED BY <1>c, <2>6 DEF Reaction
  <1>d. CASE p = "plain"
    BY <1>d, <1>0, <1>3, WhereOf
  <1>e. CASE p = "read"
    <2>1. \/ c.op = "read" /\ c.step = 4
          \/ c.op = "ecdh" /\ c.step = 5
      BY <1>e, <1>5
    <2>2. Digged(c, chip)
      BY <1>1, <2>1 DEF InStep
    <2>3. Authorized
      BY <1>3, <2>1, <2>2, SameTempKey
    <2> QED BY <1>e, <2>3 DEF Reaction, Answers
  <1>f. CASE p = "load"
    <2>1. OnLoad(c, u).ok
      BY DEF OnLoad, Answers
    <2> QED BY <1>f, <2>1 DEF Reaction
  <1>g. CASE p \in {"sign", "verify"}
    <2>1. \/ c.op = "sign" /\ c.step = 3 /\ p = "sign"
          \/ c.op = "verify" /\ c.step = 2 /\ p = "verify"
      BY <1>g, <1>5
    <2>2. Loaded(c, chip)
      BY <1>1, <2>1 DEF InStep
    <2>3. Message(c) # NoData
      BY <1>0, <1>4, <2>1, <2>2, MessageThere
    <2>4. CASE p = "sign"
      BY <2>3, <2>4 DEF Reaction, Answers
    <2>5. CASE p = "verify"
      <3>1. OnVerify(c).ok
        BY <2>3 DEF OnVerify, Answers
      <3> QED BY <2>5, <3>1 DEF Reaction
    <2> QED BY <2>1, <2>4, <2>5
  <1>h. CASE p = "verify_mac"
    <2>1. c.op = "verify_mac" /\ c.step = 2
      BY <1>h, <1>0, WhereOf
    <2>2. chip.filled /\ chip.msg = c.data /\ chip.is608
      BY <1>1, <1>3, <2>1 DEF InStep
    <2>3. Message(c) # NoData
      BY <2>1, <2>2, <1>0, <1>4 DEF Message
    <2>4. OnVerify(c).ok
      BY <2>3 DEF OnVerify, Answers
    <2> QED BY <1>h, <2>2, <2>4 DEF Reaction
  <1>i. CASE p = "secureboot"
    <2>1. c.op = "secureboot" /\ c.step = 2
      BY <1>i, <1>0, WhereOf
    <2>2. chip.valid /\ chip.is608
      BY <1>1, <1>3, <2>1 DEF InStep, Nonced
    <2>3. OnSecureboot(c).ok
      BY <2>2 DEF OnSecureboot, Answers
    <2> QED BY <1>i, <2>3 DEF Reaction
  <1> QED BY <1>2, <1>a, <1>b, <1>c, <1>d, <1>e, <1>f, <1>g, <1>h, <1>i

\* The invariants leave no undisturbed call that knows the keys to be refused.
LEMMA CleanFromInvariants == IInv /\ RInv => CleanCallSucceeds
  <1> SUFFICES ASSUME IInv, RInv, NEW u \in Users, Open(u), Undisturbed(u), Entitled(call[u], chip)
               PROVE  Reaction(Packets(call[u].op)[call[u].step], call[u], u).ok
    BY DEF CleanCallSucceeds
  <1> QED BY CleanPacket DEF IInv, Undisturbed

\* What a call returns, packet by packet.
ReadStep == \A u \in Users : Returns(u) /\ Undisturbed(u) /\ call[u].op \in {"read", "ecdh"} =>
              LET c == call[u]
              IN  c.key = chip.slot[c.keyId] =>
                    call'[u].out = IF c.op = "ecdh" THEN c.data ELSE chip.slot[c.slot]
OwnStep == \A u \in Users : Returns(u) /\ Undisturbed(u) =>
             LET c == call[u]
             IN  /\ c.op = "sign" => call'[u].out = c.data
                 /\ c.op = "verify" => (call'[u].verified <=> c.sig = c.data)

\* A call that returns well has had the answer to its last packet.
LEMMA ReturnsWith ==
    ASSUME IInv, [Next]_vars, NEW u \in Users, Returns(u), NEW c, c = call[u],
           NEW p, p = Packets(c.op)[c.step], c.op # "secureboot"
    PROVE  /\ Open(u) /\ CallOK(c) /\ c.op \in Ops /\ c.step = Len(Packets(c.op))
           /\ c.step \in 1..Len(Packets(c.op))
           /\ Reaction(p, c, u).ok
           /\ LET k == Keep(c, u, p, Reaction(p, c, u).out)
              IN  call'[u].out = k.out /\ call'[u].verified = k.verified
  <1> DEFINE r == Reaction(p, c, u)
  <1>1. Packet(u) /\ Typed /\ Calling /\ Open(u)
    BY ReturnStep DEF IInv, Returns
  <1>2. CallOK(c) /\ c.op \in Ops /\ c.step \in 1..Len(Packets(c.op)) /\ c.status = "open"
    BY <1>1 DEF Typed, Calling, CallOK, UnderWay, Open
  <1>3. PICK fate \in Fates :
          call' = [call EXCEPT ![u] = IF fate = "done" /\ r.ok THEN Advance(c, u, p, r.out)
                                      ELSE GiveUp(c)]
    BY <1>1 DEF Packet
  <1>4. call'[u].status = "ok"
    BY DEF Returns
  <1>5. r.ok /\ call'[u] = Advance(c, u, p, r.out)
    BY <1>1, <1>3, <1>4, GivenUp DEF Typed
  <1>6. Ends(c, p, r.out)
    BY <1>1, <1>4, <1>5, Advances
  <1>7. c.step = Len(Packets(c.op))
    BY <1>2, <1>6, WhereOf DEF Ends
  <1>8. call'[u] = [Idle EXCEPT !.out = Keep(c, u, p, r.out).out, !.verified = Keep(c, u, p, r.out).verified]
    BY <1>5, <1>6 DEF Advance
  <1> QED BY <1>1, <1>2, <1>5, <1>7, <1>8 DEF Idle

\* An undisturbed encrypted read with the key of the slot returns its content.
LEMMA StepReads == IInv /\ RInv /\ [Next]_vars => ReadStep
  <1> SUFFICES ASSUME IInv, RInv, [Next]_vars, NEW u \in Users, Returns(u), ~mixed[u],
                      NEW c, c = call[u], c.op \in {"read", "ecdh"}, c.key = chip.slot[c.keyId]
               PROVE  call'[u].out = IF c.op = "ecdh" THEN c.data ELSE chip.slot[c.slot]
    BY DEF ReadStep, Undisturbed
  <1>1. PICK p : p = Packets(c.op)[c.step]
    OBVIOUS
  <1> DEFINE r == Reaction(p, c, u)
  <1>2. /\ Open(u) /\ CallOK(c) /\ c.step = Len(Packets(c.op)) /\ r.ok
        /\ call'[u].out = Keep(c, u, p, r.out).out
    BY <1>1, ReturnsWith
  <1>3. /\ p = "read"
        /\ \/ c.op = "read" /\ c.step = 4
           \/ c.op = "ecdh" /\ c.step = 5
    <2>1. CASE c.op = "read" BY <1>1, <1>2, <2>1 DEF Packets
    <2>2. CASE c.op = "ecdh" BY <1>1, <1>2, <2>2 DEF Packets
    <2> QED BY <2>1, <2>2
  <1>4. Digged(c, chip) /\ (c.op = "ecdh" => chip.slot[c.slot] = c.data)
    <2>1. InStep(c, chip)
      BY <1>2 DEF RInv
    <2> QED BY <1>3, <2>1 DEF InStep
  <1>5. c.tk = chip.tk
    BY <1>4, SameTempKey
  <1>6. r.out = Encrypt(chip.slot[c.slot], chip.tk)
    BY <1>2, <1>3 DEF Reaction, Refuses, Answers
  <1>7. Keep(c, u, p, r.out).out = Decrypt(r.out, c.tk)
    <2>1. Keep(c, u, p, r.out) = [c EXCEPT !.out = Decrypt(r.out, c.tk)]
      BY <1>3, Keeps DEF Kept
    <2> QED BY <2>1, <1>2 DEF CallOK
  <1>8. Decrypt(r.out, c.tk) = chip.slot[c.slot]
    BY <1>5, <1>6 DEF Decrypt, Encrypt
  <1> QED BY <1>2, <1>3, <1>4, <1>7, <1>8

\* An undisturbed signature or verification is about its caller's message.
LEMMA StepOwns == IInv /\ RInv /\ [Next]_vars => OwnStep
  <1> SUFFICES ASSUME IInv, RInv, [Next]_vars, NEW u \in Users, Returns(u), ~mixed[u],
                      NEW c, c = call[u], c.op \in {"sign", "verify"}
               PROVE  /\ c.op = "sign" => call'[u].out = c.data
                      /\ c.op = "verify" => (call'[u].verified <=> c.sig = c.data)
    BY DEF OwnStep, Undisturbed
  <1>1. PICK p : p = Packets(c.op)[c.step]
    OBVIOUS
  <1> DEFINE r == Reaction(p, c, u)
             k == Keep(c, u, p, r.out)
  <1>2. /\ Open(u) /\ CallOK(c) /\ c.step = Len(Packets(c.op)) /\ r.ok
        /\ call'[u].out = k.out /\ call'[u].verified = k.verified
    BY <1>1, ReturnsWith
  <1>3. \/ c.op = "sign" /\ c.step = 3 /\ p = "sign"
        \/ c.op = "verify" /\ c.step = 2 /\ p = "verify"
    <2>1. CASE c.op = "sign" BY <1>1, <1>2, <2>1 DEF Packets
    <2>2. CASE c.op = "verify" BY <1>1, <1>2, <2>2 DEF Packets
    <2> QED BY <2>1, <2>2
  <1>4. Loaded(c, chip)
    BY <1>2, <1>3 DEF RInv, InStep
  <1>5. Message(c) = c.data
    BY <1>2, <1>3, <1>4, MessageThere
  <1>6. CASE p = "sign"
    <2>1. r.out = c.data
      BY <1>2, <1>5, <1>6 DEF Reaction, Refuses, Answers
    <2>2. k = [c EXCEPT !.out = r.out]
      BY <1>6, Keeps DEF Kept
    <2> QED BY <1>2, <1>3, <1>6, <2>1, <2>2 DEF CallOK
  <1>7. CASE p = "verify"
    <2>1. r = OnVerify(c)
      BY <1>7 DEF Reaction
    <2>2. r.out = (c.sig = c.data)
      BY <1>2, <1>3, <1>5, <1>7, <2>1 DEF OnVerify, Refuses, Answers
    <2>3. k = [c EXCEPT !.verified = r.out]
      BY <1>7, Keeps DEF Kept
    <2>4. k.verified = r.out
      BY <1>2, <2>3 DEF CallOK
    <2> QED BY <1>2, <1>3, <1>7, <2>2, <2>4
  <1> QED BY <1>3, <1>6, <1>7

\* What holds of every reachable state.
LEMMA Invariants == Spec => [](IInv /\ KInv)
  <1>1. Init => IInv /\ KInv
    BY Starts
  <1>2. IInv /\ KInv /\ [Next]_vars => IInv' /\ KInv'
    BY Goes
  <1> QED BY <1>1, <1>2, PTL DEF Spec

\* And of the calls that nobody disturbs.
LEMMA UndisturbedInStep == Spec => []RInv
  <1>1. Init => RInv
    BY StartsInStep
  <1>2. IInv /\ RInv /\ [Next]_vars => RInv'
    BY StepKeepsStep
  <1> QED BY <1>1, <1>2, Invariants, PTL DEF Spec

\* calib_write_enc and calib_priv_write: a success means that the caller's data
\* is in the slot, whatever packets of other users came between its own.
THEOREM WritesLand == Spec => OkWriteLanded
  <1>1. IInv /\ [Next]_vars => LandedStep
    BY StepLands
  <1>2. Spec => [][LandedStep]_vars
    BY <1>1, Invariants, PTL DEF Spec
  <1> QED BY <1>2 DEF LandedStep, OkWriteLanded

\* calib_verify_extern_mac, calib_verify_stored_mac and calib_secureboot_mac: a
\* signature they confirm is the one of the caller's message, whatever packets
\* of other users came between their own.
THEOREM MacsTell == Spec => MacTells
  <1>1. IInv /\ [Next]_vars => ToldStep
    BY StepTells
  <1>2. Spec => [][ToldStep]_vars
    BY <1>1, Invariants, PTL DEF Spec
  <1> QED BY <1>2 DEF ToldStep, MacTells

\* Encrypted writes and calib_ecdh: if no premaster secret is aimed at the slot
\* of the keys, a slot only takes what one call meant for it, and from a sealed
\* write only if its caller knows the slots' key.
THEOREM OnlySealed == ASSUME KeySlotIsNoTarget PROVE Spec => OnlyWhatWasSealed
  <1>1. IInv /\ KInv /\ [Next]_vars => SealedStep
    BY StepSeals DEF KInv
  <1>2. Spec => [][SealedStep]_vars
    BY <1>1, Invariants, PTL DEF Spec
  <1> QED BY <1>2 DEF SealedStep, OnlyWhatWasSealed

\* The multi-packet calls of the library: the chip refuses no packet of a call
\* that knows the keys while nobody else touches what it relies on.
THEOREM CleanCalls == Spec => []CleanCallSucceeds
  <1> QED BY CleanFromInvariants, Invariants, UndisturbedInStep, PTL

\* calib_read_enc and calib_ecdh_enc: with the right key an undisturbed success
\* returns what is in the slot, and for calib_ecdh_enc the premaster secret of
\* its own public key.
THEOREM ReadsTell == Spec => ReadTells
  <1>1. Spec => [][ReadStep]_vars
    BY StepReads, Invariants, UndisturbedInStep, PTL DEF Spec
  <1> QED BY <1>1 DEF ReadStep, ReadTells

\* calib_sign and calib_verify_extern: the signature an undisturbed call returns
\* is the caller's message's, and its verdict is about that message.
THEOREM MessagesAreOwn == Spec => MessageIsOwn
  <1>1. Spec => [][OwnStep]_vars
    BY StepOwns, Invariants, UndisturbedInStep, PTL DEF Spec
  <1> QED BY <1>1 DEF OwnStep, MessageIsOwn
=============================================================================
