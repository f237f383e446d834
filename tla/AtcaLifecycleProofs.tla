------------------------- MODULE AtcaLifecycleProofs -------------------------
(* Theorems about AtcaLifecycle, for any set of handles, both drivers,      *)
(* every chip type and any bound on the reference count.                   *)
EXTENDS AtcaLifecycle, FiniteSetTheorems, TLAPS

USE HandlesAssumption, DriverAssumption, BoundAssumption

-----------------------------------------------------------------------------
(* Lemmas about the HAL's operators *)

HalType == [ref_ct : 0..MaxRef, bus : {"closed", "open"},
            dev_handle : {"null", "registered", "stale"}, device_address : Nat]

\* Configured addresses are numbers.
LEMMA ConfigAddressType == \A t \in Types : ConfigAddress(t) \in Nat
  BY DEF Types, ConfigAddress

\* Half of a number, for the shifted addresses.
LEMMA HalfIsNat == ASSUME NEW n \in Nat PROVE n \div 2 \in Nat
  OBVIOUS

\* What the candidates stand for: three addresses, all different on the wire.
LEMMA AddressesDiffer ==
    ASSUME NEW s \in Types, NEW t \in Types,
           ConfigAddress(s) \div 2 = ConfigAddress(t) \div 2
    PROVE  s = t
<1>1. 192 \div 2 = 96 /\ 106 \div 2 = 53 /\ 108 \div 2 = 54
  OBVIOUS
<1>2. QED
  BY <1>1 DEF Types, ConfigAddress

\* hal_i2c_init counts one reference more and opens the bus when it succeeds.
LEMMA HalInitEffect ==
    ASSUME NEW u \in HalType, u.ref_ct < MaxRef, NEW a \in Nat, NEW f
    PROVE  /\ HalInit(u, a, f) \in HalType
           /\ HalInit(u, a, f).ref_ct = u.ref_ct + 1
           /\ Opens(u, f) => /\ HalInit(u, a, f).bus = "open"
                             /\ Driver = "master" =>
                                   /\ HalInit(u, a, f).dev_handle = "registered"
                                   /\ HalInit(u, a, f).device_address = a \div 2
           /\ u.ref_ct > 0 => /\ HalInit(u, a, f).bus = u.bus
                              /\ HalInit(u, a, f).dev_handle = u.dev_handle
           /\ u.ref_ct = 0 /\ ~Opens(u, f) => HalInit(u, a, f).bus = "closed"
<1>1. /\ u.ref_ct \in 0..MaxRef /\ u.ref_ct + 1 \in 0..MaxRef
      /\ 1 \in 0..MaxRef
  BY DEF HalType
<1>2. u.device_address \in Nat /\ a \div 2 \in Nat
  BY HalfIsNat DEF HalType
<1>3. CASE u.ref_ct > 0
  <2>1. HalInit(u, a, f) = [u EXCEPT !.ref_ct = u.ref_ct + 1] /\ ~Opens(u, f)
    BY <1>1, <1>3 DEF HalInit, Opens
  <2>2. QED
    BY <1>1, <1>3, <2>1 DEF HalType
<1>4. CASE u.ref_ct = 0
  <2>1. HalInit(u, a, f) =
          [ref_ct |-> 1,
           bus |-> IF Opens(u, f) THEN "open" ELSE "closed",
           dev_handle |-> IF Driver = "master" /\ Opens(u, f) THEN "registered" ELSE "null",
           device_address |-> IF Driver = "master" /\ f # "install"
                              THEN a \div 2 ELSE u.device_address]
    BY <1>4 DEF HalInit
  <2>2. Opens(u, f) => f # "install"
    BY DEF Opens
  <2>3. QED
    BY <1>1, <1>2, <1>4, <2>1, <2>2 DEF HalType
<1>5. QED
  BY <1>1, <1>3, <1>4

\* hal_i2c_release gives one reference back and closes the bus with the last.
LEMMA HalReleaseEffect ==
    ASSUME NEW u \in HalType, u.ref_ct > 0
    PROVE  /\ HalRelease(u) \in HalType
           /\ HalRelease(u).ref_ct = u.ref_ct - 1
           /\ u.ref_ct > 1 => HalRelease(u).bus = u.bus
           /\ u.ref_ct = 1 => HalRelease(u).bus = "closed"
<1>1. u.ref_ct \in 0..MaxRef /\ u.ref_ct - 1 \in 0..MaxRef
  BY DEF HalType
<1>2. CASE u.ref_ct > 1
  <2>1. HalRelease(u) = [u EXCEPT !.ref_ct = u.ref_ct - 1]
    BY <1>2 DEF HalRelease
  <2>2. QED
    BY <1>1, <1>2, <2>1 DEF HalType
<1>3. CASE ~(u.ref_ct > 1)
  <2>1. HalRelease(u) = [u EXCEPT !.ref_ct = u.ref_ct - 1, !.bus = "closed",
                                  !.dev_handle = "null"]
    BY <1>3 DEF HalRelease
  <2>2. QED
    BY <1>1, <1>3, <2>1 DEF HalType
<1>4. QED
  BY <1>2, <1>3

-----------------------------------------------------------------------------
(* The inductive invariant: RefsAreAccounted with the number of live        *)
(* devices spelled out, since LiveOwnsBus allows one at most.              *)

CountOf(S) == IF S = {} THEN 0 ELSE 1

Refs ==
    /\ hal.ref_ct = CountOf(Live) + leaked
    /\ leaked = 0 => (hal.bus = "open" <=> Live # {})

IInv == TypeOK /\ LiveOwnsBus /\ Refs /\ DetectionIsRight

\* The devices that stay live when h is opened, and the HAL they stay with.
Others(h) == Live \ {h}

KeepsBus(u, S, n) ==
    /\ u \in HalType
    /\ u.ref_ct = CountOf(S) + n
    /\ n = 0 => (u.bus = "open" <=> S # {})
    /\ S # {} => u.bus = "open" /\ (Driver = "master" => u.dev_handle # "null")

\* A new device replaces what its handle held: that is released, and it was
\* the only one, or the handle was empty, and the HAL is as it was.
LEMMA BeforeOpenEffect ==
    ASSUME IInv, NEW h \in Handles
    PROVE  KeepsBus(BeforeOpen(h), Others(h), leaked)
<1>1. hal \in HalType /\ leaked \in Nat
  BY DEF IInv, TypeOK, HalType
<1>2. CASE device[h] = "live"
  <2>1. h \in Live /\ Live = {h} /\ hal.ref_ct > 0 /\ Others(h) = {}
    BY <1>2 DEF IInv, LiveOwnsBus, Live, Others
  <2>2. hal.ref_ct = 1 + leaked
    BY <2>1 DEF IInv, Refs, CountOf
  <2>3. BeforeOpen(h) = HalRelease(hal)
    BY <1>2 DEF BeforeOpen
  <2>4. /\ HalRelease(hal) \in HalType
        /\ HalRelease(hal).ref_ct = leaked
        /\ leaked = 0 => HalRelease(hal).bus = "closed"
    BY <1>1, <2>1, <2>2, HalReleaseEffect
  <2>5. CountOf(Others(h)) = 0
    BY <2>1 DEF CountOf
  <2>6. QED
    BY <1>1, <2>1, <2>3, <2>4, <2>5 DEF KeepsBus
<1>3. CASE device[h] # "live"
  <2>1. BeforeOpen(h) = hal /\ Others(h) = Live
    BY <1>3 DEF BeforeOpen, Others, Live
  <2>2. Live # {} => hal.bus = "open" /\ (Driver = "master" => hal.dev_handle # "null")
    BY DEF IInv, LiveOwnsBus
  <2>3. QED
    BY <1>1, <2>1, <2>2 DEF KeepsBus, IInv, Refs
<1>4. QED
  BY <1>2, <1>3

\* What an invariant state needs to hold: the HAL serves the live devices.
LEMMA ServedDevices ==
    ASSUME KeepsBus(hal', Live', leaked'), leaked' \in Nat,
           \A h, k \in Live' : h = k
    PROVE  LiveOwnsBus' /\ Refs'
<1>1. hal'.ref_ct = CountOf(Live') + leaked'
  BY DEF KeepsBus
<1>2. ASSUME NEW h \in Live' PROVE Live' = {h} /\ hal'.ref_ct > 0
  <2>1. Live' = {h}
    BY <1>2
  <2>2. CountOf(Live') = 1
    BY <1>2 DEF CountOf
  <2>3. hal'.ref_ct = 1 + leaked'
    BY <1>1, <2>2
  <2>4. hal'.ref_ct > 0
    <3>1. \A n \in Nat : 1 + n > 0
      OBVIOUS
    <3>2. QED
      BY <2>3, <3>1
  <2>5. QED
    BY <2>1, <2>4
<1>3. LiveOwnsBus'
  BY <1>2 DEF LiveOwnsBus, KeepsBus
<1>4. QED
  BY <1>1, <1>3 DEF KeepsBus, Refs

\* One device at most stays live when h is opened, and it is not h's.
LEMMA OthersEffect ==
    ASSUME IInv, NEW h \in Handles
    PROVE  /\ \A k, m \in Others(h) : k = m
           /\ \A k \in Others(h) : k # h
  BY DEF IInv, LiveOwnsBus, Others, Live

\* What opening a device does to the devices, the bus record and the counts.
LEMMA OpenEffect ==
    ASSUME IInv, NEW h \in Handles, NEW t \in Types, NEW f,
           Open(h, ConfigAddress(t), f)
    PROVE  /\ device' \in [Handles -> {"null", "live"}] /\ hal' \in HalType
           /\ address' \in Nat /\ leaked' \in Nat
           /\ status' \in {"SUCCESS", "GEN_FAIL", "COMM_FAIL", "READ_FAILED"}
           /\ LiveOwnsBus' /\ Refs'
           /\ status' = "SUCCESS" => t = ChipType
<1>. DEFINE a == ConfigAddress(t)
            u == BeforeOpen(h)
            ok == f # "malloc" /\ Opens(u, f)
<1>1. a \in Nat /\ leaked \in Nat /\ device \in [Handles -> {"null", "live"}]
  BY ConfigAddressType DEF IInv, TypeOK
<1>2. KeepsBus(u, Others(h), leaked)
  BY BeforeOpenEffect
<1>3. u \in HalType /\ u.ref_ct < MaxRef /\ u.ref_ct \in Nat
  BY <1>2 DEF KeepsBus, Open, HalType
<1>4. /\ HalInit(u, a, f) \in HalType
      /\ HalInit(u, a, f).ref_ct = u.ref_ct + 1
      /\ Opens(u, f) => /\ HalInit(u, a, f).bus = "open"
                        /\ Driver = "master" =>
                              /\ HalInit(u, a, f).dev_handle = "registered"
                              /\ HalInit(u, a, f).device_address = a \div 2
      /\ u.ref_ct > 0 => /\ HalInit(u, a, f).bus = u.bus
                         /\ HalInit(u, a, f).dev_handle = u.dev_handle
      /\ u.ref_ct = 0 /\ ~Opens(u, f) => HalInit(u, a, f).bus = "closed"
  BY <1>1, <1>3, HalInitEffect
<1>5. /\ hal' = IF f = "malloc" THEN u ELSE HalInit(u, a, f)
      /\ device' = [device EXCEPT ![h] = IF ok THEN "live" ELSE "null"]
      /\ leaked' = IF f # "malloc" /\ ~ok THEN leaked + 1 ELSE leaked
      /\ address' = a
      /\ status' = CASE ~ok -> "GEN_FAIL"
                     [] ok /\ (f # "read" /\ WireAddress(hal', a) = ChipAddress) -> "SUCCESS"
                     [] OTHER -> "READ_FAILED"
  BY DEF Open
<1>. HIDE DEF a, u, ok
<1>6. device' \in [Handles -> {"null", "live"}] /\ address' \in Nat /\ leaked' \in Nat
  BY <1>1, <1>5
<1>7. hal' \in HalType
  BY <1>3, <1>4, <1>5
<1>8. Live' = IF ok THEN Others(h) \cup {h} ELSE Others(h)
  BY <1>1, <1>5 DEF Live, Others
<1>9. \A k, m \in Others(h) : k = m
  BY OthersEffect
<1>10. LiveOwnsBus' /\ Refs'
  <2>1. CASE ok
    <3>1. Opens(u, f) /\ f # "malloc" /\ u.ref_ct = 0
      BY <2>1 DEF ok, Opens
    <3>2. Others(h) = {} /\ leaked = 0
      <4>1. 0 = CountOf(Others(h)) + leaked
        BY <1>2, <3>1 DEF KeepsBus
      <4>2. QED
        BY <1>1, <4>1 DEF CountOf
    <3>3. Live' = {h} /\ leaked' = 0
      BY <1>5, <1>8, <2>1, <3>2
    <3>4. CountOf(Live') = 1
      BY <3>3 DEF CountOf
    <3>5. /\ hal' = HalInit(u, a, f) /\ hal'.ref_ct = 1 /\ hal'.bus = "open"
          /\ Driver = "master" => hal'.dev_handle = "registered"
      BY <1>4, <1>5, <3>1
    <3>6. KeepsBus(hal', Live', leaked')
      BY <1>7, <3>3, <3>4, <3>5 DEF KeepsBus
    <3>7. QED
      BY <1>6, <3>3, <3>6, ServedDevices
  <2>2. CASE ~ok /\ f = "malloc"
    <3>1. hal' = u /\ leaked' = leaked /\ Live' = Others(h)
      BY <1>5, <1>8, <2>2
    <3>2. QED
      BY <1>1, <1>2, <1>9, <3>1, ServedDevices
  <2>3. CASE ~ok /\ f # "malloc"
    <3>1. hal' = HalInit(u, a, f) /\ leaked' = leaked + 1 /\ Live' = Others(h) /\ ~Opens(u, f)
      BY <1>5, <1>8, <2>3 DEF ok
    <3>2. leaked' # 0
      BY <1>1, <3>1
    <3>3. hal'.ref_ct = CountOf(Live') + leaked'
      <4>1. CountOf(Others(h)) \in Nat
        BY DEF CountOf
      <4>2. u.ref_ct = CountOf(Others(h)) + leaked
        BY <1>2 DEF KeepsBus
      <4>3. hal'.ref_ct = u.ref_ct + 1
        BY <1>4, <3>1
      <4>4. QED
        BY <1>1, <3>1, <4>1, <4>2, <4>3
    <3>4. ASSUME Live' # {}
          PROVE  hal'.bus = "open" /\ (Driver = "master" => hal'.dev_handle # "null")
      <4>1. u.ref_ct = 1 + leaked
        BY <1>2, <3>1, <3>4 DEF KeepsBus, CountOf
      <4>2. u.ref_ct > 0
        BY <1>1, <1>3, <4>1
      <4>3. QED
        BY <1>2, <1>4, <3>1, <3>4, <4>2 DEF KeepsBus
    <3>5. KeepsBus(hal', Live', leaked')
      BY <1>7, <3>2, <3>3, <3>4 DEF KeepsBus
    <3>6. QED
      BY <1>6, <1>9, <3>1, <3>5, ServedDevices
  <2>4. QED
    BY <2>1, <2>2, <2>3
<1>11. status' = "SUCCESS" => t = ChipType
  <2>1. SUFFICES ASSUME status' = "SUCCESS" PROVE t = ChipType
    OBVIOUS
  <2>2. ok /\ WireAddress(hal', a) = ChipAddress
    BY <1>5, <2>1
  <2>3. Opens(u, f) /\ hal' = HalInit(u, a, f)
    BY <1>5, <2>2 DEF ok
  <2>4. CASE Driver = "master"
    <3>1. ConfigAddress(t) \div 2 = ConfigAddress(ChipType) \div 2
      BY <1>4, <2>2, <2>3, <2>4 DEF WireAddress, ChipAddress, a
    <3>2. QED
      BY <3>1, AddressesDiffer
  <2>5. CASE Driver = "legacy"
    <3>1. ((2 * ConfigAddress(t)) % 256) \div 2 = ConfigAddress(ChipType) \div 2
      BY <2>2, <2>5 DEF WireAddress, ChipAddress, a
    <3>2. /\ ((2 * 192) % 256) \div 2 = 64 /\ ((2 * 106) % 256) \div 2 = 106
          /\ ((2 * 108) % 256) \div 2 = 108
          /\ 192 \div 2 = 96 /\ 106 \div 2 = 53 /\ 108 \div 2 = 54
      OBVIOUS
    <3>3. QED
      BY <3>1, <3>2 DEF Types, ConfigAddress
  <2>6. QED
    BY <2>4, <2>5
<1>12. status' \in {"SUCCESS", "GEN_FAIL", "COMM_FAIL", "READ_FAILED"}
  BY <1>5
<1>13. QED
  BY <1>6, <1>7, <1>10, <1>11, <1>12

-----------------------------------------------------------------------------
\* The first states have the invariant.
LEMMA InitInv == Init => IInv
<1>. SUFFICES ASSUME Init PROVE IInv
  OBVIOUS
<1>1. Live = {} /\ CountOf(Live) = 0
  BY DEF Init, Live, CountOf
<1>2. TypeOK
  BY ConfigAddressType DEF Init, TypeOK
<1>3. QED
  BY <1>1, <1>2 DEF Init, IInv, LiveOwnsBus, Refs, DetectionIsRight

\* A release gives back what the handle holds; the others are not disturbed.
LEMMA ReleaseEffect ==
    ASSUME IInv, NEW h \in Handles, Release(h)
    PROVE  IInv'
<1>1. KeepsBus(BeforeOpen(h), Others(h), leaked)
  BY BeforeOpenEffect
<1>2. device \in [Handles -> {"null", "live"}] /\ leaked \in Nat
  BY DEF IInv, TypeOK
<1>3. hal' = BeforeOpen(h) /\ leaked' = leaked
  BY DEF Release, BeforeOpen
<1>4. Live' = Others(h)
  BY <1>2 DEF Release, Live, Others
<1>5. LiveOwnsBus' /\ Refs'
  BY <1>1, <1>2, <1>3, <1>4, OthersEffect, ServedDevices
<1>6. hal' \in HalType
  BY <1>1, <1>3 DEF KeepsBus
<1>7. TypeOK'
  BY <1>2, <1>6 DEF Release, TypeOK, HalType, IInv
<1>8. QED
  BY <1>5, <1>7 DEF IInv, DetectionIsRight, Release

\* A change of the bus speed, which may reopen the bus, keeps the invariant.
LEMMA ChangeBaudEffect ==
    ASSUME IInv, NEW h \in Handles, NEW f, ChangeBaud(h, f)
    PROVE  IInv'
<1>1. hal \in HalType /\ h \in Live
  BY DEF IInv, TypeOK, HalType, ChangeBaud, Live
<1>2. /\ hal' \in HalType
      /\ hal'.ref_ct = hal.ref_ct /\ hal'.bus = hal.bus
      /\ hal'.dev_handle = hal.dev_handle \/ hal'.dev_handle \in {"registered", "stale"}
  BY <1>1 DEF HalType, ChangeBaud
<1>3. Live' = Live /\ CountOf(Live') = CountOf(Live)
  BY DEF ChangeBaud, Live
<1>4. UNCHANGED <<device, address, probe, found, leaked>>
  BY DEF ChangeBaud
<1>5. status' \in {"SUCCESS", "COMM_FAIL"}
  BY DEF ChangeBaud
<1>6. TypeOK'
  BY <1>2, <1>4, <1>5 DEF IInv, TypeOK, HalType
<1>7. LiveOwnsBus'
  BY <1>2, <1>3 DEF IInv, LiveOwnsBus
<1>8. Refs'
  BY <1>2, <1>3, <1>4 DEF IInv, Refs
<1>9. QED
  BY <1>4, <1>6, <1>7, <1>8 DEF IInv, DetectionIsRight

\* Every step keeps the invariant.
LEMMA NextInv == IInv /\ [Next]_vars => IInv'
<1>. SUFFICES ASSUME IInv, [Next]_vars PROVE IInv'
  OBVIOUS
<1>1. ASSUME NEW h \in Handles, NEW f \in Faults, InitDevice(h, f) PROVE IInv'
  <2>1. PICK t \in Types : Open(h, ConfigAddress(t), f)
    BY <1>1 DEF InitDevice
  <2>2. UNCHANGED <<probe, found>>
    BY <1>1 DEF InitDevice
  <2>3. QED
    BY <2>1, <2>2, OpenEffect DEF IInv, TypeOK, HalType, DetectionIsRight
<1>2. ASSUME NEW f \in Faults, Probe(f) PROVE IInv'
  <2>1. Candidate(probe) \in Types /\ Open(Global, ConfigAddress(Candidate(probe)), f)
    BY <1>2 DEF Probe, Candidate, Types
  <2>2. \/ status' = "SUCCESS" /\ found' = Candidate(probe) /\ probe' = 0
        \/ found' = found /\ probe' \in 0..3
    BY <1>2 DEF Probe, IInv, TypeOK
  <2>3. Global \in Handles
    OBVIOUS
  <2>4. QED
    BY <2>1, <2>2, <2>3, OpenEffect DEF IInv, TypeOK, HalType, DetectionIsRight
<1>3. CASE StartDetection
  <2>1. Live' = Live /\ CountOf(Live') = CountOf(Live)
    BY <1>3 DEF StartDetection, Live
  <2>2. TypeOK'
    BY <1>3 DEF StartDetection, IInv, TypeOK
  <2>3. LiveOwnsBus'
    BY <1>3, <2>1 DEF StartDetection, IInv, LiveOwnsBus
  <2>4. Refs'
    BY <1>3, <2>1 DEF StartDetection, IInv, Refs
  <2>5. QED
    BY <1>3, <2>2, <2>3, <2>4 DEF StartDetection, IInv, DetectionIsRight
<1>4. CASE UNCHANGED vars
  <2>1. Live' = Live /\ CountOf(Live') = CountOf(Live)
    BY <1>4 DEF vars, Live
  <2>2. LiveOwnsBus'
    BY <1>4, <2>1 DEF vars, IInv, LiveOwnsBus
  <2>3. Refs'
    BY <1>4, <2>1 DEF vars, IInv, Refs
  <2>4. QED
    BY <1>4, <2>2, <2>3 DEF vars, IInv, TypeOK, DetectionIsRight
<1>5. QED
  BY <1>1, <1>2, <1>3, <1>4, ReleaseEffect, ChangeBaudEffect DEF Next

\* The invariant holds of every reachable state.
LEMMA Invariant == Spec => []IInv
  BY InitInv, NextInv, PTL DEF Spec

-----------------------------------------------------------------------------
\* The state of the handles and of the HAL keeps its type: in particular no
\* sequence of releases takes the reference count below zero.
THEOREM TypeCorrect == Spec => []TypeOK
<1>1. IInv => TypeOK
  BY DEF IInv
<1>2. QED
  BY <1>1, Invariant, PTL

\* No call on another handle takes the bus from under a live device.
THEOREM BusIsOwned == Spec => []LiveOwnsBus
<1>1. IInv => LiveOwnsBus
  BY DEF IInv
<1>2. QED
  BY <1>1, Invariant, PTL

\* The reference count is the number of live devices and of failed HAL inits.
THEOREM ReferencesBalance == Spec => []RefsAreAccounted
<1>1. ASSUME IInv PROVE RefsAreAccounted
  <2>1. Cardinality(Live) = CountOf(Live)
    <3>1. CASE Live = {}
      BY <3>1, FS_EmptySet DEF CountOf
    <3>2. CASE Live # {}
      <4>1. PICK h \in Live : Live = {h}
        BY <1>1, <3>2 DEF IInv, LiveOwnsBus
      <4>2. Cardinality({h}) = 1
        BY FS_Singleton
      <4>3. QED
        BY <3>2, <4>1, <4>2 DEF CountOf
    <3>3. QED
      BY <3>1, <3>2
  <2>2. QED
    BY <1>1, <2>1 DEF IInv, Refs, RefsAreAccounted
<1>2. QED
  BY <1>1, Invariant, PTL

\* The detection never mistakes one type of chip for another.
THEOREM DetectsTheChip == Spec => []DetectionIsRight
<1>1. IInv => DetectionIsRight
  BY DEF IInv
<1>2. QED
  BY <1>1, Invariant, PTL
=============================================================================
