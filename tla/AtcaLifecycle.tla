---------------------------- MODULE AtcaLifecycle ----------------------------
(***************************************************************************)
(* Opening and releasing device contexts: atcab_init_ext and               *)
(* atcab_release_ext (lib/atca_basic.c), the device and interface objects  *)
(* below them (lib/atca_device.c, lib/atca_iface.c), the reference counted *)
(* I2C bus of the ESP32 HAL (third_party/hal/esp32/hal_esp32_i2c.c), and   *)
(* the firmware's detection of the chip's type, which opens the global     *)
(* context once per candidate address.                                     *)
(*                                                                         *)
(* Handles are the ATCADevice variables of the application; they all use   *)
(* the configuration cfg_ateccx08a_i2c_default and its one bus.  A step is *)
(* one call of the API with at most one fault f.                           *)
(***************************************************************************)
EXTENDS Naturals, FiniteSets

CONSTANTS Handles,  \* the ATCADevice variables
          Global,   \* g_atcab_device_ptr
          Driver,   \* which half of the HAL is compiled: "legacy" or "master"
          ChipType, \* the chip on the bus
          MaxRef    \* bound: no context is opened at this reference count

Types == {"TrustCustom", "TrustGo", "TrustFlex"}

\* The configured address of each type; a chip answers to its upper 7 bits.
ConfigAddress(t) == CASE t = "TrustCustom" -> 192 [] t = "TrustGo" -> 106 [] OTHER -> 108
ChipAddress == ConfigAddress(ChipType) \div 2

ASSUME HandlesAssumption == Global \in Handles
ASSUME DriverAssumption == Driver \in {"legacy", "master"} /\ ChipType \in Types
ASSUME BoundAssumption == MaxRef \in Nat \ {0}

VARIABLES device,  \* what each handle points to: "null" or a "live" device
          hal,     \* i2c_hal_data[bus]; dev_handle is the new driver's only
          address, \* cfg->atcai2c.address
          status,  \* what the last call returned
          probe,   \* the address the detection tries next; 0: none runs
          found,   \* the type it reported
          leaked   \* history: how many HAL inits have failed

vars == <<device, hal, address, status, probe, found, leaked>>

Live == {h \in Handles : device[h] = "live"}

TypeOK ==
    /\ device \in [Handles -> {"null", "live"}]
    /\ hal \in [ref_ct : 0..MaxRef, bus : {"closed", "open"},
                dev_handle : {"null", "registered", "stale"}, device_address : Nat]
    /\ address \in Nat
    /\ status \in {"SUCCESS", "GEN_FAIL", "COMM_FAIL", "READ_FAILED"}
    /\ probe \in 0..3 /\ found \in Types \cup {"none"}
    /\ leaked \in Nat

\* Static data is zero; the address is Kconfig's for the selected type.
Init ==
    /\ device = [h \in Handles |-> "null"]
    /\ hal = [ref_ct |-> 0, bus |-> "closed", dev_handle |-> "null", device_address |-> 0]
    /\ address \in {ConfigAddress(t) : t \in Types}
    /\ status = "SUCCESS" /\ probe = 0 /\ found = "none" /\ leaked = 0

-----------------------------------------------------------------------------
(* The HAL, on the record u *)

\* Mutant: a second user of the bus is taken on.
OpensShared(u, f) == f \notin {"install", "add"}

\* Whether hal_i2c_init succeeds: the branch that finds the bus in use leaves
\* rc at ESP_FAIL.
Opens(u, f) == u.ref_ct = 0 /\ f \notin {"install", "add"}

\* Mutant: an init that fails drops the reference count it found.
HalInitResetting(u, a, f) ==
    IF u.ref_ct > 0 THEN [u EXCEPT !.ref_ct = 0]
    ELSE [ref_ct |-> 1, bus |-> IF Opens(u, f) THEN "open" ELSE "closed",
          dev_handle |-> IF Driver = "master" /\ Opens(u, f) THEN "registered" ELSE "null",
          device_address |-> IF Driver = "master" THEN a \div 2 ELSE 0]

\* hal_i2c_init.  The count goes up first, whatever comes of the rest; the
\* bus that a failed add_device deletes is never used again.
HalInit(u, a, f) ==
    IF u.ref_ct > 0 THEN [u EXCEPT !.ref_ct = @ + 1]
    ELSE [ref_ct |-> 1,
          bus |-> IF Opens(u, f) THEN "open" ELSE "closed",
          dev_handle |-> IF Driver = "master" /\ Opens(u, f) THEN "registered" ELSE "null",
          device_address |-> IF Driver = "master" /\ f # "install"
                             THEN a \div 2 ELSE u.device_address]

\* hal_i2c_release; a stale dev_handle is passed to the driver once more.
HalRelease(u) ==
    IF u.ref_ct > 1 THEN [u EXCEPT !.ref_ct = @ - 1]
    ELSE [u EXCEPT !.ref_ct = @ - 1, !.bus = "closed", !.dev_handle = "null"]

\* The 7 address bits on the wire: the old driver shifts the configured byte
\* up at every transaction, the new one shifted it down when the bus opened.
WireAddress(u, a) ==
    IF Driver = "legacy" THEN ((2 * a) % 256) \div 2 ELSE u.device_address

-----------------------------------------------------------------------------
(* The API *)

\* Mutant: opens a handle without releasing what it holds.
BeforeOpenKept(h) == hal

\* deleteATCADevice on what the handle holds, if anything.
BeforeOpen(h) == IF device[h] = "live" THEN HalRelease(hal) ELSE hal

\* atcab_init_ext(&h, cfg) with cfg's address set to a: allocate the device,
\* open the HAL, read the clock divider.  A device whose chip did not answer
\* is kept; one whose HAL did not open is freed.  The new driver's wake is
\* not modelled: f says whether the chip heard it.
Open(h, a, f) ==
    LET u == BeforeOpen(h)
        ok == f # "malloc" /\ Opens(u, f)
        answers == f # "read" /\ WireAddress(hal', a) = ChipAddress
    IN  /\ u.ref_ct < MaxRef
        /\ f \in {"none", "malloc", "install", "read"}
             \cup (IF Driver = "master" THEN {"add"} ELSE {})
        /\ address' = a
        /\ hal' = IF f = "malloc" THEN u ELSE HalInit(u, a, f)
        /\ device' = [device EXCEPT ![h] = IF ok THEN "live" ELSE "null"]
        /\ status' = CASE ~ok -> "GEN_FAIL" [] ok /\ answers -> "SUCCESS"
                       [] OTHER -> "READ_FAILED"
        /\ leaked' = IF f # "malloc" /\ ~ok THEN leaked + 1 ELSE leaked

Faults == {"none", "malloc", "install", "add", "read", "rm"}

\* An application opens its handle.
InitDevice(h, f) ==
    /\ h = Global => probe = 0
    /\ \E t \in Types : Open(h, ConfigAddress(t), f)
    /\ UNCHANGED <<probe, found>>

\* Mutant: the check for a handle that holds nothing is lost.
ReleaseAnything(h) ==
    /\ h = Global => probe = 0
    /\ status' = "SUCCESS"
    /\ device' = [device EXCEPT ![h] = "null"]
    /\ hal' = HalRelease(hal)
    /\ UNCHANGED <<address, probe, found, leaked>>

\* atcab_release_ext: releasing a handle that holds nothing changes nothing.
Release(h) ==
    /\ h = Global => probe = 0
    /\ status' = "SUCCESS"
    /\ device' = [device EXCEPT ![h] = "null"]
    /\ hal' = IF device[h] = "live" THEN HalRelease(hal) ELSE hal
    /\ UNCHANGED <<address, probe, found, leaked>>

\* hal_i2c_change_baud of the new driver: the device is taken off the bus and
\* added again.  A failed add leaves dev_handle pointing to what was freed,
\* and what the driver makes of that the next time is left open.
ChangeBaud(h, f) ==
    /\ Driver = "master" /\ device[h] = "live"
    /\ f \in {"none", "rm", "add"}
    /\ status' = IF f = "none" THEN "SUCCESS" ELSE "COMM_FAIL"
    /\ hal' = CASE f = "none" -> [hal EXCEPT !.dev_handle = "registered"]
                [] f = "add"  -> [hal EXCEPT !.dev_handle = "stale"]
                [] OTHER      -> hal
    /\ UNCHANGED <<device, address, probe, found, leaked>>

-----------------------------------------------------------------------------
(* init_atecc608_device: one candidate after the other on the global handle *)

Candidate(i) == CASE i = 1 -> "TrustCustom" [] i = 2 -> "TrustGo" [] OTHER -> "TrustFlex"

StartDetection ==
    /\ probe = 0
    /\ probe' = 1 /\ found' = "none"
    /\ UNCHANGED <<device, hal, address, status, leaked>>

Probe(f) ==
    /\ probe > 0
    /\ Open(Global, ConfigAddress(Candidate(probe)), f)
    /\ IF status' = "SUCCESS"
       THEN found' = Candidate(probe) /\ probe' = 0
       ELSE /\ UNCHANGED found
            /\ probe' = IF probe = 3 THEN 0 ELSE probe + 1

Next ==
    \/ \E h \in Handles : Release(h)
    \/ \E h \in Handles, f \in Faults : InitDevice(h, f)
    \/ \E h \in Handles, f \in Faults : ChangeBaud(h, f)
    \/ StartDetection
    \/ \E f \in Faults : Probe(f)

Spec == Init /\ [][Next]_vars

-----------------------------------------------------------------------------
(* Properties *)

\* No sequence of opens, failed opens and releases, on any of the handles,
\* takes the bus from under a live device: a live device is the only one,
\* holds a reference, and finds its bus open and its device registered.
LiveOwnsBus ==
    \A h \in Live :
        /\ Live = {h}
        /\ hal.ref_ct > 0 /\ hal.bus = "open"
        /\ Driver = "master" => hal.dev_handle # "null"

\* Every reference is a live device's or that of a HAL init that failed: an
\* open that fails for want of memory or of an answer costs none, and as long
\* as no HAL init has failed the bus is open exactly while a device is live.
RefsAreAccounted ==
    /\ hal.ref_ct = Cardinality(Live) + leaked
    /\ leaked = 0 => (hal.bus = "open" <=> Live # {})

\* The detection never reports another type than the chip's, although its
\* probes fail halfway, share the configuration with other handles, and go to
\* the address the driver captured when the bus was opened.
DetectionIsRight == found # "none" => found = ChipType
=============================================================================
