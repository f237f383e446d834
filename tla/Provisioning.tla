---------------------------- MODULE Provisioning ----------------------------
(***************************************************************************)
(* Provisioning a chip: the host (secure_cert_mfg.py and                   *)
(* helper_scripts/serial.py, or an operator who follows the guides), the   *)
(* console firmware it loads into the ESP32 (app_main.c, commands.c,       *)
(* handlers.c), the serial line between them, and the ATECC608.            *)
(*                                                                         *)
(* The host sends one command, with a payload when the command has one,    *)
(* and waits for its Status line.  The firmware runs one handler at a      *)
(* time.  Any operation of the chip may fail, with or without its effect.  *)
(* The host may be stopped and started again at any moment, which loads    *)
(* the firmware afresh; the chip keeps what was done to it.  To stop in    *)
(* the middle of a handler is an operation that fails there, then a stop.  *)
(***************************************************************************)
EXTENDS Naturals, Sequences

CONSTANTS Plans,      \* what hosts do: the commands of a run in order, whether the
                      \* chip comes with its zones configured and locked, and
                      \* whether the line may lose the end of a payload
          LockSlots,  \* --lock_slots
          Damageable, \* the payloads that the line may damage
          MaxRuns     \* bound: how often the host is started

Kinds == {"device", "signer"}
Commands == {"init", "print-chip-info", "generate-keys", "generate-csr", "generate-pubkey",
             "provide-cert-def 0", "provide-cert-def 1", "program-dev-cert",
             "program-signer-cert", "write-config", "lock-config", "lock-data",
             "is-config-locked", "get-tngtls-root-cert"}
Sent == Commands \cup {"an unread payload"} \* what the firmware may take for a command

ASSUME PlansAssumption ==
    \A p \in Plans : /\ p.commands \in Seq(Commands) /\ p.commands # <<>>
                     /\ p.delivered \in BOOLEAN /\ p.losable \in BOOLEAN
ASSUME LineAssumption ==
    /\ LockSlots \in BOOLEAN
    /\ Damageable \subseteq {"def", "cert", "config"}
ASSUME BoundAssumption == MaxRuns \in Nat \ {0}

VARIABLES
    host,          \* "ready" to send, "waiting", "done" or "stopped"
    plan,          \* what this host does
    step,          \* the command of the plan the host is at
    run,           \* how often it was started
    csr,           \* the key its certificate request is for; 0: none
    line,          \* what it sent and the firmware has not taken
    reply,         \* the Status the firmware printed, and what came with it
    status_object, \* atca_cli_status_object
    found,         \* whether init found the chip
    def,           \* g_cert_def_common
    chip,          \* the chip's zones, keys and slots
    fault          \* history: what went wrong in this run; "none"

hostVars == <<host, plan, step, run, csr>>
vars == <<host, plan, step, run, csr, line, reply, status_object, found, def, chip, fault>>

Idle == [command |-> "none", payload |-> "none", key |-> 0]
Unread == [Idle EXCEPT !.command = "an unread payload"]
NoReply == [status |-> "none", key |-> 0]

\* device_status_t: a success is one more than the failure before it, but for
\* GET_CERT_DEF_SUCCESS, 9, and GET_CERT_DEF_FAIL, 10.
ATECC_INIT_SUCCESS == 2
KEY_PAIR_GEN_FAIL == 3
CSR_GEN_FAIL == 5
CSR_GEN_SUCCESS == 6
PUBKEY_GEN_FAIL == 7
GET_CERT_DEF_FAIL == 10
PROGRAM_CERT_FAIL == 12

FirmwareStarts ==
    /\ status_object' = 0 /\ found' = FALSE
    /\ def' = [kind |-> "none", intact |-> TRUE]

Init ==
    /\ plan \in Plans
    /\ host = "ready" /\ step = 1 /\ run = 1 /\ csr = 0
    /\ line = Idle /\ reply = NoReply
    /\ status_object = 0 /\ found = FALSE /\ def = [kind |-> "none", intact |-> TRUE]
    /\ chip = [config |-> IF plan.delivered THEN "set" ELSE "blank",
               config_locked |-> plan.delivered, data_locked |-> plan.delivered, key |-> 0,
               cert |-> [k \in Kinds |-> [of |-> "none", key |-> 0, state |-> "empty"]],
               slot_locked |-> [k \in Kinds |-> FALSE]]
    /\ fault = "none"

-----------------------------------------------------------------------------
(* The host *)

PayloadOf(command) ==
    CASE command \in {"provide-cert-def 0", "provide-cert-def 1"}    -> "def"
      [] command \in {"program-dev-cert", "program-signer-cert"}     -> "cert"
      [] command = "write-config"                                    -> "config"
      [] OTHER                                                       -> "none"

\* The first half of exec_cmd: the command, then its payload and a NUL.
SendCommand ==
    /\ host = "ready"
    /\ host' = "waiting"
    /\ LET command == plan.commands[step]
           kind == PayloadOf(command)
       IN \E p \in {IF kind = "none" THEN "none" ELSE "intact"}
                     \cup (IF kind \in Damageable THEN {"damaged"} ELSE {})
                     \cup (IF kind # "none" /\ plan.losable THEN {"lost"} ELSE {}) :
            /\ line' = [command |-> command, payload |-> p,
                        key |-> IF command = "program-dev-cert" THEN csr ELSE 0]
            /\ fault' = IF p \in {"damaged", "lost"} THEN "met" ELSE fault
    /\ UNCHANGED <<plan, step, run, csr, reply, status_object, found, def, chip>>

\* The second half, and esp_cmd_check_ok: the script ends at the first failure,
\* and after an init that did not name the chip's type.
Receive ==
    /\ host = "waiting" /\ reply.status # "none"
    /\ reply' = NoReply
    /\ csr' = IF plan.commands[step] = "generate-csr" THEN reply.key ELSE csr
    /\ IF reply.status = "Failure" \/ (plan.commands[step] = "init" /\ ~found)
       THEN host' = "stopped" /\ UNCHANGED step
       ELSE IF step = Len(plan.commands) THEN host' = "done" /\ UNCHANGED step
       ELSE host' = "ready" /\ step' = step + 1
    /\ UNCHANGED <<plan, run, line, status_object, found, def, chip, fault>>

\* The host is stopped, wherever it is, and started again.
StartAgain ==
    /\ run < MaxRuns
    /\ run' = run + 1 /\ host' = "ready" /\ step' = 1 /\ csr' = 0
    /\ line' = Idle /\ reply' = NoReply /\ fault' = "none"
    /\ FirmwareStarts
    /\ UNCHANGED <<plan, chip>>

-----------------------------------------------------------------------------
(* The chip: an operation it refuses fails; any other one may fail as well, *)
(* before or after it took effect, or leave one of the states in between.  *)

Refused(c) == [ok |-> FALSE, chip |-> c, fault |-> FALSE]
Succeeds(c) == [ok |-> TRUE, chip |-> c, fault |-> FALSE]
Fails(c) == [ok |-> FALSE, chip |-> c, fault |-> TRUE]

Outcomes(allowed, new, between) ==
    IF allowed /\ found THEN {Succeeds(new)} \cup {Fails(c) : c \in {chip, new} \cup between}
    ELSE {Refused(chip)}

Reading == Outcomes(TRUE, chip, {})

\* atcacert_write_cert, with the definition the firmware holds: a write for each
\* location it names, the slot that may be locked first.  The definition the
\* firmware starts with names none, and that is a success.
CertWrites(kind, key) ==
    LET slot == def.kind
        stored == [of |-> kind, key |-> key,
                   state |-> IF slot = kind /\ def.intact /\ line.payload = "intact"
                             THEN "whole" ELSE "wrong"]
    IN  IF slot = "none" THEN {Succeeds(chip)}
        ELSE Outcomes(chip.config_locked /\ ~chip.slot_locked[slot],
                      [chip EXCEPT !.cert[slot] = stored],
                      {[chip EXCEPT !.cert[slot].state = "partial"]})

\* atcab_lock_data_slot on what the writes left.
LockOutcomes(kind, c) ==
    LET locked == [c EXCEPT !.slot_locked[kind] = TRUE]
    IN  IF ~found \/ c.slot_locked[kind] THEN {Refused(c)}
        ELSE {Succeeds(locked), Fails(locked), Fails(c)}

\* Mutant: the slot is locked whatever the writes returned.
SlotLocksRegardless(kind, w) ==
    IF LockSlots THEN LockOutcomes(kind, w.chip) ELSE {w}

SlotLocks(kind, w) ==
    IF w.ok /\ LockSlots THEN LockOutcomes(kind, w.chip) ELSE {w}

\* Mutant: the results of the writes are not looked at.
ConfigWritesUnchecked ==
    {Succeeds(chip), Succeeds([chip EXCEPT !.config = "set"]),
     Succeeds([chip EXCEPT !.config = "partial"])}

\* The words of the configuration, four bytes each, in order.
ConfigWrites ==
    Outcomes(~chip.config_locked, [chip EXCEPT !.config = "set"],
             {[chip EXCEPT !.config = "partial"]})

\* Locks a zone, unless it is locked already.
Locks(locked, allowed, new) == IF locked THEN Reading ELSE Outcomes(allowed, new, {})

-----------------------------------------------------------------------------
(* The firmware: scli_loop takes a line and runs its handler to the end. *)

\* Mutant: only the state right after a request is accepted, not the later ones.
NeededExactly(command) ==
    CASE command = "init"                                            -> 0
      [] command \in {"program-dev-cert", "program-signer-cert"}
            -> IF status_object = CSR_GEN_SUCCESS THEN 0 ELSE 14
      [] OTHER                                                       -> ATECC_INIT_SUCCESS

\* What the status must have reached for the handler to do anything.
Needed(command) ==
    CASE command = "init"                                            -> 0
      [] command \in {"program-dev-cert", "program-signer-cert"}     -> CSR_GEN_SUCCESS
      [] OTHER                                                       -> ATECC_INIT_SUCCESS

Unknown == {"get-tngtls-root-cert", "an unread payload"}
Served == {c \in Commands \ Unknown : status_object >= Needed(c)}
Serves(commands) == line.command \in commands \cap Served

After(o, fail) == IF o.ok THEN fail + 1 ELSE fail

Prints(ok, key) == reply' = [status |-> IF ok THEN "Success" ELSE "Failure", key |-> key]

Finishes(o, status) ==
    /\ line' = Idle
    /\ Prints(o.ok, IF o.ok /\ line.command = "generate-csr" THEN chip.key ELSE 0)
    /\ status_object' = status
    /\ chip' = o.chip
    /\ fault' = IF o.fault THEN "met" ELSE fault
    /\ UNCHANGED <<hostVars, found>>

\* init: the status is Success even if no address answers.
InitDevice ==
    /\ Serves({"init"})
    /\ line' = Idle /\ Prints(TRUE, 0)
    /\ found' \in BOOLEAN
    /\ status_object' = ATECC_INIT_SUCCESS
    /\ fault' = IF found' THEN fault ELSE "met"
    /\ UNCHANGED <<hostVars, def, chip>>

PrintInfo ==
    /\ Serves({"print-chip-info", "is-config-locked"})
    /\ \E o \in Reading : Finishes(o, status_object)
    /\ UNCHANGED def

\* The private key of slot 0 is made anew: the key of this run.
GenerateKeyPair ==
    /\ Serves({"generate-keys"})
    /\ \E o \in Outcomes(chip.config_locked, [chip EXCEPT !.key = run], {}) :
          Finishes(o, After(o, KEY_PAIR_GEN_FAIL))
    /\ UNCHANGED def

GenerateCsr ==
    /\ Serves({"generate-csr"})
    /\ \E o \in Outcomes(chip.key # 0, chip, {}) : Finishes(o, After(o, CSR_GEN_FAIL))
    /\ UNCHANGED def

GeneratePubKey ==
    /\ Serves({"generate-pubkey"})
    /\ \E o \in Outcomes(chip.key # 0, chip, {}) : Finishes(o, After(o, PUBKEY_GEN_FAIL))
    /\ UNCHANGED def

\* Waits for the payload's NUL for ever.  The definition is not verified, and
\* the status is the wrong one of the two.
ProvideCertDef ==
    /\ Serves({"provide-cert-def 0", "provide-cert-def 1"})
    /\ line.payload # "lost"
    /\ def' = [kind |-> IF line.command = "provide-cert-def 0" THEN "device" ELSE "signer",
               intact |-> line.payload = "intact"]
    /\ Finishes(Succeeds(chip), GET_CERT_DEF_FAIL)

\* Mutants: the CRC is not compared; it is taken over more than was received.
CrcIgnored == TRUE
CrcOfBuffer == FALSE

CrcAgrees == line.payload = "intact"

ProgramCert ==
    /\ Serves({"program-dev-cert", "program-signer-cert"})
    /\ line.payload # "lost"
    /\ LET kind == IF line.command = "program-dev-cert" THEN "device" ELSE "signer"
       IN \E o \in IF ~CrcAgrees THEN {Refused(chip)}
                   ELSE UNION {SlotLocks(kind, w) : w \in CertWrites(kind, line.key)} :
            Finishes(o, After(o, PROGRAM_CERT_FAIL))
    /\ UNCHANGED def

\* The lock is read before the payload: when that fails, or says locked, the
\* payload stays in the line and is taken for the next command.
RefuseConfig ==
    /\ Serves({"write-config"})
    /\ \E o \in {r \in Reading : ~r.ok} \cup (IF chip.config_locked THEN {Refused(chip)} ELSE {}) :
          /\ Prints(FALSE, 0)
          /\ fault' = IF o.fault THEN "met" ELSE fault
    /\ line' = Unread
    /\ UNCHANGED <<hostVars, status_object, found, def, chip>>

WriteConfig ==
    /\ Serves({"write-config"})
    /\ found /\ ~chip.config_locked /\ line.payload # "lost"
    /\ \E o \in IF CrcAgrees THEN ConfigWrites ELSE {Refused(chip)} :
          Finishes(o, status_object)
    /\ UNCHANGED def

LockConfigZone ==
    /\ Serves({"lock-config"})
    /\ \E o \in Locks(chip.config_locked, TRUE, [chip EXCEPT !.config_locked = TRUE]) :
          Finishes(o, status_object)
    /\ UNCHANGED def

LockDataZone ==
    /\ Serves({"lock-data"})
    /\ \E o \in Locks(chip.data_locked, chip.config_locked,
                      [chip EXCEPT !.data_locked = TRUE]) :
          Finishes(o, status_object)
    /\ UNCHANGED def

\* A command that is not registered, or that comes too early: no Status at all.
Ignore ==
    /\ line.command \in Sent \ Served
    /\ line' = IF line.payload = "none" THEN Idle ELSE Unread
    /\ UNCHANGED <<hostVars, reply, status_object, found, def, chip, fault>>

Firmware ==
    \/ InitDevice \/ PrintInfo \/ GenerateKeyPair \/ GenerateCsr \/ GeneratePubKey
    \/ ProvideCertDef \/ ProgramCert \/ RefuseConfig \/ WriteConfig
    \/ LockConfigZone \/ LockDataZone \/ Ignore

Next == SendCommand \/ Receive \/ Firmware \/ StartAgain

\* Neither program stops between two steps of its own; starting again is free.
Spec == Init /\ [][Next]_vars /\ WF_vars(SendCommand) /\ WF_vars(Receive) /\ WF_vars(Firmware)

-----------------------------------------------------------------------------
(* The order in which a plan gives the commands that depend on one another. *)

Provide == [device |-> "provide-cert-def 0", signer |-> "provide-cert-def 1"]
Program == [device |-> "program-dev-cert", signer |-> "program-signer-cert"]

Follows(first, c, i) == \E j \in 1..(i-1) : c[j] = first

\* The definition the firmware holds when it programs a certificate is that one's.
DefinedFirst(c) ==
    \A k \in Kinds, i \in 1..Len(c) :
        c[i] = Program[k] => \E j \in 1..(i-1) :
            c[j] = Provide[k] /\ \A n \in (j+1)..(i-1) : c[n] \notin {Provide[l] : l \in Kinds}

\* The configuration is written before it is locked.
WrittenFirst(c) == \A i \in 1..Len(c) : c[i] = "lock-config" => Follows("write-config", c, i)

\* A device certificate is the answer to a request, and no new key comes between.
RequestedFirst(c) ==
    \A i \in 1..Len(c) :
        /\ c[i] = "program-dev-cert" => Follows("generate-csr", c, i)
        /\ c[i] = "generate-keys" => ~Follows("generate-csr", c, i)

\* A key is made before anything is asked of it.
KeyedFirst(c) ==
    \A i \in 1..Len(c) :
        c[i] \in {"generate-csr", "generate-pubkey"} => Follows("generate-keys", c, i)

-----------------------------------------------------------------------------
(* When the script (secure_cert_mfg.py) reports the end of its run, the     *)
(* chip holds the certificate of the key it now has and the signer's        *)
(* certificate, both whole, and the slots are locked as asked for.          *)
ProvisionedRight ==
    host = "done" =>
        /\ chip.cert["device"] = [of |-> "device", key |-> chip.key, state |-> "whole"]
        /\ chip.cert["signer"].of = "signer" /\ chip.cert["signer"].state = "whole"
        /\ \A k \in Kinds : LockSlots => chip.slot_locked[k]

(* atcab_lock_data_slot cannot be undone: whatever failed, and however often *)
(* the script was stopped and started again, a slot is only ever locked with *)
(* the certificate it is meant for.                                          *)
LockedCertIsComplete ==
    \A k \in Kinds : chip.slot_locked[k] => chip.cert[k].of = k /\ chip.cert[k].state = "whole"

(* atecc_lock_config_zone cannot be undone either: an operator who follows   *)
(* the guide and stops at a failure never locks half a configuration.        *)
LockedConfigIsComplete == chip.config_locked => chip.config = "set"

(* The script gives up only if something went wrong in this run, or over a  *)
(* slot that an earlier one locked: nothing else that a stopped run left on  *)
(* the chip stands in the way of the next one.  (Over a blank chip the guide *)
(* ends at a zone that an earlier run locked.)                               *)
CleanRunFinishes ==
    host = "stopped" /\ plan.delivered => fault = "met" \/ \E k \in Kinds : chip.slot_locked[k]

(* The script ends: every command gets its Status line (exec_cmd waits for   *)
(* one without a timeout), whatever the chip answers, if no payload loses    *)
(* its end.                                                                  *)
ScriptEnds == plan.losable \/ <>[](host \in {"done", "stopped"})
=============================================================================
