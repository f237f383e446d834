------------------------- MODULE ProvisioningProofs -------------------------
(***************************************************************************)
(* Proofs about Provisioning, for any plans whose commands are in order,   *)
(* and any number of starts.                                               *)
(***************************************************************************)
EXTENDS Provisioning, TLAPS

States == {"empty", "partial", "wrong", "whole"}
Certs == [of : Kinds \cup {"none"}, key : Nat, state : States]
Chips == [config : {"blank", "partial", "set"}, config_locked : BOOLEAN,
          data_locked : BOOLEAN, key : Nat, cert : [Kinds -> Certs],
          slot_locked : [Kinds -> BOOLEAN]]
Payloads == {"none", "intact", "damaged", "lost"}

\* The type of every variable.
TypeOK ==
    /\ host \in {"ready", "waiting", "done", "stopped"}
    /\ plan \in Plans
    /\ step \in 1..Len(plan.commands)
    /\ run \in 1..MaxRuns
    /\ csr \in Nat
    /\ line \in [command : Sent \cup {"none"}, payload : Payloads, key : Nat]
    /\ reply \in [status : {"none", "Success", "Failure"}, key : Nat]
    /\ status_object \in Nat
    /\ found \in BOOLEAN
    /\ def \in [kind : Kinds \cup {"none"}, intact : BOOLEAN]
    /\ chip \in Chips
    /\ fault \in {"none", "met"}

\* A command in the line is the one the host waits for; so is an answer.
InStep ==
    /\ line.command \in Commands =>
          /\ host = "waiting" /\ reply.status = "none"
          /\ line.command = plan.commands[step]
          /\ line.command = "program-dev-cert" => line.key = csr
          /\ PayloadOf(line.command) # "none" =>
                line.payload \in {"intact", "lost"}
                   \cup {d \in {"damaged"} : PayloadOf(line.command) \in Damageable}
    /\ reply.status # "none" => host = "waiting"
    /\ host = "done" => step = Len(plan.commands)

Base == TypeOK /\ InStep

Failing == reply.status = "Failure" \/ host = "stopped"

\* The commands of this run that were answered with success.
Past == IF reply.status = "Success" \/ host = "done" THEN 1..step ELSE 1..(step - 1)

\* A locked configuration is whole, and so is one that was written in this run.
ConfigInv ==
    /\ LockedConfigIsComplete
    /\ ~Failing => \A i \in Past : plan.commands[i] = "write-config" => chip.config = "set"

\* The definition the firmware holds is the last one it was given.
DefInv ==
    /\ def.intact
    /\ ~Failing => \A k \in Kinds, i \in Past :
          plan.commands[i] = Provide[k]
          /\ (\A n \in Past : n > i => plan.commands[n] \notin {Provide[l] : l \in Kinds})
          => def.kind = k

CertInv == DefInv /\ LockedCertIsComplete

\* The request is for the key the chip has.
CsrInv ==
    /\ \A i \in 1..(step-1) : plan.commands[i] = "generate-csr" => csr = chip.key
    /\ plan.commands[step] = "generate-csr" =>
          /\ reply.status = "Success" => reply.key = chip.key
          /\ host = "done" => csr = chip.key

\* What a run has programmed is on the chip.
Programmed(k) ==
    /\ chip.cert[k].of = k /\ chip.cert[k].state = "whole"
    /\ k = "device" => chip.cert[k].key = chip.key
    /\ LockSlots => chip.slot_locked[k]

RightInv ==
    /\ ~Failing => CsrInv
    /\ ~Failing => \A k \in Kinds, i \in Past : plan.commands[i] = Program[k] => Programmed(k)

\* A delivered chip, and what makes a run over it fail.
Excused == fault = "met" \/ \E k \in Kinds : chip.slot_locked[k]

CleanInv ==
    /\ status_object # 0 /\ ~found => fault = "met"
    /\ reply.status # "none" => status_object # 0
    /\ line.payload \in {"damaged", "lost"} => fault = "met"
    /\ plan.delivered =>
          /\ chip.config_locked /\ chip.data_locked
          /\ ~Failing => \A i \in Past : plan.commands[i] = "generate-keys" => chip.key # 0
          /\ Failing => Excused

-----------------------------------------------------------------------------
(* The chip's answers *)

\* What an operation of the chip may come to.
LEMMA OutcomeIs ==
    ASSUME NEW allowed \in BOOLEAN, NEW new, NEW between,
           NEW o \in Outcomes(allowed, new, between), found \in BOOLEAN
    PROVE  /\ o.ok \in BOOLEAN /\ o.fault \in BOOLEAN
           /\ o.chip \in {chip, new} \cup between
           /\ o.ok => allowed /\ found /\ o.chip = new
           /\ o.chip # chip => allowed /\ found
           /\ ~o.ok => o.fault \/ ~allowed \/ ~found
  <1>1. CASE o = Refused(chip) /\ ~(allowed /\ found)
    BY <1>1 DEF Refused
  <1>2. CASE o = Succeeds(new) /\ allowed /\ found
    BY <1>2 DEF Succeeds
  <1>3. ASSUME NEW c \in {chip, new} \cup between, o = Fails(c), allowed, found
        PROVE  o.ok = FALSE /\ o.fault = TRUE /\ o.chip = c
    BY <1>3 DEF Fails
  <1>4. \/ o = Refused(chip) /\ ~(allowed /\ found)
        \/ o = Succeeds(new) /\ allowed /\ found
        \/ \E c \in {chip, new} \cup between : o = Fails(c) /\ allowed /\ found
    <2>1. CASE allowed /\ found
      <3>1. o \in {Succeeds(new)} \cup {Fails(c) : c \in {chip, new} \cup between}
        BY <2>1 DEF Outcomes
      <3> QED BY <2>1, <3>1
    <2>2. CASE ~(allowed /\ found)
      BY <2>2 DEF Outcomes
    <2> QED BY <2>1, <2>2
  <1> QED BY <1>1, <1>2, <1>3, <1>4

\* A read leaves the chip alone and fails only for a fault or an absent chip.
LEMMA ReadingIs ==
    ASSUME NEW o \in Reading, found \in BOOLEAN
    PROVE  /\ o.ok \in BOOLEAN /\ o.fault \in BOOLEAN /\ o.chip = chip
           /\ ~o.ok => o.fault \/ ~found
  <1>1. CASE o = Refused(chip) /\ ~found
    BY <1>1 DEF Refused
  <1>2. CASE o = Succeeds(chip)
    BY <1>2 DEF Succeeds
  <1>3. CASE o = Fails(chip)
    BY <1>3 DEF Fails
  <1>4. \/ o = Refused(chip) /\ ~found
        \/ o = Succeeds(chip)
        \/ o = Fails(chip)
    BY DEF Reading, Outcomes
  <1> QED BY <1>1, <1>2, <1>3, <1>4

\* Locking a zone locks it, if it succeeds, and nothing else.
LEMMA LocksIs ==
    ASSUME NEW locked \in BOOLEAN, NEW allowed \in BOOLEAN, NEW new,
           NEW o \in Locks(locked, allowed, new), found \in BOOLEAN
    PROVE  /\ o.ok \in BOOLEAN /\ o.fault \in BOOLEAN
           /\ o.chip \in {chip, new}
           /\ ~o.ok => o.fault \/ ~found \/ (~locked /\ ~allowed)
           /\ o.chip # chip => ~locked /\ allowed
  <1>1. CASE locked
    BY <1>1, ReadingIs DEF Locks
  <1>2. CASE ~locked
    BY <1>2, OutcomeIs DEF Locks
  <1> QED BY <1>1, <1>2

\* The certificate that a chip holds once its writes succeeded.
Stored(kind, key) ==
    [of |-> kind, key |-> key,
     state |-> IF def.kind = kind /\ def.intact /\ line.payload = "intact"
               THEN "whole" ELSE "wrong"]

\* The writes of a certificate touch the slot of the definition, while it is
\* open, and leave there, if they succeed, what was sent.
LEMMA CertWritesIs ==
    ASSUME Base, NEW kind \in Kinds, NEW key \in Nat, NEW w \in CertWrites(kind, key)
    PROVE  /\ w.ok \in BOOLEAN /\ w.fault \in BOOLEAN
           /\ w.chip \in Chips
           /\ w.chip = [chip EXCEPT !.cert = w.chip.cert]
           /\ \A k \in Kinds : k # def.kind \/ chip.slot_locked[k] => w.chip.cert[k] = chip.cert[k]
           /\ def.kind \in Kinds /\ w.ok => w.chip.cert[def.kind] = Stored(kind, key)
           /\ ~w.ok => w.fault \/ ~found \/ ~chip.config_locked
                       \/ \E k \in Kinds : chip.slot_locked[k]
  <1> DEFINE slot == def.kind
             new == [chip EXCEPT !.cert[slot] = Stored(kind, key)]
             half == [chip EXCEPT !.cert[slot].state = "partial"]
  <1>t. /\ chip \in Chips /\ found \in BOOLEAN /\ slot \in Kinds \cup {"none"}
        /\ chip.cert \in [Kinds -> Certs] /\ chip.slot_locked \in [Kinds -> BOOLEAN]
    BY DEF Base, TypeOK, Chips
  <1>0. chip = [chip EXCEPT !.cert = chip.cert]
    BY <1>t DEF Chips
  <1>1. CASE slot = "none"
    <2>1. w = Succeeds(chip)
      BY <1>1 DEF CertWrites
    <2> QED BY <2>1, <1>0, <1>1, <1>t DEF Succeeds, Kinds
  <1>2. CASE slot # "none"
    <2>1. slot \in Kinds
      BY <1>2, <1>t
    <2>2. w \in Outcomes(chip.config_locked /\ ~chip.slot_locked[slot], new, {half})
      BY <1>2 DEF CertWrites, Stored
    <2>3. /\ w.ok \in BOOLEAN /\ w.fault \in BOOLEAN
          /\ w.chip \in {chip, new, half}
          /\ w.ok => w.chip = new
          /\ w.chip # chip => ~chip.slot_locked[slot]
          /\ ~w.ok => w.fault \/ ~found \/ ~chip.config_locked \/ chip.slot_locked[slot]
      <3> DEFINE open == chip.config_locked /\ ~chip.slot_locked[slot]
      <3>1. /\ open \in BOOLEAN
            /\ open <=> chip.config_locked /\ ~chip.slot_locked[slot]
            /\ w \in Outcomes(open, new, {half})
        BY <2>2
      <3> HIDE DEF new, half, slot, open
      <3>2. /\ w.ok \in BOOLEAN /\ w.fault \in BOOLEAN
            /\ w.chip \in {chip, new} \cup {half}
            /\ w.ok => w.chip = new
            /\ w.chip # chip => open
            /\ ~w.ok => w.fault \/ ~open \/ ~found
        BY <3>1, <1>t, OutcomeIs
      <3> QED BY <3>1, <3>2
    <2>4. Stored(kind, key) \in Certs
      BY DEF Stored, Certs, States
    <2>5. [chip.cert[slot] EXCEPT !.state = "partial"] \in Certs
      BY <2>1, <1>t DEF Certs, States
    <2>6. PICK c \in Certs : w.chip = [chip EXCEPT !.cert[slot] = c]
      <3>1. CASE w.chip = chip
        <4>1. chip = [chip EXCEPT !.cert[slot] = chip.cert[slot]]
          BY <1>t, <2>1 DEF Chips
        <4> QED BY <3>1, <4>1, <2>1, <1>t
      <3> QED BY <3>1, <2>3, <2>4, <2>5
    <2>7. /\ w.chip.cert = [chip.cert EXCEPT ![slot] = c]
          /\ w.chip \in Chips
          /\ w.chip = [chip EXCEPT !.cert = w.chip.cert]
      BY <2>6, <1>t DEF Chips
    <2>8. ASSUME NEW k \in Kinds, k # slot \/ chip.slot_locked[k]
          PROVE  w.chip.cert[k] = chip.cert[k]
      BY <2>8, <2>7, <2>3, <1>t
    <2>9. w.ok => w.chip.cert[slot] = Stored(kind, key)
      BY <2>3, <2>1, <1>t DEF Chips
    <2> QED BY <2>1, <2>3, <2>7, <2>8, <2>9
  <1> QED BY <1>1, <1>2

\* Programming a certificate writes it, then locks the slot it is for, if that is
\* asked for and the writes succeeded.
LEMMA ProgramIs ==
    ASSUME Base, NEW kind \in Kinds, NEW key \in Nat,
           NEW o \in UNION {SlotLocks(kind, w) : w \in CertWrites(kind, key)}
    PROVE  /\ o.ok \in BOOLEAN /\ o.fault \in BOOLEAN
           /\ o.chip \in Chips
           /\ o.chip = [chip EXCEPT !.cert = o.chip.cert, !.slot_locked = o.chip.slot_locked]
           /\ \A k \in Kinds : k # def.kind \/ chip.slot_locked[k] => o.chip.cert[k] = chip.cert[k]
           /\ \A k \in Kinds : k # kind => o.chip.slot_locked[k] = chip.slot_locked[k]
           /\ \A k \in Kinds : chip.slot_locked[k] => o.chip.slot_locked[k]
           /\ (o.ok \/ o.chip.slot_locked # chip.slot_locked) /\ def.kind \in Kinds
                 => o.chip.cert[def.kind] = Stored(kind, key)
           /\ o.ok /\ LockSlots => o.chip.slot_locked[kind]
           /\ ~o.ok => o.fault \/ ~found \/ ~chip.config_locked
                       \/ \E k \in Kinds : chip.slot_locked[k]
  <1>t. /\ chip \in Chips /\ found \in BOOLEAN
        /\ chip.slot_locked \in [Kinds -> BOOLEAN]
    BY DEF Base, TypeOK, Chips
  <1>1. PICK w \in CertWrites(kind, key) : o \in SlotLocks(kind, w)
    OBVIOUS
  <1>2. /\ w.ok \in BOOLEAN /\ w.fault \in BOOLEAN
        /\ w.chip \in Chips
        /\ w.chip = [chip EXCEPT !.cert = w.chip.cert]
        /\ \A k \in Kinds : k # def.kind \/ chip.slot_locked[k] => w.chip.cert[k] = chip.cert[k]
        /\ def.kind \in Kinds /\ w.ok => w.chip.cert[def.kind] = Stored(kind, key)
        /\ ~w.ok => w.fault \/ ~found \/ ~chip.config_locked
                    \/ \E k \in Kinds : chip.slot_locked[k]
    BY CertWritesIs
  <1>3. w.chip.slot_locked = chip.slot_locked
    BY <1>2, <1>t DEF Chips
  <1>4. CASE o = w /\ ~(w.ok /\ LockSlots)
    <2>1. w.chip = [chip EXCEPT !.cert = w.chip.cert, !.slot_locked = w.chip.slot_locked]
      BY <1>2, <1>3, <1>t DEF Chips
    <2> QED BY <1>2, <1>3, <1>4, <2>1
  <1>5. CASE w.ok /\ LockSlots
    <2> DEFINE locked == [w.chip EXCEPT !.slot_locked[kind] = TRUE]
    <2>1. o \in LockOutcomes(kind, w.chip)
      BY <1>1, <1>5 DEF SlotLocks
    <2>2. /\ o.ok \in BOOLEAN /\ o.fault \in BOOLEAN
          /\ o.chip \in {w.chip, locked}
          /\ o.ok => o.chip = locked
          /\ ~o.ok => o.fault \/ ~found \/ chip.slot_locked[kind]
      <3> HIDE DEF locked
      <3>1. CASE ~found \/ chip.slot_locked[kind]
        <4>1. o = Refused(w.chip)
          BY <2>1, <1>3, <3>1 DEF LockOutcomes
        <4> QED BY <4>1, <3>1 DEF Refused
      <3>2. CASE ~(~found \/ chip.slot_locked[kind])
        <4>1. o \in {Succeeds(locked), Fails(locked), Fails(w.chip)}
          BY <2>1, <1>3, <3>2 DEF LockOutcomes, locked
        <4>2. CASE o = Succeeds(locked)
          BY <4>2 DEF Succeeds
        <4>3. CASE o = Fails(locked)
          BY <4>3 DEF Fails
        <4>4. CASE o = Fails(w.chip)
          BY <4>4 DEF Fails
        <4> QED BY <4>1, <4>2, <4>3, <4>4
      <3> QED BY <3>1, <3>2
    <2>3. /\ o.chip.cert = w.chip.cert
          /\ o.chip.slot_locked \in {chip.slot_locked, [chip.slot_locked EXCEPT ![kind] = TRUE]}
          /\ o.ok => o.chip.slot_locked[kind]
          /\ o.chip \in Chips
      <3>1. /\ locked \in Chips /\ locked.cert = w.chip.cert
            /\ locked.slot_locked = [chip.slot_locked EXCEPT ![kind] = TRUE]
            /\ locked.slot_locked[kind]
        BY <1>2, <1>3, <1>t DEF Chips
      <3> HIDE DEF locked
      <3> QED BY <2>2, <1>2, <1>3, <3>1
    <2>4. o.chip = [chip EXCEPT !.cert = o.chip.cert, !.slot_locked = o.chip.slot_locked]
      <3>1. CASE o.chip = w.chip
        BY <3>1, <1>2, <1>3, <1>t DEF Chips
      <3>2. CASE o.chip = locked
        BY <3>2, <1>2, <1>3, <1>t DEF Chips
      <3> QED BY <3>1, <3>2, <2>2
    <2>5. \A k \in Kinds : /\ k # kind => o.chip.slot_locked[k] = chip.slot_locked[k]
                           /\ chip.slot_locked[k] => o.chip.slot_locked[k]
      BY <2>3, <1>t
    <2> QED BY <1>2, <1>5, <2>2, <2>3, <2>4, <2>5
  <1>6. \/ o = w /\ ~(w.ok /\ LockSlots)
        \/ w.ok /\ LockSlots
    BY <1>1, <1>2, LineAssumption DEF SlotLocks
  <1> QED BY <1>4, <1>5, <1>6

-----------------------------------------------------------------------------
(* Types, and the host and the firmware in step *)

\* The plan that a host follows is one of Plans.
LEMMA PlanIs ==
    ASSUME TypeOK
    PROVE  /\ Len(plan.commands) \in Nat
           /\ \A i \in 1..Len(plan.commands) : plan.commands[i] \in Commands
           /\ plan.delivered \in BOOLEAN
  BY PlansAssumption DEF TypeOK

\* A command of those named is answered: what changes of host and firmware.
Answered(commands) ==
    /\ line.command \in commands \cap Commands
    /\ line'.command \notin Commands
    /\ line' \in [command : Sent \cup {"none"}, payload : Payloads \ {"damaged", "lost"}, key : Nat]
    /\ reply' \in [status : {"Success", "Failure"}, key : Nat]
    /\ status_object' \in Nat \ {0}
    /\ status_object = 0 => line.command = "init"
    /\ fault' \in {fault, "met"}
    /\ UNCHANGED hostVars

\* Before init nothing but init is served.
LEMMA EarlyIs ==
    ASSUME NEW commands, Serves(commands), status_object = 0
    PROVE  line.command = "init"
  BY DEF Serves, Served, Needed, CSR_GEN_SUCCESS, ATECC_INIT_SUCCESS

\* A handler that runs to its end answers what the chip did.
LEMMA FinishesIs ==
    ASSUME TypeOK, NEW o, NEW status \in Nat \ {0}, NEW commands,
           Serves(commands), Finishes(o, status),
           o.ok \in BOOLEAN, o.fault \in BOOLEAN
    PROVE  /\ Answered(commands)
           /\ chip' = o.chip /\ found' = found
           /\ reply'.status = "Success" <=> o.ok
           /\ reply'.status = "Success" /\ line.command = "generate-csr" => reply'.key = chip.key
           /\ o.fault => fault' = "met"
  <1>1. line' \in [command : Sent \cup {"none"}, payload : Payloads \ {"damaged", "lost"}, key : Nat]
    BY DEF Finishes, Idle, Payloads
  <1>2. /\ reply' \in [status : {"Success", "Failure"}, key : Nat]
        /\ reply'.status = "Success" <=> o.ok
        /\ reply'.status = "Success" /\ line.command = "generate-csr" => reply'.key = chip.key
    BY DEF Finishes, Prints, TypeOK, Chips
  <1>3. line'.command \notin Commands
    BY DEF Finishes, Idle, Commands
  <1>4. line.command \in commands \cap Commands
    BY DEF Serves, Served
  <1>5. status_object = 0 => line.command = "init"
    BY EarlyIs
  <1> QED BY <1>1, <1>2, <1>3, <1>4, <1>5 DEF Finishes, Answered

\* A command that is served but init finds the firmware past its start.
LEMMA ServedIs ==
    ASSUME TypeOK, NEW commands, Serves(commands), "init" \notin commands
    PROVE  status_object \in Nat \ {0}
  BY DEF Serves, Served, Needed, TypeOK, CSR_GEN_SUCCESS, ATECC_INIT_SUCCESS

\* The states after a command are numbers.
LEMMA StatusIs ==
    ASSUME NEW o, o.ok \in BOOLEAN
    PROVE  /\ After(o, KEY_PAIR_GEN_FAIL) \in Nat \ {0}
           /\ After(o, CSR_GEN_FAIL) \in Nat \ {0}
           /\ After(o, PUBKEY_GEN_FAIL) \in Nat \ {0}
           /\ After(o, PROGRAM_CERT_FAIL) \in Nat \ {0}
  BY DEF After, KEY_PAIR_GEN_FAIL, CSR_GEN_FAIL, PUBKEY_GEN_FAIL, PROGRAM_CERT_FAIL

\* The chip, its zones and its key have their types.
LEMMA ChipIs ==
    ASSUME TypeOK
    PROVE  /\ chip \in Chips /\ found \in BOOLEAN /\ run \in Nat \ {0} /\ chip.key \in Nat
           /\ chip.config_locked \in BOOLEAN /\ chip.data_locked \in BOOLEAN
           /\ chip.slot_locked \in [Kinds -> BOOLEAN] /\ chip.cert \in [Kinds -> Certs]
           /\ def.kind \in Kinds \cup {"none"} /\ line.key \in Nat /\ status_object \in Nat
  BY BoundAssumption DEF TypeOK, Chips

\* init answers with success, and a chip that is not found is a fault.
LEMMA InitIs ==
    ASSUME TypeOK, InitDevice
    PROVE  /\ Answered({"init"})
           /\ reply'.status = "Success"
           /\ found' \in BOOLEAN /\ chip' = chip /\ def' = def
           /\ found' \/ fault' = "met"
  <1>1. /\ line'.command \notin Commands
        /\ line' \in [command : Sent \cup {"none"}, payload : Payloads \ {"damaged", "lost"}, key : Nat]
    BY DEF InitDevice, Idle, Commands, Payloads
  <1>2. Serves({"init"})
    BY DEF InitDevice
  <1>3. line.command \in {"init"} \cap Commands
    BY <1>2 DEF Serves, Served
  <1>4. /\ reply' = [status |-> "Success", key |-> 0]
        /\ status_object' \in Nat \ {0}
    BY DEF InitDevice, Prints, ATECC_INIT_SUCCESS
  <1>5. /\ fault' \in {fault, "met"} /\ found' \in BOOLEAN /\ chip' = chip /\ def' = def
        /\ UNCHANGED hostVars
        /\ found' \/ fault' = "met"
    BY DEF InitDevice
  <1> QED BY <1>1, <1>2, <1>3, <1>4, <1>5, EarlyIs DEF Answered

\* Reading the chip's state changes nothing.
LEMMA PrintInfoIs ==
    ASSUME TypeOK, PrintInfo
    PROVE  /\ Answered({"print-chip-info", "is-config-locked"})
           /\ UNCHANGED <<chip, def, found>>
           /\ reply'.status = "Failure" => fault' = "met" \/ ~found
  <1>1. PICK o \in Reading : Finishes(o, status_object)
    BY DEF PrintInfo
  <1>2. o.ok \in BOOLEAN /\ o.fault \in BOOLEAN /\ o.chip = chip /\ (~o.ok => o.fault \/ ~found)
    BY ChipIs, ReadingIs
  <1>3. Serves({"print-chip-info", "is-config-locked"}) /\ status_object \in Nat \ {0}
    BY ServedIs DEF PrintInfo
  <1>4. reply'.status = "Success" <=> o.ok
    BY <1>1, <1>2, <1>3, FinishesIs
  <1>5. reply'.status = "Failure" => ~o.ok
    BY <1>4
  <1> QED BY <1>1, <1>2, <1>3, <1>5, FinishesIs DEF PrintInfo

\* A new key is this run's.
LEMMA KeyIs ==
    ASSUME TypeOK, GenerateKeyPair
    PROVE  /\ Answered({"generate-keys"})
           /\ UNCHANGED <<def, found>>
           /\ chip' \in {chip, [chip EXCEPT !.key = run]}
           /\ reply'.status = "Success" => chip'.key = run
           /\ reply'.status = "Failure" => fault' = "met" \/ ~found \/ ~chip.config_locked
  <1> DEFINE new == [chip EXCEPT !.key = run]
  <1>0. new.key = run
    BY ChipIs DEF Chips
  <1>1. PICK o \in Outcomes(chip.config_locked, new, {}) : Finishes(o, After(o, KEY_PAIR_GEN_FAIL))
    BY DEF GenerateKeyPair
  <1> HIDE DEF new
  <1>2. /\ o.ok \in BOOLEAN /\ o.fault \in BOOLEAN /\ o.chip \in {chip, new}
        /\ o.ok => o.chip = new
        /\ ~o.ok => o.fault \/ ~found \/ ~chip.config_locked
    BY <1>1, ChipIs, OutcomeIs
  <1>3. Serves({"generate-keys"})
    BY DEF GenerateKeyPair
  <1>4. /\ Answered({"generate-keys"}) /\ chip' = o.chip /\ found' = found
        /\ reply'.status = "Success" <=> o.ok
        /\ o.fault => fault' = "met"
    BY <1>1, <1>2, <1>3, StatusIs, FinishesIs
  <1>5. reply'.status = "Failure" => ~o.ok
    BY <1>4
  <1>6. chip' \in {chip, new} /\ (reply'.status = "Success" => chip'.key = run)
    BY <1>0, <1>2, <1>4
  <1> QED BY <1>2, <1>4, <1>5, <1>6 DEF GenerateKeyPair, new

\* A request, or a public key, is for the key the chip has, and needs one.
LEMMA RequestIs ==
    ASSUME TypeOK, GenerateCsr \/ GeneratePubKey
    PROVE  /\ Answered({"generate-csr", "generate-pubkey"})
           /\ UNCHANGED <<chip, def, found>>
           /\ reply'.status = "Success" /\ line.command = "generate-csr" => reply'.key = chip.key
           /\ reply'.status = "Failure" => fault' = "met" \/ ~found \/ chip.key = 0
  <1> DEFINE has == chip.key # 0
  <1>0. has \in BOOLEAN /\ (has <=> chip.key # 0)
    OBVIOUS
  <1>1. PICK o \in Outcomes(has, chip, {}), fail \in {CSR_GEN_FAIL, PUBKEY_GEN_FAIL} :
           Finishes(o, After(o, fail))
    BY DEF GenerateCsr, GeneratePubKey
  <1> HIDE DEF has
  <1>2. /\ o.ok \in BOOLEAN /\ o.fault \in BOOLEAN /\ o.chip = chip
        /\ ~o.ok => o.fault \/ ~found \/ ~has
    BY <1>0, <1>1, ChipIs, OutcomeIs
  <1>3. PICK commands \in {{"generate-csr"}, {"generate-pubkey"}} : Serves(commands)
    BY DEF GenerateCsr, GeneratePubKey
  <1>4. /\ Answered(commands) /\ chip' = o.chip /\ found' = found
        /\ reply'.status = "Success" <=> o.ok
        /\ reply'.status = "Success" /\ line.command = "generate-csr" => reply'.key = chip.key
        /\ o.fault => fault' = "met"
    BY <1>1, <1>2, <1>3, StatusIs, FinishesIs
  <1>5. Answered({"generate-csr", "generate-pubkey"})
    BY <1>3, <1>4 DEF Answered
  <1>6. reply'.status = "Failure" => ~o.ok
    BY <1>4
  <1>7. def' = def
    BY DEF GenerateCsr, GeneratePubKey
  <1> QED BY <1>0, <1>2, <1>4, <1>5, <1>6, <1>7

\* A definition is taken as it comes, and replaces the one before it.
LEMMA CertDefIs ==
    ASSUME TypeOK, ProvideCertDef
    PROVE  /\ Answered({"provide-cert-def 0", "provide-cert-def 1"})
           /\ UNCHANGED <<chip, found>>
           /\ reply'.status = "Success"
           /\ def' = [kind |-> IF line.command = "provide-cert-def 0" THEN "device" ELSE "signer",
                      intact |-> line.payload = "intact"]
           /\ line.payload # "lost"
  <1>0. GET_CERT_DEF_FAIL \in Nat \ {0}
    BY DEF GET_CERT_DEF_FAIL
  <1>1. PICK o : /\ Finishes(o, GET_CERT_DEF_FAIL)
                 /\ o = Succeeds(chip)
    BY DEF ProvideCertDef
  <1>2. o.ok = TRUE /\ o.fault = FALSE /\ o.chip = chip
    BY <1>1 DEF Succeeds
  <1>3. Serves({"provide-cert-def 0", "provide-cert-def 1"})
    BY DEF ProvideCertDef
  <1>4. /\ Answered({"provide-cert-def 0", "provide-cert-def 1"})
        /\ chip' = o.chip /\ found' = found /\ (reply'.status = "Success" <=> o.ok)
    BY <1>0, <1>1, <1>2, <1>3, FinishesIs
  <1> QED BY <1>2, <1>4 DEF ProvideCertDef

\* A certificate goes, if its CRC agrees, where the definition says, and locks
\* the slot the command is for.
LEMMA ProgramCertIs ==
    ASSUME Base, ProgramCert
    PROVE  \E kind \in Kinds :
           /\ line.command = Program[kind] /\ Answered({Program[kind]})
           /\ UNCHANGED <<def, found>>
           /\ chip' \in Chips
           /\ chip' = [chip EXCEPT !.cert = chip'.cert, !.slot_locked = chip'.slot_locked]
           /\ \A k \in Kinds : k # def.kind \/ chip.slot_locked[k] => chip'.cert[k] = chip.cert[k]
           /\ \A k \in Kinds : k # kind => chip'.slot_locked[k] = chip.slot_locked[k]
           /\ \A k \in Kinds : chip.slot_locked[k] => chip'.slot_locked[k]
           /\ (reply'.status = "Success" \/ chip'.slot_locked # chip.slot_locked)
                 => /\ CrcAgrees
                    /\ def.kind \in Kinds => chip'.cert[def.kind] = Stored(kind, line.key)
           /\ reply'.status = "Success" /\ LockSlots => chip'.slot_locked[kind]
           /\ reply'.status = "Failure" =>
                 \/ fault' = "met" \/ ~found \/ ~chip.config_locked \/ ~CrcAgrees
                 \/ \E k \in Kinds : chip.slot_locked[k]
  <1>0. PICK kind \in Kinds :
           /\ line.command = Program[kind]
           /\ \E o \in IF ~CrcAgrees THEN {Refused(chip)}
                     ELSE UNION {SlotLocks(kind, w) : w \in CertWrites(kind, line.key)} :
                 Finishes(o, After(o, PROGRAM_CERT_FAIL))
    BY DEF ProgramCert, Kinds, Program, Serves
  <1>1. PICK o : /\ line.command = Program[kind]
                 /\ o \in IF ~CrcAgrees THEN {Refused(chip)}
                          ELSE UNION {SlotLocks(kind, w) : w \in CertWrites(kind, line.key)}
                 /\ Finishes(o, After(o, PROGRAM_CERT_FAIL))
    BY <1>0
  <1>t. TypeOK
    BY DEF Base
  <1>2. /\ o.ok \in BOOLEAN /\ o.fault \in BOOLEAN
        /\ o.chip \in Chips
        /\ o.chip = [chip EXCEPT !.cert = o.chip.cert, !.slot_locked = o.chip.slot_locked]
        /\ \A k \in Kinds : k # def.kind \/ chip.slot_locked[k] => o.chip.cert[k] = chip.cert[k]
        /\ \A k \in Kinds : k # kind => o.chip.slot_locked[k] = chip.slot_locked[k]
        /\ \A k \in Kinds : chip.slot_locked[k] => o.chip.slot_locked[k]
        /\ o.ok \/ o.chip.slot_locked # chip.slot_locked => CrcAgrees
        /\ (o.ok \/ o.chip.slot_locked # chip.slot_locked) /\ def.kind \in Kinds
              => o.chip.cert[def.kind] = Stored(kind, line.key)
        /\ o.ok /\ LockSlots => o.chip.slot_locked[kind]
        /\ ~o.ok => \/ o.fault \/ ~found \/ ~chip.config_locked \/ ~CrcAgrees
                    \/ \E k \in Kinds : chip.slot_locked[k]
    <2>1. CASE ~CrcAgrees
      <3>1. o = Refused(chip)
        BY <1>1, <2>1
      <3>2. chip = [chip EXCEPT !.cert = chip.cert, !.slot_locked = chip.slot_locked]
        BY <1>t, ChipIs DEF Chips
      <3> QED BY <3>1, <3>2, <2>1, <1>t, ChipIs DEF Refused
    <2>2. CASE CrcAgrees
      <3>1. o \in UNION {SlotLocks(kind, w) : w \in CertWrites(kind, line.key)}
        BY <1>1, <2>2
      <3>2. line.key \in Nat
        BY <1>t, ChipIs
      <3>3. /\ o.ok \in BOOLEAN /\ o.fault \in BOOLEAN
            /\ o.chip \in Chips
            /\ o.chip = [chip EXCEPT !.cert = o.chip.cert, !.slot_locked = o.chip.slot_locked]
            /\ \A k \in Kinds : k # def.kind \/ chip.slot_locked[k] => o.chip.cert[k] = chip.cert[k]
            /\ \A k \in Kinds : k # kind => o.chip.slot_locked[k] = chip.slot_locked[k]
            /\ \A k \in Kinds : chip.slot_locked[k] => o.chip.slot_locked[k]
            /\ (o.ok \/ o.chip.slot_locked # chip.slot_locked) /\ def.kind \in Kinds
                  => o.chip.cert[def.kind] = Stored(kind, line.key)
            /\ o.ok /\ LockSlots => o.chip.slot_locked[kind]
            /\ ~o.ok => o.fault \/ ~found \/ ~chip.config_locked
                        \/ \E k \in Kinds : chip.slot_locked[k]
        BY <3>1, <3>2, ProgramIs
      <3> QED BY <3>3, <2>2
    <2> QED BY <2>1, <2>2
  <1>3. Serves({Program[kind]})
    BY <1>1 DEF ProgramCert, Serves
  <1>4. /\ Answered({Program[kind]}) /\ chip' = o.chip /\ found' = found
        /\ reply'.status = "Success" <=> o.ok
        /\ o.fault => fault' = "met"
    BY <1>t, <1>1, <1>2, <1>3, StatusIs, FinishesIs
  <1>5. reply'.status = "Failure" => ~o.ok
    BY <1>4
  <1>6. def' = def
    BY DEF ProgramCert
  <1> QED BY <1>1, <1>2, <1>4, <1>5, <1>6

\* A configuration that is refused unread is locked, or could not be read.
LEMMA RefuseIs ==
    ASSUME TypeOK, RefuseConfig
    PROVE  /\ Answered({"write-config"})
           /\ UNCHANGED <<chip, def, found>>
           /\ reply'.status = "Failure"
  <1>1. /\ line'.command \notin Commands
        /\ line' \in [command : Sent \cup {"none"}, payload : Payloads \ {"damaged", "lost"}, key : Nat]
    BY DEF RefuseConfig, Unread, Idle, Commands, Sent, Payloads
  <1>2. Serves({"write-config"})
    BY DEF RefuseConfig
  <1>3. line.command \in {"write-config"} \cap Commands
    BY <1>2 DEF Serves, Served
  <1> QED BY <1>1, <1>2, <1>3, ServedIs, EarlyIs DEF RefuseConfig, Answered, Prints

\* Writing the configuration leaves it whole, if it succeeds.
LEMMA WriteConfigIs ==
    ASSUME TypeOK, WriteConfig
    PROVE  /\ Answered({"write-config"})
           /\ UNCHANGED <<def, found>>
           /\ ~chip.config_locked
           /\ \E c \in {"blank", "partial", "set"} : chip' = [chip EXCEPT !.config = c]
           /\ reply'.status = "Success" => chip'.config = "set"
  <1> DEFINE new == [chip EXCEPT !.config = "set"]
             half == [chip EXCEPT !.config = "partial"]
             open == ~chip.config_locked
  <1>0. /\ open \in BOOLEAN /\ new.config = "set"
        /\ chip = [chip EXCEPT !.config = chip.config]
        /\ chip.config \in {"blank", "partial", "set"}
    BY ChipIs DEF Chips
  <1>1. PICK o \in IF CrcAgrees THEN Outcomes(open, new, {half}) ELSE {Refused(chip)} :
           Finishes(o, status_object)
    BY DEF WriteConfig, ConfigWrites
  <1>2. \A d \in {chip, new, half} : \E c \in {"blank", "partial", "set"} : d = [chip EXCEPT !.config = c]
    BY <1>0
  <1> HIDE DEF new, half, open
  <1>3. /\ o.ok \in BOOLEAN /\ o.fault \in BOOLEAN /\ o.chip \in {chip, new} \cup {half}
        /\ o.ok => o.chip = new
    <2>1. CASE o = Refused(chip)
      BY <2>1 DEF Refused
    <2>2. CASE o \in Outcomes(open, new, {half})
      BY <2>2, <1>0, ChipIs, OutcomeIs
    <2> QED BY <1>1, <2>1, <2>2
  <1>4. Serves({"write-config"}) /\ status_object \in Nat \ {0}
    BY ServedIs DEF WriteConfig
  <1>5. /\ Answered({"write-config"}) /\ chip' = o.chip /\ found' = found
        /\ reply'.status = "Success" <=> o.ok
    BY <1>1, <1>3, <1>4, FinishesIs
  <1>6. reply'.status = "Success" => chip'.config = "set"
    BY <1>0, <1>3, <1>5
  <1>7. \E c \in {"blank", "partial", "set"} : chip' = [chip EXCEPT !.config = c]
    BY <1>2, <1>3, <1>5
  <1> QED BY <1>5, <1>6, <1>7 DEF WriteConfig

\* Locking the configuration locks it and fails for a fault only.
LEMMA LockConfigIs ==
    ASSUME TypeOK, LockConfigZone
    PROVE  /\ Answered({"lock-config"})
           /\ UNCHANGED <<def, found>>
           /\ chip' \in {chip, [chip EXCEPT !.config_locked = TRUE]}
           /\ reply'.status = "Failure" => fault' = "met" \/ ~found
  <1> DEFINE new == [chip EXCEPT !.config_locked = TRUE]
             allowed == TRUE
  <1>0. allowed \in BOOLEAN /\ allowed
    OBVIOUS
  <1>1. PICK o \in Locks(chip.config_locked, allowed, new) : Finishes(o, status_object)
    BY DEF LockConfigZone
  <1> HIDE DEF new, allowed
  <1>2. /\ o.ok \in BOOLEAN /\ o.fault \in BOOLEAN /\ o.chip \in {chip, new}
        /\ ~o.ok => o.fault \/ ~found \/ (~chip.config_locked /\ ~allowed)
    BY <1>0, <1>1, ChipIs, LocksIs
  <1>3. Serves({"lock-config"}) /\ status_object \in Nat \ {0}
    BY ServedIs DEF LockConfigZone
  <1>4. /\ Answered({"lock-config"}) /\ chip' = o.chip /\ found' = found
        /\ reply'.status = "Success" <=> o.ok
        /\ o.fault => fault' = "met"
    BY <1>1, <1>2, <1>3, FinishesIs
  <1>5. reply'.status = "Failure" => ~o.ok
    BY <1>4
  <1> QED BY <1>0, <1>2, <1>4, <1>5 DEF LockConfigZone, new

\* Locking the data zone needs a locked configuration, unless it is locked.
LEMMA LockDataIs ==
    ASSUME TypeOK, LockDataZone
    PROVE  /\ Answered({"lock-data"})
           /\ UNCHANGED <<def, found>>
           /\ chip' \in {chip, [chip EXCEPT !.data_locked = TRUE]}
           /\ reply'.status = "Failure" =>
                 fault' = "met" \/ ~found \/ (~chip.data_locked /\ ~chip.config_locked)
  <1> DEFINE new == [chip EXCEPT !.data_locked = TRUE]
  <1>1. PICK o \in Locks(chip.data_locked, chip.config_locked, new) : Finishes(o, status_object)
    BY DEF LockDataZone
  <1> HIDE DEF new
  <1>2. /\ o.ok \in BOOLEAN /\ o.fault \in BOOLEAN /\ o.chip \in {chip, new}
        /\ ~o.ok => o.fault \/ ~found \/ (~chip.data_locked /\ ~chip.config_locked)
    BY <1>1, ChipIs, LocksIs
  <1>3. Serves({"lock-data"}) /\ status_object \in Nat \ {0}
    BY ServedIs DEF LockDataZone
  <1>4. /\ Answered({"lock-data"}) /\ chip' = o.chip /\ found' = found
        /\ reply'.status = "Success" <=> o.ok
        /\ o.fault => fault' = "met"
    BY <1>1, <1>2, <1>3, FinishesIs
  <1>5. reply'.status = "Failure" => ~o.ok
    BY <1>4
  <1> QED BY <1>2, <1>4, <1>5 DEF LockDataZone, new

-----------------------------------------------------------------------------
(* Types, and the host and the firmware in step *)

\* A command that is answered leaves the host and the line of their types.
LEMMA AnsweredType ==
    ASSUME TypeOK, NEW commands, Answered(commands), found' \in BOOLEAN, chip' \in Chips,
           def' \in [kind : Kinds \cup {"none"}, intact : BOOLEAN]
    PROVE  TypeOK'
  BY DEF TypeOK, Answered, hostVars

\* Type correctness of the firmware's steps.
LEMMA FirmwareType ==
    ASSUME Base, Firmware
    PROVE  TypeOK'
  <1>t. TypeOK /\ def \in [kind : Kinds \cup {"none"}, intact : BOOLEAN]
    BY DEF Base, TypeOK
  <1>c. chip \in Chips /\ found \in BOOLEAN
    BY <1>t, ChipIs
  <1>1. CASE InitDevice
    BY <1>1, <1>t, <1>c, InitIs, AnsweredType
  <1>2. CASE PrintInfo
    BY <1>2, <1>t, <1>c, PrintInfoIs, AnsweredType
  <1>3. CASE GenerateKeyPair
    <2>1. chip' \in Chips
      BY <1>3, <1>t, KeyIs, ChipIs DEF Chips
    <2> QED BY <1>3, <1>t, <1>c, <2>1, KeyIs, AnsweredType
  <1>4. CASE GenerateCsr \/ GeneratePubKey
    BY <1>4, <1>t, <1>c, RequestIs, AnsweredType
  <1>5. CASE ProvideCertDef
    <2>1. def' \in [kind : Kinds \cup {"none"}, intact : BOOLEAN]
      <3> DEFINE b == line.payload = "intact"
                 kind == IF line.command = "provide-cert-def 0" THEN "device" ELSE "signer"
      <3>1. def' = [kind |-> kind, intact |-> b]
        BY <1>5, <1>t, CertDefIs
      <3>2. b \in BOOLEAN /\ kind \in Kinds
        BY DEF Kinds
      <3> HIDE DEF b, kind
      <3> QED BY <3>1, <3>2
    <2> QED BY <1>5, <1>t, <1>c, <2>1, CertDefIs, AnsweredType
  <1>6. CASE ProgramCert
    BY <1>6, <1>t, <1>c, ProgramCertIs, AnsweredType
  <1>7. CASE RefuseConfig
    BY <1>7, <1>t, <1>c, RefuseIs, AnsweredType
  <1>8. CASE WriteConfig
    <2>1. chip' \in Chips
      BY <1>8, <1>t, <1>c, WriteConfigIs DEF Chips
    <2> QED BY <1>8, <1>t, <1>c, <2>1, WriteConfigIs, AnsweredType
  <1>9. CASE LockConfigZone
    <2>1. chip' \in Chips
      BY <1>9, <1>t, <1>c, LockConfigIs DEF Chips
    <2> QED BY <1>9, <1>t, <1>c, <2>1, LockConfigIs, AnsweredType
  <1>10. CASE LockDataZone
    <2>1. chip' \in Chips
      BY <1>10, <1>t, <1>c, LockDataIs DEF Chips
    <2> QED BY <1>10, <1>t, <1>c, <2>1, LockDataIs, AnsweredType
  <1>11. CASE Ignore
    BY <1>11, <1>t DEF Ignore, TypeOK, Unread, Idle, Payloads, Sent, hostVars
  <1> QED BY <1>1, <1>2, <1>3, <1>4, <1>5, <1>6, <1>7, <1>8, <1>9, <1>10, <1>11 DEF Firmware

\* A served command is answered, whatever it is.
LEMMA FirmwareAnswers ==
    ASSUME Base, Firmware
    PROVE  Ignore \/ Answered(Commands)
  <1>t. TypeOK
    BY DEF Base
  <1>1. ASSUME NEW commands, Answered(commands) PROVE Answered(Commands)
    BY <1>1 DEF Answered
  <1>2. CASE InitDevice         BY <1>1, <1>2, <1>t, InitIs
  <1>3. CASE PrintInfo          BY <1>1, <1>3, <1>t, PrintInfoIs
  <1>4. CASE GenerateKeyPair    BY <1>1, <1>4, <1>t, KeyIs
  <1>5. CASE GenerateCsr \/ GeneratePubKey
    BY <1>1, <1>5, <1>t, RequestIs
  <1>6. CASE ProvideCertDef     BY <1>1, <1>6, <1>t, CertDefIs
  <1>7. CASE ProgramCert        BY <1>1, <1>7, ProgramCertIs
  <1>8. CASE RefuseConfig       BY <1>1, <1>8, <1>t, RefuseIs
  <1>9. CASE WriteConfig        BY <1>1, <1>9, <1>t, WriteConfigIs
  <1>10. CASE LockConfigZone    BY <1>1, <1>10, <1>t, LockConfigIs
  <1>11. CASE LockDataZone      BY <1>1, <1>11, <1>t, LockDataIs
  <1> QED BY <1>2, <1>3, <1>4, <1>5, <1>6, <1>7, <1>8, <1>9, <1>10, <1>11 DEF Firmware

\* What the host sends has a type, and is the command it is at.
LEMMA SendType ==
    ASSUME Base, SendCommand
    PROVE  TypeOK' /\ InStep'
  <1>1. step \in 1..Len(plan.commands) /\ plan.commands[step] \in Commands
    BY PlanIs DEF Base, TypeOK
  <1>2. PICK p \in Payloads :
           /\ line' = [command |-> plan.commands[step], payload |-> p,
                       key |-> IF plan.commands[step] = "program-dev-cert" THEN csr ELSE 0]
           /\ fault' = IF p \in {"damaged", "lost"} THEN "met" ELSE fault
    BY DEF SendCommand, Payloads
  <1>3. line' \in [command : Sent \cup {"none"}, payload : Payloads, key : Nat]
    BY <1>1, <1>2 DEF Base, TypeOK, Sent
  <1>4. TypeOK'
    BY <1>2, <1>3 DEF SendCommand, Base, TypeOK
  <1>5. reply'.status = "none" /\ line'.command = plan.commands[step]
        /\ (line'.command = "program-dev-cert" => line'.key = csr)
    BY <1>2 DEF SendCommand, Base, InStep, TypeOK
  <1>6. host' = "waiting" /\ UNCHANGED <<plan, step, csr>>
    BY DEF SendCommand
  <1>7. PayloadOf(line'.command) # "none" =>
           line'.payload \in {"intact", "lost"}
              \cup {d \in {"damaged"} : PayloadOf(line'.command) \in Damageable}
    BY <1>2 DEF SendCommand
  <1>8. InStep'
    BY <1>5, <1>6, <1>7 DEF InStep
  <1> QED BY <1>4, <1>8

\* Base is an invariant.
LEMMA BaseStep == Base /\ [Next]_vars => Base'
  <1> SUFFICES ASSUME Base, [Next]_vars PROVE Base'
    OBVIOUS
  <1>1. CASE UNCHANGED vars
    BY <1>1 DEF vars, Base, TypeOK, InStep
  <1>2. CASE SendCommand
    BY <1>2, SendType DEF Base
  <1>3. CASE Receive
    <2>1. line.command \notin Commands
      BY <1>3 DEF Receive, Base, InStep
    <2>2. reply' = NoReply /\ reply'.status = "none"
      BY <1>3 DEF Receive, NoReply
    <2>3. /\ step' \in 1..Len(plan.commands) /\ host' \in {"ready", "stopped", "done"}
          /\ host' = "done" => step' = Len(plan.commands)
      BY <1>3, PlanIs DEF Receive, Base, TypeOK
    <2>4. csr' \in Nat
      BY <1>3 DEF Receive, Base, TypeOK
    <2>5. TypeOK'
      BY <1>3, <2>2, <2>3, <2>4 DEF Receive, NoReply, Base, TypeOK
    <2>6. InStep'
      BY <1>3, <2>1, <2>2, <2>3 DEF Receive, InStep
    <2> QED BY <2>5, <2>6 DEF Base
  <1>4. CASE Firmware
    <2>1. TypeOK'
      BY <1>4, FirmwareType
    <2>2. line'.command \notin Commands
      <3>1. CASE Ignore
        BY <3>1 DEF Ignore, Idle, Unread, Commands
      <3>2. CASE Answered(Commands)
        BY <3>2 DEF Answered
      <3> QED BY <1>4, <3>1, <3>2, FirmwareAnswers
    <2>3. /\ reply'.status # "none" => host' = "waiting"
          /\ host' = "done" => step' = Len(plan'.commands)
      <3>1. CASE Ignore
        BY <3>1 DEF Ignore, Base, InStep, hostVars
      <3>2. CASE Answered(Commands)
        BY <3>2 DEF Answered, Base, InStep, hostVars
      <3> QED BY <1>4, <3>1, <3>2, FirmwareAnswers
    <2> QED BY <2>1, <2>2, <2>3 DEF Base, InStep
  <1>5. CASE StartAgain
    <2>1. line'.command \notin Commands /\ reply'.status = "none"
      BY <1>5 DEF StartAgain, Idle, NoReply, Commands
    <2>2. Len(plan.commands) \in Nat /\ Len(plan.commands) # 0
      BY PlansAssumption DEF Base, TypeOK
    <2>3. 1 \in 1..Len(plan.commands) /\ run + 1 \in 1..MaxRuns
      BY <1>5, <2>2, BoundAssumption DEF Base, TypeOK, StartAgain
    <2>4. TypeOK'
      BY <1>5, <2>3 DEF StartAgain, FirmwareStarts, Base, TypeOK, Idle, NoReply, Payloads
    <2>5. host' = "ready"
      BY <1>5 DEF StartAgain
    <2> QED BY <2>1, <2>4, <2>5 DEF Base, InStep
  <1> QED BY <1>1, <1>2, <1>3, <1>4, <1>5 DEF Next

\* The first state.
LEMMA BaseInit == Init => Base
  <1> SUFFICES ASSUME Init PROVE Base
    OBVIOUS
  <1>1. Len(plan.commands) \in Nat /\ Len(plan.commands) # 0 /\ plan.delivered \in BOOLEAN
    BY PlansAssumption DEF Init
  <1>2. 1 \in 1..Len(plan.commands) /\ 1 \in 1..MaxRuns
    BY <1>1, BoundAssumption
  <1>3. chip \in Chips
    BY <1>1 DEF Init, Chips, Certs, States
  <1>4. TypeOK
    BY <1>2, <1>3 DEF Init, TypeOK, Idle, NoReply, Payloads
  <1>5. line.command \notin Commands /\ reply.status = "none" /\ host = "ready"
    BY DEF Init, Idle, NoReply, Commands
  <1> QED BY <1>4, <1>5 DEF Base, InStep

\* Every variable keeps its type, and whatever is in the line, and whatever the
\* firmware answers, is for the command the host waits for.
THEOREM TypeCorrect == Spec => []Base
  <1>1. Init => Base
    BY BaseInit
  <1>2. Base /\ [Next]_vars => Base'
    BY BaseStep
  <1> QED BY <1>1, <1>2, PTL DEF Spec

-----------------------------------------------------------------------------
(* What a step does to the commands that were answered *)

\* The host is at one of the plan's commands.
LEMMA StepIs ==
    ASSUME Base
    PROVE  step \in Nat /\ step >= 1 /\ step \in 1..step
  <1>1. step \in 1..Len(plan.commands) /\ Len(plan.commands) \in Nat
    BY PlanIs DEF Base, TypeOK
  <1> QED BY <1>1

\* An answer is to the command the host is at.
LEMMA AnsweredPast ==
    ASSUME Base, NEW commands, Answered(commands)
    PROVE  /\ line.command = plan.commands[step] /\ line.command \in commands
           /\ ~Failing /\ Past = 1..(step-1)
           /\ plan' = plan /\ step' = step
           /\ Failing' <=> reply'.status = "Failure"
           /\ Failing' <=> reply'.status # "Success"
           /\ ~Failing' => Past' = 1..step
           /\ Failing' => Past' = 1..(step-1)
           /\ step \in Nat \ {0} /\ step \in 1..Len(plan.commands)
  <1>1. host = "waiting" /\ reply.status = "none" /\ line.command = plan.commands[step]
    BY DEF Answered, Base, InStep
  <1>2. UNCHANGED hostVars /\ reply'.status \in {"Success", "Failure"}
    BY DEF Answered
  <1>3. step \in Nat \ {0} /\ step \in 1..Len(plan.commands)
    BY PlanIs DEF Base, TypeOK
  <1>4. line.command \in commands
    BY DEF Answered
  <1> QED BY <1>1, <1>2, <1>3, <1>4 DEF Failing, Past, hostVars

\* A step that is no answer leaves the answers alone, or ends or begins a run.
LEMMA Moves ==
    ASSUME Base, SendCommand \/ Receive \/ StartAgain \/ Ignore
    PROVE  /\ chip' = chip /\ plan' = plan
           /\ Failing' \/ Past' = {} \/ (~Failing /\ Past' = Past)
           /\ StartAgain \/ def' = def
  <1>0. step \in Nat /\ reply.status \in {"none", "Success", "Failure"}
    BY PlanIs DEF Base, TypeOK
  <1>1. CASE SendCommand
    BY <1>0, <1>1 DEF SendCommand, Failing, Past, Base, InStep
  <1>2. CASE Receive
    <2>1. host = "waiting" /\ reply.status # "none" /\ reply'.status = "none"
      BY <1>2 DEF Receive, Base, InStep, NoReply
    <2>2. /\ reply.status = "Failure" => host' = "stopped"
          /\ \/ host' = "stopped"
             \/ host' = "done" /\ step' = step
             \/ host' = "ready" /\ step' = step + 1
      BY <1>2 DEF Receive
    <2>3. Failing' <=> host' = "stopped"
      BY <2>1 DEF Failing
    <2>4. CASE host' = "stopped"
      BY <1>2, <2>3, <2>4 DEF Receive
    <2>5. CASE host' # "stopped"
      <3>1. reply.status = "Success" /\ ~Failing
        BY <1>0, <2>1, <2>2, <2>5 DEF Failing
      <3>2. Past = 1..step
        BY <3>1 DEF Past
      <3>3. Past' = 1..step
        BY <1>0, <2>1, <2>2, <2>5 DEF Past
      <3> QED BY <1>2, <3>1, <3>2, <3>3 DEF Receive
    <2> QED BY <2>4, <2>5
  <1>3. CASE StartAgain
    BY <1>3 DEF StartAgain, Past, NoReply
  <1>4. CASE Ignore
    BY <1>4 DEF Ignore, Failing, Past, hostVars
  <1> QED BY <1>1, <1>2, <1>3, <1>4

\* A step that changes nothing changes nothing of this either.
LEMMA Stutters ==
    ASSUME UNCHANGED vars
    PROVE  /\ chip' = chip /\ plan' = plan /\ def' = def
           /\ Failing' = Failing /\ Past' = Past
  BY DEF vars, hostVars, Failing, Past

\* A host follows the plan it began with.
LEMMA PlanStays ==
    ASSUME Base, [Next]_vars
    PROVE  plan' = plan
  <1>1. CASE UNCHANGED vars
    BY <1>1, Stutters
  <1>2. CASE SendCommand \/ Receive \/ StartAgain \/ Ignore
    BY <1>2, Moves
  <1>3. CASE Firmware /\ ~Ignore
    BY <1>3, FirmwareAnswers, AnsweredPast
  <1> QED BY <1>1, <1>2, <1>3 DEF Next

-----------------------------------------------------------------------------
(* The configuration *)

\* ConfigInv is kept.
LEMMA ConfigStep ==
    ASSUME \A p \in Plans : p.delivered \/ WrittenFirst(p.commands),
           Base, ConfigInv, plan.delivered => chip.config_locked, [Next]_vars
    PROVE  ConfigInv' /\ (plan'.delivered => chip'.config_locked)
  <1>t. TypeOK /\ plan \in Plans
    BY DEF Base, TypeOK
  <1>c. chip \in Chips
    BY <1>t, ChipIs
  <1>0. ASSUME plan' = plan, chip' = chip,
               Failing' \/ Past' = {} \/ (~Failing /\ Past' = Past)
        PROVE  ConfigInv' /\ (plan'.delivered => chip'.config_locked)
    BY <1>0 DEF ConfigInv, LockedConfigIsComplete
  <1>1. ASSUME Answered(Commands \ {"write-config"}),
               chip'.config = chip.config, chip'.config_locked = chip.config_locked
        PROVE  ConfigInv' /\ (plan'.delivered => chip'.config_locked)
    <2>1. LockedConfigIsComplete' /\ (plan'.delivered => chip'.config_locked)
      BY <1>1, AnsweredPast DEF ConfigInv, LockedConfigIsComplete
    <2>2. ASSUME ~Failing', NEW i \in Past', plan'.commands[i] = "write-config"
          PROVE  chip'.config = "set"
      <3>1. i \in 1..step /\ plan' = plan /\ plan.commands[step] # "write-config"
            /\ step \in Nat /\ Past = 1..(step-1) /\ ~Failing
        BY <1>1, <2>2, AnsweredPast
      <3>2. i \in Past
        BY <2>2, <3>1
      <3> QED BY <1>1, <2>2, <3>1, <3>2 DEF ConfigInv
    <2> QED BY <2>1, <2>2 DEF ConfigInv
  <1>2. CASE UNCHANGED vars
    BY <1>0, <1>2, Stutters DEF ConfigInv, LockedConfigIsComplete
  <1>3. CASE SendCommand \/ Receive \/ StartAgain \/ Ignore
    BY <1>0, <1>3, Moves
  <1>4. ASSUME NEW commands, Answered(commands), "write-config" \notin commands
        PROVE  Answered(Commands \ {"write-config"})
    BY <1>4 DEF Answered
  <1>5. CASE InitDevice \/ PrintInfo \/ GenerateCsr \/ GeneratePubKey \/ ProvideCertDef
    <2>1. chip' = chip /\ Answered(Commands \ {"write-config"})
      BY <1>4, <1>5, <1>t, InitIs, PrintInfoIs, RequestIs, CertDefIs
    <2> QED BY <1>1, <2>1
  <1>6. CASE GenerateKeyPair
    <2>1. chip'.config = chip.config /\ chip'.config_locked = chip.config_locked
      BY <1>6, <1>t, <1>c, KeyIs DEF Chips
    <2>2. Answered(Commands \ {"write-config"})
      BY <1>4, <1>6, <1>t, KeyIs
    <2> QED BY <1>1, <2>1, <2>2
  <1>7. CASE ProgramCert
    <2>1. chip' = [chip EXCEPT !.cert = chip'.cert, !.slot_locked = chip'.slot_locked]
      BY <1>7, ProgramCertIs
    <2>2. chip'.config = chip.config /\ chip'.config_locked = chip.config_locked
      BY <2>1, <1>c DEF Chips
    <2>3. Answered(Commands \ {"write-config"})
      <3>1. PICK k \in Kinds : Answered({Program[k]})
        BY <1>7, ProgramCertIs
      <3>2. Program[k] # "write-config"
        BY DEF Kinds, Program
      <3> QED BY <3>1, <3>2, <1>4
    <2> QED BY <1>1, <2>2, <2>3
  <1>8. CASE RefuseConfig
    <2>1. Answered({"write-config"}) /\ chip' = chip /\ reply'.status = "Failure"
      BY <1>8, <1>t, RefuseIs
    <2>2. plan' = plan /\ Failing'
      BY <2>1, AnsweredPast
    <2> QED BY <2>1, <2>2, <1>0
  <1>9. CASE WriteConfig
    <2>1. /\ Answered({"write-config"}) /\ ~chip.config_locked
          /\ reply'.status = "Success" => chip'.config = "set"
          /\ \E c \in {"blank", "partial", "set"} : chip' = [chip EXCEPT !.config = c]
      BY <1>9, <1>t, WriteConfigIs
    <2>2. chip'.config_locked = chip.config_locked
      BY <2>1, <1>c DEF Chips
    <2>3. plan' = plan /\ (~Failing' => reply'.status = "Success")
      BY <2>1, AnsweredPast
    <2> QED BY <2>1, <2>2, <2>3 DEF ConfigInv, LockedConfigIsComplete
  <1>10. CASE LockConfigZone
    <2>1. /\ Answered({"lock-config"})
          /\ chip' \in {chip, [chip EXCEPT !.config_locked = TRUE]}
      BY <1>10, <1>t, LockConfigIs
    <2>2. /\ plan.commands[step] = "lock-config" /\ plan' = plan /\ ~Failing
          /\ Past = 1..(step-1) /\ step \in Nat \ {0} /\ step \in 1..Len(plan.commands)
          /\ ~Failing' => Past' = 1..step
      BY <2>1, AnsweredPast
    <2>3. chip.config = "set"
      <3>1. CASE plan.delivered
        BY <3>1 DEF ConfigInv, LockedConfigIsComplete
      <3>2. CASE ~plan.delivered
        <4>1. WrittenFirst(plan.commands)
          BY <3>2, <1>t
        <4>2. PICK j \in 1..(step-1) : plan.commands[j] = "write-config"
          BY <4>1, <2>2 DEF WrittenFirst, Follows
        <4> QED BY <2>2, <4>2 DEF ConfigInv
      <3> QED BY <3>1, <3>2
    <2>4. chip'.config = "set" /\ (chip.config_locked => chip'.config_locked)
      BY <2>1, <2>3, <1>c DEF Chips
    <2> QED BY <2>2, <2>4 DEF ConfigInv, LockedConfigIsComplete
  <1>11. CASE LockDataZone
    <2>1. chip'.config = chip.config /\ chip'.config_locked = chip.config_locked
      BY <1>11, <1>t, <1>c, LockDataIs DEF Chips
    <2>2. Answered(Commands \ {"write-config"})
      BY <1>4, <1>11, <1>t, LockDataIs
    <2> QED BY <1>1, <2>1, <2>2
  <1> QED BY <1>2, <1>3, <1>5, <1>6, <1>7, <1>8, <1>9, <1>10, <1>11 DEF Next, Firmware

\* Where a plan writes the configuration before it locks it, no failure and no
\* stop, wherever it falls, gets half a configuration locked.
THEOREM LocksWholeConfig ==
    ASSUME \A p \in Plans : p.delivered \/ WrittenFirst(p.commands)
    PROVE  Spec => []LockedConfigIsComplete
  <1> DEFINE Inv == Base /\ ConfigInv /\ (plan.delivered => chip.config_locked)
  <1>1. Init => Inv
    <2> SUFFICES ASSUME Init PROVE Inv
      OBVIOUS
    <2>1. ConfigInv
      BY DEF Init, ConfigInv, LockedConfigIsComplete, Past, NoReply
    <2> QED BY <2>1, BaseInit DEF Init
  <1>2. Inv /\ [Next]_vars => Inv'
    BY BaseStep, ConfigStep
  <1>3. Inv => LockedConfigIsComplete
    BY DEF ConfigInv
  <1> QED BY <1>1, <1>2, <1>3, PTL DEF Spec

-----------------------------------------------------------------------------
(* The certificates *)

\* Only programming a certificate touches certificates and the slots' locks.
LEMMA SlotsKeep ==
    ASSUME Base, [Next]_vars, ~ProgramCert
    PROVE  chip'.cert = chip.cert /\ chip'.slot_locked = chip.slot_locked
  <1>t. TypeOK /\ chip \in Chips
    BY ChipIs DEF Base
  <1>1. CASE UNCHANGED vars
    BY <1>1, Stutters
  <1>2. CASE SendCommand \/ Receive \/ StartAgain \/ Ignore
    BY <1>2, Moves
  <1>3. CASE InitDevice \/ PrintInfo \/ GenerateCsr \/ GeneratePubKey \/ ProvideCertDef \/ RefuseConfig
    BY <1>3, <1>t, InitIs, PrintInfoIs, RequestIs, CertDefIs, RefuseIs
  <1>4. CASE GenerateKeyPair
    BY <1>4, <1>t, KeyIs DEF Chips
  <1>5. CASE WriteConfig
    BY <1>5, <1>t, WriteConfigIs DEF Chips
  <1>6. CASE LockConfigZone
    BY <1>6, <1>t, LockConfigIs DEF Chips
  <1>7. CASE LockDataZone
    BY <1>7, <1>t, LockDataIs DEF Chips
  <1> QED BY <1>1, <1>2, <1>3, <1>4, <1>5, <1>6, <1>7 DEF Next, Firmware

\* The commands by the kind of certificate they are for.
LEMMA CommandsOf ==
    /\ \A k \in Kinds : /\ Provide[k] = IF k = "device" THEN "provide-cert-def 0" ELSE "provide-cert-def 1"
                       /\ Program[k] = IF k = "device" THEN "program-dev-cert" ELSE "program-signer-cert"
    /\ {Provide[l] : l \in Kinds} = {"provide-cert-def 0", "provide-cert-def 1"}
  <1>1. Provide["device"] = "provide-cert-def 0" /\ Provide["signer"] = "provide-cert-def 1"
    BY DEF Provide
  <1>2. Program["device"] = "program-dev-cert" /\ Program["signer"] = "program-signer-cert"
    BY DEF Program
  <1> QED BY <1>1, <1>2 DEF Kinds

\* Only a definition that is given, or a new start, changes the one held.
LEMMA DefKeeps ==
    ASSUME Base, Firmware, ~ProvideCertDef
    PROVE  def' = def
  <1>t. TypeOK
    BY DEF Base
  <1>1. CASE Ignore
    BY <1>1 DEF Ignore
  <1>2. CASE InitDevice \/ PrintInfo \/ GenerateCsr \/ GeneratePubKey \/ RefuseConfig
    BY <1>2, <1>t, InitIs, PrintInfoIs, RequestIs, RefuseIs
  <1>3. CASE GenerateKeyPair \/ ProgramCert \/ WriteConfig \/ LockConfigZone \/ LockDataZone
    BY <1>3, <1>t, KeyIs, ProgramCertIs, WriteConfigIs, LockConfigIs, LockDataIs
  <1> QED BY <1>1, <1>2, <1>3 DEF Firmware

\* A command that gives no definition is not given to ProvideCertDef.
LEMMA ProvidesIs ==
    ASSUME Base, Firmware, ~Ignore, plan.commands[step] \in {Provide[l] : l \in Kinds}
    PROVE  ProvideCertDef
  <1>t. TypeOK
    BY DEF Base
  <1>0. ASSUME NEW commands, Answered(commands) PROVE plan.commands[step] \in commands
    BY <1>0, AnsweredPast
  <1>1. plan.commands[step] \in {"provide-cert-def 0", "provide-cert-def 1"}
    BY CommandsOf
  <1>2. ~InitDevice /\ ~PrintInfo /\ ~GenerateCsr /\ ~GeneratePubKey /\ ~RefuseConfig
    BY <1>0, <1>1, <1>t, InitIs, PrintInfoIs, RequestIs, RefuseIs
  <1>3. ~GenerateKeyPair /\ ~WriteConfig /\ ~LockConfigZone /\ ~LockDataZone
    BY <1>0, <1>1, <1>t, KeyIs, WriteConfigIs, LockConfigIs, LockDataIs
  <1>4. ASSUME ProgramCert PROVE FALSE
    <2>1. PICK k \in Kinds : Answered({Program[k]})
      BY <1>4, ProgramCertIs
    <2>2. plan.commands[step] = Program[k]
      BY <1>0, <2>1
    <2> QED BY <1>1, <2>2, CommandsOf
  <1> QED BY <1>2, <1>3, <1>4 DEF Firmware

\* DefInv is kept, if the line does not damage definitions.
LEMMA DefStep ==
    ASSUME "def" \notin Damageable, Base, DefInv, [Next]_vars
    PROVE  DefInv'
  <1>t. TypeOK
    BY DEF Base
  <1>1. CASE UNCHANGED vars
    BY <1>1, Stutters DEF DefInv
  <1>2. CASE SendCommand \/ Receive \/ Ignore
    <2>1. def' = def
      BY <1>2 DEF SendCommand, Receive, Ignore
    <2> QED BY <1>2, <2>1, Moves DEF DefInv
  <1>3. CASE StartAgain
    <2>1. def'.intact = TRUE /\ Past' = {}
      BY <1>3 DEF StartAgain, FirmwareStarts, Past, NoReply
    <2> QED BY <2>1 DEF DefInv
  <1>4. CASE ProvideCertDef
    <2>1. /\ Answered({"provide-cert-def 0", "provide-cert-def 1"})
          /\ def' = [kind |-> IF line.command = "provide-cert-def 0" THEN "device" ELSE "signer",
                     intact |-> line.payload = "intact"]
          /\ line.payload # "lost"
          /\ reply'.status = "Success"
      BY <1>4, <1>t, CertDefIs
    <2>2. /\ line.command = plan.commands[step]
          /\ line.command \in {"provide-cert-def 0", "provide-cert-def 1"}
          /\ plan' = plan /\ Past' = 1..step /\ step \in Nat \ {0}
      BY <2>1, AnsweredPast
    <2>3. line.payload = "intact"
      <3>1. PayloadOf(line.command) = "def"
        BY <2>2 DEF PayloadOf
      <3>2. line.command \in Commands
        BY <2>2 DEF Commands
      <3> QED BY <2>1, <3>1, <3>2 DEF Base, InStep
    <2>4. def'.intact = TRUE
          /\ def'.kind = IF line.command = "provide-cert-def 0" THEN "device" ELSE "signer"
      BY <2>1, <2>3
    <2>5. ASSUME NEW k \in Kinds, NEW i \in Past', plan'.commands[i] = Provide[k],
                 \A n \in Past' : n > i => plan'.commands[n] \notin {Provide[l] : l \in Kinds}
          PROVE  def'.kind = k
      <3>1. plan.commands[step] \in {Provide[l] : l \in Kinds}
        BY <2>2, CommandsOf
      <3>2. step \in Nat /\ step >= 1 /\ step \in 1..step
        BY StepIs
      <3>3. step \in Past' /\ i \in 1..step
        BY <2>2, <3>2
      <3>4. ~(step > i)
        BY <2>2, <2>5, <3>1, <3>3
      <3>5. i = step
        BY <3>2, <3>3, <3>4
      <3>6. line.command = Provide[k]
        BY <2>2, <2>5, <3>5
      <3> QED BY <2>4, <3>6, CommandsOf DEF Kinds
    <2> QED BY <2>4, <2>5 DEF DefInv
  <1>5. CASE Firmware /\ ~Ignore /\ ~ProvideCertDef
    <2>1. def' = def /\ plan.commands[step] \notin {Provide[l] : l \in Kinds}
      BY <1>5, DefKeeps, ProvidesIs
    <2>2. /\ plan' = plan /\ ~Failing /\ Past = 1..(step-1) /\ step \in Nat
          /\ ~Failing' => Past' = 1..step
      BY <1>5, FirmwareAnswers, AnsweredPast
    <2>3. ASSUME ~Failing', NEW k \in Kinds, NEW i \in Past', plan'.commands[i] = Provide[k],
                 \A n \in Past' : n > i => plan'.commands[n] \notin {Provide[l] : l \in Kinds}
          PROVE  def'.kind = k
      <3>1. i \in 1..step /\ i # step
        BY <2>1, <2>2, <2>3
      <3>2. i \in Past /\ Past \subseteq Past'
        BY <2>2, <2>3, <3>1
      <3>3. \A n \in Past : n > i => plan.commands[n] \notin {Provide[l] : l \in Kinds}
        BY <2>2, <2>3, <3>2
      <3> QED BY <2>1, <2>2, <2>3, <3>2, <3>3 DEF DefInv
    <2> QED BY <2>1, <2>3 DEF DefInv
  <1> QED BY <1>1, <1>2, <1>3, <1>4, <1>5 DEF Next

\* The definition held when a certificate is programmed is that certificate's.
LEMMA DefHeld ==
    ASSUME Base, DefInv, DefinedFirst(plan.commands),
           NEW k \in Kinds, Answered({Program[k]})
    PROVE  def.kind = k /\ def.intact
  <1>1. /\ plan.commands[step] = Program[k] /\ ~Failing /\ Past = 1..(step-1)
        /\ step \in Nat \ {0} /\ step \in 1..Len(plan.commands)
    BY AnsweredPast
  <1>2. PICK j \in 1..(step-1) :
           /\ plan.commands[j] = Provide[k]
           /\ \A n \in (j+1)..(step-1) : plan.commands[n] \notin {Provide[l] : l \in Kinds}
    BY <1>1 DEF DefinedFirst
  <1>3. \A n \in Past : n > j => plan.commands[n] \notin {Provide[l] : l \in Kinds}
    BY <1>1, <1>2
  <1> QED BY <1>1, <1>2, <1>3 DEF DefInv

\* What the writes of a certificate leave, with its own definition.
LEMMA StoredIs ==
    ASSUME NEW k \in Kinds, def.kind = k, def.intact, CrcAgrees, NEW key
    PROVE  Stored(k, key) = [of |-> k, key |-> key, state |-> "whole"]
  BY DEF Stored, CrcAgrees

\* A slot that is locked holds what it is meant for, and a step keeps that.
LEMMA LockedStep ==
    ASSUME \A p \in Plans : DefinedFirst(p.commands),
           Base, CertInv, [Next]_vars
    PROVE  LockedCertIsComplete'
  <1>t. TypeOK /\ plan \in Plans /\ chip \in Chips
    BY ChipIs DEF Base, TypeOK
  <1>1. CASE ~ProgramCert
    BY <1>1, SlotsKeep DEF CertInv, LockedCertIsComplete
  <1>2. CASE ProgramCert
    <2>1. PICK kind \in Kinds :
             /\ Answered({Program[kind]})
             /\ \A k \in Kinds : chip.slot_locked[k] => chip'.cert[k] = chip.cert[k]
             /\ \A k \in Kinds : k # kind => chip'.slot_locked[k] = chip.slot_locked[k]
             /\ chip'.slot_locked # chip.slot_locked
                   => /\ CrcAgrees
                      /\ def.kind \in Kinds => chip'.cert[def.kind] = Stored(kind, line.key)
      BY <1>2, ProgramCertIs
    <2>2. def.kind = kind /\ def.intact
      BY <1>t, <2>1, DefHeld DEF CertInv
    <2>3. ASSUME NEW k \in Kinds, chip'.slot_locked[k], ~chip.slot_locked[k]
          PROVE  chip'.cert[k].of = k /\ chip'.cert[k].state = "whole"
      <3>1. k = kind /\ chip'.slot_locked # chip.slot_locked
        BY <2>1, <2>3
      <3>2. chip'.cert[k] = [of |-> k, key |-> line.key, state |-> "whole"]
        BY <2>1, <2>2, <3>1, StoredIs
      <3> QED BY <3>2
    <2>4. ASSUME NEW k \in Kinds, chip.slot_locked[k]
          PROVE  chip'.cert[k].of = k /\ chip'.cert[k].state = "whole"
      BY <2>1, <2>4 DEF CertInv, LockedCertIsComplete
    <2> QED BY <2>3, <2>4 DEF LockedCertIsComplete
  <1> QED BY <1>1, <1>2

\* CertInv holds at first.
LEMMA CertInit == Init => CertInv
  BY DEF Init, CertInv, DefInv, LockedCertIsComplete, Past, NoReply

\* Where a plan gives the right definition before each certificate, and the line
\* does not damage definitions, which no CRC protects, a slot is only ever locked
\* with the certificate it is meant for, whatever fails and whenever a run stops.
THEOREM LocksWholeCerts ==
    ASSUME \A p \in Plans : DefinedFirst(p.commands), "def" \notin Damageable
    PROVE  Spec => []LockedCertIsComplete
  <1> DEFINE Inv == Base /\ CertInv
  <1>1. Init => Inv
    BY BaseInit, CertInit
  <1>2. Inv /\ [Next]_vars => Inv'
    BY BaseStep, DefStep, LockedStep DEF CertInv
  <1>3. Inv => LockedCertIsComplete
    BY DEF CertInv
  <1> QED BY <1>1, <1>2, <1>3, PTL DEF Spec

-----------------------------------------------------------------------------
(* A run that ends well *)

\* Only a new key changes the key.
LEMMA KeyKeeps ==
    ASSUME Base, [Next]_vars, ~GenerateKeyPair
    PROVE  chip'.key = chip.key
  <1>t. TypeOK /\ chip \in Chips
    BY ChipIs DEF Base
  <1>1. CASE UNCHANGED vars
    BY <1>1, Stutters
  <1>2. CASE SendCommand \/ Receive \/ StartAgain \/ Ignore
    BY <1>2, Moves
  <1>3. CASE InitDevice \/ PrintInfo \/ GenerateCsr \/ GeneratePubKey \/ ProvideCertDef \/ RefuseConfig
    BY <1>3, <1>t, InitIs, PrintInfoIs, RequestIs, CertDefIs, RefuseIs
  <1>4. CASE ProgramCert
    <2>1. chip' = [chip EXCEPT !.cert = chip'.cert, !.slot_locked = chip'.slot_locked]
      BY <1>4, ProgramCertIs
    <2> QED BY <2>1, <1>t DEF Chips
  <1>5. CASE WriteConfig
    BY <1>5, <1>t, WriteConfigIs DEF Chips
  <1>6. CASE LockConfigZone
    BY <1>6, <1>t, LockConfigIs DEF Chips
  <1>7. CASE LockDataZone
    BY <1>7, <1>t, LockDataIs DEF Chips
  <1> QED BY <1>1, <1>2, <1>3, <1>4, <1>5, <1>6, <1>7 DEF Next, Firmware

\* The handler of a command that asks for a key or a request.
LEMMA HandlerIs ==
    ASSUME Base, Firmware, ~Ignore
    PROVE  /\ plan.commands[step] = "generate-csr" => GenerateCsr \/ GeneratePubKey
           /\ \A k \in Kinds : plan.commands[step] = Program[k] => ProgramCert
           /\ GenerateKeyPair <=> plan.commands[step] = "generate-keys"
  <1>t. TypeOK
    BY DEF Base
  <1>0. ASSUME NEW commands, Answered(commands) PROVE plan.commands[step] \in commands
    BY <1>0, AnsweredPast
  <1>1. InitDevice => plan.commands[step] = "init"
    BY <1>0, <1>t, InitIs
  <1>2. PrintInfo => plan.commands[step] \in {"print-chip-info", "is-config-locked"}
    BY <1>0, <1>t, PrintInfoIs
  <1>3. GenerateKeyPair => plan.commands[step] = "generate-keys"
    BY <1>0, <1>t, KeyIs
  <1>4. GenerateCsr \/ GeneratePubKey => plan.commands[step] \in {"generate-csr", "generate-pubkey"}
    BY <1>0, <1>t, RequestIs
  <1>5. ProvideCertDef => plan.commands[step] \in {"provide-cert-def 0", "provide-cert-def 1"}
    BY <1>0, <1>t, CertDefIs
  <1>6. RefuseConfig \/ WriteConfig => plan.commands[step] = "write-config"
    BY <1>0, <1>t, RefuseIs, WriteConfigIs
  <1>7. LockConfigZone \/ LockDataZone => plan.commands[step] \in {"lock-config", "lock-data"}
    BY <1>0, <1>t, LockConfigIs, LockDataIs
  <1>8. ProgramCert => plan.commands[step] \in {"program-dev-cert", "program-signer-cert"}
    <2> SUFFICES ASSUME ProgramCert
                 PROVE  plan.commands[step] \in {"program-dev-cert", "program-signer-cert"}
      OBVIOUS
    <2>1. PICK k \in Kinds : Answered({Program[k]})
      BY ProgramCertIs
    <2>2. plan.commands[step] = Program[k]
      BY <1>0, <2>1
    <2> QED BY <2>2, CommandsOf
  <1>9. \A k \in Kinds : Program[k] \in {"program-dev-cert", "program-signer-cert"}
    BY CommandsOf
  <1>10. \/ InitDevice \/ PrintInfo \/ GenerateKeyPair \/ GenerateCsr \/ GeneratePubKey
         \/ ProvideCertDef \/ ProgramCert \/ RefuseConfig \/ WriteConfig
         \/ LockConfigZone \/ LockDataZone
    BY DEF Firmware
  <1> QED BY <1>1, <1>2, <1>3, <1>4, <1>5, <1>6, <1>7, <1>8, <1>9, <1>10

\* The request that the host holds stays for the key the chip has.
LEMMA CsrStep ==
    ASSUME RequestedFirst(plan.commands), Base, RightInv, [Next]_vars, ~Failing'
    PROVE  CsrInv'
  <1>t. TypeOK
    BY DEF Base
  <1>s. step \in Nat /\ step >= 1 /\ step \in 1..step
    BY StepIs
  <1>0. reply.status \in {"none", "Success", "Failure"}
    BY <1>t DEF TypeOK
  <1>1. CASE UNCHANGED vars
    BY <1>1, Stutters DEF RightInv, CsrInv, vars, hostVars
  <1>2. CASE SendCommand
    <2>1. /\ host = "ready" /\ reply.status = "none" /\ host' = "waiting"
          /\ UNCHANGED <<plan, step, csr, reply, chip>>
      BY <1>2 DEF SendCommand, Base, InStep
    <2>2. CsrInv
      BY <2>1 DEF RightInv, Failing
    <2> QED BY <2>1, <2>2 DEF CsrInv
  <1>3. CASE Receive
    <2>1. /\ host = "waiting" /\ reply.status # "none" /\ reply'.status = "none"
          /\ UNCHANGED <<plan, chip>> /\ host' # "stopped"
      BY <1>3 DEF Receive, Base, InStep, NoReply, Failing
    <2>2. /\ reply.status = "Success"
          /\ \/ host' = "done" /\ step' = step
             \/ host' = "ready" /\ step' = step + 1
          /\ csr' = IF plan.commands[step] = "generate-csr" THEN reply.key ELSE csr
      BY <1>0, <1>3, <2>1 DEF Receive
    <2>3. CsrInv
      BY <2>1, <2>2 DEF RightInv, Failing
    <2>4. \A i \in 1..step : plan.commands[i] = "generate-csr" => csr' = chip.key
      <3> SUFFICES ASSUME NEW i \in 1..step, plan.commands[i] = "generate-csr"
                   PROVE  csr' = chip.key
        OBVIOUS
      <3>1. CASE plan.commands[step] = "generate-csr"
        BY <2>2, <2>3, <3>1 DEF CsrInv
      <3>2. CASE plan.commands[step] # "generate-csr"
        <4>1. i \in 1..(step-1)
          BY <1>s, <3>2
        <4> QED BY <2>2, <2>3, <3>2, <4>1 DEF CsrInv
      <3> QED BY <3>1, <3>2
    <2>5. CASE host' = "done" /\ step' = step
      <3>1. \A i \in 1..(step'-1) : i \in 1..step
        BY <1>s, <2>5
      <3> QED BY <1>s, <2>1, <2>4, <2>5, <3>1 DEF CsrInv
    <2>6. CASE host' = "ready" /\ step' = step + 1
      <3>1. \A i \in 1..(step'-1) : i \in 1..step
        BY <1>s, <2>6
      <3> QED BY <2>1, <2>4, <2>6, <3>1 DEF CsrInv
    <2> QED BY <2>2, <2>5, <2>6
  <1>4. CASE StartAgain
    <2>1. step' = 1 /\ host' = "ready" /\ reply'.status = "none"
      BY <1>4 DEF StartAgain, NoReply
    <2>2. 1..(step'-1) = {}
      BY <2>1
    <2> QED BY <2>1, <2>2 DEF CsrInv
  <1>5. CASE Ignore
    <2>1. CsrInv /\ UNCHANGED <<plan, step, csr, host, reply, chip>>
      BY <1>5 DEF Ignore, RightInv, Failing, hostVars
    <2> QED BY <2>1 DEF CsrInv
  <1>6. CASE Firmware /\ ~Ignore
    <2>1. /\ ~Failing /\ UNCHANGED hostVars
          /\ plan' = plan /\ step' = step /\ csr' = csr
          /\ step \in 1..Len(plan.commands)
      BY <1>6, FirmwareAnswers, AnsweredPast DEF Answered, hostVars
    <2>2. host' = "waiting"
      BY <1>6, FirmwareAnswers DEF Answered, Base, InStep, hostVars
    <2>3. CsrInv
      BY <2>1 DEF RightInv
    <2>4. CASE GenerateKeyPair
      <3>1. plan.commands[step] = "generate-keys"
        BY <1>6, <2>4, HandlerIs
      <3>2. \A i \in 1..(step-1) : plan.commands[i] # "generate-csr"
        BY <2>1, <3>1 DEF RequestedFirst, Follows
      <3> QED BY <2>1, <3>1, <3>2 DEF CsrInv
    <2>5. CASE ~GenerateKeyPair
      <3>1. chip'.key = chip.key
        BY <2>5, KeyKeeps
      <3>2. ASSUME plan.commands[step] = "generate-csr", reply'.status = "Success"
            PROVE  reply'.key = chip'.key
        <4>1. GenerateCsr \/ GeneratePubKey
          BY <1>6, <3>2, HandlerIs
        <4>2. /\ Answered({"generate-csr", "generate-pubkey"})
              /\ reply'.status = "Success" /\ line.command = "generate-csr" => reply'.key = chip.key
          BY <4>1, <1>t, RequestIs
        <4>3. line.command = "generate-csr"
          BY <3>2, <4>2, AnsweredPast
        <4> QED BY <3>1, <3>2, <4>2, <4>3
      <3> QED BY <2>1, <2>2, <2>3, <3>1, <3>2 DEF CsrInv
    <2> QED BY <2>4, <2>5
  <1> QED BY <1>1, <1>2, <1>3, <1>4, <1>5, <1>6 DEF Next

\* What a run programmed stays as it is until the run's end.
LEMMA RightStep ==
    ASSUME DefinedFirst(plan.commands), RequestedFirst(plan.commands),
           Base, DefInv, RightInv, [Next]_vars, ~Failing',
           NEW k \in Kinds, NEW i \in Past', plan.commands[i] = Program[k]
    PROVE  Programmed(k)'
  <1>t. TypeOK
    BY DEF Base
  <1>s. step \in Nat /\ step >= 1 /\ step \in 1..step
    BY StepIs
  <1>0. ASSUME ~Failing, i \in Past, chip' = chip PROVE Programmed(k)'
    <2>1. Programmed(k)
      BY <1>0 DEF RightInv
    <2> QED BY <1>0, <2>1 DEF Programmed
  <1>1. CASE UNCHANGED vars
    <2>1. ~Failing /\ i \in Past /\ chip' = chip
      BY <1>1, Stutters
    <2> QED BY <1>0, <2>1
  <1>2. CASE SendCommand \/ Receive \/ StartAgain \/ Ignore
    <2>1. ~Failing /\ i \in Past /\ chip' = chip
      BY <1>2, Moves
    <2> QED BY <1>0, <2>1
  <1>3. CASE Firmware /\ ~Ignore
    <2>1. /\ ~Failing /\ Past = 1..(step-1) /\ Past' = 1..step
          /\ step \in 1..Len(plan.commands)
      BY <1>3, FirmwareAnswers, AnsweredPast
    <2>c. CsrInv
      BY <2>1 DEF RightInv
    <2>2. i \in 1..step
      BY <2>1
    <2>3. CASE ProgramCert
      <3>1. PICK kind \in Kinds :
               /\ line.command = Program[kind] /\ Answered({Program[kind]})
               /\ \A l \in Kinds : l # def.kind \/ chip.slot_locked[l] => chip'.cert[l] = chip.cert[l]
               /\ \A l \in Kinds : l # kind => chip'.slot_locked[l] = chip.slot_locked[l]
               /\ reply'.status = "Success"
                     => /\ CrcAgrees
                        /\ def.kind \in Kinds => chip'.cert[def.kind] = Stored(kind, line.key)
               /\ reply'.status = "Success" /\ LockSlots => chip'.slot_locked[kind]
        BY <2>3, ProgramCertIs
      <3>2. def.kind = kind /\ def.intact
        BY <3>1, DefHeld
      <3>3. /\ reply'.status = "Success" /\ plan.commands[step] = Program[kind]
        BY <3>1, AnsweredPast
      <3>4. chip'.key = chip.key
        <4>1. ~GenerateKeyPair
          BY <1>3, <3>3, HandlerIs, CommandsOf
        <4> QED BY <4>1, KeyKeeps
      <3>5. CASE k = kind
        <4>1. chip'.cert[k] = [of |-> k, key |-> line.key, state |-> "whole"]
          BY <3>1, <3>2, <3>3, <3>5, StoredIs
        <4>2. k = "device" => line.key = chip'.key
          <5> SUFFICES ASSUME k = "device" PROVE line.key = chip'.key
            OBVIOUS
          <5>1. plan.commands[step] = "program-dev-cert" /\ line.command = "program-dev-cert"
            BY <3>1, <3>3, <3>5, CommandsOf
          <5>2. line.key = csr
            BY <5>1 DEF Base, InStep, Commands
          <5>3. PICK j \in 1..(step-1) : plan.commands[j] = "generate-csr"
            BY <2>1, <5>1 DEF RequestedFirst, Follows
          <5> QED BY <2>c, <3>4, <5>2, <5>3 DEF CsrInv
        <4>3. LockSlots => chip'.slot_locked[k]
          BY <3>1, <3>3, <3>5
        <4>4. /\ chip'.cert[k].of = k /\ chip'.cert[k].state = "whole"
              /\ chip'.cert[k].key = line.key
          BY <4>1
        <4> QED BY <4>2, <4>3, <4>4 DEF Programmed
      <3>6. CASE k # kind
        <4>1. i # step
          BY <3>3, <3>6, CommandsOf DEF Kinds
        <4>2. i \in Past
          BY <1>s, <2>1, <2>2, <4>1
        <4>3. Programmed(k)
          BY <2>1, <4>2 DEF RightInv
        <4>4. chip'.cert[k] = chip.cert[k] /\ chip'.slot_locked[k] = chip.slot_locked[k]
          BY <3>1, <3>2, <3>6
        <4> QED BY <3>4, <4>3, <4>4 DEF Programmed
      <3> QED BY <3>5, <3>6
    <2>4. CASE ~ProgramCert
      <3>1. i # step
        BY <1>3, <2>4, HandlerIs
      <3>2. i \in Past /\ i \in 1..(step-1)
        BY <1>s, <2>1, <2>2, <3>1
      <3>3. Programmed(k)
        BY <2>1, <3>2 DEF RightInv
      <3>4. chip'.cert = chip.cert /\ chip'.slot_locked = chip.slot_locked
        BY <2>4, SlotsKeep
      <3>5. k = "device" => chip'.key = chip.key
        <4> SUFFICES ASSUME k = "device", GenerateKeyPair PROVE FALSE
          BY KeyKeeps
        <4>1. plan.commands[step] = "generate-keys" /\ plan.commands[i] = "program-dev-cert"
          BY <1>3, HandlerIs, CommandsOf
        <4>2. i \in 1..Len(plan.commands)
          BY <1>s, <2>1, <3>2, PlanIs, <1>t
        <4>3. PICK j \in 1..(i-1) : plan.commands[j] = "generate-csr"
          BY <4>1, <4>2 DEF RequestedFirst, Follows
        <4>4. j \in 1..(step-1)
          BY <1>s, <3>2
        <4> QED BY <2>1, <4>1, <4>3, <4>4 DEF RequestedFirst, Follows
      <3> QED BY <3>3, <3>4, <3>5 DEF Programmed
    <2> QED BY <2>3, <2>4
  <1> QED BY <1>1, <1>2, <1>3 DEF Next

\* RightInv is kept.
LEMMA RightKept ==
    ASSUME \A p \in Plans : DefinedFirst(p.commands) /\ RequestedFirst(p.commands),
           Base, DefInv, RightInv, [Next]_vars
    PROVE  RightInv'
  <1>1. plan \in Plans /\ plan' = plan
    BY PlanStays DEF Base, TypeOK
  <1>2. ~Failing' => CsrInv'
    BY <1>1, CsrStep
  <1>3. ASSUME ~Failing', NEW k \in Kinds, NEW i \in Past', plan'.commands[i] = Program[k]
        PROVE  Programmed(k)'
    BY <1>1, <1>3, RightStep
  <1> QED BY <1>2, <1>3 DEF RightInv

\* RightInv holds at first.
LEMMA RightInit == Init => RightInv
  BY DEF Init, RightInv, CsrInv, Past, NoReply

\* Where a plan programs both certificates, each after its definition, and the
\* device's after a request for a key that it does not replace, a run that is
\* reported as done leaves the certificate of the key the chip has, the signer's,
\* and the slots locked as asked for.
THEOREM DoneIsRight ==
    ASSUME \A p \in Plans : DefinedFirst(p.commands) /\ RequestedFirst(p.commands),
           \A p \in Plans : \A k \in Kinds : \E i \in 1..Len(p.commands) : p.commands[i] = Program[k],
           "def" \notin Damageable
    PROVE  Spec => []ProvisionedRight
  <1> DEFINE Inv == Base /\ DefInv /\ RightInv
  <1>1. Init => Inv
    BY BaseInit, CertInit, RightInit DEF CertInv
  <1>2. Inv /\ [Next]_vars => Inv'
    BY BaseStep, DefStep, RightKept
  <1>3. Inv => ProvisionedRight
    <2> SUFFICES ASSUME Inv, host = "done" PROVE ProvisionedRight
      BY DEF ProvisionedRight
    <2>1. ~Failing /\ Past = 1..Len(plan.commands) /\ plan \in Plans /\ chip \in Chips
      BY DEF Base, InStep, TypeOK, Failing, Past
    <2>2. ASSUME NEW k \in Kinds PROVE Programmed(k)
      <3>1. PICK i \in 1..Len(plan.commands) : plan.commands[i] = Program[k]
        BY <2>1
      <3> QED BY <2>1, <3>1 DEF RightInv
    <2>3. Programmed("device") /\ Programmed("signer")
      BY <2>2 DEF Kinds
    <2>4. chip.cert["device"] \in Certs
      BY <2>1 DEF Chips, Kinds
    <2>5. chip.cert["device"] = [of |-> "device", key |-> chip.key, state |-> "whole"]
      BY <2>3, <2>4 DEF Programmed, Certs
    <2> QED BY <2>2, <2>3, <2>5 DEF ProvisionedRight, Programmed
  <1> QED BY <1>1, <1>2, <1>3, PTL DEF Spec

-----------------------------------------------------------------------------
(* A run that fails *)

\* Locks stay, and so does a key, but for a new one.
LEMMA LocksStay ==
    ASSUME Base, [Next]_vars
    PROVE  /\ chip.config_locked => chip'.config_locked
           /\ chip.data_locked => chip'.data_locked
           /\ \A k \in Kinds : chip.slot_locked[k] => chip'.slot_locked[k]
           /\ chip.key # 0 => chip'.key # 0
  <1>t. TypeOK /\ chip \in Chips /\ run # 0
    BY ChipIs DEF Base
  <1>1. CASE UNCHANGED vars
    BY <1>1, Stutters
  <1>2. CASE SendCommand \/ Receive \/ StartAgain \/ Ignore
    BY <1>2, Moves
  <1>3. CASE InitDevice \/ PrintInfo \/ GenerateCsr \/ GeneratePubKey \/ ProvideCertDef \/ RefuseConfig
    BY <1>3, <1>t, InitIs, PrintInfoIs, RequestIs, CertDefIs, RefuseIs
  <1>4. CASE ProgramCert
    <2>1. /\ chip' = [chip EXCEPT !.cert = chip'.cert, !.slot_locked = chip'.slot_locked]
          /\ \A k \in Kinds : chip.slot_locked[k] => chip'.slot_locked[k]
      BY <1>4, ProgramCertIs
    <2>2. /\ chip'.config_locked = chip.config_locked /\ chip'.data_locked = chip.data_locked
          /\ chip'.key = chip.key
      BY <2>1, <1>t DEF Chips
    <2> QED BY <2>1, <2>2
  <1>5. CASE WriteConfig
    BY <1>5, <1>t, WriteConfigIs DEF Chips
  <1>6. CASE LockConfigZone
    BY <1>6, <1>t, LockConfigIs DEF Chips
  <1>7. CASE LockDataZone
    BY <1>7, <1>t, LockDataIs DEF Chips
  <1>8. CASE GenerateKeyPair
    BY <1>8, <1>t, KeyIs DEF Chips
  <1> QED BY <1>1, <1>2, <1>3, <1>4, <1>5, <1>6, <1>7, <1>8 DEF Next, Firmware

\* An answer keeps what init found, or init finds anew, and faults are remembered.
LEMMA FoundStays ==
    ASSUME Base, Firmware, ~Ignore, status_object # 0 /\ ~found => fault = "met"
    PROVE  /\ ~found' => fault' = "met"
           /\ fault = "met" => fault' = "met"
  <1>t. TypeOK /\ fault \in {"none", "met"}
    BY DEF Base, TypeOK
  <1>1. fault = "met" => fault' = "met"
    BY <1>t, FirmwareAnswers DEF Answered
  <1>2. CASE InitDevice
    BY <1>1, <1>2, <1>t, InitIs
  <1>3. CASE ~InitDevice
    <2>1. found' = found
      BY <1>3, <1>t, PrintInfoIs, KeyIs, RequestIs, CertDefIs, ProgramCertIs, RefuseIs,
         WriteConfigIs, LockConfigIs, LockDataIs DEF Firmware
    <2>2. status_object # 0
      <3>1. CASE status_object = 0
        <4>1. line.command = "init"
          BY <3>1, FirmwareAnswers DEF Answered
        <4> QED BY <1>3, <4>1 DEF Firmware, PrintInfo, GenerateKeyPair, GenerateCsr, GeneratePubKey,
                ProvideCertDef, ProgramCert, RefuseConfig, WriteConfig, LockConfigZone,
                LockDataZone, Serves
      <3> QED BY <3>1
    <2> QED BY <1>1, <2>1, <2>2
  <1> QED BY <1>2, <1>3

\* A command fails over a delivered chip for a fault, or for a locked slot.
LEMMA FailsExcused ==
    ASSUME Base, CleanInv, plan.delivered, KeyedFirst(plan.commands),
           ~Follows("write-config", plan.commands, Len(plan.commands) + 1),
           Firmware, ~Ignore, reply'.status = "Failure"
    PROVE  Excused'
  <1>t. TypeOK /\ chip \in Chips
    BY ChipIs DEF Base
  <1>s. step \in Nat /\ step >= 1 /\ step \in 1..step /\ step \in 1..Len(plan.commands)
    BY StepIs, <1>t DEF TypeOK
  <1>0. /\ chip.config_locked /\ chip.data_locked
        /\ ~found => fault = "met" \/ status_object = 0
    BY DEF CleanInv
  <1>1. /\ fault = "met" => fault' = "met"
        /\ ~found' => fault' = "met"
    BY FoundStays DEF CleanInv
  <1>2. ~Failing /\ Past = 1..(step-1)
    BY FirmwareAnswers, AnsweredPast
  <1>3. CASE PrintInfo \/ GenerateKeyPair \/ LockConfigZone \/ LockDataZone
    <2>1. fault' = "met" \/ ~found'
      BY <1>0, <1>3, <1>t, PrintInfoIs, KeyIs, LockConfigIs, LockDataIs
    <2> QED BY <1>1, <2>1 DEF Excused
  <1>4. CASE InitDevice \/ ProvideCertDef
    BY <1>4, <1>t, InitIs, CertDefIs
  <1>5. CASE RefuseConfig \/ WriteConfig
    <2>1. Answered({"write-config"})
      BY <1>5, <1>t, RefuseIs, WriteConfigIs
    <2>2. plan.commands[step] = "write-config"
      BY <2>1, AnsweredPast
    <2>3. step \in 1..((Len(plan.commands) + 1) - 1)
      BY <1>s, <1>t, PlanIs
    <2> QED BY <2>2, <2>3 DEF Follows
  <1>6. CASE GenerateCsr \/ GeneratePubKey
    <2>1. /\ Answered({"generate-csr", "generate-pubkey"}) /\ found' = found
          /\ fault' = "met" \/ ~found \/ chip.key = 0
      BY <1>6, <1>t, RequestIs
    <2>2. plan.commands[step] \in {"generate-csr", "generate-pubkey"}
      BY <2>1, AnsweredPast
    <2>3. PICK j \in 1..(step-1) : plan.commands[j] = "generate-keys"
      BY <1>s, <2>2 DEF KeyedFirst, Follows
    <2>4. chip.key # 0
      BY <1>2, <2>3 DEF CleanInv
    <2> QED BY <1>1, <2>1, <2>4 DEF Excused
  <1>7. CASE ProgramCert
    <2>1. PICK kind \in Kinds :
             /\ line.command = Program[kind] /\ Answered({Program[kind]}) /\ found' = found
             /\ \A k \in Kinds : chip.slot_locked[k] => chip'.slot_locked[k]
             /\ \/ fault' = "met" \/ ~found \/ ~chip.config_locked \/ ~CrcAgrees
                \/ \E k \in Kinds : chip.slot_locked[k]
      BY <1>7, ProgramCertIs
    <2>2. ~CrcAgrees => fault = "met"
      <3>1. line.command \in {"program-dev-cert", "program-signer-cert"}
        BY <2>1, CommandsOf
      <3>2. PayloadOf(line.command) = "cert" /\ line.command \in Commands
        BY <3>1 DEF PayloadOf, Commands
      <3>3. line.payload \in {"intact", "lost", "damaged"}
        BY <3>2 DEF Base, InStep
      <3> QED BY <3>3 DEF CrcAgrees, CleanInv
    <2> QED BY <1>0, <1>1, <2>1, <2>2 DEF Excused
  <1> QED BY <1>3, <1>4, <1>5, <1>6, <1>7 DEF Firmware

\* CleanInv is kept.
LEMMA CleanStep ==
    ASSUME \A p \in Plans : p.delivered =>
               /\ KeyedFirst(p.commands)
               /\ ~Follows("write-config", p.commands, Len(p.commands) + 1),
           Base, CleanInv, [Next]_vars
    PROVE  CleanInv'
  <1>t. TypeOK /\ plan \in Plans /\ fault \in {"none", "met"}
    BY DEF Base, TypeOK
  <1>s. step \in Nat /\ step >= 1 /\ step \in 1..step
    BY StepIs
  <1>1. CASE UNCHANGED vars
    BY <1>1, Stutters DEF CleanInv, Excused, vars
  <1>l. plan.delivered => chip.config_locked /\ chip.data_locked
    BY DEF CleanInv
  <1>2. CASE SendCommand
    <2>1. /\ chip' = chip /\ plan' = plan
          /\ UNCHANGED <<status_object, found, reply>>
          /\ ~Failing'
          /\ fault = "met" => fault' = "met"
          /\ line'.payload \in {"damaged", "lost"} => fault' = "met"
      BY <1>2, <1>t DEF SendCommand, Base, InStep, Failing
    <2>2. Past' = {} \/ (~Failing /\ Past' = Past)
      BY <1>2, <2>1, Moves
    <2> QED BY <2>1, <2>2 DEF CleanInv
  <1>3. CASE Receive
    <2>1. /\ chip' = chip /\ plan' = plan /\ reply'.status = "none"
          /\ UNCHANGED <<status_object, found, line, fault>>
          /\ reply.status # "none"
      BY <1>3 DEF Receive, NoReply
    <2>2. Failing' \/ Past' = {} \/ (~Failing /\ Past' = Past)
      BY <1>3, Moves
    <2>3. Failing' => Failing \/ ~found
      BY <1>3, <2>1 DEF Receive, Failing
    <2>4. plan.delivered /\ Failing' => Excused'
      <3>1. ~found => fault = "met"
        BY <2>1 DEF CleanInv
      <3> QED BY <2>1, <2>3, <3>1 DEF CleanInv, Excused
    <2> QED BY <2>1, <2>2, <2>4 DEF CleanInv
  <1>4. CASE StartAgain
    <2>1. /\ chip' = chip /\ plan' = plan /\ status_object' = 0 /\ reply'.status = "none"
          /\ line'.payload = "none" /\ host' = "ready" /\ Past' = {}
      BY <1>4 DEF StartAgain, FirmwareStarts, NoReply, Idle, Past
    <2>2. ~Failing'
      BY <2>1 DEF Failing
    <2> QED BY <2>1, <2>2 DEF CleanInv
  <1>5. CASE Ignore
    <2>1. /\ line'.payload = "none"
          /\ UNCHANGED <<reply, status_object, found, fault, chip, plan, host, step>>
      BY <1>5 DEF Ignore, Idle, Unread, hostVars
    <2>2. Failing' = Failing /\ Past' = Past
      BY <2>1 DEF Failing, Past
    <2> QED BY <2>1, <2>2 DEF CleanInv, Excused
  <1>6. CASE Firmware /\ ~Ignore
    <2>1. /\ line'.payload \notin {"damaged", "lost"}
          /\ status_object' # 0
      BY <1>6, FirmwareAnswers DEF Answered
    <2>2. ~found' => fault' = "met"
      BY <1>6, FoundStays DEF CleanInv
    <2>3. /\ plan' = plan /\ ~Failing /\ Past = 1..(step-1)
          /\ Failing' <=> reply'.status = "Failure"
          /\ ~Failing' => Past' = 1..step
      BY <1>6, FirmwareAnswers, AnsweredPast
    <2>4. plan.delivered => chip'.config_locked /\ chip'.data_locked
      BY <1>l, LocksStay
    <2>5. ASSUME plan.delivered, Failing' PROVE Excused'
      BY <1>6, <1>t, <2>3, <2>5, FailsExcused
    <2>6. ASSUME plan.delivered, ~Failing', NEW i \in Past', plan.commands[i] = "generate-keys"
          PROVE  chip'.key # 0
      <3>1. CASE i = step
        <4>1. GenerateKeyPair
          BY <1>6, <2>6, <3>1, HandlerIs
        <4>2. Answered({"generate-keys"}) /\ (reply'.status = "Success" => chip'.key = run)
          BY <1>t, <4>1, KeyIs
        <4>3. reply'.status = "Success"
          BY <2>6, <4>2, AnsweredPast
        <4> QED BY <1>t, <4>2, <4>3, ChipIs
      <3>2. CASE i # step
        <4>1. i \in Past
          BY <1>s, <2>3, <2>6, <3>2
        <4>2. chip.key # 0
          BY <2>3, <2>6, <4>1 DEF CleanInv
        <4> QED BY <4>2, LocksStay
      <3> QED BY <3>1, <3>2
    <2> QED BY <2>1, <2>2, <2>3, <2>4, <2>5, <2>6 DEF CleanInv
  <1> QED BY <1>1, <1>2, <1>3, <1>4, <1>5, <1>6 DEF Next

\* CleanInv holds at first.
LEMMA CleanInit == Init => CleanInv
  BY DEF Init, CleanInv, Failing, Past, NoReply, Idle

\* Over a delivered chip, where a plan makes a key before it asks for anything of
\* it and does not write the configuration, a run gives up only over a fault of
\* its own or a slot that an earlier run locked: nothing else that was left on the
\* chip stands in its way, however many runs there were and wherever they stopped.
THEOREM CleanRunsFinish ==
    ASSUME \A p \in Plans : p.delivered =>
               /\ KeyedFirst(p.commands)
               /\ ~Follows("write-config", p.commands, Len(p.commands) + 1)
    PROVE  Spec => []CleanRunFinishes
  <1> DEFINE Inv == Base /\ CleanInv
  <1>1. Init => Inv
    BY BaseInit, CleanInit
  <1>2. Inv /\ [Next]_vars => Inv'
    BY BaseStep, CleanStep
  <1>3. Inv => CleanRunFinishes
    BY DEF CleanInv, CleanRunFinishes, Failing, Excused
  <1> QED BY <1>1, <1>2, <1>3, PTL DEF Spec
=============================================================================
