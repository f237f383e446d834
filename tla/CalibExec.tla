------------------------------ MODULE CalibExec ------------------------------
(***************************************************************************)
(* One command exchanged with an ATECC608 over I2C: calib_execute_command  *)
(* (lib/calib/calib_execution.c), the wake sequence it runs                *)
(* (lib/calib/calib_basic.c) and the ESP32 HAL transactions below both     *)
(* (third_party/hal/esp32/hal_esp32_i2c.c).                                *)
(*                                                                         *)
(* The program is one task.  What runs beside it is the chip: it finishes  *)
(* a command when it likes and its watchdog puts it to sleep at any        *)
(* moment.  Every bus transaction may also fail or be corrupted.  One step *)
(* is one HAL transaction, or one decision between two of them.            *)
(***************************************************************************)
EXTENDS Naturals

CONSTANTS RxRetries,     \* cfg->rx_retries (20 in port/atca_cfgs_port.c)
          MaxDelayCount, \* ATCA_POLLING_MAX_TIME_MSEC / ..FREQUENCY_TIME_MSEC
          SendFailures,  \* the statuses the HAL's send returns on a failure
          FastBus        \* whether cfg->atcai2c.baud exceeds 100 kHz

ASSUME RetriesAssumption == RxRetries \in Nat /\ MaxDelayCount \in Nat
ASSUME HalAssumption ==
    /\ SendFailures \subseteq {"COMM_FAIL", "RX_NO_RESPONSE"}
    /\ SendFailures # {}
    /\ FastBus \in BOOLEAN

VARIABLES
    pc,           \* the next transaction of the task; "ready": no call is open
    caller,       \* who asked for the wake sequence
    device_state, \* device->device_state
    status,       \* the status variable of the running call
    retries,      \* tries left in calib_execute_command's send loop
    wretries,     \* tries left in calib_wakeup_i2c's loop
    polls,        \* max_delay_count
    packet,       \* what packet->data holds
    token,        \* whether `wake' holds the wake token 04 11 33 43
    baud,         \* the clock the bus runs at: "low" is 100 kHz
    power,        \* the chip: "sleep", "idle" or "awake"
    job,          \* the command the chip executes: this call's, an older one
    buf,          \* what the chip's output buffer holds
    rewound,      \* the chip's read address is at the start of its buffer
    outcome,      \* what the last command returned; "none" while it runs
    accepted,     \* history: commands of this call the chip took
    fault         \* history: whether the call met a fault: a failed or damaged
                  \* transaction, a sleeping watchdog, an older command still in
                  \* the chip, or an answer later than the last poll

hostVars == <<pc, caller, device_state, status, retries, wretries, polls, packet, token, baud>>
chipVars == <<power, job, buf, rewound>>
vars == <<pc, caller, device_state, status, retries, wretries, polls, packet, token, baud,
          power, job, buf, rewound, outcome, accepted, fault>>

Statuses == {"SUCCESS", "COMM_FAIL", "RX_NO_RESPONSE", "RX_FAIL", "RX_CRC_ERROR",
             "WAKE_FAILED", "WAKE_SUCCESS", "EXECUTION_ERROR"}
Contents == {"own", "error", "old", "token", "none"}

HostTypeOK ==
    /\ pc \in {"ready", "lower", "pulse", "token", "verify", "send",
               "poll", "length", "body", "check", "park"}
    /\ caller \in {"execute", "wakeup"}
    /\ device_state \in {"UNKNOWN", "IDLE", "ACTIVE"}
    /\ status \in Statuses
    /\ retries \in 0..RxRetries /\ wretries \in 0..RxRetries
    /\ polls \in 0..MaxDelayCount
    /\ packet \in Contents \cup {"garbled"}
    /\ baud \in {"low", "full"}
ChipTypeOK ==
    /\ power \in {"sleep", "idle", "awake"}
    /\ job \in {"none", "own", "old"}
    /\ buf \in Contents
    /\ outcome \in Statuses \cup {"none"}
    /\ accepted \in 0..2 /\ fault \in {"none", "met"}
FlagsTypeOK == token \in BOOLEAN /\ rewound \in BOOLEAN

TypeOK == HostTypeOK /\ ChipTypeOK /\ FlagsTypeOK

(* atcab_init has run: the HAL is open at the configured speed and nothing *)
(* is known of the chip.                                                   *)
Init ==
    /\ pc = "ready" /\ caller = "execute" /\ status = "SUCCESS"
    /\ device_state = "UNKNOWN"
    /\ retries = 0 /\ wretries = 0 /\ polls = 0
    /\ packet = "none" /\ token = FALSE
    /\ baud = IF FastBus THEN "full" ELSE "low"
    /\ power \in {"sleep", "idle", "awake"}
    /\ job = "none" /\ buf = "none" /\ rewound = FALSE
    /\ outcome = "none" /\ accepted = 0 /\ fault = "none"

-----------------------------------------------------------------------------
(* The chip.  It acknowledges its address only when awake and not busy.    *)

Listening == power = "awake" /\ job = "none"

\* The call has met a fault if b is one.
Blame(b) == fault' = IF b THEN "met" ELSE fault

\* The chip completes its command and offers the answer, or an error code.
ChipAnswers ==
    /\ job # "none"
    /\ job' = "none"
    /\ buf' \in IF job = "own" THEN {"own", "error"} ELSE {"old"}
    /\ UNCHANGED <<hostVars, power, rewound, outcome, accepted, fault>>

\* The chip's watchdog expires: it drops everything and sleeps.
ChipWatchdog ==
    /\ power = "awake"
    /\ power' = "sleep" /\ job' = "none" /\ buf' = "none" /\ rewound' = FALSE
    /\ fault' = "met"
    /\ UNCHANGED <<hostVars, outcome, accepted>>

-----------------------------------------------------------------------------
(* calib_wakeup_i2c *)

\* Mutant: the countdown of the wake loop is lost.
WakeAgainForever == pc' = "lower" /\ UNCHANGED <<wretries, device_state>>

WakeAgain == pc' = "lower" /\ wretries' = wretries - 1 /\ UNCHANGED device_state

\* Mutant: gives the command up when its wake sequence failed.
WakeReturnsGivingUp(s) ==
    /\ UNCHANGED wretries
    /\ \/ /\ caller = "execute"
          /\ pc' = IF s = "SUCCESS" THEN "send" ELSE "park"
          /\ device_state' = IF s = "SUCCESS" THEN "ACTIVE" ELSE device_state
       \/ /\ caller = "wakeup"
          /\ pc' = "ready"
          /\ UNCHANGED device_state

\* What the two callers of the wake sequence do with its result s.
WakeReturns(s) ==
    /\ UNCHANGED wretries
    /\ \/ /\ caller = "execute"
          /\ pc' = "send"
          /\ device_state' = IF s = "SUCCESS" THEN "ACTIVE" ELSE device_state
       \/ /\ caller = "wakeup"
          /\ pc' = "ready"
          /\ UNCHANGED device_state

\* Mutant: one round too many (`0 <= retries--' for `0 < retries--').
WakeRoundEndsOffByOne(s) ==
    /\ status' = s
    /\ IF s # "SUCCESS" /\ wretries >= 0 THEN WakeAgain ELSE WakeReturns(s)

\* The do-while of the wake sequence ends a round with status s.
WakeRoundEnds(s) ==
    /\ status' = s
    /\ IF s # "SUCCESS" /\ wretries > 0 THEN WakeAgain ELSE WakeReturns(s)

StartWake(c) == pc' = "lower" /\ caller' = c /\ wretries' = RxRetries

\* A bus faster than 100 kHz is slowed down so that the pulse is long enough.
LowerBaud ==
    /\ pc = "lower"
    /\ pc' = "pulse"
    /\ \/ /\ status' = "SUCCESS"
          /\ baud' = "low"
          /\ UNCHANGED fault
       \/ /\ FastBus
          /\ status' = "COMM_FAIL"
          /\ fault' = "met"
          /\ UNCHANGED baud
    /\ UNCHANGED <<caller, device_state, retries, wretries, polls, packet, token,
                   chipVars, outcome, accepted>>

\* START, 0x00, STOP: the result is ignored, and so is the status so far.
WakePulse ==
    /\ pc = "pulse"
    /\ pc' = "token"
    /\ \/ /\ baud = "low" /\ power # "awake"
          /\ power' = "awake" /\ buf' = "token" /\ rewound' = TRUE
          /\ UNCHANGED fault
       \/ /\ power = "awake"
          /\ UNCHANGED <<power, buf, rewound, fault>>
       \/ /\ power # "awake"
          /\ fault' = "met"
          /\ UNCHANGED <<power, buf, rewound>>
    /\ UNCHANGED <<caller, device_state, status, retries, wretries, polls, packet, token,
                   baud, job, outcome, accepted>>

\* The four bytes read after the pulse.  A chip that was awake all along
\* sends whatever follows its read address, or does not acknowledge.
ReadToken ==
    /\ pc = "token"
    /\ pc' = "verify"
    /\ \/ /\ Listening
          /\ token' = (buf = "token" /\ rewound)
          /\ rewound' = FALSE
          /\ UNCHANGED <<status, fault>>
       \/ /\ status' = "COMM_FAIL"
          /\ Blame(Listening /\ buf = "token" /\ rewound)
          /\ UNCHANGED <<token, rewound>>
    /\ UNCHANGED <<caller, device_state, retries, wretries, polls, packet, baud,
                   power, job, buf, outcome, accepted>>

\* Mutant: the bus keeps the speed of the wake pulse.
VerifyTokenKeepingSpeed ==
    /\ pc = "verify"
    /\ WakeRoundEnds(IF status # "SUCCESS" THEN status
                     ELSE IF token THEN "SUCCESS" ELSE "WAKE_FAILED")
    /\ UNCHANGED <<caller, retries, polls, packet, token, baud, chipVars, outcome,
                   accepted, fault>>

\* Restores the bus speed and compares the bytes (hal_check_wake; its
\* self-test status is one more way to fail and folded into WAKE_FAILED).
VerifyToken ==
    /\ pc = "verify"
    /\ \/ /\ status = "SUCCESS"
          /\ baud' = IF FastBus THEN "full" ELSE baud
          /\ WakeRoundEnds(IF token THEN "SUCCESS" ELSE "WAKE_FAILED")
          /\ UNCHANGED fault
       \/ /\ status = "SUCCESS" /\ FastBus
          /\ WakeRoundEnds("COMM_FAIL")
          /\ fault' = "met"
          /\ UNCHANGED baud
       \/ /\ status # "SUCCESS"
          /\ WakeRoundEnds(status)
          /\ UNCHANGED <<baud, fault>>
    /\ UNCHANGED <<caller, retries, polls, packet, token, chipVars, outcome, accepted>>

-----------------------------------------------------------------------------
(* calib_execute_command *)

Older(x) == IF x = "none" THEN "none" ELSE "old"

\* The wake sequence, unless the chip is taken to be awake.
WakeUnlessActive ==
    IF device_state # "ACTIVE" THEN StartWake("execute")
    ELSE pc' = "send" /\ caller' = "execute" /\ UNCHANGED wretries

\* Entry.  What the chip still holds belongs to an older call from now on.
Execute ==
    /\ pc = "ready"
    /\ retries' = RxRetries /\ polls' = MaxDelayCount
    /\ WakeUnlessActive
    /\ outcome' = "none" /\ accepted' = 0
    /\ fault' = IF job = "none" THEN "none" ELSE "met"
    /\ job' = Older(job)
    /\ buf' = IF buf = "token" THEN buf ELSE Older(buf)
    /\ packet' = "none"
    /\ UNCHANGED <<device_state, status, token, baud, power, rewound>>

\* Mutant: every failed send is tried again.
SendFailsRetryingAll(s) ==
    /\ status' = s
    /\ device_state' = "UNKNOWN"
    /\ IF retries > 0
       THEN StartWake("execute") /\ retries' = retries - 1
       ELSE pc' = "park" /\ UNCHANGED <<caller, wretries, retries>>

\* A send that failed with status s: only RX_NO_RESPONSE is tried again, with
\* another wake sequence since device_state is UNKNOWN then.
SendFails(s) ==
    /\ status' = s
    /\ IF s = "RX_NO_RESPONSE"
       THEN /\ device_state' = "UNKNOWN"
            /\ IF retries > 0
               THEN StartWake("execute") /\ retries' = retries - 1
               ELSE pc' = "park" /\ UNCHANGED <<caller, wretries, retries>>
       ELSE /\ device_state' = "ACTIVE"
            /\ pc' = "park" /\ retries' = 0
            /\ UNCHANGED <<caller, wretries>>

SendSucceeds ==
    /\ status' = "SUCCESS" /\ device_state' = "ACTIVE"
    /\ pc' = "poll" /\ retries' = 0
    /\ UNCHANGED <<caller, wretries>>

ChipStarts == job' = "own" /\ buf' = "none" /\ accepted' = accepted + 1

\* calib_execute_send: the packet goes out whatever the wake sequence said.
SendPacket ==
    /\ pc = "send"
    /\ \/ /\ Listening
          /\ SendSucceeds /\ ChipStarts
          /\ UNCHANGED fault
       \/ /\ Listening    \* corrupted on the way: the chip refuses it
          /\ SendSucceeds
          /\ buf' = "error" /\ fault' = "met"
          /\ UNCHANGED <<job, accepted>>
       \/ /\ Listening    \* taken, but its acknowledgement is lost
          /\ "COMM_FAIL" \in SendFailures
          /\ SendFails("COMM_FAIL") /\ ChipStarts
          /\ fault' = "met"
       \/ /\ \E s \in SendFailures : SendFails(s)
          /\ Blame(Listening)
          /\ UNCHANGED <<job, buf, accepted>>
    /\ UNCHANGED <<polls, packet, token, baud, power, rewound, outcome>>

-----------------------------------------------------------------------------
(* The polling loop around calib_execute_receive *)

\* A receive failed: wait, then try again until max_delay_count runs out.
PollAgain(s) ==
    /\ status' = s
    /\ IF polls > 0 THEN pc' = "poll" /\ polls' = polls - 1
                    ELSE pc' = "park" /\ UNCHANGED polls

\* Clears packet->data and rewinds the chip's read address (word address 0).
PollRewind ==
    /\ pc = "poll"
    /\ packet' = "none"
    /\ \/ /\ Listening
          /\ rewound' = TRUE /\ pc' = "length"
          /\ UNCHANGED <<status, polls, fault>>
       \/ /\ PollAgain("COMM_FAIL")
          /\ Blame(Listening \/ polls = 0)
          /\ UNCHANGED rewound
    /\ UNCHANGED <<caller, device_state, retries, wretries, token, baud,
                   power, job, buf, outcome, accepted>>

\* Reads the length byte.  A damaged one is refused when it is under 4 or over
\* the size of the buffer; otherwise it spoils the packet that follows.
PollLength ==
    /\ pc = "length"
    /\ \/ /\ Listening
          /\ pc' = "body"
          /\ UNCHANGED <<status, polls, packet, fault>>
       \/ /\ Listening
          /\ packet' = "garbled" /\ fault' = "met"
          /\ \/ pc' = "body" /\ UNCHANGED <<status, polls>>
             \/ PollAgain("RX_FAIL")
       \/ /\ PollAgain("COMM_FAIL")
          /\ Blame(Listening)
          /\ UNCHANGED packet
    /\ UNCHANGED <<caller, device_state, retries, wretries, token, baud,
                   chipVars, outcome, accepted>>

\* Reads the rest of the packet.
PollBody ==
    /\ pc = "body"
    /\ \/ /\ Listening
          /\ pc' = "check" /\ status' = "SUCCESS"
          /\ \/ packet = "none" /\ packet' = buf /\ UNCHANGED fault
             \/ packet' = "garbled" /\ fault' = "met"
          /\ UNCHANGED polls
       \/ /\ PollAgain("COMM_FAIL")
          /\ Blame(Listening)
          /\ UNCHANGED packet
    /\ UNCHANGED <<caller, device_state, retries, wretries, token, baud,
                   chipVars, outcome, accepted>>

\* Mutant: the response is accepted without isATCAError.
ResponseStatusCrcOnly(p) == IF p = "garbled" THEN "RX_CRC_ERROR" ELSE "SUCCESS"

\* atCheckCrc, then isATCAError, on a packet that arrived complete.
ResponseStatus(p) ==
    CASE p = "garbled" -> "RX_CRC_ERROR"
      [] p = "error"   -> "EXECUTION_ERROR"
      [] p = "token"   -> "WAKE_SUCCESS"
      [] p \in {"own", "old"} -> "SUCCESS"
      [] OTHER         -> "RX_CRC_ERROR"

CheckResponse ==
    /\ pc = "check"
    /\ pc' = "park"
    /\ status' = ResponseStatus(packet)
    /\ UNCHANGED <<caller, device_state, retries, wretries, polls, packet, token, baud,
                   chipVars, outcome, accepted, fault>>

-----------------------------------------------------------------------------
(* A send of one word address without data: 0x02 idles the chip, 0x01 puts *)
(* it to sleep.  Either way the output buffer is lost.                     *)
SendPower(p) ==
    \/ /\ Listening
       /\ power' = p /\ buf' = "none" /\ rewound' = FALSE
       /\ UNCHANGED <<job, fault>>
    \/ /\ Blame(Listening)
       /\ UNCHANGED chipVars

\* Mutant: the chip is idled and still taken to be awake.
ParkStillActive ==
    /\ pc = "park"
    /\ SendPower("idle")
    /\ outcome' = status
    /\ pc' = "ready"
    /\ UNCHANGED <<device_state, caller, status, retries, wretries, polls, packet, token, baud,
                   accepted>>

\* The end of every call: idle the chip, whatever that returns, and return.
Park ==
    /\ pc = "park"
    /\ SendPower("idle")
    /\ device_state' = "IDLE" /\ outcome' = status
    /\ pc' = "ready"
    /\ UNCHANGED <<caller, status, retries, wretries, polls, packet, token, baud, accepted>>

\* atcab_wakeup, atcab_idle and atcab_sleep leave device_state alone.
Wakeup ==
    /\ pc = "ready"
    /\ StartWake("wakeup")
    /\ UNCHANGED <<device_state, status, retries, polls, packet, token, baud,
                   chipVars, outcome, accepted, fault>>

IdleOrSleep ==
    /\ pc = "ready"
    /\ \E p \in {"idle", "sleep"} : SendPower(p)
    /\ UNCHANGED <<hostVars, outcome, accepted>>

-----------------------------------------------------------------------------
HostStep == \/ LowerBaud \/ WakePulse \/ ReadToken \/ VerifyToken
            \/ SendPacket \/ PollRewind \/ PollLength \/ PollBody
            \/ CheckResponse \/ Park

Next == \/ Execute \/ Wakeup \/ IdleOrSleep
        \/ HostStep
        \/ ChipAnswers \/ ChipWatchdog

\* The task is the only one that runs the call: it is never stopped for good.
Fairness == WF_vars(HostStep)

Spec == Init /\ [][Next]_vars /\ Fairness

-----------------------------------------------------------------------------
(* Properties *)

\* A call that returns ATCA_SUCCESS made the chip execute its command exactly
\* once and hands out the answer to that command: never the wake token, an
\* error code, a damaged packet or what an earlier call left in the chip.
SuccessIsOwnAnswer ==
    pc = "park" /\ status = "SUCCESS" => packet = "own" /\ accepted = 1

\* However often the send, the wake and the receive are retried, one call
\* never makes the chip execute its command twice.
AtMostOnce == accepted <= 1

\* Whatever earlier calls left behind (a chip asleep, idle, or awake with an
\* unread answer; a slow bus; a device_state that is wrong), a call during
\* which nothing goes wrong reaches the chip and returns the chip's verdict,
\* although it ignores the status of its own wake sequence.
CleanCallSucceeds ==
    pc = "park" /\ fault = "none" => accepted = 1 /\ status \in {"SUCCESS", "EXECUTION_ERROR"}

\* Outside a call device_state is never ACTIVE, so that every call begins by
\* waking a chip that its watchdog may have put to sleep in the meantime.
NeverActiveBetweenCalls == pc = "ready" => device_state # "ACTIVE"

\* The wake pulse is long enough (100 kHz) unless the driver refused to slow
\* the bus down, and a command that follows a successful wake is sent at the
\* configured speed again.
BusSpeed ==
    /\ pc = "pulse" /\ fault = "none" => baud = "low"
    /\ pc = "send" /\ device_state = "ACTIVE" => (baud = "full") = FastBus

\* A call in which nothing goes wrong leaves the chip idle, as device_state says.
CleanCallParks ==
    [][pc = "park" /\ pc' = "ready" /\ fault' = "none" => power' = "idle"]_vars

\* Every call returns, whatever the chip does: all three loops are bounded.
CallReturns == pc # "ready" ~> pc = "ready"

\* The whole exchange, seen from the functions that call it, is one call of
\* CommandCall: this is what the modules above the command layer rely on.
Call == INSTANCE CommandCall WITH
    open    <- pc # "ready" /\ caller = "execute",
    effect  <- accepted,
    outcome <- CASE outcome = "none"    -> "none"
                 [] outcome = "SUCCESS" -> "ok"
                 [] OTHER               -> "failed"

ImplementsCommandCall == Call!Spec
=============================================================================
