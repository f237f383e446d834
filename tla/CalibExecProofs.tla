--------------------------- MODULE CalibExecProofs ---------------------------
(***************************************************************************)
(* Proofs about CalibExec, for every number of retries and polls, every    *)
(* bus speed and both kinds of HAL.                                        *)
(*                                                                         *)
(* The inductive invariant follows the call: what is true before the       *)
(* packet is sent, while the answer is polled for, and when the chip is    *)
(* about to be parked.  CleanPath carries the same for calls that met no   *)
(* fault, where the chip is known to be listening.                         *)
(***************************************************************************)
EXTENDS CalibExec, TLAPS

Waking == {"lower", "pulse", "token", "verify"}
Polling == {"poll", "length", "body"}

\* Nothing of this call has reached the chip, whatever an older one left there.
BeforeSend ==
    caller = "execute" /\ pc \in Waking \cup {"send"} =>
        accepted = 0 /\ job # "own" /\ buf \notin {"own", "error"} /\ packet = "none"

\* The packet was acknowledged: older answers and the wake token are gone.
AfterSend ==
    pc \in Polling \cup {"check"} =>
        /\ job # "old" /\ buf \notin {"old", "token"}
        /\ packet \notin {"old", "token"}
        /\ job = "own" \/ buf = "own" \/ packet = "own" => accepted = 1

\* Only calib_execute_command goes past the wake sequence.
SendIsOurs == pc \notin Waking \cup {"ready"} => caller = "execute"

\* The device is never believed awake before the wake sequence succeeded.
WakeFirst == pc \in Waking \cup {"ready"} => device_state # "ACTIVE"

SlowBusStaysSlow == ~FastBus => baud = "low"

CleanPath ==
    caller = "execute" /\ fault = "none" =>
        /\ pc \in Waking \cup {"send"} => job = "none"
        /\ pc \in {"token", "verify", "send"} => power = "awake"
        /\ pc \in Polling \cup {"check", "park"} => power = "awake" /\ accepted = 1
        /\ pc \in Polling => job = "own" \/ buf \in {"own", "error"}
        /\ pc \in {"length", "body"} => packet = "none"
        /\ pc = "check" => packet \in {"own", "error"}
        /\ pc \in {"length", "body", "check", "park"} => job = "none"

Shape == BeforeSend /\ AfterSend /\ SendIsOurs /\ WakeFirst /\ SlowBusStaysSlow
Promises == SuccessIsOwnAnswer /\ AtMostOnce /\ CleanCallSucceeds /\ BusSpeed

IInv == TypeOK /\ Shape /\ CleanPath /\ Promises

(* Every state the program starts in satisfies the invariant. *)
LEMMA InitInv == Init => IInv
<1>. USE RetriesAssumption, HalAssumption
     DEF Init, Statuses, Contents, Waking, Polling, BeforeSend, AfterSend, SendIsOurs,
         WakeFirst, SlowBusStaysSlow, CleanPath, Shape, Promises, Blame, SuccessIsOwnAnswer,
         AtMostOnce, CleanCallSucceeds, BusSpeed
<1>1. Init => HostTypeOK /\ ChipTypeOK
  BY DEF HostTypeOK, ChipTypeOK
<1>2. Init => FlagsTypeOK
  BY DEF FlagsTypeOK
<1>3. Init => Shape /\ CleanPath /\ Promises
  OBVIOUS
<1>. QED
  BY <1>1, <1>2, <1>3 DEF IInv, TypeOK

(* Every step of the task, the chip and the bus preserves it. *)
LEMMA Inductive == IInv /\ [Next]_vars => IInv'
<1>. SUFFICES ASSUME IInv, [Next]_vars PROVE IInv'
  OBVIOUS
<1>. USE RetriesAssumption, HalAssumption
     DEF IInv, TypeOK, HostTypeOK, ChipTypeOK, FlagsTypeOK, hostVars, chipVars,
         Statuses, Contents, Waking, Polling, BeforeSend, AfterSend, SendIsOurs,
         WakeFirst, SlowBusStaysSlow, CleanPath, Shape, Promises, Blame, SuccessIsOwnAnswer,
         AtMostOnce, CleanCallSucceeds, BusSpeed
<1>1. CASE Execute
  <2>1. HostTypeOK'
    BY <1>1 DEF Execute, WakeUnlessActive, StartWake, Older
  <2>2. ChipTypeOK'
    BY <1>1 DEF Execute, WakeUnlessActive, StartWake, Older
  <2>3. FlagsTypeOK'
    BY <1>1 DEF Execute, WakeUnlessActive, StartWake, Older
  <2>4. Shape'
    BY <1>1 DEF Execute, WakeUnlessActive, StartWake, Older
  <2>5. CleanPath'
    BY <1>1 DEF Execute, WakeUnlessActive, StartWake, Older
  <2>6. Promises'
    BY <1>1 DEF Execute, WakeUnlessActive, StartWake, Older
  <2>. QED
    BY <2>1, <2>2, <2>3, <2>4, <2>5, <2>6
<1>2. CASE Wakeup
  <2>1. HostTypeOK'
    BY <1>2 DEF Wakeup, StartWake
  <2>2. ChipTypeOK'
    BY <1>2 DEF Wakeup, StartWake
  <2>3. FlagsTypeOK'
    BY <1>2 DEF Wakeup, StartWake
  <2>4. Shape'
    BY <1>2 DEF Wakeup, StartWake
  <2>5. CleanPath'
    BY <1>2 DEF Wakeup, StartWake
  <2>6. Promises'
    BY <1>2 DEF Wakeup, StartWake
  <2>. QED
    BY <2>1, <2>2, <2>3, <2>4, <2>5, <2>6
<1>3. CASE IdleOrSleep
  <2>1. HostTypeOK'
    BY <1>3 DEF IdleOrSleep, SendPower, Listening
  <2>2. ChipTypeOK'
    BY <1>3 DEF IdleOrSleep, SendPower, Listening
  <2>3. FlagsTypeOK'
    BY <1>3 DEF IdleOrSleep, SendPower, Listening
  <2>4. Shape'
    BY <1>3 DEF IdleOrSleep, SendPower, Listening
  <2>5. CleanPath'
    BY <1>3 DEF IdleOrSleep, SendPower, Listening
  <2>6. Promises'
    BY <1>3 DEF IdleOrSleep, SendPower, Listening
  <2>. QED
    BY <2>1, <2>2, <2>3, <2>4, <2>5, <2>6
<1>4. CASE LowerBaud
  <2>1. HostTypeOK'
    BY <1>4 DEF LowerBaud
  <2>2. ChipTypeOK'
    BY <1>4 DEF LowerBaud
  <2>3. FlagsTypeOK'
    BY <1>4 DEF LowerBaud
  <2>4. Shape'
    BY <1>4 DEF LowerBaud
  <2>5. CleanPath'
    BY <1>4 DEF LowerBaud
  <2>6. Promises'
    BY <1>4 DEF LowerBaud
  <2>. QED
    BY <2>1, <2>2, <2>3, <2>4, <2>5, <2>6
<1>5. CASE WakePulse
  <2>1. HostTypeOK'
    BY <1>5 DEF WakePulse
  <2>2. ChipTypeOK'
    BY <1>5 DEF WakePulse
  <2>3. FlagsTypeOK'
    BY <1>5 DEF WakePulse
  <2>4. Shape'
    BY <1>5 DEF WakePulse
  <2>5. CleanPath'
    BY <1>5 DEF WakePulse
  <2>6. Promises'
    BY <1>5 DEF WakePulse
  <2>. QED
    BY <2>1, <2>2, <2>3, <2>4, <2>5, <2>6
<1>6. CASE ReadToken
  <2>1. HostTypeOK'
    BY <1>6 DEF ReadToken, Listening
  <2>2. ChipTypeOK'
    BY <1>6 DEF ReadToken, Listening
  <2>3. FlagsTypeOK'
    BY <1>6 DEF ReadToken, Listening
  <2>4. Shape'
    BY <1>6 DEF ReadToken, Listening
  <2>5. CleanPath'
    BY <1>6 DEF ReadToken, Listening
  <2>6. Promises'
    BY <1>6 DEF ReadToken, Listening
  <2>. QED
    BY <2>1, <2>2, <2>3, <2>4, <2>5, <2>6
<1>7. CASE VerifyToken
  <2>1. HostTypeOK'
    BY <1>7 DEF VerifyToken, WakeRoundEnds, WakeAgain, WakeReturns
  <2>2. ChipTypeOK'
    BY <1>7 DEF VerifyToken, WakeRoundEnds, WakeAgain, WakeReturns
  <2>3. FlagsTypeOK'
    BY <1>7 DEF VerifyToken, WakeRoundEnds, WakeAgain, WakeReturns
  <2>4. Shape'
    BY <1>7 DEF VerifyToken, WakeRoundEnds, WakeAgain, WakeReturns
  <2>5. CleanPath'
    BY <1>7 DEF VerifyToken, WakeRoundEnds, WakeAgain, WakeReturns
  <2>6. Promises'
    BY <1>7 DEF VerifyToken, WakeRoundEnds, WakeAgain, WakeReturns
  <2>. QED
    BY <2>1, <2>2, <2>3, <2>4, <2>5, <2>6
<1>8. CASE SendPacket
  <2>1. HostTypeOK'
    BY <1>8 DEF SendPacket, Listening, SendSucceeds, SendFails, ChipStarts, StartWake
  <2>2. ChipTypeOK'
    BY <1>8 DEF SendPacket, Listening, SendSucceeds, SendFails, ChipStarts, StartWake
  <2>3. FlagsTypeOK'
    BY <1>8 DEF SendPacket, Listening, SendSucceeds, SendFails, ChipStarts, StartWake
  <2>4. Shape'
    BY <1>8 DEF SendPacket, Listening, SendSucceeds, SendFails, ChipStarts, StartWake
  <2>5. CleanPath'
    BY <1>8 DEF SendPacket, Listening, SendSucceeds, SendFails, ChipStarts, StartWake
  <2>6. Promises'
    BY <1>8 DEF SendPacket, Listening, SendSucceeds, SendFails, ChipStarts, StartWake
  <2>. QED
    BY <2>1, <2>2, <2>3, <2>4, <2>5, <2>6
<1>9. CASE PollRewind
  <2>1. HostTypeOK'
    BY <1>9 DEF PollRewind, Listening, PollAgain
  <2>2. ChipTypeOK'
    BY <1>9 DEF PollRewind, Listening, PollAgain
  <2>3. FlagsTypeOK'
    BY <1>9 DEF PollRewind, Listening, PollAgain
  <2>4. Shape'
    BY <1>9 DEF PollRewind, Listening, PollAgain
  <2>5. CleanPath'
    BY <1>9 DEF PollRewind, Listening, PollAgain
  <2>6. Promises'
    BY <1>9 DEF PollRewind, Listening, PollAgain
  <2>. QED
    BY <2>1, <2>2, <2>3, <2>4, <2>5, <2>6
<1>10. CASE PollLength
  <2>1. HostTypeOK'
    BY <1>10 DEF PollLength, Listening, PollAgain
  <2>2. ChipTypeOK'
    BY <1>10 DEF PollLength, Listening, PollAgain
  <2>3. FlagsTypeOK'
    BY <1>10 DEF PollLength, Listening, PollAgain
  <2>4. Shape'
    BY <1>10 DEF PollLength, Listening, PollAgain
  <2>5. CleanPath'
    BY <1>10 DEF PollLength, Listening, PollAgain
  <2>6. Promises'
    BY <1>10 DEF PollLength, Listening, PollAgain
  <2>. QED
    BY <2>1, <2>2, <2>3, <2>4, <2>5, <2>6
<1>11. CASE PollBody
  <2>1. HostTypeOK'
    BY <1>11 DEF PollBody, Listening, PollAgain
  <2>2. ChipTypeOK'
    BY <1>11 DEF PollBody, Listening, PollAgain
  <2>3. FlagsTypeOK'
    BY <1>11 DEF PollBody, Listening, PollAgain
  <2>4. Shape'
    BY <1>11 DEF PollBody, Listening, PollAgain
  <2>5. CleanPath'
    BY <1>11 DEF PollBody, Listening, PollAgain
  <2>6. Promises'
    BY <1>11 DEF PollBody, Listening, PollAgain
  <2>. QED
    BY <2>1, <2>2, <2>3, <2>4, <2>5, <2>6
<1>12. CASE CheckResponse
  <2>1. HostTypeOK'
    BY <1>12 DEF CheckResponse, ResponseStatus
  <2>2. ChipTypeOK'
    BY <1>12 DEF CheckResponse, ResponseStatus
  <2>3. FlagsTypeOK'
    BY <1>12 DEF CheckResponse, ResponseStatus
  <2>4. Shape'
    BY <1>12 DEF CheckResponse, ResponseStatus
  <2>5. CleanPath'
    BY <1>12 DEF CheckResponse, ResponseStatus
  <2>6. Promises'
    BY <1>12 DEF CheckResponse, ResponseStatus
  <2>. QED
    BY <2>1, <2>2, <2>3, <2>4, <2>5, <2>6
<1>13. CASE Park
  <2>1. HostTypeOK'
    BY <1>13 DEF Park, SendPower, Listening
  <2>2. ChipTypeOK'
    BY <1>13 DEF Park, SendPower, Listening
  <2>3. FlagsTypeOK'
    BY <1>13 DEF Park, SendPower, Listening
  <2>4. Shape'
    BY <1>13 DEF Park, SendPower, Listening
  <2>5. CleanPath'
    BY <1>13 DEF Park, SendPower, Listening
  <2>6. Promises'
    BY <1>13 DEF Park, SendPower, Listening
  <2>. QED
    BY <2>1, <2>2, <2>3, <2>4, <2>5, <2>6
<1>14. CASE ChipAnswers
  <2>1. HostTypeOK'
    BY <1>14 DEF ChipAnswers
  <2>2. ChipTypeOK'
    BY <1>14 DEF ChipAnswers
  <2>3. FlagsTypeOK'
    BY <1>14 DEF ChipAnswers
  <2>4. Shape'
    BY <1>14 DEF ChipAnswers
  <2>5. CleanPath'
    BY <1>14 DEF ChipAnswers
  <2>6. Promises'
    BY <1>14 DEF ChipAnswers
  <2>. QED
    BY <2>1, <2>2, <2>3, <2>4, <2>5, <2>6
<1>15. CASE ChipWatchdog
  <2>1. HostTypeOK'
    BY <1>15 DEF ChipWatchdog
  <2>2. ChipTypeOK'
    BY <1>15 DEF ChipWatchdog
  <2>3. FlagsTypeOK'
    BY <1>15 DEF ChipWatchdog
  <2>4. Shape'
    BY <1>15 DEF ChipWatchdog
  <2>5. CleanPath'
    BY <1>15 DEF ChipWatchdog
  <2>6. Promises'
    BY <1>15 DEF ChipWatchdog
  <2>. QED
    BY <2>1, <2>2, <2>3, <2>4, <2>5, <2>6
<1>16. CASE UNCHANGED vars
  <2>1. HostTypeOK'
    BY <1>16 DEF vars
  <2>2. ChipTypeOK'
    BY <1>16 DEF vars
  <2>3. FlagsTypeOK'
    BY <1>16 DEF vars
  <2>4. Shape'
    BY <1>16 DEF vars
  <2>5. CleanPath'
    BY <1>16 DEF vars
  <2>6. Promises'
    BY <1>16 DEF vars
  <2>. QED
    BY <2>1, <2>2, <2>3, <2>4, <2>5, <2>6
<1>. QED
  BY <1>1, <1>2, <1>3, <1>4, <1>5, <1>6, <1>7, <1>8, <1>9, <1>10, <1>11, <1>12,
     <1>13, <1>14, <1>15, <1>16 DEF Next, HostStep

\* The invariant holds of every reachable state.
LEMMA Invariance == Spec => []IInv
<1>1. Init => IInv
  BY InitInv
<1>2. IInv /\ [Next]_vars => IInv'
  BY Inductive
<1>. QED
  BY <1>1, <1>2, PTL DEF Spec

(* Type correctness of the host, the chip and the history variables. *)
THEOREM TypeCorrect == Spec => []TypeOK
<1>1. IInv => TypeOK
  BY DEF IInv
<1>. QED
  BY <1>1, Invariance, PTL

(* A success hands out the answer to this call's command, executed once. *)
THEOREM SuccessIsHonest == Spec => []SuccessIsOwnAnswer
<1>1. IInv => SuccessIsOwnAnswer
  BY DEF IInv, Promises
<1>. QED
  BY <1>1, Invariance, PTL

(* No number of retries makes the chip execute a command twice. *)
THEOREM NeverTwice == Spec => []AtMostOnce
<1>1. IInv => AtMostOnce
  BY DEF IInv, Promises
<1>. QED
  BY <1>1, Invariance, PTL

(* A call that meets no fault succeeds from any state earlier calls left. *)
THEOREM Recovers == Spec => []CleanCallSucceeds
<1>1. IInv => CleanCallSucceeds
  BY DEF IInv, Promises
<1>. QED
  BY <1>1, Invariance, PTL

(* The pulse is sent at 100 kHz, the command at the configured speed. *)
THEOREM SpeedIsRight == Spec => []BusSpeed
<1>1. IInv => BusSpeed
  BY DEF IInv, Promises
<1>. QED
  BY <1>1, Invariance, PTL

(* Every command begins by waking the chip. *)
THEOREM AlwaysWakes == Spec => []NeverActiveBetweenCalls
<1>1. IInv => NeverActiveBetweenCalls
  BY DEF IInv, Shape, WakeFirst, NeverActiveBetweenCalls
<1>. QED
  BY <1>1, Invariance, PTL

(* A call that meets no fault leaves the chip idle: only Park returns from  *)
(* a command, and it finds the chip listening.                              *)
THEOREM Parks == Spec => CleanCallParks
<1> DEFINE Parked == pc = "park" /\ pc' = "ready" /\ fault' = "none" => power' = "idle"
<1>1. ASSUME IInv, [Next]_vars PROVE [Parked]_vars
  <2>1. ASSUME pc = "park", pc' = "ready", Next, fault' = "none" PROVE power' = "idle"
    <3>1. Park \/ ChipAnswers \/ ChipWatchdog
      BY <2>1 DEF Next, HostStep, Execute, Wakeup, IdleOrSleep, LowerBaud, WakePulse,
                  ReadToken, VerifyToken, SendPacket, PollRewind, PollLength, PollBody,
                  CheckResponse
    <3>2. Park
      BY <2>1, <3>1 DEF ChipAnswers, ChipWatchdog, hostVars
    <3>3. caller = "execute" /\ (fault = "none" => power = "awake" /\ job = "none")
      BY <1>1, <2>1 DEF IInv, Shape, SendIsOurs, CleanPath, Waking, Polling
    <3>. QED
      BY <2>1, <3>2, <3>3 DEF Park, SendPower, Blame, Listening
  <2>. QED
    BY <1>1, <2>1
<1>. QED
  BY <1>1, Invariance, PTL DEF Spec, CleanCallParks

(* The exchange implements the abstract call, step by step.                *)
THEOREM Implements == Spec => Call!Init /\ [][Call!Next]_(Call!vars)
<1>. USE DEF Call!Begin, Call!Take, Call!Return, Call!vars
<1>1. Init => Call!Init
  BY DEF Init, Call!Init
<1>2. ASSUME IInv, [Next]_vars PROVE [Call!Next]_(Call!vars)
  <2>. USE <1>2 DEF IInv, TypeOK, HostTypeOK, ChipTypeOK, Shape, SendIsOurs, BeforeSend,
           Promises, SuccessIsOwnAnswer, AtMostOnce, Statuses, Waking, Polling,
           hostVars, chipVars, Call!Next
  <2>1. CASE Execute
    BY <2>1 DEF Execute, WakeUnlessActive, StartWake
  <2>2. CASE Wakeup
    BY <2>2 DEF Wakeup, StartWake
  <2>3. CASE IdleOrSleep \/ ChipAnswers \/ ChipWatchdog \/ UNCHANGED vars
    BY <2>3 DEF IdleOrSleep, ChipAnswers, ChipWatchdog, vars
  <2>4. CASE LowerBaud \/ WakePulse \/ ReadToken
    BY <2>4 DEF LowerBaud, WakePulse, ReadToken
  <2>5. CASE VerifyToken
    BY <2>5 DEF VerifyToken, WakeRoundEnds, WakeAgain, WakeReturns
  <2>6. CASE SendPacket
    BY <2>6 DEF SendPacket, SendSucceeds, SendFails, ChipStarts, StartWake
  <2>7. CASE PollRewind \/ PollLength \/ PollBody
    BY <2>7 DEF PollRewind, PollLength, PollBody, PollAgain
  <2>8. CASE CheckResponse
    BY <2>8 DEF CheckResponse
  <2>9. CASE Park
    BY <2>9 DEF Park
  <2>. QED
    BY <2>1, <2>2, <2>3, <2>4, <2>5, <2>6, <2>7, <2>8, <2>9 DEF Next, HostStep
<1>. QED
  BY <1>1, <1>2, Invariance, PTL DEF Spec
=============================================================================
