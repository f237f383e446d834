---------------------------- MODULE Pkcs11Proofs ----------------------------
(***************************************************************************)
(* Proofs about Pkcs11, for any threads, processes and handles.            *)
(***************************************************************************)
EXTENDS Pkcs11, TLAPS

Calls == [op : AllOps \cup {"none"}, h : Handles \cup {"none"},
          stage : {"idle", "reserve", "body", "release", "tail"},
          r : Resources, held : BOOLEAN]

\* Every step of a thread's call.
LEMMA StepCases ==
    ASSUME NEW t \in Threads, Step(t)
    PROVE  \/ Reserve(t) \/ Release(t) \/ Open(t) \/ Close(t) \/ Login(t) \/ EncryptInit(t)
           \/ Encrypt(t) \/ DigestInit(t) \/ Digest(t) \/ Sign(t) \/ Verify(t) \/ Create(t)
           \/ Tail(t)
  BY DEF Step, Body

\* What Goto, SetMech and Unlock assign is of the right type.
LEMMA GotoType ==
    ASSUME NEW t \in Threads, call \in [Threads -> Calls], NEW stage, Goto(t, stage),
           stage \in {"idle", "reserve", "body", "release", "tail"}
    PROVE  call' \in [Threads -> Calls]
  <1>1. Idle \in Calls
    BY DEF Idle, Calls, Resources
  <1>2. [call[t] EXCEPT !.stage = stage, !.held = FALSE] \in Calls
    BY DEF Calls
  <1>3. PICK e \in Calls : call' = [call EXCEPT ![t] = e]
    BY <1>1, <1>2 DEF Goto
  <1> QED BY <1>3

\* Asking for the next resource keeps the type of a call.
LEMMA AnotherType ==
    ASSUME NEW t \in Threads, call \in [Threads -> Calls], HasAnother(call[t].r),
           call' = [call EXCEPT ![t].r = Another(call[t].r), ![t].held = FALSE]
    PROVE  call' \in [Threads -> Calls]
  <1>1. Another(call[t].r) \in Resources
    BY DEF HasAnother, Another, Resources
  <1>2. [call[t] EXCEPT !.r = Another(call[t].r), !.held = FALSE] \in Calls
    BY <1>1 DEF Calls
  <1>3. call' = [call EXCEPT ![t] = [call[t] EXCEPT !.r = Another(call[t].r), !.held = FALSE]]
    OBVIOUS
  <1> QED BY <1>2, <1>3

\* Setting a session's mechanism keeps its type.
LEMMA SetMechType ==
    ASSUME NEW t \in Threads, NEW m \in Mechs \cup {"closed"}, SetMech(t, m), TypeOK
    PROVE  mech' \in [Processes -> [Handles -> Mechs \cup {"closed"}]]
  <1>1. CASE mech[Me(t)][call[t].h] = "closed"
    BY <1>1 DEF SetMech, TypeOK
  <1>2. CASE mech[Me(t)][call[t].h] # "closed"
    <2> DEFINE W == [mech[Me(t)] EXCEPT ![call[t].h] = m]
    <2>1. mech[Me(t)] \in [Handles -> Mechs \cup {"closed"}]
      BY ThreadsAssumption DEF TypeOK, Me
    <2>2. W \in [Handles -> Mechs \cup {"closed"}]
      BY <2>1
    <2>3. mech' = [mech EXCEPT ![Me(t)] = W]
      BY <1>2 DEF SetMech
    <2> QED BY <2>2, <2>3 DEF TypeOK
  <1> QED BY <1>1, <1>2

\* Unlocking keeps the lock's type.
LEMMA UnlockType ==
    ASSUME NEW t \in Threads, Unlock(t), TypeOK
    PROVE  lock' \in Threads \cup {"none", "dead"}
  BY DEF Unlock, TypeOK

\* Reserving and freeing keep the resources' type.
LEMMA ResType ==
    ASSUME NEW t \in Threads, NEW r, TypeOK,
           \/ res' = [res EXCEPT ![r] = [session |-> call[t].h, owner |-> Me(t)]]
           \/ res' = [res EXCEPT ![r] = Free]
    PROVE  res' \in [Resources -> [session : Handles \cup {"none"},
                                   owner : Processes \cup {"none", "dead"}]]
  <1> DEFINE Entries == [session : Handles \cup {"none"}, owner : Processes \cup {"none", "dead"}]
  <1>1. /\ res \in [Resources -> Entries]
        /\ Free \in Entries
    BY DEF TypeOK, Free
  <1>2. [session |-> call[t].h, owner |-> Me(t)] \in Entries
    BY ThreadsAssumption DEF TypeOK, Me
  <1>3. PICK e \in Entries : res' = [res EXCEPT ![r] = e]
    BY <1>1, <1>2
  <1> HIDE DEF Entries
  <1>4. res' \in [Resources -> Entries]
    BY <1>1, <1>3
  <1> QED BY <1>4 DEF Entries

\* A call that begins has the type of a call.
LEMMA BeginType ==
    ASSUME NEW t \in Threads, NEW op \in AllOps, NEW h \in Handles \cup {"none"},
           call \in [Threads -> Calls], Begin(t, op, h)
    PROVE  call' \in [Threads -> Calls]
  <1>1. FirstStage(op) \in {"reserve", "body", "release"}
    BY DEF FirstStage
  <1>2. PICK e \in Calls : call' = [call EXCEPT ![t] = e]
    BY <1>1 DEF Begin, Calls, Resources
  <1> QED BY <1>2

\* Type correctness of a step.
LEMMA TypeStep == TypeOK /\ [Next]_vars => TypeOK'
  <1> SUFFICES ASSUME TypeOK, [Next]_vars PROVE TypeOK'
    OBVIOUS
  <1>c. call \in [Threads -> Calls]
    BY DEF TypeOK, Calls
  <1>o. \A t \in Threads : OpsOf[t] \subseteq AllOps /\ Me(t) \in Processes
    BY OpsAssumption, ThreadsAssumption DEF Me
  <1>1. CASE UNCHANGED vars
    BY <1>1 DEF vars, TypeOK
  <1>2. ASSUME NEW p \in Processes,
               MapShared(p) \/ InitShared(p) \/ Finalize(p) \/ Crash(p)
        PROVE  TypeOK'
    <2>1. CASE MapShared(p) BY <2>1 DEF MapShared, TypeOK
    <2>2. CASE InitShared(p) BY <2>2 DEF InitShared, TypeOK, Free
    <2>3. CASE Finalize(p) BY <2>3 DEF Finalize, TypeOK, NoSessions
    <2>4. CASE Crash(p)
      <3>1. call' \in [Threads -> Calls]
        BY <2>4, <1>c DEF Crash, Calls, Idle, Resources
      <3>2. res' \in [Resources -> [session : Handles \cup {"none"},
                                    owner : Processes \cup {"none", "dead"}]]
        BY <2>4 DEF Crash, TypeOK
      <3> QED BY <2>4, <3>1, <3>2 DEF Crash, TypeOK, Calls, NoSessions
    <2> QED BY <1>2, <2>1, <2>2, <2>3, <2>4
  <1>3. ASSUME NEW t \in Threads, Enter(t) \/ EnterOpen(t) \/ SignInit(t) \/ Acquire(t)
        PROVE  TypeOK'
    <2>1. CASE Enter(t)
      <3>1. PICK op \in OpsOf[t] \ {"open", "sign_init"}, h \in Sessions(Me(t)) : Begin(t, op, h)
        BY <2>1 DEF Enter
      <3>2. call' \in [Threads -> Calls]
        BY <3>1, <1>c, <1>o, BeginType DEF Sessions
      <3> QED BY <2>1, <3>2 DEF Enter, TypeOK, Calls
    <2>2. CASE EnterOpen(t)
      <3>1. call' \in [Threads -> Calls]
        BY <2>2, <1>c, BeginType DEF EnterOpen, AllOps
      <3> QED BY <2>2, <3>1 DEF EnterOpen, TypeOK, Calls
    <2>3. CASE SignInit(t)
      <3>1. PICK h \in Sessions(Me(t)) : mech' = [mech EXCEPT ![Me(t)][h] = "sign"]
        BY <2>3 DEF SignInit
      <3>2. mech' \in [Processes -> [Handles -> Mechs \cup {"closed"}]]
        BY <3>1, <1>o DEF TypeOK, Mechs, Sessions
      <3> QED BY <2>3, <3>2 DEF SignInit, TypeOK
    <2>4. CASE Acquire(t)
      <3>1. call' \in [Threads -> Calls]
        BY <2>4, <1>c DEF Acquire, Calls
      <3> QED BY <2>4, <3>1 DEF Acquire, TypeOK, Calls
    <2> QED BY <1>3, <2>1, <2>2, <2>3, <2>4
  <1>4. ASSUME NEW t \in Threads, Step(t) PROVE TypeOK'
    <2>1. CASE Reserve(t)
      <3>1. call' \in [Threads -> Calls]
        <4>1. CASE Goto(t, "body") \/ Goto(t, "idle")
          BY <4>1, <1>c, GotoType
        <4>2. CASE HasAnother(call[t].r)
                   /\ call' = [call EXCEPT ![t].r = Another(call[t].r), ![t].held = FALSE]
          BY <4>2, <1>c, AnotherType
        <4> QED BY <2>1, <4>1, <4>2 DEF Reserve
      <3>2. /\ res' \in [Resources -> [session : Handles \cup {"none"},
                                       owner : Processes \cup {"none", "dead"}]]
            /\ lost' \in BOOLEAN
        BY <2>1, ResType DEF Reserve, TypeOK
      <3> QED BY <2>1, <3>1, <3>2, UnlockType DEF Reserve, TypeOK, Calls
    <2>2. CASE Release(t)
      <3>1. call' \in [Threads -> Calls]
        <4>1. CASE Goto(t, "tail") \/ Goto(t, "idle")
          BY <4>1, <1>c, GotoType
        <4>2. CASE HasAnother(call[t].r)
                   /\ call' = [call EXCEPT ![t].r = Another(call[t].r), ![t].held = FALSE]
          BY <4>2, <1>c, AnotherType
        <4> QED BY <2>2, <4>1, <4>2 DEF Release
      <3>2. /\ res' \in [Resources -> [session : Handles \cup {"none"},
                                       owner : Processes \cup {"none", "dead"}]]
            /\ lost' \in BOOLEAN
        BY <2>2, ResType DEF Release, TypeOK
      <3> QED BY <2>2, <3>1, <3>2, UnlockType DEF Release, TypeOK, Calls
    <2>3. CASE Open(t)
      <3>1. call' \in [Threads -> Calls] BY <2>3, <1>c, GotoType DEF Open
      <3>2. mech' \in [Processes -> [Handles -> Mechs \cup {"closed"}]]
        <4>1. CASE mech' = mech
          BY <4>1 DEF TypeOK
        <4>2. CASE mech' # mech
          <5>1. PICK h \in Handles : mech' = [mech EXCEPT ![Me(t)][h] = "none"]
            BY <2>3, <4>2 DEF Open
          <5> QED BY <5>1, <1>o DEF TypeOK, Mechs
        <4> QED BY <4>1, <4>2
      <3> QED BY <2>3, <3>1, <3>2, UnlockType DEF Open, Rest, TypeOK, Calls
    <2>4. CASE Close(t) \/ Digest(t) \/ DigestInit(t) \/ Sign(t) \/ Verify(t) \/ Create(t)
      <3>1. call' \in [Threads -> Calls]
        BY <2>4, <1>c, GotoType DEF Close, Digest, DigestInit, Sign, Verify, Create
      <3>2. SetMech(t, "closed") \/ SetMech(t, "none") \/ SetMech(t, "digest") \/ UNCHANGED mech
        BY <2>4 DEF Close, Digest, DigestInit, Sign, Verify, Create
      <3>3. mech' \in [Processes -> [Handles -> Mechs \cup {"closed"}]]
        BY <3>2, SetMechType DEF Mechs, TypeOK
      <3>4. lost' \in BOOLEAN
        BY <2>4 DEF Close, Digest, DigestInit, Sign, Verify, Create, Abandons, TypeOK
      <3>5. (Unlock(t) \/ UNCHANGED lock) /\ UNCHANGED <<shm, creator, up, res, logged_in>>
        BY <2>4 DEF Close, Digest, DigestInit, Sign, Verify, Create, Rest
      <3> QED BY <3>1, <3>3, <3>4, <3>5, UnlockType DEF TypeOK, Calls
    <2>5. CASE Login(t) \/ Encrypt(t)
      <3>1. call' \in [Threads -> Calls]
        BY <2>5, <1>c, GotoType DEF Login, Encrypt
      <3> QED BY <2>5, <3>1, UnlockType DEF Login, Encrypt, Rest, TypeOK, Calls
    <2>6. CASE EncryptInit(t)
      <3>1. call' \in [Threads -> Calls]
        BY <2>6, <1>c, GotoType DEF EncryptInit
      <3>2. mech' \in [Processes -> [Handles -> Mechs \cup {"closed"}]]
        BY <2>6, SetMechType DEF EncryptInit, Mechs, TypeOK
      <3> QED BY <2>6, <3>1, <3>2, UnlockType DEF EncryptInit, Rest, TypeOK, Calls
    <2>7. CASE Tail(t)
      <3>1. call' \in [Threads -> Calls]
        BY <2>7, <1>c, GotoType DEF Tail
      <3>2. mech' \in [Processes -> [Handles -> Mechs \cup {"closed"}]]
        BY <2>7, SetMechType DEF Tail, Mechs, TypeOK
      <3>3. logged_in' \in [Processes -> BOOLEAN]
        BY <2>7, <1>o DEF Tail, TypeOK
      <3> QED BY <2>7, <3>1, <3>2, <3>3 DEF Tail, Rest, TypeOK, Calls
    <2> QED BY <1>4, StepCases, <2>1, <2>2, <2>3, <2>4, <2>5, <2>6, <2>7
  <1> QED BY <1>1, <1>2, <1>3, <1>4 DEF Next

\* The first states are well typed.
LEMMA TypeInit == Init => TypeOK
  <1> SUFFICES ASSUME Init PROVE TypeOK
    OBVIOUS
  <1>1. Idle \in Calls
    BY DEF Idle, Calls, Resources
  <1>2. call \in [Threads -> Calls]
    BY <1>1 DEF Init
  <1> QED BY <1>2 DEF Init, TypeOK, Calls, Free, NoSessions, Mechs

\* Whatever the processes and threads do, the tables keep their types: no
\* resource beyond the second authorisation slot is ever asked for.
THEOREM TypeCorrect == Spec => []TypeOK
  BY TypeInit, TypeStep, PTL DEF Spec

-----------------------------------------------------------------------------
(* Mutual exclusion *)

\* The shared memory is complete before a process uses it, and a process that
\* is down has no session and no call.
Booted ==
    /\ creator # "none" => shm = "raw"
    /\ \A p \in Processes : up[p] => shm = "ready"
    /\ \A t \in Threads : ~up[Me(t)] => call[t].stage = "idle"
    /\ \A p \in Processes, h \in Handles : ~up[p] => mech[p][h] = "closed"

\* A thread that took the mutex is the one the mutex names.
Holds == \A t \in Threads : call[t].held => lock = t /\ call[t].stage # "idle"

LockInv == Booted /\ Holds

\* The record of a thread in no call.
LEMMA IdleFacts == Idle.held = FALSE /\ Idle.stage = "idle" /\ Idle.op = "none" /\ Idle.h = "none"
  BY DEF Idle

\* A step of a call only changes that call, and leaves the lock or gives it up.
LEMMA StepFrame ==
    ASSUME TypeOK, NEW t \in Threads, Step(t)
    PROVE  /\ UNCHANGED <<shm, creator, up>>
           /\ call[t].stage # "idle"
           /\ \A u \in Threads \ {t} : call'[u] = call[u]
           /\ call'[t].held = FALSE
           /\ lock' # lock => lock = t
  <1>1. call[t].stage # "idle"
    BY StepCases DEF Reserve, Release, Open, Close, Login, EncryptInit, Encrypt, DigestInit,
       Digest, Sign, Verify, Create, Tail, InBody
  <1>2. \A u \in Threads \ {t} : call'[u] = call[u]
    BY StepCases DEF Reserve, Release, Open, Close, Login, EncryptInit, Encrypt, DigestInit,
       Digest, Sign, Verify, Create, Tail, Goto, TypeOK
  <1>3. call'[t].held = FALSE
    <2>1. ASSUME NEW stage, Goto(t, stage) PROVE call'[t].held = FALSE
      BY <2>1 DEF Goto, Idle, TypeOK
    <2>5. ASSUME NEW r, call' = [call EXCEPT ![t].r = r, ![t].held = FALSE]
          PROVE  call'[t].held = FALSE
      <3>1. call \in [Threads -> Calls]
        BY DEF TypeOK, Calls
      <3>2. call'[t] = [call[t] EXCEPT !.r = r, !.held = FALSE]
        BY <2>5, <3>1
      <3> QED BY <3>1, <3>2 DEF Calls
    <2>2. CASE Reserve(t) BY <2>2, <2>1, <2>5 DEF Reserve
    <2>3. CASE Release(t) BY <2>3, <2>1, <2>5 DEF Release
    <2>4. CASE ~Reserve(t) /\ ~Release(t)
      BY <2>4, <2>1, StepCases DEF Open, Close, Login, EncryptInit, Encrypt, DigestInit, Digest,
         Sign, Verify, Create, Tail
    <2> QED BY <2>2, <2>3, <2>4
  <1>4. lock' # lock => lock = t
    BY StepCases DEF Reserve, Release, Open, Close, Login, EncryptInit, Encrypt, DigestInit,
       Digest, Sign, Verify, Create, Tail, Unlock
  <1>5. UNCHANGED <<shm, creator, up>>
    BY StepCases DEF Reserve, Release, Open, Close, Login, EncryptInit, Encrypt, DigestInit,
       Digest, Sign, Verify, Create, Tail, Rest
  <1> QED BY <1>1, <1>2, <1>3, <1>4, <1>5

\* Nothing opens or changes a session of another process.
LEMMA StepSessions ==
    ASSUME TypeOK, NEW t \in Threads, Step(t), NEW p \in Processes \ {Me(t)}
    PROVE  mech'[p] = mech[p]
  <1>1. ASSUME NEW m, SetMech(t, m) PROVE mech'[p] = mech[p]
    BY <1>1 DEF SetMech, TypeOK
  <1> QED BY <1>1, StepCases DEF Reserve, Release, Open, Close, Login, EncryptInit, Encrypt,
             DigestInit, Digest, Sign, Verify, Create, Tail, TypeOK

\* Every step keeps the mutual exclusion.
LEMMA LockStep ==
    ASSUME "creation" \notin Races, TypeOK, LockInv, [Next]_vars
    PROVE  LockInv'
  <1>o. \A t \in Threads : Me(t) \in Processes
    BY ThreadsAssumption DEF Me
  <1>1. CASE UNCHANGED vars
    BY <1>1 DEF vars, LockInv, Booted, Holds, Me
  <1>2. ASSUME NEW p \in Processes, MapShared(p) PROVE LockInv'
    <2>1. shm # "ready" => shm' # "ready" /\ up' = up
      BY <1>2 DEF MapShared, TypeOK
    <2>2. /\ UNCHANGED <<lock, mech, call>>
          /\ shm = "ready" => shm' = "ready" /\ creator' = creator
          /\ creator' # "none" => shm' = "raw"
          /\ \A q \in Processes : up[q] => up'[q]
      BY <1>2 DEF MapShared, TypeOK, LockInv, Booted
    <2> QED BY <2>1, <2>2, <1>o DEF LockInv, Booted, Holds, Me
  <1>3. ASSUME NEW p \in Processes, InitShared(p) PROVE LockInv'
    <2>1. \A t \in Threads : ~call[t].held
      <3>1. shm = "raw"
        BY <1>3, NamesAssumption DEF InitShared, LockInv, Booted
      <3> QED BY <3>1, <1>o DEF LockInv, Booted, Holds
    <2>2. /\ UNCHANGED <<mech, call>> /\ shm' = "ready" /\ creator' = "none"
          /\ \A q \in Processes : up[q] => up'[q]
      BY <1>3 DEF InitShared, TypeOK
    <2> QED BY <2>1, <2>2, <1>o DEF LockInv, Booted, Holds, Me
  <1>4. ASSUME NEW p \in Processes, Finalize(p) PROVE LockInv'
    <2>1. \A t \in Threads : ~call[t].held
      BY <1>4 DEF Finalize, Busy, LockInv, Holds
    <2>2. \A t \in Threads : Me(t) = p => call[t].stage = "idle"
      BY <1>4 DEF Finalize, Busy, Me
    <2>3. Booted'
      BY <1>4, <2>2, <1>o DEF Finalize, LockInv, Booted, TypeOK, NoSessions, Me
    <2> QED BY <1>4, <2>1, <2>3 DEF Finalize, LockInv, Holds
  <1>5. ASSUME NEW p \in Processes, Crash(p) PROVE LockInv'
    <2>1. Booted'
      <3>1. /\ UNCHANGED <<shm, creator>>
            /\ \A q \in Processes : up'[q] => up[q] /\ q # p
            /\ \A q \in Processes \ {p} : up'[q] = up[q] /\ mech'[q] = mech[q]
            /\ mech'[p] = NoSessions
        BY <1>5 DEF Crash, TypeOK
      <3>2. \A t \in Threads : call'[t] = IF Me(t) = p THEN Idle ELSE call[t]
        BY <1>5 DEF Crash, Me
      <3> QED BY <3>1, <3>2, <1>o, IdleFacts DEF LockInv, Booted, NoSessions, Me
    <2>2. Holds'
      BY <1>5, IdleFacts DEF Crash, LockInv, Holds, Me
    <2> QED BY <2>1, <2>2 DEF LockInv
  <1>6. ASSUME NEW t \in Threads, Enter(t) \/ EnterOpen(t) \/ SignInit(t) PROVE LockInv'
    <2>1. \A u \in Threads : call'[u] = call[u] \/ (u = t /\ ~call'[u].held)
      BY <1>6 DEF Enter, EnterOpen, SignInit, Begin, TypeOK
    <2>2. UNCHANGED <<shm, creator, lock, up>> /\ up[Me(t)]
      BY <1>6 DEF Enter, EnterOpen, SignInit
    <2>3. \A q \in Processes \ {Me(t)} : mech'[q] = mech[q]
      BY <1>6 DEF Enter, EnterOpen, SignInit, TypeOK
    <2> QED BY <2>1, <2>2, <2>3 DEF LockInv, Booted, Holds, Me
  <1>7. ASSUME NEW t \in Threads, Acquire(t) PROVE LockInv'
    <2>1. \A u \in Threads : u # t => ~call[u].held
      BY <1>7, NamesAssumption DEF Acquire, Lockable, LockInv, Holds
    <2>2. up[Me(t)]
      BY <1>7, IdleFacts DEF Acquire, LockInv, Booted
    <2>3. \A u \in Threads : u # t => call'[u] = call[u]
      BY <1>7 DEF Acquire, TypeOK
    <2> QED BY <1>7, <2>1, <2>2, <2>3 DEF Acquire, LockInv, Booted, Holds, Me
  <1>8. ASSUME NEW t \in Threads, Step(t) PROVE LockInv'
    <2>1. up[Me(t)]
      BY <1>8, StepFrame, IdleFacts DEF LockInv, Booted
    <2>2. Booted'
      <3>1. UNCHANGED <<shm, creator, up>> /\ \A u \in Threads \ {t} : call'[u] = call[u]
        BY <1>8, StepFrame
      <3>2. \A q \in Processes \ {Me(t)} : mech'[q] = mech[q]
        BY <1>8, StepSessions
      <3>3. \A u \in Threads : ~up'[Me(u)] => call'[u].stage = "idle"
        BY <3>1, <2>1 DEF LockInv, Booted, Me
      <3> QED BY <3>1, <3>2, <3>3, <2>1 DEF LockInv, Booted
    <2>3. Holds'
      <3> SUFFICES ASSUME NEW u \in Threads, call'[u].held
                   PROVE  lock' = u /\ call'[u].stage # "idle"
        BY DEF Holds
      <3>1. u # t /\ call'[u] = call[u] /\ (lock' # lock => lock = t)
        BY <1>8, StepFrame
      <3> QED BY <3>1 DEF LockInv, Holds
    <2> QED BY <2>2, <2>3 DEF LockInv
  <1> QED BY <1>1, <1>2, <1>3, <1>4, <1>5, <1>6, <1>7, <1>8 DEF Next

\* The first states have mutual exclusion.
LEMMA LockInit == Init => LockInv
  BY IdleFacts DEF Init, LockInv, Booted, Holds, NoSessions

\* If processes do not create the shared memory at the same time, at most one
\* thread of them all works with the chip, whoever dies holding the mutex.
THEOREM Excludes ==
    ASSUME "creation" \notin Races
    PROVE  Spec => []MutualExclusion
  <1>1. TypeOK /\ LockInv /\ [Next]_vars => LockInv'
    BY LockStep
  <1>2. LockInv => MutualExclusion
    BY DEF LockInv, Holds, MutualExclusion
  <1> QED BY <1>1, <1>2, LockInit, TypeCorrect, PTL DEF Spec

-----------------------------------------------------------------------------
(* The AES engine *)

\* What the stage of a call says of its operation, resource and session.
Shaped ==
    \A t \in Threads :
        /\ call[t].stage # "idle" /\ call[t].op # "open" => call[t].h \in Handles
        /\ call[t].op \in {"encrypt_init", "encrypt"} => call[t].r = "AES"
        /\ call[t].op \in {"login", "logout"} => call[t].r # "AES"
        /\ call[t].stage = "reserve" => call[t].op \in {"encrypt_init", "login"}
        /\ call[t].stage = "release" =>
              call[t].op \in {"encrypt_init", "encrypt", "login", "logout"}
        /\ call[t].stage = "tail" => call[t].op \in {"encrypt", "login", "logout"}
        /\ call[t].stage = "idle" => call[t].op = "none"
        /\ call[t].op = "open" => call[t].h = "none"

\* No two threads of a process are in calls on the same session.
Alone ==
    \A t, u \in Threads :
        /\ t # u /\ Me(t) = Me(u)
        /\ call[t].stage # "idle" /\ call[u].stage # "idle"
        /\ call[t].h \in Handles
        => call[t].h # call[u].h

\* A call that starts an AES operation has the engine from its reservation to
\* its body, and finds no AES operation active.
Starting ==
    \A t \in Threads :
        call[t].op = "encrypt_init" =>
            /\ call[t].stage = "body" => res["AES"] = [session |-> call[t].h, owner |-> Me(t)]
            /\ call[t].stage \in {"body", "release"} => mech[Me(t)][call[t].h] # "aes"

AesInv == Shaped /\ Alone /\ Starting /\ AesReserved

\* Where a step of a call goes: on with the same operation, or back to idle.
LEMMA GotoCall ==
    ASSUME TypeOK, NEW t \in Threads, NEW stage, Goto(t, stage)
    PROVE  \/ stage = "idle" /\ call'[t] = Idle
           \/ /\ stage # "idle" /\ call'[t].stage = stage
              /\ call'[t].op = call[t].op /\ call'[t].h = call[t].h /\ call'[t].r = call[t].r
  <1>1. call \in [Threads -> Calls] /\ call[t] \in Calls
    BY DEF TypeOK, Calls
  <1>2. CASE stage = "idle"
    BY <1>1, <1>2 DEF Goto
  <1>3. CASE stage # "idle"
    <2>1. call'[t] = [call[t] EXCEPT !.stage = stage, !.held = FALSE]
      BY <1>1, <1>3 DEF Goto
    <2> QED BY <1>1, <1>3, <2>1 DEF Calls
  <1> QED BY <1>2, <1>3

\* Going on to the second session engine changes only which one a call asks for.
LEMMA AnotherCall ==
    ASSUME TypeOK, NEW t \in Threads, HasAnother(call[t].r),
           call' = [call EXCEPT ![t].r = Another(call[t].r), ![t].held = FALSE]
    PROVE  /\ call'[t].r = "AUTH1" /\ call[t].r = "AUTH0" /\ call'[t].stage = call[t].stage
           /\ call'[t].op = call[t].op /\ call'[t].h = call[t].h
  <1>1. call \in [Threads -> Calls] /\ call[t] \in Calls
    BY DEF TypeOK, Calls
  <1>2. call'[t] = [call[t] EXCEPT !.r = Another(call[t].r), !.held = FALSE]
    BY <1>1
  <1> QED BY <1>1, <1>2 DEF Calls, HasAnother, Another

\* How a step changes its thread's call.
LEMMA StepCall ==
    ASSUME TypeOK, Shaped, NEW t \in Threads, Step(t)
    PROVE  \/ call'[t] = Idle
           \/ /\ call'[t].op = call[t].op /\ call'[t].h = call[t].h
              /\ \/ /\ call'[t].r = call[t].r
                    /\ \/ Reserve(t) /\ call'[t].stage = "body"
                       \/ Login(t) /\ call'[t].stage = "release"
                       \/ Login(t) /\ call'[t].stage = "tail"
                       \/ Encrypt(t) /\ call[t].op = "encrypt" /\ call'[t].stage = "release"
                       \/ EncryptInit(t) /\ call'[t].stage = "release"
                       \/ /\ Release(t) /\ call[t].op \in {"encrypt", "logout"}
                          /\ call'[t].stage = "tail"
                 \/ /\ call'[t].r = "AUTH1" /\ call[t].r = "AUTH0"
                    /\ call'[t].stage = call[t].stage
                    /\ Reserve(t) \/ Release(t)
  <1>2. CASE Reserve(t)
    <2>1. CASE Goto(t, "body") BY <1>2, <2>1, GotoCall
    <2>2. CASE Goto(t, "idle") BY <1>2, <2>2, GotoCall
    <2>3. CASE HasAnother(call[t].r)
               /\ call' = [call EXCEPT ![t].r = Another(call[t].r), ![t].held = FALSE]
      BY <1>2, <2>3, AnotherCall
    <2> QED BY <1>2, <2>1, <2>2, <2>3 DEF Reserve
  <1>3. CASE Release(t)
    <2>1. CASE Goto(t, "tail") /\ call[t].op \in {"encrypt", "logout"}
      BY <1>3, <2>1, GotoCall
    <2>2. CASE Goto(t, "idle") BY <1>3, <2>2, GotoCall
    <2>3. CASE HasAnother(call[t].r)
               /\ call' = [call EXCEPT ![t].r = Another(call[t].r), ![t].held = FALSE]
      BY <1>3, <2>3, AnotherCall
    <2> QED BY <1>3, <2>1, <2>2, <2>3 DEF Release
  <1>4. CASE Login(t)
    <2>1. CASE Goto(t, "tail") BY <1>4, <2>1, GotoCall
    <2>2. CASE Goto(t, "release") BY <1>4, <2>2, GotoCall
    <2> QED BY <1>4, <2>1, <2>2 DEF Login
  <1>5. CASE Encrypt(t)
    <2>1. CASE Goto(t, "release") /\ call[t].op = "encrypt"
      BY <1>5, <2>1, GotoCall
    <2>2. CASE Goto(t, "idle") BY <2>2, GotoCall
    <2> QED BY <1>5, <2>1, <2>2 DEF Encrypt, InBody
  <1>6. CASE EncryptInit(t)
    <2>1. CASE Goto(t, "release") BY <1>6, <2>1, GotoCall
    <2>2. CASE Goto(t, "idle") BY <2>2, GotoCall
    <2> QED BY <1>6, <2>1, <2>2 DEF EncryptInit
  <1>7. CASE \/ Open(t) \/ Close(t) \/ DigestInit(t) \/ Digest(t) \/ Sign(t) \/ Verify(t)
             \/ Create(t) \/ Tail(t)
    <2>1. Goto(t, "idle")
      BY <1>7 DEF Open, Close, DigestInit, Digest, Sign, Verify, Create, Tail
    <2> QED BY <2>1, GotoCall
  <1> QED BY <1>2, <1>3, <1>4, <1>5, <1>6, <1>7, StepCases

\* Which steps leave a session in an AES operation.
LEMMA StepMech ==
    ASSUME TypeOK, NEW t \in Threads, Step(t),
           NEW p \in Processes, NEW h \in Handles, mech'[p][h] = "aes"
    PROVE  \/ mech[p][h] = "aes" /\ ~(Tail(t) /\ call[t].op = "encrypt" /\ p = Me(t) /\ h = call[t].h)
           \/ EncryptInit(t) /\ p = Me(t) /\ h = call[t].h /\ call'[t] = Idle
  <1>1. ASSUME NEW m, SetMech(t, m), m # "aes"
        PROVE  mech[p][h] = "aes" /\ ~(p = Me(t) /\ h = call[t].h)
    BY <1>1 DEF SetMech, TypeOK
  <1>2. CASE mech' = mech
    <2>1. ~(Tail(t) /\ call[t].op = "encrypt" /\ p = Me(t) /\ h = call[t].h)
      BY <1>1 DEF Tail
    <2> QED BY <1>2, <2>1
  <1>3. CASE mech' # mech
    <2>1. CASE Open(t)
      <3>1. PICK g \in Handles : mech' = [mech EXCEPT ![Me(t)][g] = "none"]
        BY <2>1, <1>3 DEF Open
      <3>2. call[t].op # "encrypt"
        BY <2>1 DEF Open, InBody
      <3> QED BY <3>1, <3>2 DEF TypeOK
    <2>2. CASE EncryptInit(t)
      <3>1. SetMech(t, "aes") /\ Goto(t, "idle")
        BY <2>2, <1>3 DEF EncryptInit
      <3>2. call'[t] = Idle
        BY <3>1, GotoCall
      <3>3. ~Tail(t)
        BY <2>2 DEF EncryptInit, InBody, Tail
      <3> QED BY <2>2, <3>1, <3>2, <3>3 DEF SetMech, TypeOK
    <2>3. CASE Close(t) \/ DigestInit(t) \/ Digest(t) \/ Sign(t) \/ Verify(t) \/ Create(t) \/ Tail(t)
      <3>1. SetMech(t, "closed") \/ SetMech(t, "none") \/ SetMech(t, "digest")
        BY <2>3, <1>3 DEF Close, DigestInit, Digest, Sign, Verify, Create, Tail
      <3> QED BY <3>1, <1>1
    <2>4. CASE Reserve(t) \/ Release(t) \/ Login(t) \/ Encrypt(t)
      BY <2>4, <1>3 DEF Reserve, Release, Login, Encrypt
    <2> QED BY <2>1, <2>2, <2>3, <2>4, StepCases
  <1> QED BY <1>2, <1>3

\* Which steps change the reservation of a resource.
LEMMA StepResource ==
    ASSUME TypeOK, NEW t \in Threads, Step(t), NEW r \in Resources, res'[r] # res[r]
    PROVE  \/ /\ Reserve(t) /\ call[t].r = r /\ Available(r)
              /\ res'[r] = [session |-> call[t].h, owner |-> Me(t)]
           \/ Release(t) /\ call[t].r = r /\ Releasable(t, r)
  <1>1. res' # res
    OBVIOUS
  <1>2. Reserve(t) \/ Release(t)
    BY <1>1, StepCases DEF Open, Close, Login, EncryptInit, Encrypt, DigestInit, Digest, Sign,
       Verify, Create, Tail
  <1>3. CASE Reserve(t)
    BY <1>3 DEF Reserve, TypeOK
  <1>4. CASE Release(t)
    BY <1>4 DEF Release, TypeOK
  <1> QED BY <1>2, <1>3, <1>4

\* Which steps change the reservation of the AES engine.
LEMMA StepRes ==
    ASSUME TypeOK, NEW t \in Threads, Step(t), res'["AES"] # res["AES"]
    PROVE  \/ /\ Reserve(t) /\ call[t].r = "AES" /\ Available("AES")
              /\ res'["AES"] = [session |-> call[t].h, owner |-> Me(t)]
           \/ Release(t) /\ call[t].r = "AES" /\ Releasable(t, "AES")
  BY StepResource DEF Resources

\* The invariant over the steps inside a call.
LEMMA AesStep ==
    ASSUME TypeOK, AesInv, NEW t \in Threads, Step(t)
    PROVE  AesInv'
  <1>m. \A u \in Threads : Me(u) \in Processes /\ Me(u) \notin {"none", "dead"}
    BY ThreadsAssumption, NamesAssumption DEF Me
  <1>n. \A u \in Threads : Me(u)' = Me(u)
    BY DEF Me
  <1>f. \A u \in Threads \ {t} : call'[u] = call[u]
    BY StepFrame
  <1>b. call[t].stage # "idle"
    BY StepFrame
  <1>c. call'[t] = Idle \/ (call'[t].op = call[t].op /\ call'[t].h = call[t].h)
    BY StepCall DEF AesInv
  <1>1. Shaped'
    <2> SUFFICES ASSUME NEW u \in Threads, u = t
                 PROVE  /\ call'[t].stage # "idle" /\ call'[t].op # "open" => call'[t].h \in Handles
                        /\ call'[t].op \in {"encrypt_init", "encrypt"} => call'[t].r = "AES"
                        /\ call'[t].op \in {"login", "logout"} => call'[t].r # "AES"
                        /\ call'[t].stage = "reserve" => call'[t].op \in {"encrypt_init", "login"}
                        /\ call'[t].stage = "release" =>
                              call'[t].op \in {"encrypt_init", "encrypt", "login", "logout"}
                        /\ call'[t].stage = "tail" => call'[t].op \in {"encrypt", "login", "logout"}
                        /\ call'[t].stage = "idle" => call'[t].op = "none"
                        /\ call'[t].op = "open" => call'[t].h = "none"
      BY <1>f DEF AesInv, Shaped
    <2>1. CASE call'[t] = Idle
      BY <2>1 DEF Idle
    <2>2. CASE call'[t] # Idle
      BY <2>2, StepCall, <1>b DEF AesInv, Shaped, Reserve, Release, Login, EncryptInit, InBody
    <2> QED BY <2>1, <2>2
  <1>2. Alone'
    <2> SUFFICES ASSUME NEW u \in Threads, NEW v \in Threads, u # v, Me(u) = Me(v),
                        call'[u].stage # "idle", call'[v].stage # "idle", call'[u].h \in Handles
                 PROVE  call'[u].h # call'[v].h
      BY <1>n DEF Alone
    <2>1. \A w \in {u, v} : call'[w].h = call[w].h /\ call[w].stage # "idle"
      BY <1>b, <1>c, <1>f, IdleFacts
    <2> QED BY <2>1 DEF AesInv, Alone
  <1>3. Starting'
    <2> SUFFICES ASSUME NEW u \in Threads, call'[u].op = "encrypt_init"
                 PROVE  /\ call'[u].stage = "body" =>
                              res'["AES"] = [session |-> call'[u].h, owner |-> Me(u)]
                        /\ call'[u].stage \in {"body", "release"} => mech'[Me(u)][call'[u].h] # "aes"
      BY <1>n DEF Starting
    <2>1. CASE u # t
      <3>1. call'[u] = call[u]
        BY <2>1, <1>f
      <3>2. ASSUME call[u].stage = "body", res'["AES"] # res["AES"] PROVE FALSE
        <4>1. res["AES"] = [session |-> call[u].h, owner |-> Me(u)]
          BY <3>1, <3>2 DEF AesInv, Starting
        <4>2. ~Available("AES")
          BY <4>1, <1>m DEF Available
        <4>3. Release(t) /\ Releasable(t, "AES")
          BY <3>2, <4>2, StepRes
        <4>4. Me(u) = Me(t) /\ (call[u].h = call[t].h \/ call[u].h = "none")
          BY <4>1, <4>3, <1>m DEF Releasable
        <4>5. call[u].h \in Handles
          BY <3>1, <3>2 DEF AesInv, Shaped
        <4> QED BY <4>4, <4>5, <2>1, <3>2, <1>b, NamesAssumption, <4>1, <4>3, <1>m
                DEF AesInv, Alone, Releasable
      <3>3. ASSUME call[u].stage \in {"body", "release"}, mech'[Me(u)][call[u].h] = "aes" PROVE FALSE
        <4>1. call[u].h \in Handles
          BY <3>1, <3>3 DEF AesInv, Shaped
        <4>2. mech[Me(u)][call[u].h] # "aes"
          BY <3>1, <3>3 DEF AesInv, Starting
        <4>3. Me(u) = Me(t) /\ call[u].h = call[t].h
          BY <3>3, <4>1, <4>2, <1>m, StepMech
        <4> QED BY <4>1, <4>3, <2>1, <3>3, <1>b DEF AesInv, Alone
      <3> QED BY <3>1, <3>2, <3>3 DEF AesInv, Starting
    <2>2. CASE u = t
      <3>1. call'[t] # Idle /\ call[t].op = "encrypt_init" /\ call'[t].h = call[t].h
        BY <2>2, <1>c, IdleFacts
      <3>2. call[t].h \in Handles
        BY <3>1, <1>b DEF AesInv, Shaped
      <3>3. CASE call'[t].stage = "body"
        <4>1. Reserve(t) /\ call[t].r = "AES" /\ call[t].stage = "reserve"
          BY <3>1, <3>3, StepCall DEF AesInv, Shaped, Reserve, Release
        <4>2. Available("AES") /\ res'["AES"] = [session |-> call[t].h, owner |-> Me(t)]
          <5>1. ~HasAnother("AES")
            BY DEF HasAnother
          <5>2. ~Goto(t, "idle")
            BY <3>1, GotoCall
          <5> QED BY <4>1, <5>1, <5>2 DEF Reserve, TypeOK, Resources
        <4>3. mech[Me(t)][call[t].h] # "aes"
          <5> SUFFICES ASSUME mech[Me(t)][call[t].h] = "aes" PROVE FALSE
            OBVIOUS
          <5>1. res["AES"] # [session |-> call[t].h, owner |-> Me(t)]
            BY <4>2, <1>m DEF Available
          <5>2. PICK v \in Threads : /\ Me(v) = Me(t) /\ call[v].h = call[t].h
                                     /\ call[v].stage = "tail"
            BY <3>2, <5>1, <1>m DEF AesInv, AesReserved
          <5> QED BY <5>2, <3>2, <4>1, <1>b DEF AesInv, Alone
        <4>4. mech' = mech
          BY <4>1 DEF Reserve
        <4> QED BY <2>2, <3>1, <4>2, <4>3, <4>4
      <3>4. CASE call'[t].stage = "release"
        <4>1. call[t].stage \in {"body", "release"}
          BY <3>1, <3>4, StepCall DEF AesInv, Reserve, Release, EncryptInit, Login, Encrypt, InBody
        <4>2. mech[Me(t)][call[t].h] # "aes"
          BY <3>1, <4>1 DEF AesInv, Starting
        <4>3. mech'[Me(t)][call[t].h] # "aes"
          BY <4>2, <3>1, <3>2, <1>m, StepMech
        <4> QED BY <2>2, <3>1, <3>4, <4>3
      <3> QED BY <2>2, <3>3, <3>4
    <2> QED BY <2>1, <2>2
  <1>4. AesReserved'
    <2> SUFFICES ASSUME NEW p \in Processes, NEW h \in Handles, mech'[p][h] = "aes"
                 PROVE  \/ res'["AES"] = [session |-> h, owner |-> p]
                        \/ \E u \in Threads : /\ Me(u) = p /\ call'[u].h = h
                                             /\ call'[u].op = "encrypt" /\ call'[u].stage = "tail"
      BY <1>n DEF AesReserved
    <2>1. CASE EncryptInit(t) /\ p = Me(t) /\ h = call[t].h
      <3>1. res["AES"] = [session |-> h, owner |-> p]
        BY <2>1 DEF EncryptInit, InBody, AesInv, Starting
      <3> QED BY <2>1, <3>1 DEF EncryptInit
    <2>2. CASE mech[p][h] = "aes" /\ ~(Tail(t) /\ call[t].op = "encrypt" /\ p = Me(t) /\ h = call[t].h)
      <3>1. CASE res["AES"] = [session |-> h, owner |-> p]
        <4>1. CASE res'["AES"] = res["AES"]
          BY <3>1, <4>1
        <4>2. CASE res'["AES"] # res["AES"]
          <5>1. ~Available("AES")
            BY <3>1, NamesAssumption DEF Available
          <5>2. Release(t) /\ call[t].r = "AES" /\ h = call[t].h /\ p = Me(t)
            <6>1. Release(t) /\ call[t].r = "AES" /\ Releasable(t, "AES")
              BY <4>2, <5>1, StepRes
            <6>2. res["AES"].session = h /\ res["AES"].owner = p /\ h # "none" /\ p # "none"
              BY <3>1, NamesAssumption
            <6> QED BY <6>1, <6>2 DEF Releasable
          <5>3. call[t].op \in {"encrypt", "encrypt_init"} /\ call[t].stage = "release"
            BY <5>2 DEF Release, AesInv, Shaped
          <5>4. call[t].op = "encrypt"
            BY <5>2, <5>3, <2>2 DEF AesInv, Starting
          <5>5. Goto(t, "tail")
            BY <5>2, <5>4 DEF Release
          <5>6. call'[t].h = h /\ call'[t].op = "encrypt" /\ call'[t].stage = "tail"
            BY <5>2, <5>4, <5>5, GotoCall DEF TypeOK
          <5> QED BY <5>2, <5>6
        <4> QED BY <4>1, <4>2
      <3>2. CASE \E u \in Threads : /\ Me(u) = p /\ call[u].h = h
                                    /\ call[u].op = "encrypt" /\ call[u].stage = "tail"
        <4>1. PICK u \in Threads : /\ Me(u) = p /\ call[u].h = h
                                   /\ call[u].op = "encrypt" /\ call[u].stage = "tail"
          BY <3>2
        <4>2. u # t
          <5> SUFFICES ASSUME u = t PROVE FALSE
            OBVIOUS
          <5>1. ~Tail(t)
            BY <2>2, <4>1
          <5> QED BY <5>1, <4>1, StepCases DEF Reserve, Release, Open, Close, Login, EncryptInit,
                  Encrypt, DigestInit, Digest, Sign, Verify, Create, InBody
        <4> QED BY <4>1, <4>2, <1>f
      <3> QED BY <2>2, <3>1, <3>2 DEF AesInv, AesReserved
    <2> QED BY <2>1, <2>2, StepMech
  <1> QED BY <1>1, <1>2, <1>3, <1>4 DEF AesInv

\* The invariant over the steps of processes and the beginnings of calls.
LEMMA AesOutside ==
    ASSUME Races = {}, TypeOK, LockInv, AesInv,
           \/ \E p \in Processes : MapShared(p) \/ InitShared(p) \/ Finalize(p) \/ Crash(p)
           \/ \E t \in Threads : Enter(t) \/ EnterOpen(t) \/ SignInit(t) \/ Acquire(t)
    PROVE  AesInv'
  <1>m. \A u \in Threads : Me(u) \in Processes /\ Me(u)' = Me(u)
    BY ThreadsAssumption DEF Me
  <1>1. ASSUME NEW p \in Processes, MapShared(p) PROVE AesInv'
    <2>1. UNCHANGED <<res, mech, call>>
      BY <1>1 DEF MapShared
    <2> QED BY <2>1 DEF AesInv, Shaped, Alone, Starting, AesReserved, Me
  <1>2. ASSUME NEW p \in Processes, InitShared(p) PROVE AesInv'
    <2>1. UNCHANGED <<mech, call>>
      BY <1>2 DEF InitShared
    <2>2. shm = "raw"
      BY <1>2, NamesAssumption DEF InitShared, LockInv, Booted
    <2>3. \A q \in Processes : ~up[q]
      BY <2>2 DEF LockInv, Booted
    <2>4. \A t \in Threads : call[t].stage = "idle"
      BY <2>3, <1>m DEF LockInv, Booted
    <2>5. \A q \in Processes, h \in Handles : mech[q][h] = "closed"
      BY <2>3 DEF LockInv, Booted
    <2>6. Shaped' /\ Alone'
      BY <2>1 DEF AesInv, Shaped, Alone, Me
    <2>7. Starting' /\ AesReserved'
      BY <2>1, <2>4, <2>5 DEF Starting, AesReserved
    <2> QED BY <2>6, <2>7 DEF AesInv
  <1>3. ASSUME NEW p \in Processes, Finalize(p) PROVE AesInv'
    <2>1. UNCHANGED <<res, call>> /\ Busy(p) = {}
      BY <1>3 DEF Finalize
    <2>2. \A q \in Processes, h \in Handles : mech'[q][h] = mech[q][h] \/ mech'[q][h] = "closed"
      BY <1>3 DEF Finalize, NoSessions, TypeOK
    <2>3. Shaped' /\ Alone'
      BY <2>1 DEF AesInv, Shaped, Alone, Me
    <2>4. Starting'
      <3>1. \A t \in Threads : call[t].op = "encrypt_init" /\ call[t].stage \in {"body", "release"}
                => mech'[Me(t)][call[t].h] # "aes"
        BY <2>2, <1>m DEF AesInv, Shaped, Starting
      <3> QED BY <3>1, <2>1, <1>m DEF AesInv, Starting
    <2>5. AesReserved'
      BY <2>1, <2>2 DEF AesInv, AesReserved, Me
    <2> QED BY <2>3, <2>4, <2>5 DEF AesInv
  <1>4. ASSUME NEW p \in Processes, Crash(p) PROVE AesInv'
    <2>1. \A t \in Threads : call'[t] = IF Me(t) = p THEN Idle ELSE call[t]
      BY <1>4 DEF Crash, Me
    <2>2. \A q \in Processes, h \in Handles :
             mech'[q][h] = IF q = p THEN "closed" ELSE mech[q][h]
      BY <1>4 DEF Crash, NoSessions, TypeOK
    <2>3. res["AES"].owner # p => res'["AES"] = res["AES"]
      BY <1>4 DEF Crash, TypeOK, Resources
    <2>4. Shaped'
      BY <2>1, IdleFacts DEF AesInv, Shaped
    <2>5. Alone'
      BY <2>1, <1>m, IdleFacts DEF AesInv, Alone
    <2>6. Starting'
      <3> SUFFICES ASSUME NEW t \in Threads, call'[t].op = "encrypt_init",
                          call'[t].stage \in {"body", "release"}
                   PROVE  /\ call'[t].stage = "body" =>
                                res'["AES"] = [session |-> call'[t].h, owner |-> Me(t)]
                          /\ mech'[Me(t)][call'[t].h] # "aes"
        BY <1>m DEF Starting
      <3>1. Me(t) # p /\ call'[t] = call[t]
        BY <2>1, IdleFacts
      <3>2. call[t].h \in Handles
        BY <3>1 DEF AesInv, Shaped
      <3>3. mech'[Me(t)][call[t].h] # "aes"
        BY <3>1, <3>2, <2>2, <1>m DEF AesInv, Starting
      <3>4. call[t].stage = "body" => res["AES"] = [session |-> call[t].h, owner |-> Me(t)]
        BY <3>1 DEF AesInv, Starting
      <3> QED BY <3>1, <3>3, <3>4, <2>3
    <2>7. AesReserved'
      <3> SUFFICES ASSUME NEW q \in Processes, NEW h \in Handles, mech'[q][h] = "aes"
                   PROVE  \/ res'["AES"] = [session |-> h, owner |-> q]
                          \/ \E u \in Threads : /\ Me(u) = q /\ call'[u].h = h
                                               /\ call'[u].op = "encrypt" /\ call'[u].stage = "tail"
        BY <1>m DEF AesReserved
      <3>1. q # p /\ mech[q][h] = "aes"
        BY <2>2
      <3>2. CASE res["AES"] = [session |-> h, owner |-> q]
        BY <3>1, <3>2, <2>3
      <3>3. CASE \E u \in Threads : /\ Me(u) = q /\ call[u].h = h
                                    /\ call[u].op = "encrypt" /\ call[u].stage = "tail"
        BY <3>1, <3>3, <2>1
      <3> QED BY <3>1, <3>2, <3>3 DEF AesInv, AesReserved
    <2> QED BY <2>4, <2>5, <2>6, <2>7 DEF AesInv
  <1>5. ASSUME NEW t \in Threads, Enter(t) PROVE AesInv'
    <2>1. PICK op \in OpsOf[t] \ {"open", "sign_init"}, h \in Sessions(Me(t)) :
             /\ MayEnter(Me(t), op, h)
             /\ \A u \in Busy(Me(t)) : call[u].h # h
             /\ Begin(t, op, h)
      BY <1>5 DEF Enter
    <2>2. op \in {"close", "login", "logout", "encrypt_init", "encrypt", "update", "digest_init",
                  "digest", "sign", "verify", "create"} /\ h \in Handles
      BY <2>1 DEF MayEnter, Sessions
    <2>3. /\ call'[t].op = op /\ call'[t].h = h /\ call'[t].stage = FirstStage(op)
          /\ call'[t].r = IF op \in {"login", "logout"} THEN "AUTH0" ELSE "AES"
          /\ \A u \in Threads \ {t} : call'[u] = call[u]
      BY <2>1 DEF Begin, TypeOK
    <2>4. UNCHANGED <<res, mech>> /\ call[t].stage = "idle"
      BY <1>5 DEF Enter
    <2>5. Shaped'
      BY <2>2, <2>3 DEF AesInv, Shaped, FirstStage
    <2>6. Alone'
      <3> SUFFICES ASSUME NEW u \in Threads, NEW v \in Threads, u # v, Me(u) = Me(v),
                          call'[u].stage # "idle", call'[v].stage # "idle", call'[u].h \in Handles
                   PROVE  call'[u].h # call'[v].h
        BY <1>m DEF Alone
      <3>1. ASSUME NEW w \in Threads \ {t}, Me(w) = Me(t), call'[w].stage # "idle"
            PROVE  call'[w].h # h
        BY <3>1, <2>1, <2>3 DEF Busy, Me
      <3> QED BY <3>1, <2>3 DEF AesInv, Alone
    <2>7. Starting'
      BY <2>3, <2>4, <1>m DEF AesInv, Starting, FirstStage
    <2>8. AesReserved'
      BY <2>3, <2>4, <1>m DEF AesInv, AesReserved, Shaped
    <2> QED BY <2>5, <2>6, <2>7, <2>8 DEF AesInv
  <1>6. ASSUME NEW t \in Threads, EnterOpen(t) PROVE AesInv'
    <2>1. /\ call'[t].op = "open" /\ call'[t].h = "none" /\ call'[t].stage = "body"
          /\ \A u \in Threads \ {t} : call'[u] = call[u]
          /\ UNCHANGED <<res, mech>> /\ call[t].stage = "idle"
      BY <1>6 DEF EnterOpen, Begin, FirstStage, TypeOK
    <2>2. Shaped'
      BY <2>1 DEF AesInv, Shaped
    <2>3. Alone'
      BY <2>1, <1>m, NamesAssumption DEF AesInv, Alone
    <2>4. Starting' /\ AesReserved'
      BY <2>1, <1>m DEF AesInv, Starting, AesReserved
    <2> QED BY <2>2, <2>3, <2>4 DEF AesInv
  <1>7. ASSUME NEW t \in Threads, SignInit(t) PROVE AesInv'
    <2>1. UNCHANGED <<res, call>>
      BY <1>7 DEF SignInit
    <2>2. \A q \in Processes, h \in Handles : mech'[q][h] = "aes" => mech[q][h] = "aes"
      BY <1>7 DEF SignInit, TypeOK
    <2>3. Shaped' /\ Alone'
      BY <2>1 DEF AesInv, Shaped, Alone, Me
    <2>4. Starting'
      <3>1. \A u \in Threads : call[u].op = "encrypt_init" /\ call[u].stage \in {"body", "release"}
                => mech'[Me(u)][call[u].h] # "aes"
        BY <2>2, <1>m DEF AesInv, Shaped, Starting
      <3> QED BY <3>1, <2>1, <1>m DEF AesInv, Starting
    <2>5. AesReserved'
      BY <2>1, <2>2 DEF AesInv, AesReserved, Me
    <2> QED BY <2>3, <2>4, <2>5 DEF AesInv
  <1>8. ASSUME NEW t \in Threads, Acquire(t) PROVE AesInv'
    <2>1. UNCHANGED <<res, mech>>
      BY <1>8 DEF Acquire
    <2>2. \A u \in Threads : /\ call'[u].op = call[u].op /\ call'[u].h = call[u].h
                             /\ call'[u].stage = call[u].stage /\ call'[u].r = call[u].r
      <3>1. \A u \in Threads : call'[u] = call[u] \/ call'[u] = [call[u] EXCEPT !.held = TRUE]
        BY <1>8 DEF Acquire, TypeOK
      <3>2. \A u \in Threads : call[u] \in Calls
        BY DEF TypeOK, Calls
      <3> QED BY <3>1, <3>2 DEF Calls
    <2>3. Shaped'
      BY <2>2 DEF AesInv, Shaped
    <2>4. Alone'
      BY <2>2, <1>m DEF AesInv, Alone
    <2>5. Starting' /\ AesReserved'
      BY <2>1, <2>2, <1>m DEF AesInv, Starting, AesReserved
    <2> QED BY <2>3, <2>4, <2>5 DEF AesInv
  <1> QED BY <1>1, <1>2, <1>3, <1>4, <1>5, <1>6, <1>7, <1>8

\* Taking the mutex changes nothing else of a call.
LEMMA AcquireKeeps ==
    ASSUME TypeOK, NEW t \in Threads, Acquire(t), NEW u \in Threads
    PROVE  /\ call'[u].op = call[u].op /\ call'[u].h = call[u].h
           /\ call'[u].stage = call[u].stage /\ call'[u].r = call[u].r
  <1>1. call'[u] = call[u] \/ call'[u] = [call[u] EXCEPT !.held = TRUE]
    BY DEF Acquire, TypeOK
  <1>2. call[u] \in Calls
    BY DEF TypeOK, Calls
  <1> QED BY <1>1, <1>2 DEF Calls

\* Every step keeps the engine's invariant.
LEMMA AesKept ==
    ASSUME Races = {}, TypeOK, LockInv, AesInv, [Next]_vars
    PROVE  AesInv'
  <1>1. CASE UNCHANGED vars
    BY <1>1 DEF vars, AesInv, Shaped, Alone, Starting, AesReserved, Me
  <1>2. ASSUME NEW t \in Threads, Step(t) PROVE AesInv'
    BY <1>2, AesStep
  <1>3. CASE Next
    BY <1>3, <1>2, AesOutside DEF Next
  <1> QED BY <1>1, <1>3

\* The first states have the engine's invariant.
LEMMA AesInit == Init => AesInv
  BY IdleFacts DEF Init, AesInv, Shaped, Alone, Starting, AesReserved, NoSessions

\* As long as the threads of a process keep to sessions of their own, a session
\* with an active AES operation has the chip's engine reserved, whichever
\* processes die, finalize or race for it.
THEOREM EngineIsReserved ==
    ASSUME Races = {}
    PROVE  Spec => []AesReserved
  <1>1. TypeOK /\ LockInv /\ [Next]_vars => LockInv'
    BY LockStep
  <1>2. TypeOK /\ LockInv /\ AesInv /\ [Next]_vars => AesInv'
    BY AesKept
  <1>3. AesInv => AesReserved
    BY DEF AesInv
  <1> QED BY <1>1, <1>2, <1>3, LockInit, AesInit, TypeCorrect, PTL DEF Spec

-----------------------------------------------------------------------------
(* The mutex *)

\* No thread that the mutex names is past its last unlock.
Kept == \A t \in Threads : lock = t => call[t].stage # "tail"

\* A step of a call gives the mutex up, unless it made its last unlock before
\* or is one of the error returns that forget it.
LEMMA StepLock ==
    ASSUME LockInv, NEW t \in Threads, Step(t)
    PROVE  \/ Tail(t) /\ lock' = lock
           \/ lock' = "none"
           \/ /\ lock' = lock /\ call[t].op \in KeepingOps
              /\ call[t].held /\ Goto(t, "idle")
  <1>1. call[t].held => lock = t
    BY DEF LockInv, Holds
  <1>2. CASE Tail(t)
    BY <1>2 DEF Tail
  <1>3. CASE Open(t) \/ Verify(t) \/ Create(t)
    BY <1>1, <1>3 DEF Open, Verify, Create, InBody, Unlock, KeepingOps
  <1>4. CASE ~Tail(t) /\ ~Open(t) /\ ~Verify(t) /\ ~Create(t)
    <2>1. call[t].held /\ Unlock(t)
      BY <1>4, StepCases DEF Reserve, Release, Close, Login, EncryptInit, Encrypt, DigestInit,
         Digest, Sign, InBody
    <2> QED BY <2>1, <1>1 DEF Unlock
  <1> QED BY <1>2, <1>3, <1>4

\* Only Acquire makes the mutex a thread's, and no step takes the thread that
\* has it past its last unlock.
LEMMA KeptStep ==
    ASSUME TypeOK, LockInv, Kept, [Next]_vars
    PROVE  Kept'
  <1>m. \A t \in Threads : Me(t) \in Processes /\ t \notin {"none", "dead"}
    BY ThreadsAssumption, NamesAssumption DEF Me
  <1>s. SUFFICES ASSUME NEW u \in Threads, lock' = u PROVE call'[u].stage # "tail"
    BY DEF Kept
  <1>1. CASE UNCHANGED vars
    BY <1>1, <1>s DEF vars, Kept
  <1>2. ASSUME NEW p \in Processes, MapShared(p) PROVE call'[u].stage # "tail"
    BY <1>2, <1>s DEF MapShared, Kept
  <1>3. ASSUME NEW p \in Processes, InitShared(p) \/ Finalize(p) PROVE FALSE
    BY <1>3, <1>s, <1>m DEF InitShared, Finalize
  <1>4. ASSUME NEW p \in Processes, Crash(p) PROVE call'[u].stage # "tail"
    <2>1. lock = u
      BY <1>4, <1>s, <1>m DEF Crash
    <2> QED BY <2>1, <1>4, IdleFacts DEF Crash, Kept
  <1>5. ASSUME NEW t \in Threads, Enter(t) \/ EnterOpen(t) PROVE call'[u].stage # "tail"
    <2>1. lock = u
      BY <1>5, <1>s DEF Enter, EnterOpen
    <2>2. CASE u # t
      BY <2>1, <2>2, <1>5 DEF Enter, EnterOpen, Begin, TypeOK, Kept
    <2>3. CASE u = t
      BY <2>3, <1>5 DEF Enter, EnterOpen, Begin, FirstStage, TypeOK
    <2> QED BY <2>2, <2>3
  <1>6. ASSUME NEW t \in Threads, SignInit(t) PROVE call'[u].stage # "tail"
    BY <1>6, <1>s DEF SignInit, Kept
  <1>7. ASSUME NEW t \in Threads, Acquire(t) PROVE call'[u].stage # "tail"
    <2>1. u = t
      BY <1>7, <1>s DEF Acquire
    <2> QED BY <1>7, <2>1 DEF Acquire, TypeOK
  <1>8. ASSUME NEW t \in Threads, Step(t) PROVE call'[u].stage # "tail"
    <2>1. CASE Tail(t) /\ lock' = lock
      <3>1. u # t
        BY <2>1, <1>s DEF Tail, Kept
      <3> QED BY <1>8, <2>1, <1>s, <3>1, StepFrame DEF Kept
    <2>2. CASE lock' = lock /\ call[t].held /\ Goto(t, "idle")
      <3>1. u = t
        BY <2>2, <1>s DEF LockInv, Holds
      <3> QED BY <2>2, <3>1, GotoCall, IdleFacts
    <2> QED BY <1>8, <2>1, <2>2, StepLock, <1>s, <1>m
  <1> QED BY <1>1, <1>2, <1>3, <1>4, <1>5, <1>6, <1>7, <1>8, <1>s DEF Next

\* One step of the system leaves a thread with the mutex at the end of a call
\* only if the call is one of those that forget it.
LEMMA LockComesBackStep ==
    ASSUME TypeOK, LockInv, Kept, [Next]_vars, NEW u \in Threads,
           lock' = u, call'[u].stage = "idle", ~(lock = u /\ call[u].stage = "idle")
    PROVE  call[u].op \in KeepingOps
  <1>m. \A t \in Threads : Me(t) \in Processes /\ t \notin {"none", "dead"}
    BY ThreadsAssumption, NamesAssumption DEF Me
  <1>1. CASE UNCHANGED vars
    BY <1>1 DEF vars
  <1>2. ASSUME NEW p \in Processes, MapShared(p) PROVE FALSE
    BY <1>2 DEF MapShared
  <1>3. ASSUME NEW p \in Processes, InitShared(p) \/ Finalize(p) PROVE FALSE
    BY <1>3, <1>m DEF InitShared, Finalize
  <1>4. ASSUME NEW p \in Processes, Crash(p) PROVE FALSE
    <2>1. lock = u /\ ProcessOf[u] # p
      BY <1>4, <1>m DEF Crash
    <2> QED BY <1>4, <2>1 DEF Crash
  <1>5. ASSUME NEW t \in Threads, Enter(t) \/ EnterOpen(t) PROVE FALSE
    <2>1. lock = u
      BY <1>5 DEF Enter, EnterOpen
    <2>2. CASE u # t
      BY <2>1, <2>2, <1>5 DEF Enter, EnterOpen, Begin, TypeOK
    <2>3. CASE u = t
      BY <2>3, <1>5 DEF Enter, EnterOpen, Begin, FirstStage, TypeOK
    <2> QED BY <2>2, <2>3
  <1>6. ASSUME NEW t \in Threads, SignInit(t) PROVE FALSE
    BY <1>6 DEF SignInit
  <1>7. ASSUME NEW t \in Threads, Acquire(t) PROVE FALSE
    <2>1. u = t
      BY <1>7 DEF Acquire
    <2> QED BY <1>7, <2>1 DEF Acquire, TypeOK
  <1>8. ASSUME NEW t \in Threads, Step(t) PROVE call[u].op \in KeepingOps
    <2>1. lock' = lock /\ lock = u
      BY <1>8, StepLock, <1>m
    <2>2. CASE Tail(t)
      <3>1. u # t
        BY <2>1, <2>2 DEF Tail, Kept
      <3> QED BY <1>8, <2>1, <3>1, StepFrame
    <2>3. CASE call[t].op \in KeepingOps /\ call[t].held
      <3>1. u = t
        BY <2>1, <2>3 DEF LockInv, Holds
      <3> QED BY <2>3, <3>1
    <2> QED BY <1>8, <2>1, <2>2, <2>3, StepLock, <1>m
  <1> QED BY <1>1, <1>2, <1>3, <1>4, <1>5, <1>6, <1>7, <1>8 DEF Next

\* However calls, deaths and recoveries interleave, the mutex comes back from
\* every call but an opening that gets no context and, on a TA100, a refused
\* verification or creation.
THEOREM OnlyErrorsKeepTheLock ==
    ASSUME "creation" \notin Races
    PROVE  Spec => LockComesBack
  <1>1. Init => Kept
    BY NamesAssumption DEF Init, Kept
  <1>2. TypeOK /\ LockInv /\ Kept /\ [Next]_vars => Kept'
    BY KeptStep
  <1>3. TypeOK /\ LockInv /\ [Next]_vars => LockInv'
    BY LockStep
  <1>4. TypeOK /\ LockInv /\ Kept /\ [Next]_vars =>
          [\A t \in Threads :
              /\ lock' = t /\ call'[t].stage = "idle"
              /\ ~(lock = t /\ call[t].stage = "idle")
              => call[t].op \in KeepingOps]_vars
    BY LockComesBackStep
  <1> QED BY <1>1, <1>2, <1>3, <1>4, LockInit, TypeCorrect, PTL DEF Spec, LockComesBack

-----------------------------------------------------------------------------
(* What the engine is reserved for *)

\* Whoever owns the engine uses it, will give it back, or abandoned it.
Accounted ==
    \A p \in Processes :
        res["AES"].owner = p =>
            /\ res["AES"].session \in Handles
            /\ \/ lost
               \/ mech[p][res["AES"].session] = "aes"
               \/ \E t \in Threads : /\ Me(t) = p /\ call[t].h = res["AES"].session
                                     /\ call[t].op \in {"encrypt_init", "encrypt"}
                                     /\ call[t].stage \in {"body", "release"}

\* A digest call finds the mechanism it was let in with, and a call that has
\* released the engine does not own it.
Settled ==
    \A t \in Threads :
        /\ call[t].op = "digest_init" => mech[Me(t)][call[t].h] = "none"
        /\ call[t].op = "digest" => mech[Me(t)][call[t].h] = "digest"
        /\ call[t].op = "encrypt" /\ call[t].stage = "tail" =>
              res["AES"] # [session |-> call[t].h, owner |-> Me(t)]

LeakInv == Accounted /\ Settled

\* A step of a thread changes the mechanism of its own call's session, or opens
\* a session.
LEMMA StepTouches ==
    ASSUME TypeOK, NEW t \in Threads, Step(t), NEW p \in Processes, NEW h \in Handles,
           mech'[p][h] # mech[p][h]
    PROVE  \/ Open(t) /\ mech[p][h] = "closed"
           \/ /\ p = Me(t) /\ h = call[t].h
              /\ \/ (Close(t) \/ Sign(t) \/ Verify(t)) /\ Abandons(t)
                 \/ DigestInit(t) \/ Digest(t)
                 \/ EncryptInit(t) /\ mech'[p][h] = "aes"
                 \/ Tail(t) /\ call[t].op = "encrypt"
  <1>0. mech' # mech
    OBVIOUS
  <1>1. ASSUME NEW m, SetMech(t, m) PROVE p = Me(t) /\ h = call[t].h /\ mech'[p][h] = m
    BY <1>1 DEF SetMech, TypeOK
  <1>2. CASE Open(t)
    <2>1. PICK g \in Handles \ Sessions(Me(t)) : mech' = [mech EXCEPT ![Me(t)][g] = "none"]
      BY <1>0, <1>2 DEF Open
    <2>2. p = Me(t) /\ h = g
      BY <2>1 DEF TypeOK
    <2> QED BY <1>2, <2>1, <2>2 DEF Sessions
  <1>3. CASE Close(t) BY <1>3, <1>1 DEF Close
  <1>4. CASE DigestInit(t) BY <1>0, <1>1, <1>4 DEF DigestInit
  <1>5. CASE Digest(t) BY <1>1, <1>5 DEF Digest
  <1>6. CASE Sign(t) BY <1>0, <1>1, <1>6 DEF Sign
  <1>7. CASE Verify(t) BY <1>0, <1>1, <1>7 DEF Verify
  <1>8. CASE EncryptInit(t) BY <1>0, <1>1, <1>8 DEF EncryptInit
  <1>9. CASE Tail(t) BY <1>0, <1>1, <1>9 DEF Tail
  <1>10. CASE Reserve(t) \/ Release(t) \/ Login(t) \/ Encrypt(t) \/ Create(t)
    BY <1>0, <1>10 DEF Reserve, Release, Login, Encrypt, Create
  <1> QED BY <1>2, <1>3, <1>4, <1>5, <1>6, <1>7, <1>8, <1>9, <1>10, StepCases

\* Once lost, the engine stays so until somebody reserves or releases it.
LEMMA StepLost ==
    ASSUME TypeOK, NEW t \in Threads, Step(t), lost, ~lost'
    PROVE  \/ Reserve(t) /\ call[t].r = "AES" /\ Available("AES")
           \/ Release(t) /\ call[t].r = "AES" /\ Releasable(t, "AES")
  BY StepCases DEF Reserve, Release, Open, Close, Login, EncryptInit, Encrypt, DigestInit, Digest,
     Sign, Verify, Create, Tail, Abandons

\* The engine is accounted for after a step inside a call.
LEMMA AccountedStep ==
    ASSUME TypeOK, AesInv, LeakInv, NEW t \in Threads, Step(t)
    PROVE  Accounted'
  <1>m. \A u \in Threads : Me(u) \in Processes /\ Me(u) \notin {"none", "dead"} /\ Me(u)' = Me(u)
    BY ThreadsAssumption, NamesAssumption DEF Me
  <1>f. \A u \in Threads \ {t} : call'[u] = call[u]
    BY StepFrame
  <1>0. SUFFICES ASSUME NEW p \in Processes, res'["AES"].owner = p
                 PROVE  /\ res'["AES"].session \in Handles
                        /\ \/ lost'
                           \/ mech'[p][res'["AES"].session] = "aes"
                           \/ \E u \in Threads : /\ Me(u) = p /\ call'[u].h = res'["AES"].session
                                                 /\ call'[u].op \in {"encrypt_init", "encrypt"}
                                                 /\ call'[u].stage \in {"body", "release"}
    BY <1>m DEF Accounted
  <1>1. CASE res'["AES"] # res["AES"]
    <2>1. p \notin {"none", "dead"}
      BY NamesAssumption
    <2>3. /\ Reserve(t) /\ call[t].r = "AES" /\ Available("AES")
          /\ res'["AES"] = [session |-> call[t].h, owner |-> Me(t)]
      <3>1. ASSUME Release(t) PROVE FALSE
        BY <3>1, <1>0, <1>1, <2>1 DEF Release, Free, TypeOK, Resources
      <3> QED BY <3>1, <1>1, StepRes
    <2>4. call[t].op = "encrypt_init" /\ call[t].h \in Handles
      BY <2>3 DEF Reserve, AesInv, Shaped
    <2>5. call'[t].op = "encrypt_init" /\ call'[t].h = call[t].h /\ call'[t].stage = "body"
      BY <2>3, <2>4, GotoCall DEF Reserve
    <2> QED BY <2>3, <2>4, <2>5, <1>0
  <1>2. CASE res'["AES"] = res["AES"]
    <2> DEFINE h == res["AES"].session
    <2>0. p \notin {"none", "dead"} /\ res["AES"].owner = p
      BY <1>0, <1>2, NamesAssumption
    <2>1. h \in Handles
      BY <2>0 DEF LeakInv, Accounted
    <2>2. res["AES"] = [session |-> h, owner |-> p]
      BY <2>0 DEF TypeOK, Resources
    <2>3. ~(Release(t) /\ call[t].r = "AES" /\ Releasable(t, "AES"))
      BY <1>2, <2>0 DEF Release, Free, TypeOK, Resources
    <2>4. lost => lost'
      BY <2>0, <2>3, StepLost DEF Available
    <2>5. CASE mech[p][h] = "aes"
      <3>1. CASE mech'[p][h] = mech[p][h]
        BY <3>1, <2>5, <2>1, <1>2
      <3>2. CASE mech'[p][h] # mech[p][h]
        <4>1. p = Me(t) /\ h = call[t].h
          BY <2>1, <2>5, <3>2, StepTouches
        <4>2. ~DigestInit(t) /\ ~Digest(t)
          BY <2>5, <4>1 DEF DigestInit, Digest, InBody, LeakInv, Settled
        <4>3. ~(Tail(t) /\ call[t].op = "encrypt")
          BY <2>2, <4>1 DEF Tail, LeakInv, Settled
        <4>4. CASE mech'[p][h] = "aes"
          BY <4>4, <2>1, <1>2
        <4>5. CASE Abandons(t)
          <5>1. lost'
            BY <4>1, <4>5, <2>5 DEF Abandons
          <5> QED BY <5>1, <2>1, <1>2
        <4> QED BY <2>1, <2>5, <3>2, <4>2, <4>3, <4>4, <4>5, StepTouches
      <3> QED BY <3>1, <3>2
    <2>6. ASSUME NEW u \in Threads, Me(u) = p, call[u].h = h,
                 call[u].op \in {"encrypt_init", "encrypt"}, call[u].stage \in {"body", "release"}
          PROVE  \/ mech'[p][h] = "aes"
                 \/ \E v \in Threads : /\ Me(v) = p /\ call'[v].h = h
                                       /\ call'[v].op \in {"encrypt_init", "encrypt"}
                                       /\ call'[v].stage \in {"body", "release"}
      <3>1. CASE u # t
        BY <3>1, <2>6, <1>f
      <3>2. CASE u = t
        <4>1. call[t].r = "AES"
          BY <2>6, <3>2 DEF AesInv, Shaped
        <4>2. Releasable(t, "AES")
          BY <2>0, <2>6, <3>2 DEF Releasable
        <4>3. ~Release(t)
          BY <2>3, <4>1, <4>2
        <4>4. CASE EncryptInit(t)
          <5>1. CASE Goto(t, "release")
            BY <5>1, <2>6, <3>2, GotoCall
          <5>2. CASE mech[Me(t)][call[t].h] = "none" /\ SetMech(t, "aes")
            <6>1. mech'[p][h] = "aes"
              BY <5>2, <2>1, <2>6, <3>2, <1>m DEF SetMech, TypeOK
            <6> QED BY <6>1
          <5> QED BY <4>4, <5>1, <5>2 DEF EncryptInit
        <4>5. CASE Encrypt(t)
          <5>1. Goto(t, "release")
            BY <4>5, <2>6, <3>2 DEF Encrypt, InBody
          <5> QED BY <5>1, <2>6, <3>2, GotoCall
        <4> QED BY <2>6, <3>2, <4>3, <4>4, <4>5, StepCases DEF Reserve, Open, Close, Login,
                DigestInit, Digest, Sign, Verify, Create, Tail, InBody
      <3> QED BY <3>1, <3>2
    <2>7. \/ lost \/ mech[p][h] = "aes"
          \/ \E u \in Threads : /\ Me(u) = p /\ call[u].h = h
                                /\ call[u].op \in {"encrypt_init", "encrypt"}
                                /\ call[u].stage \in {"body", "release"}
      BY <2>0 DEF LeakInv, Accounted
    <2> QED BY <2>1, <2>4, <2>5, <2>6, <2>7, <1>2
  <1> QED BY <1>1, <1>2

\* Digests and released calls stay as they are over a step inside a call.
LEMMA SettledStep ==
    ASSUME TypeOK, AesInv, LeakInv, NEW t \in Threads, Step(t)
    PROVE  Settled'
  <1>m. \A u \in Threads : Me(u) \in Processes /\ Me(u) \notin {"none", "dead"} /\ Me(u)' = Me(u)
    BY ThreadsAssumption, NamesAssumption DEF Me
  <1>f. \A u \in Threads \ {t} : call'[u] = call[u]
    BY StepFrame
  <1>b. call[t].stage # "idle"
    BY StepFrame
  <1>1. ASSUME NEW u \in Threads \ {t}
        PROVE  /\ call'[u].op = "digest_init" => mech'[Me(u)][call'[u].h] = "none"
               /\ call'[u].op = "digest" => mech'[Me(u)][call'[u].h] = "digest"
               /\ call'[u].op = "encrypt" /\ call'[u].stage = "tail" =>
                     res'["AES"] # [session |-> call'[u].h, owner |-> Me(u)]
    <2>1. call'[u] = call[u]
      BY <1>f
    <2>2. call[u].op \in {"digest_init", "digest", "encrypt"} =>
             call[u].stage # "idle" /\ call[u].h \in Handles
      BY DEF AesInv, Shaped
    <2>3. call[u].op \in {"digest_init", "digest", "encrypt"} /\ Me(u) = Me(t) => call[u].h # call[t].h
      BY <2>2, <1>b DEF AesInv, Alone
    <2>4. ASSUME call[u].op \in {"digest_init", "digest"}
          PROVE  mech'[Me(u)][call[u].h] = mech[Me(u)][call[u].h]
      <3>1. mech[Me(u)][call[u].h] # "closed"
        BY <2>4 DEF LeakInv, Settled
      <3> QED BY <2>2, <2>3, <2>4, <3>1, <1>m, StepTouches
    <2>5. ASSUME call[u].op = "encrypt", call[u].stage = "tail",
                 res'["AES"] = [session |-> call[u].h, owner |-> Me(u)]
          PROVE  FALSE
      <3>1. res'["AES"] # res["AES"]
        BY <2>5 DEF LeakInv, Settled
      <3>2. CASE Release(t)
        BY <3>1, <3>2, <2>5, <1>m DEF Release, Free, TypeOK, Resources
      <3>3. CASE Reserve(t) /\ res'["AES"] = [session |-> call[t].h, owner |-> Me(t)]
        BY <3>3, <2>5, <2>3
      <3> QED BY <3>1, <3>2, <3>3, StepRes
    <2> QED BY <2>1, <2>4, <2>5 DEF LeakInv, Settled
  <1>2. /\ call'[t].op = "digest_init" => mech'[Me(t)][call'[t].h] = "none"
        /\ call'[t].op = "digest" => mech'[Me(t)][call'[t].h] = "digest"
        /\ call'[t].op = "encrypt" /\ call'[t].stage = "tail" =>
              res'["AES"] # [session |-> call'[t].h, owner |-> Me(t)]
    <2>1. call'[t].op \notin {"digest_init", "digest"}
      BY StepCall, IdleFacts DEF AesInv, Shaped, Reserve, Release, Login, Encrypt, EncryptInit, InBody
    <2>2. ASSUME call'[t].op = "encrypt", call'[t].stage = "tail"
          PROVE  res'["AES"] # [session |-> call'[t].h, owner |-> Me(t)]
      <3>1. Release(t) /\ call[t].op = "encrypt" /\ call'[t].h = call[t].h
        BY <2>2, StepCall, IdleFacts DEF AesInv, Login, Reserve, InBody, Release
      <3>2. call[t].r = "AES"
        BY <3>1 DEF AesInv, Shaped
      <3>3. CASE Releasable(t, "AES")
        BY <3>1, <3>2, <3>3, <1>m DEF Release, Free, TypeOK, Resources
      <3>4. CASE ~Releasable(t, "AES")
        BY <3>1, <3>2, <3>4 DEF Release, Releasable
      <3> QED BY <3>3, <3>4
    <2> QED BY <2>1, <2>2
  <1> QED BY <1>1, <1>2, <1>m DEF Settled

\* The same over the steps of processes and the beginnings of calls.
LEMMA LeakOutside ==
    ASSUME Races = {}, TypeOK, LockInv, AesInv, LeakInv,
           \/ \E p \in Processes : MapShared(p) \/ InitShared(p) \/ Finalize(p) \/ Crash(p)
           \/ \E t \in Threads : Enter(t) \/ EnterOpen(t) \/ SignInit(t) \/ Acquire(t)
    PROVE  LeakInv'
  <1>m. \A u \in Threads : Me(u) \in Processes /\ Me(u)' = Me(u)
    BY ThreadsAssumption DEF Me
  <1>1. ASSUME NEW p \in Processes, MapShared(p) PROVE LeakInv'
    <2>1. UNCHANGED <<res, mech, call, lost>>
      BY <1>1 DEF MapShared
    <2> QED BY <2>1, <1>m DEF LeakInv, Accounted, Settled
  <1>2. ASSUME NEW p \in Processes, InitShared(p) PROVE LeakInv'
    <2>1. UNCHANGED call /\ res'["AES"] = Free
      BY <1>2 DEF InitShared, Resources
    <2>2. shm = "raw"
      BY <1>2, NamesAssumption DEF InitShared, LockInv, Booted
    <2>3. \A t \in Threads : call[t].stage = "idle"
      BY <2>2, <1>m DEF LockInv, Booted
    <2>4. \A t \in Threads : call[t].op = "none"
      BY <2>3 DEF AesInv, Shaped
    <2>5. Accounted'
      BY <2>1, NamesAssumption DEF Accounted, Free
    <2> QED BY <2>1, <2>4, <2>5 DEF LeakInv, Settled
  <1>3. ASSUME NEW p \in Processes, Finalize(p) PROVE LeakInv'
    <2>1. UNCHANGED <<res, call>> /\ \A t \in Threads : Me(t) = p => call[t].stage = "idle"
      BY <1>3 DEF Finalize, Busy, Me
    <2>2. \A q \in Processes : q # p => mech'[q] = mech[q]
      BY <1>3 DEF Finalize, TypeOK
    <2>3. /\ lost => lost'
          /\ \A h \in Handles : mech[p][h] = "aes" => lost'
      BY <1>3 DEF Finalize
    <2>4. Accounted'
      <3> SUFFICES ASSUME NEW q \in Processes, res["AES"].owner = q
                   PROVE  /\ res["AES"].session \in Handles
                          /\ \/ lost'
                             \/ mech'[q][res["AES"].session] = "aes"
                             \/ \E t \in Threads : /\ Me(t) = q /\ call[t].h = res["AES"].session
                                                   /\ call[t].op \in {"encrypt_init", "encrypt"}
                                                   /\ call[t].stage \in {"body", "release"}
        BY <2>1, <1>m DEF Accounted
      <3> QED BY <2>2, <2>3 DEF LeakInv, Accounted
    <2>5. Settled'
      <3>1. \A t \in Threads : Me(t) = p => call[t].op = "none"
        BY <2>1 DEF AesInv, Shaped
      <3> QED BY <3>1, <2>1, <2>2, <1>m DEF LeakInv, Settled
    <2> QED BY <2>4, <2>5 DEF LeakInv
  <1>4. ASSUME NEW p \in Processes, Crash(p) PROVE LeakInv'
    <2>1. \A t \in Threads : call'[t] = IF Me(t) = p THEN Idle ELSE call[t]
      BY <1>4 DEF Crash, Me
    <2>2. \A q \in Processes : q # p => mech'[q] = mech[q]
      BY <1>4 DEF Crash, TypeOK
    <2>3. lost' = lost /\ p # "dead"
      BY <1>4, NamesAssumption DEF Crash
    <2>4. \A q \in Processes : res'["AES"].owner = q => q # p /\ res'["AES"] = res["AES"]
      <3>1. res'["AES"] = IF res["AES"].owner = p THEN [res["AES"] EXCEPT !.owner = "dead"]
                          ELSE res["AES"]
        BY <1>4 DEF Crash, Resources
      <3>2. res["AES"] \in [session : Handles \cup {"none"}, owner : Processes \cup {"none", "dead"}]
        BY DEF TypeOK, Resources
      <3> QED BY <3>1, <3>2, NamesAssumption
    <2>5. Accounted'
      <3> SUFFICES ASSUME NEW q \in Processes, res'["AES"].owner = q
                   PROVE  /\ res'["AES"].session \in Handles
                          /\ \/ lost'
                             \/ mech'[q][res'["AES"].session] = "aes"
                             \/ \E t \in Threads : /\ Me(t) = q /\ call'[t].h = res'["AES"].session
                                                   /\ call'[t].op \in {"encrypt_init", "encrypt"}
                                                   /\ call'[t].stage \in {"body", "release"}
        BY <1>m DEF Accounted
      <3>1. q # p /\ res["AES"].owner = q /\ res'["AES"] = res["AES"] /\ mech'[q] = mech[q]
        BY <2>2, <2>4
      <3>2. \A t \in Threads : Me(t) = q => call'[t] = call[t]
        BY <3>1, <2>1
      <3> QED BY <3>1, <3>2, <2>3 DEF LeakInv, Accounted
    <2>6. Settled'
      <3> SUFFICES ASSUME NEW t \in Threads, call'[t].op \in {"digest_init", "digest", "encrypt"}
                   PROVE  /\ call'[t].op = "digest_init" => mech'[Me(t)][call'[t].h] = "none"
                          /\ call'[t].op = "digest" => mech'[Me(t)][call'[t].h] = "digest"
                          /\ call'[t].op = "encrypt" /\ call'[t].stage = "tail" =>
                                res'["AES"] # [session |-> call'[t].h, owner |-> Me(t)]
        BY <1>m DEF Settled
      <3>1. Me(t) # p /\ call'[t] = call[t] /\ mech'[Me(t)] = mech[Me(t)]
        BY <2>1, <2>2, <1>m, IdleFacts
      <3>2. res'["AES"].owner = Me(t) => res'["AES"] = res["AES"]
        BY <2>4, <1>m
      <3> QED BY <3>1, <3>2 DEF LeakInv, Settled
    <2> QED BY <2>5, <2>6 DEF LeakInv
  <1>5. ASSUME NEW t \in Threads, Enter(t) PROVE LeakInv'
    <2>1. PICK op \in OpsOf[t] \ {"open", "sign_init"}, h \in Sessions(Me(t)) :
             MayEnter(Me(t), op, h) /\ Begin(t, op, h)
      BY <1>5 DEF Enter
    <2>2. UNCHANGED <<res, mech, lost>> /\ call[t].stage = "idle"
      BY <1>5 DEF Enter
    <2>3. /\ call'[t].op = op /\ call'[t].h = h /\ call'[t].stage # "tail"
          /\ \A u \in Threads \ {t} : call'[u] = call[u]
      BY <2>1 DEF Begin, FirstStage, TypeOK
    <2>4. /\ op = "digest_init" => mech[Me(t)][h] = "none"
          /\ op = "digest" => mech[Me(t)][h] = "digest"
      BY <2>1 DEF MayEnter
    <2>5. Settled'
      BY <2>2, <2>3, <2>4, <1>m DEF LeakInv, Settled
    <2>6. Accounted'
      BY <2>2, <2>3, <1>m DEF LeakInv, Accounted
    <2> QED BY <2>5, <2>6 DEF LeakInv
  <1>6. ASSUME NEW t \in Threads, EnterOpen(t) PROVE LeakInv'
    <2>1. /\ call'[t].op = "open" /\ call[t].stage = "idle"
          /\ \A u \in Threads \ {t} : call'[u] = call[u]
          /\ UNCHANGED <<res, mech, lost>>
      BY <1>6 DEF EnterOpen, Begin, TypeOK
    <2>2. Settled'
      BY <2>1, <1>m DEF LeakInv, Settled
    <2>3. Accounted'
      BY <2>1, <1>m DEF LeakInv, Accounted
    <2> QED BY <2>2, <2>3 DEF LeakInv
  <1>7. ASSUME NEW t \in Threads, SignInit(t) PROVE LeakInv'
    <2>1. UNCHANGED <<res, call, lost>>
      BY <1>7 DEF SignInit
    <2>2. PICK h \in Sessions(Me(t)) : /\ mech[Me(t)][h] = "none"
                                       /\ \A u \in Busy(Me(t)) : call[u].h # h
                                       /\ mech' = [mech EXCEPT ![Me(t)][h] = "sign"]
      BY <1>7 DEF SignInit
    <2>3. \A q \in Processes, g \in Handles : mech[q][g] = "aes" => mech'[q][g] = "aes"
      BY <2>2 DEF TypeOK
    <2>4. \A u \in Threads : call[u].op \in {"digest_init", "digest"} =>
             mech'[Me(u)][call[u].h] = mech[Me(u)][call[u].h]
      <3> SUFFICES ASSUME NEW u \in Threads, call[u].op \in {"digest_init", "digest"}
                   PROVE  mech'[Me(u)][call[u].h] = mech[Me(u)][call[u].h]
        OBVIOUS
      <3>1. call[u].stage # "idle" /\ call[u].h \in Handles
        BY DEF AesInv, Shaped
      <3>2. Me(u) = Me(t) => call[u].h # h
        BY <3>1, <2>2 DEF Busy, Me
      <3> QED BY <3>1, <3>2, <2>2, <1>m DEF TypeOK, Sessions
    <2>5. Settled'
      BY <2>1, <2>4, <1>m DEF LeakInv, Settled
    <2>6. Accounted'
      BY <2>1, <2>3, <1>m DEF LeakInv, Accounted
    <2> QED BY <2>5, <2>6 DEF LeakInv
  <1>8. ASSUME NEW t \in Threads, Acquire(t) PROVE LeakInv'
    <2>1. UNCHANGED <<res, mech, lost>>
      BY <1>8 DEF Acquire
    <2>2. \A u \in Threads : /\ call'[u].op = call[u].op /\ call'[u].h = call[u].h
                             /\ call'[u].stage = call[u].stage
      BY <1>8, AcquireKeeps
    <2>3. Settled'
      BY <2>1, <2>2, <1>m DEF LeakInv, Settled
    <2>4. Accounted'
      BY <2>1, <2>2, <1>m DEF LeakInv, Accounted
    <2> QED BY <2>3, <2>4 DEF LeakInv
  <1> QED BY <1>1, <1>2, <1>3, <1>4, <1>5, <1>6, <1>7, <1>8

\* As long as the threads of a process keep to sessions of their own, the chip's
\* AES engine is lost to a living process only by closing a session, finalizing,
\* signing or verifying while its AES operation is active.
THEOREM OnlyLeaks ==
    ASSUME Races = {}
    PROVE  Spec => []TheOnlyLeaks
  <1>1. TypeOK /\ LockInv /\ [Next]_vars => LockInv'
    BY LockStep
  <1>2. TypeOK /\ LockInv /\ AesInv /\ [Next]_vars => AesInv'
    BY AesKept
  <1>3. TypeOK /\ LockInv /\ AesInv /\ LeakInv /\ [Next]_vars => LeakInv'
    <2> SUFFICES ASSUME TypeOK, LockInv, AesInv, LeakInv, [Next]_vars PROVE LeakInv'
      OBVIOUS
    <2>1. CASE UNCHANGED vars
      <3>1. UNCHANGED <<res, mech, call, lost>> /\ \A t \in Threads : Me(t)' = Me(t)
        BY <2>1 DEF vars, Me
      <3> QED BY <3>1 DEF LeakInv, Accounted, Settled
    <2>2. ASSUME NEW t \in Threads, Step(t) PROVE LeakInv'
      BY <2>2, AccountedStep, SettledStep DEF LeakInv
    <2>3. CASE Next
      BY <2>3, <2>2, LeakOutside DEF Next
    <2> QED BY <2>1, <2>3
  <1>4. Init => LeakInv
    <2> SUFFICES ASSUME Init PROVE LeakInv
      OBVIOUS
    <2>1. res["AES"].owner = "none" /\ \A t \in Threads : call[t].op = "none"
      BY IdleFacts DEF Init, Free, Resources
    <2> QED BY <2>1, NamesAssumption DEF LeakInv, Accounted, Settled
  <1>5. LeakInv => TheOnlyLeaks
    BY DEF LeakInv, Accounted, TheOnlyLeaks, Busy, Me
  <1> QED BY <1>1, <1>2, <1>3, <1>4, <1>5, LockInit, AesInit, TypeCorrect, PTL DEF Spec

-----------------------------------------------------------------------------
(* The authorisation slots *)

Auths == {"AUTH0", "AUTH1"}

\* A login has its slot from its reservation to its end.
LoginOwns ==
    \A t \in Threads :
        call[t].op = "login" /\ call[t].stage \in {"body", "release", "tail"} =>
            res[call[t].r] = [session |-> call[t].h, owner |-> Me(t)]

\* A login of process p that may still fail holds slot r.
Pending(p, r) ==
    \E t \in Threads : /\ Me(t) = p /\ call[t].op = "login" /\ call[t].r = r
                       /\ call[t].stage \in {"body", "release"}

\* A logged-in token has a slot that no failing login will give back.
Authorised ==
    \A p \in Processes :
        logged_in[p] =>
            /\ up[p]
            /\ \/ \E r \in Auths : res[r].owner = p /\ ~Pending(p, r)
               \/ \E t \in Threads : /\ Me(t) = p /\ call[t].op = "logout"
                                     /\ call[t].stage # "idle"

AuthInv == LoginOwns /\ Authorised

\* A login keeps its slot over a step inside a call.
LEMMA OwnsStep ==
    ASSUME TypeOK, AesInv, AuthInv, NEW t \in Threads, Step(t)
    PROVE  LoginOwns'
  <1>m. \A u \in Threads : Me(u) \in Processes /\ Me(u) \notin {"none", "dead"} /\ Me(u)' = Me(u)
    BY ThreadsAssumption, NamesAssumption DEF Me
  <1>b. call[t].stage # "idle"
    BY StepFrame
  <1> SUFFICES ASSUME NEW u \in Threads, call'[u].op = "login",
                      call'[u].stage \in {"body", "release", "tail"}
               PROVE  res'[call'[u].r] = [session |-> call'[u].h, owner |-> Me(u)]
    BY <1>m DEF LoginOwns
  <1>1. CASE u # t
    <2>1. call'[u] = call[u]
      BY <1>1, StepFrame
    <2> DEFINE r == call[u].r
    <2>2. /\ r \in Resources /\ res[r] = [session |-> call[u].h, owner |-> Me(u)]
          /\ call[u].h \in Handles
      BY <2>1 DEF TypeOK, AuthInv, LoginOwns, AesInv, Shaped
    <2>3. ASSUME res'[r] # res[r] PROVE FALSE
      <3>1. ~Available(r)
        BY <2>2, <1>m DEF Available
      <3>2. Releasable(t, r)
        BY <2>2, <2>3, <3>1, StepResource
      <3>3. Me(u) = Me(t) /\ call[u].h = call[t].h
        BY <2>2, <3>2, <1>m, NamesAssumption DEF Releasable
      <3> QED BY <3>3, <1>1, <1>b, <2>1, <2>2 DEF AesInv, Alone
    <2> QED BY <2>1, <2>2, <2>3
  <1>2. CASE u = t
    <2>1. call[t].op = "login" /\ call'[t].h = call[t].h
      BY <1>2, StepCall, IdleFacts DEF AesInv
    <2>2. CASE Reserve(t)
      <3>1. CASE Available(call[t].r) /\ Goto(t, "body")
        <4>1. call'[t].r = call[t].r
          BY <3>1, GotoCall
        <4> QED BY <1>2, <2>1, <2>2, <3>1, <4>1 DEF Reserve, TypeOK
      <3>2. CASE HasAnother(call[t].r)
                 /\ call' = [call EXCEPT ![t].r = Another(call[t].r), ![t].held = FALSE]
        <4>1. call'[t].stage = "reserve"
          BY <2>2, <3>2, AnotherCall DEF Reserve
        <4> QED BY <4>1, <1>2
      <3>3. CASE Goto(t, "idle")
        BY <3>3, <1>2, GotoCall, IdleFacts
      <3> QED BY <2>2, <3>1, <3>2, <3>3 DEF Reserve
    <2>3. CASE Login(t)
      <3>1. PICK stage \in {"tail", "release"} : Goto(t, stage)
        BY <2>3 DEF Login
      <3>2. call'[t].r = call[t].r /\ call[t].stage = "body" /\ res' = res
        BY <2>3, <3>1, GotoCall DEF Login, InBody
      <3> QED BY <1>2, <2>1, <3>2 DEF AuthInv, LoginOwns
    <2>4. CASE Release(t) \/ Tail(t)
      <3>1. Goto(t, "idle")
        BY <2>1, <2>4 DEF Release, Tail
      <3> QED BY <3>1, <1>2, GotoCall, IdleFacts
    <2> QED BY <2>1, <2>2, <2>3, <2>4, StepCases DEF Open, Close, EncryptInit, Encrypt, DigestInit,
            Digest, Sign, Verify, Create, InBody
  <1> QED BY <1>1, <1>2

\* A slot that no failing login holds is not given to one by a step that leaves
\* it to its owner.
LEMMA PendingStep ==
    ASSUME TypeOK, AesInv, NEW t \in Threads, Step(t), NEW p \in Processes, NEW r \in Auths,
           res[r].owner = p, ~Pending(p, r)
    PROVE  ~Pending(p, r)'
  <1>m. \A u \in Threads : Me(u)' = Me(u)
    BY DEF Me
  <1> SUFFICES ASSUME NEW u \in Threads, Me(u) = p, call'[u].op = "login", call'[u].r = r,
                      call'[u].stage \in {"body", "release"}
               PROVE  FALSE
    BY <1>m DEF Pending
  <1>1. u = t
    <2>1. u # t => call'[u] = call[u]
      BY StepFrame
    <2> QED BY <2>1 DEF Pending
  <1>2. call[t].op = "login"
    BY <1>1, StepCall, IdleFacts DEF AesInv
  <1>3. CASE Reserve(t)
    <2>1. CASE Available(call[t].r) /\ Goto(t, "body")
      <3>1. call'[t].r = call[t].r
        BY <2>1, GotoCall
      <3> QED BY <1>1, <2>1, <3>1, NamesAssumption DEF Available
    <2>2. CASE HasAnother(call[t].r)
               /\ call' = [call EXCEPT ![t].r = Another(call[t].r), ![t].held = FALSE]
      <3>1. call'[t].stage = "reserve"
        BY <1>3, <2>2, AnotherCall DEF Reserve
      <3> QED BY <3>1, <1>1
    <2>3. CASE Goto(t, "idle")
      BY <2>3, <1>1, GotoCall, IdleFacts
    <2> QED BY <1>3, <2>1, <2>2, <2>3 DEF Reserve
  <1>4. CASE Login(t)
    <2>1. PICK stage \in {"tail", "release"} : Goto(t, stage)
      BY <1>4 DEF Login
    <2>2. call'[t].r = call[t].r /\ call[t].stage = "body"
      BY <1>4, <2>1, GotoCall DEF Login, InBody
    <2> QED BY <1>1, <1>2, <2>2 DEF Pending
  <1>5. CASE Release(t) \/ Tail(t)
    <2>1. Goto(t, "idle")
      BY <1>2, <1>5 DEF Release, Tail
    <2> QED BY <2>1, <1>1, GotoCall, IdleFacts
  <1> QED BY <1>2, <1>3, <1>4, <1>5, StepCases DEF Open, Close, EncryptInit, Encrypt, DigestInit,
          Digest, Sign, Verify, Create, InBody

\* A step inside a call leaves a logged-in token its slot.
LEMMA AuthorisedStep ==
    ASSUME TypeOK, LockInv, AesInv, AuthInv, NEW t \in Threads, Step(t)
    PROVE  Authorised'
  <1>m. \A u \in Threads : Me(u) \in Processes /\ Me(u) \notin {"none", "dead"} /\ Me(u)' = Me(u)
    BY ThreadsAssumption, NamesAssumption DEF Me
  <1>f. up' = up /\ call[t].stage # "idle" /\ \A u \in Threads \ {t} : call'[u] = call[u]
    BY StepFrame
  <1>s. SUFFICES ASSUME NEW p \in Processes, logged_in'[p]
                 PROVE  /\ up[p]
                        /\ \/ \E r \in Auths : res'[r].owner = p /\ ~Pending(p, r)'
                           \/ \E u \in Threads : /\ Me(u) = p /\ call'[u].op = "logout"
                                                 /\ call'[u].stage # "idle"
    BY <1>m, <1>f DEF Authorised
  <1>n. p \notin {"none", "dead"}
    BY NamesAssumption
  <1>1. CASE logged_in[p]
    <2>1. ASSUME NEW u \in Threads, Me(u) = p, call[u].op = "logout", call[u].stage # "idle"
          PROVE  call'[u].op = "logout" /\ call'[u].stage # "idle"
      <3>1. CASE u # t
        BY <2>1, <3>1, <1>f
      <3>2. CASE u = t
        <4>1. ~Tail(t)
          BY <2>1, <3>2, <1>s, <1>m DEF Tail, TypeOK
        <4>2. Release(t)
          BY <2>1, <3>2, <4>1, StepCases DEF Reserve, Open, Close, Login, EncryptInit, Encrypt,
             DigestInit, Digest, Sign, Verify, Create, InBody, AesInv, Shaped
        <4>3. CASE Goto(t, "tail")
          BY <2>1, <3>2, <4>3, GotoCall
        <4>4. CASE HasAnother(call[t].r)
                   /\ call' = [call EXCEPT ![t].r = Another(call[t].r), ![t].held = FALSE]
          BY <2>1, <3>2, <4>4, AnotherCall
        <4> QED BY <2>1, <3>2, <4>2, <4>3, <4>4 DEF Release
      <3> QED BY <3>1, <3>2
    <2>2. ASSUME NEW r \in Auths, res[r].owner = p, ~Pending(p, r), res'[r] # res[r]
          PROVE  Me(t) = p /\ call[t].op = "logout"
      <3>1. Release(t) /\ call[t].r = r /\ Releasable(t, r)
        BY <2>2, <1>n, StepResource DEF Available, Auths, Resources
      <3>2. Me(t) = p
        BY <2>2, <3>1, <1>n DEF Releasable
      <3>3. call[t].op \in {"login", "logout"} /\ call[t].stage = "release"
        BY <2>2, <3>1 DEF Release, AesInv, Shaped, Auths
      <3> QED BY <2>2, <3>1, <3>2, <3>3 DEF Pending
    <2>3. CASE \E r \in Auths : res[r].owner = p /\ ~Pending(p, r)
      <3>1. PICK r \in Auths : res[r].owner = p /\ ~Pending(p, r)
        BY <2>3
      <3>2. CASE res'[r] = res[r]
        BY <3>1, <3>2, <1>1, PendingStep DEF AuthInv, Authorised
      <3>3. CASE res'[r] # res[r]
        <4>1. Me(t) = p /\ call[t].op = "logout"
          BY <2>2, <3>1, <3>3
        <4>2. call'[t].op = "logout" /\ call'[t].stage # "idle"
          BY <2>1, <4>1, <1>f
        <4> QED BY <4>1, <4>2, <1>1 DEF AuthInv, Authorised
      <3> QED BY <3>2, <3>3
    <2>4. CASE \E u \in Threads : /\ Me(u) = p /\ call[u].op = "logout" /\ call[u].stage # "idle"
      BY <2>1, <2>4, <1>1 DEF AuthInv, Authorised
    <2> QED BY <2>3, <2>4, <1>1 DEF AuthInv, Authorised
  <1>2. CASE ~logged_in[p]
    <2>1. Tail(t) /\ call[t].op = "login" /\ Me(t) = p
      <3>1. logged_in' # logged_in
        BY <1>2, <1>s
      <3>2. Tail(t)
        BY <3>1, StepCases DEF Reserve, Release, Open, Close, Login, EncryptInit, Encrypt,
           DigestInit, Digest, Sign, Verify, Create
      <3> QED BY <3>1, <3>2, <1>2, <1>s DEF Tail, TypeOK
    <2>2. call[t].stage = "tail" /\ res' = res /\ Goto(t, "idle")
      BY <2>1 DEF Tail
    <2>3. PICK r \in Auths : r = call[t].r /\ call[t].h \in Handles
      BY <2>1, <2>2 DEF AesInv, Shaped, TypeOK, Auths, Resources
    <2>4. res[r] = [session |-> call[t].h, owner |-> p]
      BY <2>1, <2>2, <2>3 DEF AuthInv, LoginOwns
    <2>5. ~Pending(p, r)
      <3> SUFFICES ASSUME NEW u \in Threads, Me(u) = p, call[u].op = "login", call[u].r = r,
                          call[u].stage \in {"body", "release"}
                   PROVE  FALSE
        BY DEF Pending
      <3>1. res[r] = [session |-> call[u].h, owner |-> Me(u)]
        BY DEF AuthInv, LoginOwns
      <3>2. u # t /\ call[u].h = call[t].h
        BY <2>2, <2>4, <3>1
      <3> QED BY <3>2, <2>1, <2>2, <2>3 DEF AesInv, Alone
    <2>6. ~Pending(p, r)'
      BY <2>3, <2>4, <2>5, PendingStep
    <2>7. up[p]
      BY <2>1, <2>2 DEF LockInv, Booted
    <2> QED BY <2>2, <2>3, <2>4, <2>6, <2>7
  <1> QED BY <1>1, <1>2

\* The same over the steps of processes and the beginnings of calls.
LEMMA AuthOutside ==
    ASSUME TypeOK, LockInv, AesInv, AuthInv,
           \/ \E p \in Processes : MapShared(p) \/ InitShared(p) \/ Finalize(p) \/ Crash(p)
           \/ \E t \in Threads : Enter(t) \/ EnterOpen(t) \/ SignInit(t) \/ Acquire(t)
    PROVE  AuthInv'
  <1>m. \A u \in Threads : Me(u) \in Processes /\ Me(u) # "dead" /\ Me(u)' = Me(u)
    BY ThreadsAssumption, NamesAssumption DEF Me
  <1>k. ASSUME NEW t \in Threads, \A u \in Threads \ {t} : call'[u] = call[u],
               res' = res, logged_in' = logged_in, \A q \in Processes : up[q] => up'[q],
               call[t].stage = "idle", call'[t].stage \notin {"release", "tail"},
               call'[t].op = "login" => call'[t].stage # "body"
        PROVE  AuthInv'
    <2>1. LoginOwns'
      BY <1>k, <1>m DEF AuthInv, LoginOwns
    <2>2. \A p \in Processes, r \in Auths : Pending(p, r)' => Pending(p, r)
      BY <1>k, <1>m DEF Pending
    <2>3. Authorised'
      BY <1>k, <1>m, <2>2 DEF AuthInv, Authorised
    <2> QED BY <2>1, <2>3 DEF AuthInv
  <1>e. ASSUME res' = res, logged_in' = logged_in, \A q \in Processes : up[q] => up'[q],
               \A u \in Threads : /\ call'[u].op = call[u].op /\ call'[u].h = call[u].h
                                  /\ call'[u].stage = call[u].stage /\ call'[u].r = call[u].r
        PROVE  AuthInv'
    <2>1. LoginOwns'
      BY <1>e, <1>m DEF AuthInv, LoginOwns
    <2>2. \A p \in Processes, r \in Auths : Pending(p, r)' => Pending(p, r)
      BY <1>e, <1>m DEF Pending
    <2>3. Authorised'
      BY <1>e, <1>m, <2>2 DEF AuthInv, Authorised
    <2> QED BY <2>1, <2>3 DEF AuthInv
  <1>1. ASSUME NEW p \in Processes, MapShared(p) PROVE AuthInv'
    <2>1. UNCHANGED <<res, logged_in, call>> /\ \A q \in Processes : up[q] => up'[q]
      BY <1>1 DEF MapShared, TypeOK
    <2> QED BY <2>1, <1>e
  <1>2. ASSUME NEW p \in Processes, InitShared(p) PROVE AuthInv'
    <2>1. UNCHANGED <<logged_in, call>>
      BY <1>2 DEF InitShared
    <2>2. shm = "raw"
      BY <1>2, NamesAssumption DEF InitShared, LockInv, Booted
    <2>3. /\ \A t \in Threads : call[t].stage = "idle"
          /\ \A q \in Processes : ~up[q]
      BY <2>2, <1>m DEF LockInv, Booted
    <2>4. \A q \in Processes : ~logged_in[q]
      BY <2>3 DEF AuthInv, Authorised
    <2> QED BY <2>1, <2>3, <2>4 DEF AuthInv, LoginOwns, Authorised
  <1>3. ASSUME NEW p \in Processes, Finalize(p) PROVE AuthInv'
    <2>1. UNCHANGED <<res, call>>
      BY <1>3 DEF Finalize
    <2>2. /\ ~logged_in'[p]
          /\ \A q \in Processes : q # p => logged_in'[q] = logged_in[q] /\ up'[q] = up[q]
      BY <1>3 DEF Finalize, TypeOK
    <2>3. LoginOwns'
      BY <2>1, <1>m DEF AuthInv, LoginOwns
    <2>4. \A q \in Processes, r \in Auths : Pending(q, r)' => Pending(q, r)
      BY <2>1, <1>m DEF Pending
    <2>5. Authorised'
      BY <2>1, <2>2, <2>4, <1>m DEF AuthInv, Authorised
    <2> QED BY <2>3, <2>5 DEF AuthInv
  <1>4. ASSUME NEW p \in Processes, Crash(p) PROVE AuthInv'
    <2>1. \A t \in Threads : call'[t] = IF Me(t) = p THEN Idle ELSE call[t]
      BY <1>4 DEF Crash, Me
    <2>2. /\ ~logged_in'[p]
          /\ \A q \in Processes : q # p => logged_in'[q] = logged_in[q] /\ up'[q] = up[q]
      BY <1>4 DEF Crash, TypeOK
    <2>3. \A r \in Resources : res[r].owner # p => res'[r] = res[r]
      BY <1>4 DEF Crash, TypeOK
    <2>4. LoginOwns'
      <3> SUFFICES ASSUME NEW t \in Threads, call'[t].op = "login",
                          call'[t].stage \in {"body", "release", "tail"}
                   PROVE  res'[call'[t].r] = [session |-> call'[t].h, owner |-> Me(t)]
        BY <1>m DEF LoginOwns
      <3>1. Me(t) # p /\ call'[t] = call[t]
        BY <2>1, IdleFacts
      <3>2. res[call[t].r] = [session |-> call[t].h, owner |-> Me(t)] /\ call[t].r \in Resources
        BY <3>1 DEF AuthInv, LoginOwns, TypeOK
      <3> QED BY <3>1, <3>2, <2>3
    <2>5. \A q \in Processes, r \in Auths : Pending(q, r)' => Pending(q, r)
      BY <2>1, <1>m, IdleFacts DEF Pending
    <2>6. Authorised'
      <3> SUFFICES ASSUME NEW q \in Processes, logged_in'[q]
                   PROVE  /\ up'[q]
                          /\ \/ \E r \in Auths : res'[r].owner = q /\ ~Pending(q, r)'
                             \/ \E t \in Threads : /\ Me(t) = q /\ call'[t].op = "logout"
                                                   /\ call'[t].stage # "idle"
        BY <1>m DEF Authorised
      <3>1. q # p /\ logged_in[q] /\ up'[q] = up[q]
        BY <2>2
      <3>2. \A t \in Threads : Me(t) = q => call'[t] = call[t]
        BY <2>1, <3>1
      <3>3. \A r \in Auths : res[r].owner = q => res'[r] = res[r]
        BY <2>3, <3>1 DEF Auths, Resources
      <3> QED BY <3>1, <3>2, <3>3, <2>5 DEF AuthInv, Authorised
    <2> QED BY <2>4, <2>6 DEF AuthInv
  <1>5. ASSUME NEW t \in Threads, Enter(t) PROVE AuthInv'
    <2>1. PICK op \in OpsOf[t] \ {"open", "sign_init"}, h \in Sessions(Me(t)) : Begin(t, op, h)
      BY <1>5 DEF Enter
    <2>2. UNCHANGED <<res, logged_in, up>> /\ call[t].stage = "idle"
      BY <1>5 DEF Enter
    <2>3. call'[t].stage = FirstStage(op) /\ call'[t].op = op
      BY <2>1 DEF Begin, TypeOK
    <2>4. \A u \in Threads \ {t} : call'[u] = call[u]
      BY <2>1 DEF Begin, TypeOK
    <2>5. CASE op # "logout"
      <3>1. /\ call'[t].stage \notin {"release", "tail"}
            /\ call'[t].op = "login" => call'[t].stage # "body"
        BY <2>3, <2>5 DEF FirstStage
      <3> QED BY <2>2, <2>4, <3>1, <1>k
    <2>6. CASE op = "logout"
      <3>1. LoginOwns'
        BY <2>2, <2>3, <2>4, <2>6, <1>m DEF AuthInv, LoginOwns
      <3>2. \A p \in Processes, r \in Auths : Pending(p, r)' => Pending(p, r)
        BY <2>3, <2>4, <2>6, <1>m DEF Pending
      <3>3. Authorised'
        BY <2>2, <2>4, <3>2, <1>m DEF AuthInv, Authorised
      <3> QED BY <3>1, <3>3 DEF AuthInv
    <2> QED BY <2>5, <2>6
  <1>6. ASSUME NEW t \in Threads, EnterOpen(t) PROVE AuthInv'
    <2>1. /\ call'[t].op = "open" /\ call'[t].stage = "body" /\ call[t].stage = "idle"
          /\ \A u \in Threads \ {t} : call'[u] = call[u]
          /\ UNCHANGED <<res, logged_in, up>>
      BY <1>6 DEF EnterOpen, Begin, FirstStage, TypeOK
    <2> QED BY <2>1, <1>k
  <1>7. ASSUME NEW t \in Threads, SignInit(t) PROVE AuthInv'
    <2>1. UNCHANGED <<res, call, logged_in, up>>
      BY <1>7 DEF SignInit
    <2> QED BY <2>1, <1>e
  <1>8. ASSUME NEW t \in Threads, Acquire(t) PROVE AuthInv'
    <2>1. UNCHANGED <<res, logged_in, up>>
      BY <1>8 DEF Acquire
    <2>2. \A u \in Threads : /\ call'[u].op = call[u].op /\ call'[u].h = call[u].h
                             /\ call'[u].stage = call[u].stage /\ call'[u].r = call[u].r
      BY <1>8, AcquireKeeps
    <2> QED BY <2>1, <2>2, <1>e
  <1> QED BY <1>1, <1>2, <1>3, <1>4, <1>5, <1>6, <1>7, <1>8

\* As long as the threads of a process keep to sessions of their own, a token
\* that the library has as logged in holds an authorisation slot of the chip,
\* whichever logins fail, race for the slots or are undone meanwhile.
THEOREM LoginIsAuthorised ==
    ASSUME Races = {}
    PROVE  Spec => []LoginHoldsAuth
  <1>1. TypeOK /\ LockInv /\ [Next]_vars => LockInv'
    BY LockStep
  <1>2. TypeOK /\ LockInv /\ AesInv /\ [Next]_vars => AesInv'
    BY AesKept
  <1>3. TypeOK /\ LockInv /\ AesInv /\ AuthInv /\ [Next]_vars => AuthInv'
    <2> SUFFICES ASSUME TypeOK, LockInv, AesInv, AuthInv, [Next]_vars PROVE AuthInv'
      OBVIOUS
    <2>1. CASE UNCHANGED vars
      <3>1. UNCHANGED <<res, logged_in, call, up>> /\ \A t \in Threads : Me(t)' = Me(t)
        BY <2>1 DEF vars, Me
      <3> QED BY <3>1 DEF AuthInv, LoginOwns, Authorised, Pending
    <2>2. ASSUME NEW t \in Threads, Step(t) PROVE AuthInv'
      BY <2>2, OwnsStep, AuthorisedStep DEF AuthInv
    <2>3. CASE Next
      BY <2>3, <2>2, AuthOutside DEF Next
    <2> QED BY <2>1, <2>3
  <1>4. Init => AuthInv
    BY IdleFacts DEF Init, AuthInv, LoginOwns, Authorised
  <1>5. AesInv /\ AuthInv => LoginHoldsAuth
    BY DEF AuthInv, Authorised, LoginHoldsAuth, Auths, Busy, Me
  <1> QED BY <1>1, <1>2, <1>3, <1>4, <1>5, LockInit, AesInit, TypeCorrect, PTL DEF Spec
=============================================================================
