------------------------------- MODULE Pkcs11 -------------------------------
(***************************************************************************)
(* Sessions of the PKCS#11 library (lib/pkcs11) on Linux: processes with   *)
(* several threads use one chip through the state in shared memory, a      *)
(* robust mutex and three device resources that a session reserves.        *)
(*                                                                         *)
(* A call reads its session without the lock (Enter), then reserves,       *)
(* works and releases, each under the lock, and ends with assignments made *)
(* after the last unlock (Tail).  Acquire is a step of its own, so that a  *)
(* process may die between a lock and its unlock.  A step inside the lock  *)
(* is one action: all it touches is guarded by the lock, or belongs to a   *)
(* session no other thread is using, unless Races has "contexts".          *)
(* One operation stands for each pair that takes the same steps: encrypt   *)
(* for decrypt and both for their finals, sign_init for verify_init.       *)
(***************************************************************************)
EXTENDS Naturals, FiniteSets

CONSTANTS Threads, Processes,
          ProcessOf,   \* the process of a thread
          Handles,     \* the addresses the allocator hands out
          MaxSessions, \* PKCS11_MAX_SESSIONS_ALLOWED
          Ta100,       \* whether the token is a TA100: RSA keys, C_CreateObject's own path
          OpsOf,       \* bound: the operations each thread uses
          Races        \* what applications do at once: "contexts", "creation"

ASSUME ThreadsAssumption == ProcessOf \in [Threads -> Processes]
ASSUME SessionsAssumption == MaxSessions \in Nat \ {0}
ASSUME TokenAssumption == Ta100 \in BOOLEAN
ASSUME NamesAssumption ==
    /\ (Processes \cup Threads) \cap {"none", "dead"} = {}
    /\ "none" \notin Handles /\ Processes \cap Threads = {}

Resources == {"AES", "AUTH0", "AUTH1"}
Mechs == {"none", "aes", "digest", "sign"}
AllOps == {"open", "close", "login", "logout", "encrypt_init", "encrypt", "update",
           "digest_init", "digest", "sign_init", "sign", "verify", "create"}
ASSUME OpsAssumption == OpsOf \in [Threads -> SUBSET AllOps]

VARIABLES shm,      \* the shared memory: "absent", "raw" (no mutex yet), "ready"
          creator,  \* the process that is initialising it
          lock,     \* dev_lock: the thread that holds it, "none" or "dead"
          res,      \* dev_state->resources: session and owner of each
          up,       \* pkcs11_context.initialized of each process
          mech,     \* active_mech of each session of pkcs11_session_cache
          logged_in, \* slot->logged_in of each process
          call,     \* what each thread is doing
          lost      \* history: the AES operation ended, its reservation did not

vars == <<shm, creator, lock, res, up, mech, logged_in, call, lost>>

Idle == [op |-> "none", h |-> "none", stage |-> "idle", r |-> "AES", held |-> FALSE]
NoSessions == [h \in Handles |-> "closed"]
Free == [session |-> "none", owner |-> "none"]

Sessions(p) == {h \in Handles : mech[p][h] # "closed"}
Busy(p) == {t \in Threads : ProcessOf[t] = p /\ call[t].stage # "idle"}
Me(t) == ProcessOf[t]

TypeOK ==
    /\ shm \in {"absent", "raw", "ready"} /\ creator \in Processes \cup {"none"}
    /\ lock \in Threads \cup {"none", "dead"}
    /\ res \in [Resources -> [session : Handles \cup {"none"},
                              owner : Processes \cup {"none", "dead"}]]
    /\ up \in [Processes -> BOOLEAN]
    /\ mech \in [Processes -> [Handles -> Mechs \cup {"closed"}]]
    /\ logged_in \in [Processes -> BOOLEAN]
    /\ call \in [Threads -> [op : AllOps \cup {"none"}, h : Handles \cup {"none"},
                             stage : {"idle", "reserve", "body", "release", "tail"},
                             r : Resources, held : BOOLEAN]]
    /\ lost \in BOOLEAN

Init ==
    /\ shm \in {"absent", "ready"} /\ creator = "none"
    /\ lock = "none"
    /\ res = [r \in Resources |-> Free]
    /\ up = [p \in Processes |-> FALSE]
    /\ mech = [p \in Processes |-> NoSessions]
    /\ logged_in = [p \in Processes |-> FALSE]
    /\ call = [t \in Threads |-> Idle]
    /\ lost = FALSE

-----------------------------------------------------------------------------
(* The library of a process *)

\* C_Initialize finds or creates the shared memory; creating it and setting
\* up the mutex in it are two steps, and nothing tells a process that only
\* maps it whether the second has been taken.
MapShared(p) ==
    /\ ~up[p] /\ creator # p
    /\ IF shm = "absent"
       THEN shm' = "raw" /\ creator' = p /\ up' = up
       ELSE /\ shm = "raw" => "creation" \in Races
            /\ UNCHANGED <<shm, creator>> /\ up' = [up EXCEPT ![p] = TRUE]
    /\ UNCHANGED <<lock, res, mech, logged_in, call, lost>>

\* The memset and hal_init_mutex of the creator.
InitShared(p) ==
    /\ creator = p
    /\ shm' = "ready" /\ creator' = "none" /\ up' = [up EXCEPT ![p] = TRUE]
    /\ lock' = "none" /\ res' = [r \in Resources |-> Free]
    /\ UNCHANGED <<mech, logged_in, call, lost>>

\* C_Finalize closes the sessions of the process; the application makes no
\* other call meanwhile.  What they had reserved stays reserved.
Finalize(p) ==
    /\ up[p] /\ Busy(p) = {}
    /\ lock \in Threads => ProcessOf[lock] = p
    /\ up' = [up EXCEPT ![p] = FALSE]
    /\ mech' = [mech EXCEPT ![p] = NoSessions]
    /\ logged_in' = [logged_in EXCEPT ![p] = FALSE]
    /\ lock' = "none"
    /\ lost' = (lost \/ \E h \in Handles : mech[p][h] = "aes")
    /\ UNCHANGED <<shm, creator, res, call>>

\* The process dies: its pid is checked by the next process that wants what
\* it had reserved, and its mutex is left to the next that locks.
Crash(p) ==
    /\ up[p] /\ shm = "ready"
    /\ up' = [up EXCEPT ![p] = FALSE]
    /\ mech' = [mech EXCEPT ![p] = NoSessions]
    /\ logged_in' = [logged_in EXCEPT ![p] = FALSE]
    /\ call' = [t \in Threads |-> IF ProcessOf[t] = p THEN Idle ELSE call[t]]
    /\ lock' = IF lock \in Threads /\ ProcessOf[lock] = p THEN "dead" ELSE lock
    /\ res' = [r \in Resources |->
                 IF res[r].owner = p THEN [res[r] EXCEPT !.owner = "dead"] ELSE res[r]]
    /\ UNCHANGED <<shm, creator, lost>>

-----------------------------------------------------------------------------
(* The steps of a call *)

\* The checks each operation makes before any lock.
MayEnter(p, op, h) ==
    \/ op \in {"close", "encrypt_init", "encrypt", "update", "sign", "verify", "create", "logout"}
    \/ op = "login" /\ ~logged_in[p]
    \/ op = "digest_init" /\ mech[p][h] = "none"
    \/ op = "digest" /\ mech[p][h] = "digest"

\* Which step comes first: pkcs11_reserve_resource, the body, or the release.
FirstStage(op) ==
    IF op \in {"encrypt_init", "login"} THEN "reserve"
    ELSE IF op = "logout" THEN "release" ELSE "body"

Begin(t, op, h) ==
    call' = [call EXCEPT ![t] =
      [op |-> op, h |-> h, stage |-> FirstStage(op), held |-> FALSE,
       r |-> IF op \in {"login", "logout"} THEN "AUTH0" ELSE "AES"]]

Enter(t) ==
    /\ up[Me(t)] /\ call[t].stage = "idle"
    /\ \E op \in OpsOf[t] \ {"open", "sign_init"}, h \in Sessions(Me(t)) :
          /\ MayEnter(Me(t), op, h)
          /\ "contexts" \in Races \/ \A u \in Busy(Me(t)) : call[u].h # h
          /\ Begin(t, op, h)
    /\ UNCHANGED <<shm, creator, lock, res, up, mech, logged_in, lost>>

EnterOpen(t) ==
    /\ up[Me(t)] /\ call[t].stage = "idle" /\ "open" \in OpsOf[t]
    /\ Begin(t, "open", "none")
    /\ UNCHANGED <<shm, creator, lock, res, up, mech, logged_in, lost>>

\* C_SignInit and C_VerifyInit never lock.
SignInit(t) ==
    /\ up[Me(t)] /\ call[t].stage = "idle" /\ "sign_init" \in OpsOf[t]
    /\ \E h \in Sessions(Me(t)) :
          /\ "contexts" \in Races \/ \A u \in Busy(Me(t)) : call[u].h # h
          /\ mech[Me(t)][h] = "none"
          /\ mech' = [mech EXCEPT ![Me(t)][h] = "sign"]
    /\ UNCHANGED <<shm, creator, lock, res, up, logged_in, call, lost>>

\* Mutant: a mutex whose owner died is not recovered.
LockableOwnerAlive(t) == lock \in {"none", t}

\* Mutant: a failed lock is taken for a success.
LockableAlways(t) == TRUE

\* hal_lock_mutex succeeds on a free mutex, on one it holds already (EDEADLK)
\* and on one whose owner died (EOWNERDEAD).
Lockable(t) == lock \in {"none", "dead", t}

Acquire(t) ==
    /\ call[t].stage \in {"reserve", "body", "release"} /\ ~call[t].held
    /\ Lockable(t)
    /\ lock' = t
    /\ call' = [call EXCEPT ![t].held = TRUE]
    /\ UNCHANGED <<shm, creator, res, up, mech, logged_in, lost>>

\* The unlock fails unless t holds the mutex.
Unlock(t) == lock' = IF lock = t THEN "none" ELSE lock

Goto(t, stage) ==
    call' = [call EXCEPT ![t] =
               IF stage = "idle" THEN Idle ELSE [@ EXCEPT !.stage = stage, !.held = FALSE]]

\* Mutant: a resource is taken over whoever has it reserved.
AvailableAlways(r) == TRUE

\* pkcs11_reserve_resource takes what nobody owns, or a process that died.
Available(r) == res[r].owner \in {"none", "dead"}

\* Mutant: the loop of pkcs11_session_login runs once too often.
HasAnotherPast(r) == r \in {"AUTH0", "AUTH1"}

\* A login that finds the first authorisation slot taken tries the second.
HasAnother(r) == r = "AUTH0"
Another(r) == IF r = "AUTH0" THEN "AUTH1" ELSE "AUTH2"

Reserve(t) ==
    LET c == call[t] IN
    /\ c.stage = "reserve" /\ c.held
    /\ Unlock(t)
    /\ IF Available(c.r)
       THEN /\ res' = [res EXCEPT ![c.r] = [session |-> c.h, owner |-> Me(t)]]
            /\ lost' = (c.r # "AES" /\ lost)
            /\ Goto(t, "body")
       ELSE /\ UNCHANGED <<res, lost>>
            /\ IF HasAnother(c.r)
               THEN call' = [call EXCEPT ![t].r = Another(c.r), ![t].held = FALSE]
               ELSE Goto(t, "idle")
    /\ UNCHANGED <<shm, creator, up, mech, logged_in>>

\* Mutant: the session is not compared.
ReleasableByOwner(t, r) == res[r].owner \in {"none", Me(t)}

\* pkcs11_release_resource gives back only what this session has reserved.
Releasable(t, r) ==
    /\ res[r].session \in {"none", call[t].h}
    /\ res[r].owner \in {"none", Me(t)}

Release(t) ==
    LET c == call[t] IN
    /\ c.stage = "release" /\ c.held
    /\ Unlock(t)
    /\ res' = IF Releasable(t, c.r) THEN [res EXCEPT ![c.r] = Free] ELSE res
    /\ lost' = (lost /\ ~(c.r = "AES" /\ Releasable(t, c.r)))
    /\ IF c.op = "logout" /\ HasAnother(c.r)
       THEN call' = [call EXCEPT ![t].r = Another(c.r), ![t].held = FALSE]
       ELSE Goto(t, IF c.op \in {"encrypt", "logout"} THEN "tail" ELSE "idle")
    /\ UNCHANGED <<shm, creator, up, mech, logged_in>>

\* The session's mechanism becomes m, if its context still exists.
SetMech(t, m) ==
    mech' = IF mech[Me(t)][call[t].h] = "closed" THEN mech
            ELSE [mech EXCEPT ![Me(t)][call[t].h] = m]

\* An AES operation ends here without the release of its resource.
Abandons(t) == lost' = (lost \/ mech[Me(t)][call[t].h] = "aes")

InBody(t, op) == call[t].stage = "body" /\ call[t].held /\ call[t].op = op
Rest == UNCHANGED <<shm, creator, up>>

\* The new context is uninitialised memory, which pkcs11_session_open fills;
\* when it gets none, the table being full or the allocation having failed,
\* it returns with the lock held.
Open(t) ==
    /\ InBody(t, "open")
    /\ \/ /\ Cardinality(Sessions(Me(t))) < MaxSessions
          /\ \E h \in Handles \ Sessions(Me(t)) : mech' = [mech EXCEPT ![Me(t)][h] = "none"]
          /\ Unlock(t)
       \/ UNCHANGED <<mech, lock>>
    /\ Goto(t, "idle")
    /\ Rest /\ UNCHANGED <<res, logged_in, lost>>

\* pkcs11_session_close, also of each session in pkcs11_session_closeall.
Close(t) ==
    /\ InBody(t, "close")
    /\ Abandons(t) /\ SetMech(t, "closed")
    /\ Unlock(t) /\ Goto(t, "idle")
    /\ Rest /\ UNCHANGED <<res, logged_in>>

\* The key is derived from the PIN, with the chip's help; it may fail.
Login(t) ==
    /\ InBody(t, "login")
    /\ \E stage \in {"tail", "release"} : Goto(t, stage)
    /\ Unlock(t)
    /\ Rest /\ UNCHANGED <<res, mech, logged_in, lost>>

\* Mutant: an operation that cannot start does not give the engine back.
EncryptInitLeaky(t) ==
    /\ InBody(t, "encrypt_init")
    /\ Unlock(t)
    /\ \/ mech[Me(t)][call[t].h] = "none" /\ SetMech(t, "aes")
       \/ UNCHANGED mech
    /\ Goto(t, "idle")
    /\ Rest /\ UNCHANGED <<res, logged_in, lost>>

\* An AES operation starts only in a session that has none active, and may be
\* refused for its parameters or by the chip.
EncryptInit(t) ==
    /\ InBody(t, "encrypt_init")
    /\ Unlock(t)
    /\ \/ mech[Me(t)][call[t].h] = "none" /\ SetMech(t, "aes") /\ Goto(t, "idle")
       \/ UNCHANGED mech /\ Goto(t, "release")
    /\ Rest /\ UNCHANGED <<res, logged_in, lost>>

\* The body only drives the chip: a one-shot call or a final goes on to its
\* release whatever comes of it, an update is done.
Encrypt(t) ==
    /\ \E op \in {"encrypt", "update"} :
          /\ InBody(t, op)
          /\ Goto(t, IF op = "update" THEN "idle" ELSE "release")
    /\ Unlock(t)
    /\ Rest /\ UNCHANGED <<res, mech, logged_in, lost>>

DigestInit(t) ==
    /\ InBody(t, "digest_init")
    /\ \/ SetMech(t, "digest")
       \/ UNCHANGED mech
    /\ Unlock(t) /\ Goto(t, "idle")
    /\ Rest /\ UNCHANGED <<res, logged_in, lost>>

Digest(t) ==
    /\ InBody(t, "digest")
    /\ SetMech(t, "none")
    /\ Unlock(t) /\ Goto(t, "idle")
    /\ Rest /\ UNCHANGED <<res, logged_in, lost>>

\* Mutant: a return inside the lock forgets the unlock.
SignKeeping(t) ==
    /\ InBody(t, "sign")
    /\ \/ Abandons(t) /\ SetMech(t, "none") /\ Unlock(t)
       \/ UNCHANGED <<mech, lost, lock>>
    /\ Goto(t, "idle")
    /\ Rest /\ UNCHANGED <<res, logged_in>>

\* C_Sign ends whatever operation is active, except when it is asked for the
\* length of the signature.
Sign(t) ==
    /\ InBody(t, "sign")
    /\ \/ Abandons(t) /\ SetMech(t, "none")
       \/ mech[Me(t)][call[t].h] = "sign" /\ UNCHANGED <<mech, lost>>
    /\ Unlock(t) /\ Goto(t, "idle")
    /\ Rest /\ UNCHANGED <<res, logged_in>>

\* C_Verify ends it too, except when a length is out of range, or when CKM_ECDSA
\* was begun with a key without a curve (an RSA key of a TA100): then it returns
\* with the lock held.
Verify(t) ==
    /\ InBody(t, "verify")
    /\ \/ Abandons(t) /\ SetMech(t, "none") /\ Unlock(t)
       \/ /\ mech[Me(t)][call[t].h] = "sign" /\ UNCHANGED <<mech, lost>>
          /\ Unlock(t) \/ (Ta100 /\ UNCHANGED lock)
    /\ Goto(t, "idle")
    /\ Rest /\ UNCHANGED <<res, logged_in>>

\* C_CreateObject writes a key or a certificate.  With a TA100 it returns with
\* the lock held when it finds no entry for the key's curve or size.
Create(t) ==
    /\ InBody(t, "create")
    /\ Unlock(t) \/ (Ta100 /\ UNCHANGED lock)
    /\ Goto(t, "idle")
    /\ Rest /\ UNCHANGED <<res, mech, logged_in, lost>>

\* What is assigned after the last unlock.
Tail(t) ==
    /\ call[t].stage = "tail"
    /\ IF call[t].op = "encrypt" THEN SetMech(t, "none") ELSE UNCHANGED mech
    /\ IF call[t].op = "encrypt" THEN UNCHANGED logged_in
       ELSE logged_in' = [logged_in EXCEPT ![Me(t)] = (call[t].op = "login")]
    /\ Goto(t, "idle")
    /\ Rest /\ UNCHANGED <<lock, res, lost>>

Body(t) == Open(t) \/ Close(t) \/ Login(t) \/ EncryptInit(t) \/ Encrypt(t)
           \/ DigestInit(t) \/ Digest(t) \/ Sign(t) \/ Verify(t)
           \/ Create(t)

Step(t) == Reserve(t) \/ Release(t) \/ Body(t) \/ Tail(t)

Next ==
    \/ \E p \in Processes : MapShared(p) \/ InitShared(p) \/ Finalize(p) \/ Crash(p)
    \/ \E t \in Threads : Enter(t) \/ EnterOpen(t) \/ SignInit(t) \/ Acquire(t) \/ Step(t)

Spec == Init /\ [][Next]_vars

\* A thread in a call keeps running, and one that waits for the mutex gets it
\* when it becomes available again and again.
FairSpec == Spec /\ \A t \in Threads : WF_vars(Step(t)) /\ SF_vars(Acquire(t))

-----------------------------------------------------------------------------
(* Properties *)

\* A session whose AES operation is active has the chip's AES engine reserved
\* (until the last statement of the call that ends the operation).
AesReserved ==
    \A p \in Processes, h \in Handles :
        mech[p][h] = "aes" =>
            \/ res["AES"] = [session |-> h, owner |-> p]
            \/ \E t \in Threads : /\ Me(t) = p /\ call[t].h = h
                                  /\ call[t].op = "encrypt" /\ call[t].stage = "tail"

\* The only ways to lose the AES engine while the process lives: closing a
\* session, finalizing, signing or verifying while its AES operation is active.
TheOnlyLeaks ==
    \A p \in Processes :
        res["AES"].owner = p =>
            \/ lost
            \/ mech[p][res["AES"].session] = "aes"
            \/ \E t \in Busy(p) : /\ call[t].h = res["AES"].session
                                  /\ call[t].op \in {"encrypt_init", "encrypt"}

\* A logged-in token holds an authorisation slot of the chip, or is about to
\* be logged out.
LoginHoldsAuth ==
    \A p \in Processes :
        logged_in[p] =>
            \/ \E r \in {"AUTH0", "AUTH1"} : res[r].owner = p
            \/ \E t \in Busy(p) : call[t].op = "logout"

\* At most one thread of all processes works with the chip.
MutualExclusion == \A t, u \in Threads : call[t].held /\ call[u].held => t = u

\* The operations with an error return that forgets the unlock.
KeepingOps == {"open"} \cup IF Ta100 THEN {"verify", "create"} ELSE {}

\* A call that ends with its thread holding the mutex is an opening that got no
\* context, or on a TA100 a verification or an object creation: no other call
\* keeps it, in any state that other threads or a dead process left behind.
LockComesBack ==
    [][\A t \in Threads :
          /\ lock' = t /\ call'[t].stage = "idle"
          /\ ~(lock = t /\ call[t].stage = "idle")
          => call[t].op \in KeepingOps]_vars

\* Every call returns, unless a thread kept the mutex.
CallsReturn ==
    \A t \in Threads :
        call[t].stage # "idle" ~>
            \/ call[t].stage = "idle"
            \/ lock \in Threads /\ call[lock].stage = "idle"
=============================================================================
