---------------------------- MODULE UploadProofs ----------------------------
(***************************************************************************)
(* Proofs about what an upload goes through, for any finite number of      *)
(* threads, requests, users, sidecar workers and pages, and any settings.  *)
(*                                                                         *)
(* The ingest queue keeps its counters exact, its limit and its wake-ups,  *)
(* and is a gate.  The requests do nothing to the queue that it does not   *)
(* allow, so all of this holds of them too; and their accounts balance:    *)
(* what the limiter and the queue count is what requests hold, but for the *)
(* two early returns that keep theirs.  What is published in the end has   *)
(* been judged by the thresholds.                                          *)
(***************************************************************************)
EXTENDS UploadAdmission, Moderation, FiniteSetTheorems, WellFoundedInduction, TLAPS

\* Without a limit nobody ever queues.
NoQueueWithoutLimit == Unlimited => Queued = {}

\* The inductive invariant: the counters count the threads they stand for,
\* and the slots that are free are spoken for while somebody sleeps.
QueueInv ==
    /\ TypeOK
    /\ ActiveIsRunning
    /\ WaitingIsQueued
    /\ WithinLimit
    /\ NoLostWakeup
    /\ NoQueueWithoutLimit

-----------------------------------------------------------------------------
(* Cardinalities of sets of threads.                                       *)

\* A set of threads is finite, so its cardinality is a natural number.
LEMMA ThreadsFinite ==
    ASSUME NEW S \in SUBSET Thread
    PROVE  IsFiniteSet(S) /\ Cardinality(S) \in Nat
BY QueueAssumption, FS_Subset, FS_CardinalityType

\* One thread enters a set of threads.
LEMMA ThreadsAdd ==
    ASSUME NEW S \in SUBSET Thread, NEW t \in Thread, t \notin S
    PROVE  Cardinality(S \cup {t}) = Cardinality(S) + 1
BY ThreadsFinite, FS_AddElement

\* One thread leaves a set of threads.
LEMMA ThreadsRemove ==
    ASSUME NEW S \in SUBSET Thread, NEW t \in S
    PROVE  Cardinality(S \ {t}) = Cardinality(S) - 1
BY ThreadsFinite, FS_RemoveElement

\* What a move of one thread does to the sets read off pc.
LEMMA MoveThread ==
    ASSUME pc \in [Thread -> {"idle", "queued", "running"}],
           NEW t \in Thread,
           NEW to \in {"idle", "queued", "running"},
           pc' = [pc EXCEPT ![t] = to]
    PROVE  /\ pc' \in [Thread -> {"idle", "queued", "running"}]
           /\ Queued'  = IF to = "queued"  THEN Queued \cup {t}  ELSE Queued \ {t}
           /\ Running' = IF to = "running" THEN Running \cup {t} ELSE Running \ {t}
BY DEF Queued, Running

-----------------------------------------------------------------------------
(* Initial states.                                                         *)

\* Before the first upload nothing runs and nothing waits.
LEMMA InitInv == Init => QueueInv
<1> SUFFICES ASSUME Init PROVE QueueInv
    OBVIOUS
<1>1. Queued = {} /\ Running = {}
    BY DEF Init, Queued, Running
<1>2. Cardinality({}) = 0
    BY FS_EmptySet
<1>. QED
    BY <1>1, <1>2, QueueAssumption
    DEF Init, QueueInv, TypeOK, ActiveIsRunning, WaitingIsQueued, WithinLimit,
        NoLostWakeup, NoQueueWithoutLimit, Unlimited

-----------------------------------------------------------------------------
(* One lemma per step of the two functions.                                *)

\* Entry with a free slot: one more runs, within the limit.
LEMMA BeginFreeInv ==
    ASSUME QueueInv, NEW t \in Thread, BeginFree(t)
    PROVE  QueueInv'
<1>1. /\ Queued' = Queued
      /\ Running' = Running \cup {t}
      /\ t \notin Running
      /\ pc' \in [Thread -> {"idle", "queued", "running"}]
    BY MoveThread DEF BeginFree, QueueInv, TypeOK, Queued, Running
<1>2. Cardinality(Running') = Cardinality(Running) + 1
    BY <1>1, ThreadsAdd DEF Running
<1>3. Cardinality(Running) \in Nat /\ Cardinality(Pending) \in Nat
    BY ThreadsFinite DEF Running, Queued, Pending
<1>4. NoLostWakeup'
  <2>1. Pending' = Pending
      BY <1>1 DEF BeginFree, Pending
  <2>. QED
      BY <1>3, <2>1, QueueAssumption DEF BeginFree, QueueInv, TypeOK, NoLostWakeup
<1>. QED
    BY <1>1, <1>2, <1>3, <1>4, QueueAssumption
    DEF BeginFree, QueueInv, TypeOK, ActiveIsRunning, WaitingIsQueued, WithinLimit,
        NoQueueWithoutLimit, Unlimited, Full

\* Entry when all slots are taken: one more waits.
LEMMA BeginQueueInv ==
    ASSUME QueueInv, NEW t \in Thread, BeginQueue(t)
    PROVE  QueueInv'
<1>1. /\ Queued' = Queued \cup {t}
      /\ Running' = Running
      /\ t \notin Queued
      /\ pc' \in [Thread -> {"idle", "queued", "running"}]
    BY MoveThread DEF BeginQueue, QueueInv, TypeOK, Queued, Running
<1>2. Cardinality(Queued') = Cardinality(Queued) + 1
    BY <1>1, ThreadsAdd DEF Queued
<1>3. Cardinality(Queued) \in Nat /\ Cardinality(Pending') \in Nat
    BY <1>1, ThreadsFinite DEF Queued, Pending
<1>4. TypeOK'
    BY <1>1 DEF BeginQueue, QueueInv, TypeOK
<1>5. NoLostWakeup'
    BY <1>3, QueueAssumption DEF BeginQueue, QueueInv, TypeOK, NoLostWakeup, Full
<1>. QED
    BY <1>1, <1>2, <1>3, <1>4, <1>5
    DEF BeginQueue, QueueInv, TypeOK, ActiveIsRunning, WaitingIsQueued, WithinLimit,
        NoQueueWithoutLimit, Unlimited, Full

\* Time passing changes no counter.
LEMMA DeadlinePassesInv ==
    ASSUME QueueInv, NEW t \in Thread, DeadlinePasses(t)
    PROVE  QueueInv'
<1>1. Queued' = Queued /\ Running' = Running /\ t \in Queued
    BY DEF DeadlinePasses, Queued, Running
<1>. QED
    BY <1>1
    DEF DeadlinePasses, QueueInv, TypeOK, ActiveIsRunning, WaitingIsQueued, WithinLimit,
        NoLostWakeup, NoQueueWithoutLimit, Pending, Unlimited

\* A waiter that wakes and finds a slot moves from queued to active.
LEMMA TakeSlotInv ==
    ASSUME QueueInv, NEW t \in Thread, TakeSlot(t)
    PROVE  QueueInv'
<1>1. /\ Queued' = Queued \ {t}
      /\ Running' = Running \cup {t}
      /\ t \notin Running
      /\ t \in Queued
      /\ pc' \in [Thread -> {"idle", "queued", "running"}]
    BY MoveThread DEF TakeSlot, Awake, QueueInv, TypeOK, Queued, Running
<1>2. /\ Cardinality(Running') = Cardinality(Running) + 1
      /\ Cardinality(Queued') = Cardinality(Queued) - 1
    BY <1>1, ThreadsAdd, ThreadsRemove DEF Queued, Running
<1>3. ~Unlimited
    BY <1>1 DEF QueueInv, NoQueueWithoutLimit
<1>4. Cardinality(Queued) \in Nat /\ Cardinality(Running) \in Nat
    BY ThreadsFinite DEF Queued, Running
<1>5. /\ TypeOK'
      /\ ActiveIsRunning'
      /\ WaitingIsQueued'
      /\ WithinLimit'
      /\ NoQueueWithoutLimit'
  <2>1. Cardinality(Queued') \in Nat
      BY ThreadsFinite, <1>1 DEF Queued
  <2>. QED
      BY <1>1, <1>2, <1>3, <1>4, <2>1, QueueAssumption
      DEF TakeSlot, QueueInv, TypeOK, ActiveIsRunning, WaitingIsQueued, WithinLimit,
          NoQueueWithoutLimit, Unlimited, Full
<1>6. NoLostWakeup'
  <2>1. Cardinality(Pending) \in Nat
      BY ThreadsFinite DEF Pending, Queued
  <2>2. CASE t \in waitSet
    <3>1. Pending' = Pending
        BY <1>1, <2>2 DEF TakeSlot, Pending
    <3>. QED
        BY <2>1, <2>2, <3>1, QueueAssumption
        DEF TakeSlot, QueueInv, TypeOK, NoLostWakeup
  <2>3. CASE t \notin waitSet
    <3>1. Pending' = Pending \ {t} /\ t \in Pending
        BY <1>1, <2>3 DEF TakeSlot, Pending
    <3>2. Cardinality(Pending') = Cardinality(Pending) - 1
        BY <3>1, ThreadsRemove DEF Pending, Queued
    <3>. QED
        BY <2>1, <2>3, <3>2, QueueAssumption
        DEF TakeSlot, QueueInv, TypeOK, NoLostWakeup
  <2>. QED
      BY <2>2, <2>3
<1>. QED
    BY <1>5, <1>6 DEF QueueInv

\* A thread that gives up leaves no free slot behind: the gate is full.
LEMMA GiveUpInv ==
    ASSUME QueueInv, NEW t \in Thread, GiveUp(t)
    PROVE  QueueInv'
<1>1. /\ Queued' = Queued \ {t}
      /\ Running' = Running
      /\ t \in Queued
      /\ pc' \in [Thread -> {"idle", "queued", "running"}]
    BY MoveThread DEF GiveUp, Awake, QueueInv, TypeOK, Queued, Running
<1>2. Cardinality(Queued') = Cardinality(Queued) - 1
    BY <1>1, ThreadsRemove DEF Queued
<1>3. Cardinality(Queued) \in Nat /\ Cardinality(Queued') \in Nat
    BY <1>1, ThreadsFinite DEF Queued
<1>4. Cardinality(Pending') \in Nat
    BY <1>1, ThreadsFinite DEF Queued, Pending
<1>. QED
    BY <1>1, <1>2, <1>3, <1>4, QueueAssumption
    DEF GiveUp, QueueInv, TypeOK, ActiveIsRunning, WaitingIsQueued, WithinLimit,
        NoLostWakeup, NoQueueWithoutLimit, Unlimited, Full

\* A waiter that wakes in vain found no slot, so no wakeup is lost.
LEMMA WaitAgainInv ==
    ASSUME QueueInv, NEW t \in Thread, WaitAgain(t)
    PROVE  QueueInv'
<1>1. Queued' = Queued /\ Running' = Running /\ t \in Queued
    BY DEF WaitAgain, Awake, Queued, Running
<1>2. Cardinality(Pending') \in Nat
    BY <1>1, ThreadsFinite DEF Queued, Pending
<1>. QED
    BY <1>1, <1>2, QueueAssumption
    DEF WaitAgain, QueueInv, TypeOK, ActiveIsRunning, WaitingIsQueued, WithinLimit,
        NoLostWakeup, NoQueueWithoutLimit, Unlimited, Full

\* A released slot is either handed to a notified thread or nobody sleeps.
LEMMA EndInv ==
    ASSUME QueueInv, NEW t \in Thread, End(t)
    PROVE  QueueInv'
<1>1. /\ Queued' = Queued
      /\ Running' = Running \ {t}
      /\ t \in Running
      /\ pc' \in [Thread -> {"idle", "queued", "running"}]
    BY MoveThread DEF End, QueueInv, TypeOK, Queued, Running
<1>2. Cardinality(Running') = Cardinality(Running) - 1
    BY <1>1, ThreadsRemove DEF Running
<1>3. Cardinality(Running) \in Nat /\ Cardinality(Running') \in Nat
    BY <1>1, ThreadsFinite DEF Running
<1>4. waitSet' \subseteq waitSet
    BY DEF End, Notify
<1>5. /\ TypeOK'
      /\ ActiveIsRunning'
      /\ WaitingIsQueued'
      /\ WithinLimit'
      /\ NoQueueWithoutLimit'
    BY <1>1, <1>2, <1>3, <1>4, QueueAssumption
    DEF End, QueueInv, TypeOK, ActiveIsRunning, WaitingIsQueued, WithinLimit,
        NoQueueWithoutLimit, Unlimited
<1>6. ASSUME waitSet' # {} PROVE MaxConcurrent - active' <= Cardinality(Pending')
  <2>1. PICK s \in waitSet : waitSet' = waitSet \ {s}
      BY <1>6 DEF End, Notify
  <2>2. Pending' = Pending \cup {s} /\ s \notin Pending
      BY <1>1, <2>1 DEF Pending, QueueInv, TypeOK
  <2>3. Cardinality(Pending') = Cardinality(Pending) + 1
      BY <2>1, <2>2, ThreadsAdd DEF Pending, Queued, QueueInv, TypeOK
  <2>4. Cardinality(Pending) \in Nat
      BY ThreadsFinite DEF Pending, Queued
  <2>. QED
      BY <2>1, <2>3, <2>4, QueueAssumption
      DEF End, QueueInv, TypeOK, NoLostWakeup
<1>. QED
    BY <1>5, <1>6 DEF QueueInv, NoLostWakeup

-----------------------------------------------------------------------------
(* The theorems of the queue.                                              *)

\* Every step of the module keeps the inductive invariant.
LEMMA NextInv == QueueInv /\ [Next]_vars => QueueInv'
<1> SUFFICES ASSUME QueueInv, [Next]_vars PROVE QueueInv'
    OBVIOUS
<1>1. ASSUME NEW t \in Thread, Begin(t) PROVE QueueInv'
    BY <1>1, BeginFreeInv, BeginQueueInv DEF Begin
<1>2. ASSUME NEW t \in Thread, Recheck(t) PROVE QueueInv'
    BY <1>2, TakeSlotInv, GiveUpInv, WaitAgainInv DEF Recheck
<1>3. CASE UNCHANGED vars
    BY <1>3
    DEF vars, QueueInv, TypeOK, ActiveIsRunning, WaitingIsQueued, WithinLimit,
        NoLostWakeup, NoQueueWithoutLimit, Queued, Running, Pending, Unlimited
<1>. QED
    BY <1>1, <1>2, <1>3, DeadlinePassesInv, EndInv DEF Next

\* Every reachable state of the queue satisfies the inductive invariant.
THEOREM QueueInvariant == SafeSpec => []QueueInv
BY InitInv, NextInv, PTL DEF SafeSpec

\* Type correctness of the queue's state.
THEOREM QueueTypeCorrect == SafeSpec => []TypeOK
<1>1. QueueInv => TypeOK
    BY DEF QueueInv
<1>. QED
    BY <1>1, QueueInvariant, PTL

\* At most MaxConcurrent ingests run at once, for any number of threads.
THEOREM QueueWithinLimit == SafeSpec => []WithinLimit
<1>1. QueueInv => WithinLimit
    BY DEF QueueInv
<1>. QED
    BY <1>1, QueueInvariant, PTL

\* The two counters of the state are exact: active is the number of threads
\* that hold a slot, waiting the number of those inside begin.
THEOREM QueueCountersExact == SafeSpec => []CountersExact
<1>1. QueueInv => CountersExact
    BY DEF QueueInv, CountersExact
<1>. QED
    BY <1>1, QueueInvariant, PTL

\* No wake-up is lost: a free slot is never left unseen while threads sleep.
THEOREM QueueNoLostWakeup == SafeSpec => []NoLostWakeup
<1>1. QueueInv => NoLostWakeup
    BY DEF QueueInv
<1>. QED
    BY <1>1, QueueInvariant, PTL

-----------------------------------------------------------------------------
(* Refinement of the gate.                                                 *)

\* The threads inside the gate are the running threads.
LEMMA GateInside == TypeOK => Gate!Inside = Running
BY DEF TypeOK, Gate!Inside, gateWhere, Running

\* The gate is full exactly when the code compares active with the limit so.
LEMMA GateFull == QueueInv => (Gate!Full <=> Full)
<1> SUFFICES ASSUME QueueInv PROVE Gate!Full <=> Full
    OBVIOUS
<1>1. Gate!Inside = Running
    BY GateInside DEF QueueInv
<1>2. Gate!Cardinality(Running) = Cardinality(Running)
    BY DEF Gate!Cardinality, Cardinality
<1>3. Cardinality(Running) \in Nat
    BY ThreadsFinite DEF Running
<1>. QED
    BY <1>1, <1>2, <1>3, QueueAssumption
    DEF QueueInv, ActiveIsRunning, Gate!Full, Full, Unlimited

\* Every step of the queue is a step of the gate, or changes nothing there.
LEMMA StepImplementsGate == QueueInv /\ [Next]_vars => [Gate!Next]_gateWhere
<1> SUFFICES ASSUME QueueInv, [Next]_vars PROVE [Gate!Next]_gateWhere
    OBVIOUS
<1>1. TypeOK /\ (Gate!Full <=> Full)
    BY GateFull DEF QueueInv
<1>2. ASSUME NEW t \in Thread, BeginFree(t)
      PROVE  Gate!Admit(t)
    BY <1>1, <1>2
    DEF BeginFree, Full, Unlimited, TypeOK, gateWhere, Gate!Admit
<1>3. ASSUME NEW t \in Thread, BeginQueue(t)
      PROVE  Gate!Ask(t)
    BY <1>1, <1>3 DEF BeginQueue, TypeOK, gateWhere, Gate!Ask
<1>4. ASSUME NEW t \in Thread, TakeSlot(t)
      PROVE  Gate!Admit(t)
    BY <1>1, <1>4 DEF TakeSlot, Awake, TypeOK, gateWhere, Gate!Admit
<1>5. ASSUME NEW t \in Thread, GiveUp(t)
      PROVE  Gate!TurnAway(t)
    BY <1>1, <1>5 DEF GiveUp, Awake, TypeOK, gateWhere, Gate!TurnAway
<1>6. ASSUME NEW t \in Thread, End(t)
      PROVE  Gate!Leave(t)
    BY <1>1, <1>6 DEF End, TypeOK, gateWhere, Gate!Leave
<1>7. ASSUME NEW t \in Thread, DeadlinePasses(t) \/ WaitAgain(t)
      PROVE  UNCHANGED gateWhere
  <2>1. pc' = pc
      BY <1>7 DEF DeadlinePasses, WaitAgain
  <2>. QED
      BY <2>1 DEF gateWhere
<1>8. CASE UNCHANGED vars
    BY <1>8 DEF vars, gateWhere
<1>. QED
    BY <1>2, <1>3, <1>4, <1>5, <1>6, <1>7, <1>8 DEF Next, Begin, Recheck, Gate!Next

\* The queue refines the gate: every behaviour of the code is, seen through
\* gateWhere, a behaviour the gate's safety specification allows.
THEOREM QueueImplementsGate == SafeSpec => Gate!SafeSpec
<1>1. Init => Gate!Init
    BY DEF Init, gateWhere, Gate!Init
<1>. QED
    BY <1>1, QueueInvariant, StepImplementsGate, PTL DEF SafeSpec, Gate!SafeSpec

-----------------------------------------------------------------------------
(* What requests owe and occupy.                                           *)

Stages == {"new", "queueing", "slotted", "inside", "closing", "over",
           "spooling", "handed", "dropped"}

\* The requests whose session the limiter counts, dropped ones included.
Owes(r) ==
    \/ route[r] \in {"api", "page"} /\ stage[r] = "inside"
    \/ /\ route[r] = "browser"
       /\ stage[r] \in {"spooling", "handed", "queueing", "slotted", "closing", "dropped"}

\* The requests whose slot the queue counts, dropped ones included.
Occupies(r) ==
    \/ route[r] = "api" /\ stage[r] \in {"slotted", "inside", "closing", "dropped"}
    \/ route[r] = "browser" /\ stage[r] = "slotted"

Owed(u)  == {r \in Request : user[r] = u /\ Owes(r)}
Occupied == {r \in Request : Occupies(r)}

TypeInv ==
    /\ route \in [Request -> AllRoutes]
    /\ user \in [Request -> User]
    /\ stage \in [Request -> Stages]
    /\ inFlight \in [User -> Nat]
    /\ pc \in [Request -> {"idle", "queued", "running"}]
    /\ active \in Nat

\* Each way in has its stages, and the queue runs who occupies a slot.
OnRoute ==
    \A r \in Request :
        /\ route[r] = "api"  => stage[r] \notin {"spooling", "handed"}
        /\ route[r] = "browser" => stage[r] # "inside"
        /\ route[r] = "page" => stage[r] \in {"new", "inside", "over"}
        /\ pc[r] = "running" <=> Occupies(r)

SessionsCounted ==
    \A u \in User : inFlight[u] = Cardinality(Owed(u)) /\ inFlight[u] <= UploadMax

SlotsCounted == MaxConcurrent > 0 => active = Cardinality(Occupied)

IInv == TypeInv /\ OnRoute /\ SessionsCounted /\ SlotsCounted

-----------------------------------------------------------------------------
(* The parts of a step of one request.                                     *)

\* Its stage, which must fit its route, is moved on.
StepOn(r, from, to) ==
    /\ UNCHANGED <<route, user>>
    /\ stage[r] = from /\ stage'[r] = to
    /\ stage' \in [Request -> Stages]
    /\ \A q \in Request : q # r => stage'[q] = stage[q]
    /\ route[r] = "api"  => to \notin {"spooling", "handed"}
    /\ route[r] = "browser" => to # "inside"
    /\ route[r] = "page" => to \in {"new", "inside", "over"}

\* It gets a session, gives one back, or neither.
SessionEffect(r) ==
    \/ /\ ~Owes(r) /\ Owes(r)'
       /\ inFlight' = [inFlight EXCEPT ![user[r]] = @ + 1]
       /\ inFlight[user[r]] < UploadMax
    \/ /\ Owes(r) /\ ~Owes(r)'
       /\ inFlight' = [inFlight EXCEPT ![user[r]] = IF @ <= 1 THEN 0 ELSE @ - 1]
    \/ (Owes(r)' <=> Owes(r)) /\ inFlight' = inFlight

\* It gets a slot, gives one back, or neither.
SlotEffect(r) ==
    \/ /\ ~Occupies(r) /\ Occupies(r)'
       /\ active' \in Nat /\ (MaxConcurrent > 0 => active' = active + 1)
    \/ /\ Occupies(r) /\ ~Occupies(r)'
       /\ active' = IF active > 0 THEN active - 1 ELSE active
    \/ (Occupies(r)' <=> Occupies(r)) /\ active' = active

\* Where it stands in the queue.
PcEffect(r) ==
    \E p \in {"idle", "queued", "running"} :
        pc' = [pc EXCEPT ![r] = p] /\ (p = "running" <=> Occupies(r)')

-----------------------------------------------------------------------------
(* Cardinalities of sets of requests.                                      *)

\* A set of requests is finite.
LEMMA RequestsFinite ==
    ASSUME NEW S \in SUBSET Request
    PROVE  IsFiniteSet(S) /\ Cardinality(S) \in Nat
BY QueueAssumption, FS_Subset, FS_CardinalityType DEF Request

\* One request enters or leaves a set of requests.
LEMMA RequestsCount ==
    ASSUME NEW S \in SUBSET Request, NEW r \in Request
    PROVE  /\ r \notin S => Cardinality(S \cup {r}) = Cardinality(S) + 1
           /\ r \in S => /\ Cardinality(S \ {r}) = Cardinality(S) - 1
                         /\ Cardinality(S) > 0
<1>1. IsFiniteSet(S) /\ Cardinality(S) \in Nat /\ Cardinality(S \ {r}) \in Nat
    BY RequestsFinite
<1>2. r \notin S => Cardinality(S \cup {r}) = Cardinality(S) + 1
    BY <1>1, FS_AddElement
<1>3. r \in S => Cardinality(S \ {r}) = Cardinality(S) - 1
    BY <1>1, FS_RemoveElement
<1>. QED
    BY <1>1, <1>2, <1>3

-----------------------------------------------------------------------------
(* The limiter.                                                            *)

\* Pruning forgets no session that is in flight.
LEMMA PruningKeepsSessions ==
    ASSUME inFlight \in [User -> Nat], NEW gone \in Prunable
    PROVE  Forget(inFlight, gone) = inFlight
<1>1. \A u \in gone : inFlight[u] <= 0
  <2>1. PICK old \in SUBSET Stale :
            gone \in {old \cup {u \in lru : Idle(u)} : lru \in Overflow(tracked \ old)}
      BY DEF Prunable
  <2>2. PICK lru \in Overflow(tracked \ old) : gone = old \cup {u \in lru : Idle(u)}
      BY <2>1
  <2>. QED
      BY <2>1, <2>2 DEF Stale, Idle
<1>2. \A u \in User : (IF u \in gone THEN 0 ELSE inFlight[u]) = inFlight[u]
    BY <1>1
<1>. QED
    BY <1>2 DEF Forget

\* begin_upload_session counts a session below the limit or nothing.
LEMMA BeginUploadCounts ==
    ASSUME inFlight \in [User -> Nat], NEW r \in Request, NEW allowed \in BOOLEAN,
           BeginUpload(r, allowed)
    PROVE  IF allowed THEN /\ inFlight' = [inFlight EXCEPT ![user[r]] = @ + 1]
                           /\ inFlight[user[r]] < UploadMax
                      ELSE inFlight' = inFlight
<1>1. PICK gone \in Prunable :
          LET fly == Forget(inFlight, gone) IN
          /\ allowed = MaySession(user[r], Forget(attempts, gone), fly)
          /\ inFlight' = IF allowed THEN [fly EXCEPT ![user[r]] = @ + 1] ELSE fly
    BY DEF BeginUpload
<1>. QED
    BY <1>1, PruningKeepsSessions DEF MaySession

-----------------------------------------------------------------------------
(* What a step of one request does to what is owed and occupied.           *)

\* The sessions of the request's user are counted after the step.
LEMMA SessionStep ==
    ASSUME IInv, NEW r \in Request, NEW from, NEW to, StepOn(r, from, to), SessionEffect(r)
    PROVE  inFlight' \in [User -> Nat] /\ SessionsCounted'
<1>1. /\ user[r] \in User /\ inFlight \in [User -> Nat] /\ UploadMax \in Nat
      /\ \A u \in User : inFlight[u] = Cardinality(Owed(u)) /\ inFlight[u] <= UploadMax
    BY AdmissionAssumption DEF IInv, TypeInv, SessionsCounted
<1>2. PICK w \in User : w = user[r]
    BY <1>1
<1>3. \A q \in Request : q # r => (Owes(q)' <=> Owes(q))
    BY DEF Owes, StepOn
<1>4. \A u \in User : u # w => Owed(u)' = Owed(u)
    BY <1>2, <1>3 DEF Owed, StepOn
<1>5. CASE /\ ~Owes(r) /\ Owes(r)'
           /\ inFlight' = [inFlight EXCEPT ![user[r]] = @ + 1]
           /\ inFlight[user[r]] < UploadMax
  <2>1. Owed(w)' = Owed(w) \cup {r} /\ r \notin Owed(w)
      BY <1>2, <1>3, <1>5 DEF Owed, StepOn
  <2>2. Cardinality(Owed(w)') = Cardinality(Owed(w)) + 1
      BY <2>1, RequestsCount DEF Owed
  <2>3. inFlight' \in [User -> Nat]
      BY <1>1, <1>2, <1>5
  <2>. QED
      BY <1>1, <1>2, <1>4, <1>5, <2>2, <2>3 DEF SessionsCounted
<1>6. CASE /\ Owes(r) /\ ~Owes(r)'
           /\ inFlight' = [inFlight EXCEPT ![user[r]] = IF @ <= 1 THEN 0 ELSE @ - 1]
  <2>1. Owed(w)' = Owed(w) \ {r} /\ r \in Owed(w)
      BY <1>2, <1>3, <1>6 DEF Owed, StepOn
  <2>2. /\ Cardinality(Owed(w)') = Cardinality(Owed(w)) - 1
        /\ Cardinality(Owed(w)) > 0
      BY <2>1, RequestsCount DEF Owed
  <2>3. inFlight' \in [User -> Nat]
      BY <1>1, <1>2, <1>6
  <2>. QED
      BY <1>1, <1>2, <1>4, <1>6, <2>2, <2>3 DEF SessionsCounted
<1>7. CASE (Owes(r)' <=> Owes(r)) /\ inFlight' = inFlight
  <2>1. \A u \in User : Owed(u)' = Owed(u)
      BY <1>3, <1>7 DEF Owed, StepOn
  <2>. QED
      BY <1>1, <1>7, <2>1 DEF SessionsCounted
<1>. QED
    BY <1>5, <1>6, <1>7 DEF SessionEffect

\* The slots are counted after the step.
LEMMA SlotStep ==
    ASSUME IInv, NEW r \in Request, NEW from, NEW to, StepOn(r, from, to), SlotEffect(r)
    PROVE  active' \in Nat /\ SlotsCounted'
<1>1. active \in Nat
    BY DEF IInv, TypeInv
<1>2. \A q \in Request : q # r => (Occupies(q)' <=> Occupies(q))
    BY DEF Occupies, StepOn
<1>3. CASE /\ ~Occupies(r) /\ Occupies(r)'
           /\ active' \in Nat /\ (MaxConcurrent > 0 => active' = active + 1)
  <2>1. Occupied' = Occupied \cup {r} /\ r \notin Occupied
      BY <1>2, <1>3 DEF Occupied
  <2>2. Cardinality(Occupied') = Cardinality(Occupied) + 1
      BY <2>1, RequestsCount DEF Occupied
  <2>. QED
      BY <1>1, <1>3, <2>2 DEF IInv, SlotsCounted
<1>4. CASE /\ Occupies(r) /\ ~Occupies(r)'
           /\ active' = IF active > 0 THEN active - 1 ELSE active
  <2>1. Occupied' = Occupied \ {r} /\ r \in Occupied
      BY <1>2, <1>4 DEF Occupied
  <2>2. Cardinality(Occupied') = Cardinality(Occupied) - 1 /\ Cardinality(Occupied) > 0
      BY <2>1, RequestsCount DEF Occupied
  <2>. QED
      BY <1>1, <1>4, <2>2 DEF IInv, SlotsCounted
<1>5. CASE (Occupies(r)' <=> Occupies(r)) /\ active' = active
  <2>1. Occupied' = Occupied
      BY <1>2, <1>5 DEF Occupied
  <2>. QED
      BY <1>1, <1>5, <2>1 DEF IInv, SlotsCounted
<1>. QED
    BY <1>3, <1>4, <1>5 DEF SlotEffect

\* All of the invariant after the step.
LEMMA RequestStep ==
    ASSUME IInv, NEW r \in Request, NEW from, NEW to, StepOn(r, from, to),
           SessionEffect(r), SlotEffect(r), PcEffect(r)
    PROVE  IInv'
<1>1. /\ inFlight' \in [User -> Nat] /\ SessionsCounted'
      /\ active' \in Nat /\ SlotsCounted'
    BY SessionStep, SlotStep
<1>2. PICK p \in {"idle", "queued", "running"} :
          pc' = [pc EXCEPT ![r] = p] /\ (p = "running" <=> Occupies(r)')
    BY DEF PcEffect
<1>3. /\ pc' \in [Request -> {"idle", "queued", "running"}] /\ pc'[r] = p
      /\ \A q \in Request : q # r => pc'[q] = pc[q]
    BY <1>2 DEF IInv, TypeInv
<1>4. TypeInv'
    BY <1>1, <1>3 DEF IInv, TypeInv, StepOn
<1>5. ASSUME NEW q \in Request
      PROVE  /\ route'[q] = "api"  => stage'[q] \notin {"spooling", "handed"}
             /\ route'[q] = "browser" => stage'[q] # "inside"
             /\ route'[q] = "page" => stage'[q] \in {"new", "inside", "over"}
             /\ pc'[q] = "running" <=> Occupies(q)'
  <2>1. CASE q = r
      BY <1>2, <1>3, <2>1 DEF StepOn
  <2>2. CASE q # r
      BY <1>3, <2>2 DEF IInv, OnRoute, Occupies, StepOn
  <2>. QED
      BY <2>1, <2>2
<1>. QED
    BY <1>1, <1>4, <1>5 DEF IInv, OnRoute

\* A stage that is moved on to one that fits the route.
LEMMA GoSteps ==
    ASSUME IInv, NEW r \in Request, NEW from, NEW to \in Stages, Go(r, from, to),
           /\ route[r] = "api"  => to \notin {"spooling", "handed"}
           /\ route[r] = "browser" => to # "inside"
           /\ route[r] = "page" => to \in {"new", "inside", "over"}
    PROVE  StepOn(r, from, to)
BY DEF Go, StepOn, IInv, TypeInv

-----------------------------------------------------------------------------
(* The steps, by what they touch.                                          *)

\* What the invariant says of one request.
LEMMA OneRequest ==
    ASSUME IInv, NEW r \in Request
    PROVE  /\ inFlight \in [User -> Nat] /\ active \in Nat
           /\ route[r] \in {"api", "browser", "page"}
           /\ route[r] = "api"  => stage[r] \notin {"spooling", "handed"}
           /\ route[r] = "browser" => stage[r] # "inside"
           /\ route[r] = "page" => stage[r] \in {"new", "inside", "over"}
           /\ pc[r] = "running" <=> Occupies(r)
           /\ pc \in [Request -> {"idle", "queued", "running"}]
           /\ pc[r] \in {"idle", "queued", "running"}
           /\ pc = [pc EXCEPT ![r] = pc[r]]
           /\ \A allowed \in BOOLEAN :
                 BeginUpload(r, allowed) =>
                     IF allowed THEN /\ inFlight' = [inFlight EXCEPT ![user[r]] = @ + 1]
                                     /\ inFlight[user[r]] < UploadMax
                                ELSE inFlight' = inFlight
BY BeginUploadCounts DEF IInv, TypeInv, OnRoute, AllRoutes

\* Steps of the limiter alone: a session begins or is refused, or ends, or is
\* kept by a request that was answered.
LEMMA LimiterStep ==
    ASSUME IInv, NEW r \in Request,
           \/ ApiSession(r) \/ ApiRefused(r) \/ ApiFinish(r)
           \/ BrowserBegin(r, TRUE) \/ BrowserBegin(r, FALSE)
           \/ BrowserNoSpace(r) \/ BrowserSpoolFails(r) \/ BrowserHandOver(r)
           \/ BrowserClose(r)
           \/ PageBegin(r, TRUE) \/ PageBegin(r, FALSE) \/ PageFinish(r)
    PROVE  IInv'
<1>1. UNCHANGED <<pc, active>>
    BY DEF ApiSession, ApiRefused, ApiFinish, BrowserBegin, BrowserNoSpace, BrowserSpoolFails,
           BrowserHandOver, BrowserClose, PageBegin, PageFinish, queueVars, vars
<1>2. \E from, to \in Stages :
          /\ StepOn(r, from, to)
          /\ Occupies(r)' <=> Occupies(r)
          /\ SessionEffect(r)
  <2>. USE OneRequest DEF Owes, Occupies, SessionEffect, Stages
  <2>1. CASE ApiSession(r)
    <3>1. StepOn(r, "slotted", "inside")
        BY <2>1, GoSteps DEF ApiSession
    <3>. QED
        BY <2>1, <3>1 DEF ApiSession, StepOn
  <2>2. CASE ApiRefused(r)
    <3>1. StepOn(r, "slotted", "dropped")
        BY <2>2, GoSteps DEF ApiRefused
    <3>. QED
        BY <2>2, <3>1 DEF ApiRefused, StepOn
  <2>3. CASE ApiFinish(r)
    <3>1. StepOn(r, "inside", "closing")
        BY <2>3, GoSteps DEF ApiFinish
    <3>. QED
        BY <2>3, <3>1 DEF ApiFinish, EndUpload, StepOn
  <2>4. CASE BrowserBegin(r, TRUE)
    <3>1. StepOn(r, "new", "spooling")
        BY <2>4, GoSteps DEF BrowserBegin
    <3>. QED
        BY <2>4, <3>1 DEF BrowserBegin, StepOn
  <2>5. CASE BrowserBegin(r, FALSE)
    <3>1. StepOn(r, "new", "over")
        BY <2>5, GoSteps DEF BrowserBegin
    <3>. QED
        BY <2>5, <3>1 DEF BrowserBegin, StepOn
  <2>6. CASE BrowserNoSpace(r)
    <3>1. StepOn(r, "spooling", "over")
        BY <2>6, GoSteps DEF BrowserNoSpace
    <3>. QED
        BY <2>6, <3>1 DEF BrowserNoSpace, EndUpload, Go, StepOn
  <2>7. CASE BrowserSpoolFails(r)
    <3>1. StepOn(r, "spooling", "dropped") /\ route[r] = "browser"
        BY <2>7, GoSteps DEF BrowserSpoolFails, Go
    <3>. QED
        BY <2>7, <3>1 DEF BrowserSpoolFails, limiterVars, StepOn
  <2>8. CASE BrowserHandOver(r)
    <3>1. StepOn(r, "spooling", "handed") /\ route[r] = "browser"
        BY <2>8, GoSteps DEF BrowserHandOver, Go
    <3>. QED
        BY <2>8, <3>1 DEF BrowserHandOver, limiterVars, StepOn
  <2>9. CASE BrowserClose(r)
    <3>1. StepOn(r, "closing", "over")
        BY <2>9, GoSteps DEF BrowserClose
    <3>. QED
        BY <2>9, <3>1 DEF BrowserClose, EndUpload, StepOn
  <2>10. CASE PageBegin(r, TRUE)
    <3>1. StepOn(r, "new", "inside")
        BY <2>10, GoSteps DEF PageBegin
    <3>. QED
        BY <2>10, <3>1 DEF PageBegin, StepOn
  <2>11. CASE PageBegin(r, FALSE)
    <3>1. StepOn(r, "new", "over")
        BY <2>11, GoSteps DEF PageBegin
    <3>. QED
        BY <2>11, <3>1 DEF PageBegin, StepOn
  <2>12. CASE PageFinish(r)
    <3>1. StepOn(r, "inside", "over")
        BY <2>12, GoSteps DEF PageFinish
    <3>. QED
        BY <2>12, <3>1 DEF PageFinish, EndUpload, StepOn
  <2>. QED
      BY <2>1, <2>2, <2>3, <2>4, <2>5, <2>6, <2>7, <2>8, <2>9, <2>10, <2>11, <2>12
<1>3. SlotEffect(r) /\ PcEffect(r)
    BY <1>1, <1>2, OneRequest DEF SlotEffect, PcEffect
<1>. QED
    BY <1>2, <1>3, RequestStep

\* Steps of the queue: entering it, getting a slot, giving up, giving it back.
LEMMA QueueStep ==
    ASSUME IInv, NEW r \in Request,
           \/ ApiEnter(r) \/ BrowserEnter(r) \/ QueueTakeSlot(r) \/ QueueGiveUp(r)
           \/ ApiClose(r) \/ BrowserFinish(r)
    PROVE  IInv'
<1>1. inFlight' = inFlight
    BY DEF ApiEnter, BrowserEnter, EnterQueue, QueueTakeSlot, QueueGiveUp, ApiClose,
           BrowserFinish, limiterVars
<1>2. \E from, to \in Stages :
          /\ StepOn(r, from, to)
          /\ Owes(r)' <=> Owes(r)
          /\ SlotEffect(r) /\ PcEffect(r)
  <2>. USE OneRequest, QueueAssumption DEF Owes, Occupies, SlotEffect, PcEffect, Stages
  <2>1. ASSUME NEW from \in {"new", "handed"}, EnterQueue(r, from),
               from = "new" => route[r] = "api"
        PROVE  \E to \in Stages :
                   /\ StepOn(r, from, to) /\ (Owes(r)' <=> Owes(r))
                   /\ SlotEffect(r) /\ PcEffect(r)
    <3>1. CASE BeginFree(r)
      <4>1. pc' = [pc EXCEPT ![r] = "running"] /\ pc'[r] = "running" /\ StepOn(r, from, "slotted")
          BY <2>1, <3>1, GoSteps DEF EnterQueue, Go, BeginFree
      <4>. QED
          BY <2>1, <3>1, <4>1 DEF BeginFree, Unlimited, StepOn
    <3>2. CASE BeginQueue(r)
      <4>1. pc' = [pc EXCEPT ![r] = "queued"] /\ pc'[r] = "queued" /\ StepOn(r, from, "queueing")
          BY <2>1, <3>2, GoSteps DEF EnterQueue, Go, BeginQueue
      <4>. QED
          BY <2>1, <3>2, <4>1 DEF BeginQueue, StepOn
    <3>. QED
        BY <2>1, <3>1, <3>2 DEF EnterQueue, Begin
  <2>2. CASE ApiEnter(r)
      BY <2>1, <2>2 DEF ApiEnter
  <2>3. CASE BrowserEnter(r)
      BY <2>1, <2>3 DEF BrowserEnter
  <2>4. CASE QueueTakeSlot(r)
    <3>1. StepOn(r, "queueing", "slotted")
        BY <2>4, GoSteps DEF QueueTakeSlot, Go
    <3>2. pc' = [pc EXCEPT ![r] = "running"] /\ active' = active + 1
        BY <2>4 DEF QueueTakeSlot, TakeSlot
    <3>. QED
        BY <3>1, <3>2 DEF StepOn
  <2>5. CASE QueueGiveUp(r)
    <3>1. route[r] = "api" \/ route[r] = "browser"
        BY <2>5 DEF QueueGiveUp, Go
    <3>2. StepOn(r, "queueing", IF route[r] = "api" THEN "over" ELSE "closing")
        BY <2>5, <3>1, GoSteps DEF QueueGiveUp
    <3>3. pc' = [pc EXCEPT ![r] = "idle"] /\ active' = active
        BY <2>5 DEF QueueGiveUp, GiveUp
    <3>. QED
        BY <3>1, <3>2, <3>3 DEF StepOn
  <2>6. CASE ApiClose(r)
    <3>1. StepOn(r, "closing", "over")
        BY <2>6, GoSteps DEF ApiClose
    <3>2. /\ pc' = [pc EXCEPT ![r] = "idle"] /\ route[r] = "api"
          /\ active' = IF active > 0 THEN active - 1 ELSE active
        BY <2>6 DEF ApiClose, End
    <3>. QED
        BY <3>1, <3>2 DEF StepOn
  <2>7. CASE BrowserFinish(r)
    <3>1. StepOn(r, "slotted", "closing")
        BY <2>7, GoSteps DEF BrowserFinish
    <3>2. /\ pc' = [pc EXCEPT ![r] = "idle"] /\ route[r] = "browser"
          /\ active' = IF active > 0 THEN active - 1 ELSE active
        BY <2>7 DEF BrowserFinish, End
    <3>. QED
        BY <3>1, <3>2 DEF StepOn
  <2>. QED
      BY <2>2, <2>3, <2>4, <2>5, <2>6, <2>7
<1>. QED
    BY <1>1, <1>2, RequestStep DEF SessionEffect

\* Steps that change none of the counts: waiting, the window, and the end.
LEMMA IdleStep ==
    ASSUME IInv, UNCHANGED <<route, user, stage, inFlight, pc, active>>
    PROVE  IInv'
BY DEF IInv, TypeInv, OnRoute, SessionsCounted, SlotsCounted, Owed, Owes, Occupied, Occupies

-----------------------------------------------------------------------------
(* The theorems of the admission.                                          *)

\* The inductive invariant of the specification.
THEOREM AdmissionInvariant == AdmissionSafeSpec => []IInv
<1>1. AdmissionInit => IInv
  <2>. SUFFICES ASSUME AdmissionInit PROVE IInv
      OBVIOUS
  <2>1. route \in [Request -> AllRoutes] /\ user \in [Request -> User]
      BY AdmissionAssumption DEF AdmissionInit
  <2>2. /\ \A r \in Request : ~Owes(r) /\ ~Occupies(r)
        /\ pc = [r \in Request |-> "idle"] /\ active = 0
      BY DEF AdmissionInit, Init, Owes, Occupies, Request
  <2>3. Occupied = {} /\ \A u \in User : Owed(u) = {}
      BY <2>2 DEF Occupied, Owed
  <2>4. TypeInv
      BY <2>1, <2>2 DEF AdmissionInit, TypeInv, Stages
  <2>5. OnRoute
    <3>1. \A r \in Request : stage[r] = "new" /\ pc[r] = "idle"
        BY <2>2 DEF AdmissionInit
    <3>. QED
        BY <2>2, <3>1 DEF OnRoute
  <2>6. SessionsCounted /\ SlotsCounted
    <3>1. \A u \in User : inFlight[u] = 0
        BY DEF AdmissionInit
    <3>2. Cardinality({}) = 0 /\ 0 <= UploadMax
        BY FS_EmptySet, AdmissionAssumption
    <3>. QED
        BY <2>2, <2>3, <3>1, <3>2 DEF SessionsCounted, SlotsCounted
  <2>. QED
      BY <2>4, <2>5, <2>6 DEF IInv
<1>2. IInv /\ [AdmissionNext]_admissionVars => IInv'
  <2>. SUFFICES ASSUME IInv, [AdmissionNext]_admissionVars PROVE IInv'
      OBVIOUS
  <2>1. ASSUME NEW r \in Request, QueueWaits(r) PROVE IInv'
      BY <2>1, IdleStep DEF QueueWaits, limiterVars, DeadlinePasses, WaitAgain
  <2>2. ASSUME NEW r \in Request, Handle(r) PROVE IInv'
      BY <2>1, <2>2, LimiterStep, QueueStep DEF Handle
  <2>3. CASE (\E u \in User : WindowSlides(u)) \/ Quiet \/ UNCHANGED admissionVars
      BY <2>3, IdleStep DEF WindowSlides, Quiet, admissionVars, limiterVars, queueVars, vars
  <2>. QED
      BY <2>2, <2>3 DEF AdmissionNext
<1>. QED
    BY <1>1, <1>2, PTL DEF AdmissionSafeSpec

\* What is held or dropped, in the words of the properties.
LEMMA Accounted ==
    ASSUME IInv
    PROVE  /\ \A u \in User :
                 Owed(u) = Sessions(u) \cup {r \in Dropped("browser") : user[r] = u}
           /\ Occupied = Slots \cup Dropped("api")
BY DEF IInv, TypeInv, OnRoute, AllRoutes, Owed, Owes, Occupied, Occupies, Sessions, Slots,
       Dropped, HoldsSession, HoldsSlot

\* Two sets of requests without a common member add up.
LEMMA RequestsAddUp ==
    ASSUME NEW S \in SUBSET Request, NEW T \in SUBSET Request, S \cap T = {}
    PROVE  Cardinality(S \cup T) = Cardinality(S) + Cardinality(T)
<1>1. IsFiniteSet(S) /\ IsFiniteSet(T) /\ Cardinality(S) \in Nat /\ Cardinality(T) \in Nat
    BY RequestsFinite
<1>2. Cardinality(S \cup T) = Cardinality(S) + Cardinality(T) - Cardinality(S \cap T)
    BY <1>1, FS_Union
<1>3. Cardinality(S \cap T) = 0
    BY FS_EmptySet
<1>. QED
    BY <1>1, <1>2, <1>3

\* Every session and every slot that is counted belongs to a request in
\* progress or to one of the two early returns that keep theirs.
THEOREM AdmissionAccountsBalance == AdmissionSafeSpec => []AccountsBalance
<1>1. IInv => AccountsBalance
  <2>. SUFFICES ASSUME IInv PROVE AccountsBalance
      OBVIOUS
  <2>1. ASSUME NEW u \in User
        PROVE  inFlight[u] = Cardinality(Sessions(u))
                               + Cardinality({r \in Dropped("browser") : user[r] = u})
    <3>1. Sessions(u) \cap {r \in Dropped("browser") : user[r] = u} = {}
        BY DEF Sessions, Dropped, HoldsSession
    <3>. QED
        BY <3>1, Accounted, RequestsAddUp DEF IInv, SessionsCounted, Sessions, Dropped
  <2>2. MaxConcurrent > 0 => active = Cardinality(Slots) + Cardinality(Dropped("api"))
    <3>1. Slots \cap Dropped("api") = {}
        BY DEF Slots, Dropped, HoldsSlot
    <3>. QED
        BY <3>1, Accounted, RequestsAddUp DEF IInv, SlotsCounted, Slots, Dropped
  <2>. QED
      BY <2>1, <2>2 DEF AccountsBalance
<1>. QED
    BY <1>1, AdmissionInvariant, PTL

\* A user never has more uploads in progress than the limit.
THEOREM AdmissionSessionsWithinLimit == AdmissionSafeSpec => []SessionsWithinLimit
<1>1. IInv => SessionsWithinLimit
  <2>. SUFFICES ASSUME IInv, NEW u \in User PROVE Cardinality(Sessions(u)) <= UploadMax
      BY DEF SessionsWithinLimit
  <2>1. Cardinality(Sessions(u)) <= Cardinality(Owed(u))
      BY Accounted, RequestsFinite, FS_Subset DEF Owed, Sessions
  <2>2. /\ Cardinality(Owed(u)) <= UploadMax /\ UploadMax \in Nat
        /\ Cardinality(Owed(u)) \in Nat /\ Cardinality(Sessions(u)) \in Nat
      BY RequestsFinite, AdmissionAssumption DEF IInv, SessionsCounted, Owed, Sessions
  <2>. QED
      BY <2>1, <2>2
<1>. QED
    BY <1>1, AdmissionInvariant, PTL
-----------------------------------------------------------------------------
(* The requests and the queue.                                             *)

\* What a request does to the queue the queue allows.
LEMMA RequestsUseQueue == [AdmissionNext]_admissionVars => [Next]_vars
<1>. SUFFICES ASSUME [AdmissionNext]_admissionVars PROVE [Next]_vars
    OBVIOUS
<1>1. ASSUME NEW r \in Request, Handle(r) PROVE [Next]_vars
  <2>1. r \in Thread
      BY DEF Request
  <2>2. CASE UNCHANGED queueVars
      BY <2>2 DEF queueVars
  <2>3. CASE \/ ApiEnter(r) \/ BrowserEnter(r) \/ QueueTakeSlot(r) \/ QueueGiveUp(r)
             \/ QueueWaits(r) \/ ApiClose(r) \/ BrowserFinish(r)
    <3>1. Begin(r) \/ TakeSlot(r) \/ GiveUp(r) \/ DeadlinePasses(r) \/ WaitAgain(r) \/ End(r)
        BY <2>3 DEF ApiEnter, BrowserEnter, EnterQueue, QueueTakeSlot, QueueGiveUp, QueueWaits,
                    ApiClose, BrowserFinish
    <3>. QED
        BY <2>1, <3>1 DEF Next, Recheck
  <2>. QED
      BY <1>1, <2>2, <2>3
      DEF Handle, ApiSession, ApiRefused, ApiFinish, BrowserBegin, BrowserNoSpace, BrowserSpoolFails,
          BrowserHandOver, BrowserClose, PageBegin, PageFinish
<1>2. CASE (\E u \in User : WindowSlides(u)) \/ Quiet \/ UNCHANGED admissionVars
    BY <1>2 DEF WindowSlides, Quiet, admissionVars, queueVars
<1>. QED
    BY <1>1, <1>2 DEF AdmissionNext

\* The handlers, in whatever order their requests and threads come, use the
\* queue as it wants to be used: what is proved of begin, wait and end holds
\* of every upload that goes through them, and admission is a gate.
THEOREM AdmissionUsesQueue == AdmissionSafeSpec => SafeSpec /\ Gate!SafeSpec
<1>1. AdmissionInit => Init
    BY DEF AdmissionInit
<1>. QED
    BY <1>1, RequestsUseQueue, QueueImplementsGate, PTL DEF AdmissionSafeSpec, SafeSpec

\* With uploads of every kind under way, some of which dropped their slot: the
\* counters of the queue are exact and no wake-up is lost.
THEOREM AdmissionKeepsQueue == AdmissionSafeSpec => []CountersExact /\ []WithinLimit /\ []NoLostWakeup
BY AdmissionUsesQueue, QueueCountersExact, QueueWithinLimit, QueueNoLostWakeup, PTL

-----------------------------------------------------------------------------
(* The style of a page.                                                    *)

\* A set of percentages has a greatest one.
LEMMA GreatestPercent ==
    ASSUME NEW S \in SUBSET Percent, S # {}
    PROVE  Max(S) \in S /\ \A x \in S : x <= Max(S)
<1>. DEFINE T == {100 - x : x \in S}
<1>1. T \in SUBSET Nat /\ T # {}
  <2>1. \A x \in Percent : 100 - x \in Nat
      BY DEF Percent
  <2>. QED
      BY <2>1
<1>2. PICK t \in T : \A y \in T : ~(<<y, t>> \in OpToRel(<, Nat))
    BY <1>1, NatLessThanWellFounded, WFMin
<1>3. ASSUME NEW y \in T PROVE t <= y
  <2>1. <<y, t>> \in Nat \X Nat /\ <<y, t>>[1] = y /\ <<y, t>>[2] = t
      BY <1>1
  <2>2. y < t => <<y, t>> \in OpToRel(<, Nat)
      BY <2>1, Zenon DEF OpToRel
  <2>3. ~(y < t)
      BY <1>2, <2>2, Zenon
  <2>. QED
      BY <1>1, <2>3
<1>4. PICK x \in S : t = 100 - x
    BY <1>2
<1>5. ASSUME NEW y \in S PROVE y <= x
  <2>1. 100 - y \in T
      OBVIOUS
  <2>2. 100 - x <= 100 - y
      BY <1>3, <1>4, <2>1
  <2>. QED
      BY <2>2 DEF Percent
<1>. QED
    BY <1>5 DEF Max, Percent

\* The greater of two.
LEMMA GreaterOf ==
    ASSUME NEW x \in Nat, NEW y \in Nat
    PROVE  Max({x, y}) = IF x <= y THEN y ELSE x
<1>1. PICK m \in {x, y} : m = IF x <= y THEN y ELSE x
    OBVIOUS
<1>2. \A z \in {x, y} : m >= z
    BY <1>1
<1>3. \A n \in {x, y} : (\A z \in {x, y} : n >= z) => n = m
    BY <1>1
<1>. QED
    BY <1>1, <1>2, <1>3 DEF Max

\* A page that clearly looks photographic has that style, if the classifier
\* learns how photographic it looks.
LEMMA LeadingStyle ==
    ASSUME NEW p \in [Class -> Percent], Leads(p), p[Photo] >= PhotoMin,
           NEW got \in SUBSET Class, Photo \in got, NEW best \in Best(p)
    PROVE  StyleOf(best, Read(p, got)) = Photo /\ Read(p, got)[Photo] = p[Photo]
<1>1. /\ Photo \in Class /\ Drawn # {} /\ TopMargin \in Nat \ {0} /\ PhotoMargin \in Nat
      /\ TopMin \in Nat /\ PhotoMin \in Nat
  <2>1. \A x \in Percent : x \in Nat
      BY DEF Percent
  <2>2. TopMargin \in Percent /\ PhotoMargin \in Percent /\ TopMin \in Percent /\ PhotoMin \in Percent
      BY ModerationAssumption
  <2>. QED
      BY <2>1, <2>2, ModerationAssumption
<1>2. /\ p[Photo] \in Nat /\ p[Photo] >= TopMin
      /\ \A c \in Drawn : p[c] \in Nat /\ p[Photo] - p[c] >= TopMargin /\ p[Photo] - p[c] >= PhotoMargin
  <2>1. \A c \in Class : p[c] \in Nat
      BY DEF Percent
  <2>2. Max({TopMargin, PhotoMargin}) >= TopMargin /\ Max({TopMargin, PhotoMargin}) >= PhotoMargin
        /\ Max({TopMargin, PhotoMargin}) \in Nat
      BY <1>1, GreaterOf
  <2>. QED
      BY <1>1, <2>1, <2>2 DEF Leads, Drawn
<1>3. best = Photo
    BY <1>1, <1>2 DEF Best, Drawn
<1>4. PICK conf : conf = Read(p, got)
    OBVIOUS
<1>5. /\ conf[Photo] = p[Photo]
      /\ \A c \in Drawn : conf[c] \in Nat /\ p[Photo] - conf[c] >= TopMargin /\ p[Photo] - conf[c] >= PhotoMargin
  <2>1. \A c \in Drawn : conf[c] = p[c] \/ (conf[c] = 0 /\ p[c] \in Nat)
      BY <1>2, <1>4 DEF Read, Drawn
  <2>. QED
      BY <1>1, <1>2, <1>4, <2>1 DEF Read
<1>6. \A c \in Class : conf[c] \in Percent
    BY <1>4 DEF Read, Percent
<1>7. PICK top, drawn : top = Max({conf[c] : c \in Class}) /\ drawn = Max({conf[c] : c \in Drawn})
    OBVIOUS
<1>8. top = p[Photo]
  <2>1. {conf[c] : c \in Class} \in SUBSET Percent /\ {conf[c] : c \in Class} # {}
      BY <1>1, <1>6
  <2>2. top \in {conf[c] : c \in Class} /\ \A x \in {conf[c] : c \in Class} : x <= top
      BY <1>7, <2>1, GreatestPercent
  <2>3. PICK c \in Class : top = conf[c]
      BY <2>2
  <2>4. conf[Photo] <= conf[c]
      BY <1>1, <2>2, <2>3
  <2>5. c \notin Drawn
      BY <1>1, <1>2, <1>5, <2>4
  <2>. QED
      BY <1>5, <2>3, <2>5 DEF Drawn
<1>9. top - drawn >= PhotoMargin
  <2>1. {conf[c] : c \in Drawn} \in SUBSET Percent /\ {conf[c] : c \in Drawn} # {}
      BY <1>1, <1>6 DEF Drawn
  <2>2. PICK c \in Drawn : drawn = conf[c]
      BY <1>7, <2>1, GreatestPercent
  <2>. QED
      BY <1>5, <1>8, <2>2
<1>10. ~(\E c, d \in Class : c # d /\ conf[c] = top /\ top - conf[d] < TopMargin)
  <2>. SUFFICES ASSUME NEW c \in Class, NEW d \in Class, c # d, conf[c] = top, top - conf[d] < TopMargin
                PROVE  FALSE
      OBVIOUS
  <2>1. c \notin Drawn
      BY <1>1, <1>2, <1>5, <1>8
  <2>2. d \notin Drawn
      BY <1>1, <1>2, <1>5, <1>8
  <2>. QED
      BY <2>1, <2>2 DEF Drawn
<1>11. ~(top < TopMin)
    BY <1>1, <1>2, <1>8
<1>12. conf[best] >= PhotoMin /\ conf[best] - drawn >= PhotoMargin
    BY <1>3, <1>5, <1>8, <1>9
<1>13. StyleOf(best, conf) = Photo
    BY <1>3, <1>7, <1>10, <1>11, <1>12 DEF StyleOf
<1>. QED
    BY <1>4, <1>5, <1>13

-----------------------------------------------------------------------------
(* What is published was judged.                                           *)

\* What a page can be marked with by the sidecar, and what there is to review.
Whys  == {"", "explicit", Photo}
Marks == Whys \cup {"graphic-violence"}

Stands  == {"idle", "send", "wait", "assess", "publish", "queue"} \cup Outcomes
PageNos == Nat \ {0}

Jobs == [at : Stands, pages : Seq(Page), asked : {Low, Mature, Explicit}, k : PageNos,
         score : Percent, remote : {0, Mature, Explicit},
         flags : SUBSET (PageNos \X Marks), seen : SUBSET PageNos, scored : SUBSET PageNos,
         rating : {0, Low, Mature, Explicit}, items : SUBSET (PageNos \X Marks)]

\* What the thresholds make of a page that looks photographic throughout.
Refusable(page) == Leads(page.p) /\ page.p[Photo] >= PhotoMax

\* The k-th page was let through: what there is to review about it is noted.
Clear(j, k) ==
    LET page == j.pages[k] IN
    /\ k \in j.seen =>
          /\ ~Refusable(page)
          /\ Leads(page.p) /\ page.p[Photo] >= PhotoMin => <<k, Photo>> \in j.flags
    /\ k \in j.scored =>
          /\ page.score >= ExplicitMin /\ page.score < ExplicitMax => <<k, "explicit">> \in j.flags
          /\ page.score >= ExplicitMax => j.score >= ExplicitMax

\* The pages that an answer has come for.
Passed(j) == IF j.at \in {"send", "wait"} THEN 1..(j.k - 1) ELSE 1..j.k

UploadInv(j) ==
    /\ j \in Jobs
    /\ j.at # "idle" => j.pages # <<>> /\ j.k \in DOMAIN j.pages
    /\ j.at \in {"idle", "failed", "blocked"} \/ \A k \in Passed(j) : Clear(j, k)
    /\ j.at \in {"send", "wait", "assess"} => j.seen \subseteq Passed(j) /\ j.scored \subseteq Passed(j)
    /\ j.at \in {"publish", "queue", "done"} => j.k = Len(j.pages)
    /\ j.at = "done" => j.flags = j.items
    /\ j.at \in {"queue", "done"} => j.rating = RatingOf(j.asked, j.remote, j.score)
    /\ j.rating # 0 => \A k \in DOMAIN j.pages : k \in j.seen => ~Refusable(j.pages[k])
    /\ j.at \in {"send", "wait", "assess", "publish"} => j.rating = 0

\* The style that a worker has found, and what it has read of a page that looks
\* photographic.
Found(style, got, p) ==
    \/ style = "unknown"
    \/ \E read \in SUBSET Class, best \in Best(p) :
          got = read \cap {Photo} /\ style = StyleOf(best, Read(p, read))

StyleFound(s) == Found(s.style, s.got, s.page.p)

\* What a worker does for an upload that waits, and for no other worker.
WorkerInv(s, j) ==
    /\ s.phase \in {"load", "classify", "judge", "reply"}
    /\ j.at = "wait" /\ s.page = j.pages[j.k]
    /\ s.phase \in {"judge", "reply"} => StyleFound(s)
    /\ s.phase = "reply" =>
          \E heard \in BOOLEAN :
              s.answer = Judged(s.style, Read(s.page.p, s.got), IF heard THEN s.page.score ELSE 0, heard)

ModerationInv ==
    /\ DOMAIN up = Upload /\ \A u \in Upload : UploadInv(up[u])
    /\ DOMAIN side = Worker
    /\ \A w \in Worker : DOMAIN side[w] = DOMAIN Fresh /\ side[w].client \in Upload \cup {Nobody}
    /\ \A w \in Worker : side[w].client # Nobody => WorkerInv(side[w], up[side[w].client])
    /\ \A w, v \in Worker : side[w].client = side[v].client /\ side[w].client # Nobody => w = v

\* The settings, in percent.
LEMMA Settings ==
    /\ {TopMin, TopMargin, StyleMin, PhotoMin, PhotoMax, PhotoMargin, ExplicitMin, ExplicitMax} \subseteq Percent
    /\ PhotoMin <= PhotoMax /\ ExplicitMin <= ExplicitMax
    /\ Photo \in Class /\ "unknown" \notin Class /\ "comic" # Photo
    /\ Archives \subseteq Seq(Page) \ {<<>>} /\ Asked \subseteq {Low, Mature, Explicit}
    /\ Nobody \notin Upload
    /\ 0 \in Percent /\ \A x \in Percent : x \in Nat
<1>1. "comic" # Photo
    BY DEF Photo
<1>2. 0 \in Percent /\ \A x \in Percent : x \in Nat
    BY DEF Percent
<1>. QED
    BY <1>1, <1>2, ModerationAssumption

\* An answer that lets a page through says what there is to review.
LEMMA JudgedPage ==
    ASSUME NEW page \in Page, NEW heard \in BOOLEAN, NEW style, NEW got, Found(style, got, page.p), NEW a,
           a = Judged(style, Read(page.p, got), IF heard THEN page.score ELSE 0, heard)
    PROVE  /\ a.why \in Whys /\ a.score \in Percent
           /\ Photo \in got /\ a.allow => ~Refusable(page)
           /\ Photo \in got /\ a.allow /\ Leads(page.p) /\ page.p[Photo] >= PhotoMin => a.why = Photo
           /\ a.heard => /\ a.score = page.score
                         /\ page.score >= ExplicitMin /\ page.score < ExplicitMax => a.why = "explicit"
<1>1. /\ page.p \in [Class -> Percent] /\ page.score \in Percent /\ page.p[Photo] \in Nat
      /\ PhotoMin \in Nat /\ PhotoMax \in Nat /\ PhotoMin <= PhotoMax
    BY Settings DEF Page
<1>2. PICK score : score = IF heard THEN page.score ELSE 0
    OBVIOUS
<1>3. score \in Percent
    BY <1>1, <1>2, Settings
<1>4. a.why \in Whys /\ a.score \in Percent
  <2>1. Photo \in Whys /\ "" \in Whys /\ "explicit" \in Whys /\ 0 \in Percent
      BY Settings DEF Whys
  <2>. QED
      BY <1>2, <1>3, <2>1 DEF Judged
<1>5. "unknown" # Photo /\ "unknown" \notin Allowed
    BY Settings DEF Allowed, Drawn
<1>6. ASSUME Photo \in got, Leads(page.p), page.p[Photo] >= PhotoMin, a.allow
      PROVE  a.why = Photo /\ page.p[Photo] < PhotoMax
  <2>1. style # "unknown"
      BY <1>5, <1>6 DEF Judged
  <2>2. PICK read \in SUBSET Class, best \in Best(page.p) :
            got = read \cap {Photo} /\ style = StyleOf(best, Read(page.p, read))
      BY <2>1 DEF Found
  <2>3. style = Photo
      BY <1>1, <1>6, <2>2, LeadingStyle
  <2>4. Photo \in Class
      BY Settings
  <2>5. Read(page.p, got)[Photo] = page.p[Photo]
      BY <1>6, <2>4 DEF Read
  <2>. QED
      BY <1>6, <2>3, <2>5 DEF Judged
<1>7. Photo \in got /\ a.allow => ~Refusable(page)
  <2>1. Refusable(page) => page.p[Photo] >= PhotoMin
      BY <1>1 DEF Refusable
  <2>. QED
      BY <1>1, <1>6, <2>1 DEF Refusable
<1>8. a.heard => /\ a.score = page.score
                 /\ page.score >= ExplicitMin /\ page.score < ExplicitMax => a.why = "explicit"
    BY <1>2 DEF Judged
<1>. QED
    BY <1>4, <1>6, <1>7, <1>8

\* An upload that no worker serves moves on, or one that is served hangs up.
LEMMA JobMoves ==
    ASSUME ModerationInv, NEW u \in Upload, NEW CONSTANT m, UploadInv(m), up' = [up EXCEPT ![u] = m],
           (side' = side /\ up[u].at # "wait") \/ side' = HungUp(u)
    PROVE  ModerationInv'
<1>1. DOMAIN up' = Upload /\ up'[u] = m /\ \A v \in Upload : v # u => up'[v] = up[v]
    BY DEF ModerationInv
<1>2. Nobody \notin Upload
    BY Settings
<1>3. CASE side' = side /\ up[u].at # "wait"
  <2>1. \A w \in Worker : side[w].client # Nobody => side[w].client # u
      BY <1>3 DEF ModerationInv, WorkerInv
  <2>. QED
      BY <1>1, <1>2, <1>3, <2>1 DEF ModerationInv
<1>4. CASE side' = HungUp(u)
  <2>1. /\ DOMAIN side' = Worker
        /\ \A w \in Worker : IF side[w].client = u
                             THEN side'[w] = [side[w] EXCEPT !.client = Nobody] ELSE side'[w] = side[w]
      BY <1>4 DEF HungUp, Served
  <2>2. \A w \in Worker : DOMAIN side'[w] = DOMAIN Fresh /\ side'[w].client \in Upload \cup {Nobody}
                          /\ (side'[w].client # Nobody =>
                                 side'[w] = side[w] /\ side[w].client # Nobody /\ side[w].client # u)
    <3>. SUFFICES ASSUME NEW w \in Worker
                  PROVE  DOMAIN side'[w] = DOMAIN Fresh /\ side'[w].client \in Upload \cup {Nobody}
                          /\ (side'[w].client # Nobody =>
                                 side'[w] = side[w] /\ side[w].client # Nobody /\ side[w].client # u)
        OBVIOUS
    <3>0. DOMAIN side[w] = DOMAIN Fresh /\ side[w].client \in Upload \cup {Nobody}
        BY DEF ModerationInv
    <3>1. CASE side[w].client = u
      <4>1. "client" \in DOMAIN side[w]
          BY DEF ModerationInv, Fresh
      <4>. QED
          BY <2>1, <3>0, <3>1, <4>1
    <3>2. CASE side[w].client # u
        BY <2>1, <3>0, <3>2
    <3>. QED
        BY <3>1, <3>2
  <2>3. \A w \in Worker : side'[w].client # Nobody => WorkerInv(side'[w], up'[side'[w].client])
    <3>. SUFFICES ASSUME NEW w \in Worker, side'[w].client # Nobody
                  PROVE  WorkerInv(side'[w], up'[side'[w].client])
        OBVIOUS
    <3>1. side'[w] = side[w] /\ side[w].client # u /\ side[w].client \in Upload
        BY <2>2
    <3>. QED
        BY <1>1, <3>1 DEF ModerationInv
  <2>4. \A w, v \in Worker : side'[w].client = side'[v].client /\ side'[w].client # Nobody => w = v
    <3>. SUFFICES ASSUME NEW w \in Worker, NEW v \in Worker, side'[w].client = side'[v].client,
                         side'[w].client # Nobody
                  PROVE  w = v
        OBVIOUS
    <3>1. side[w].client = side[v].client /\ side[w].client # Nobody
        BY <2>2
    <3>. QED
        BY <3>1 DEF ModerationInv
  <2>. QED
      BY <1>1, <2>1, <2>2, <2>3, <2>4 DEF ModerationInv
<1>. QED
    BY <1>3, <1>4

\* A worker goes on with the request it has.
LEMMA SideMoves ==
    ASSUME ModerationInv, NEW w \in Worker, NEW CONSTANT s, side' = [side EXCEPT ![w] = s], up' = up,
           DOMAIN s = DOMAIN Fresh, s.client = side[w].client,
           s.client # Nobody => WorkerInv(s, up[s.client])
    PROVE  ModerationInv'
<1>1. DOMAIN side' = Worker /\ side'[w] = s /\ \A v \in Worker : v # w => side'[v] = side[v]
    BY DEF ModerationInv
<1>2. \A v \in Worker : side'[v].client = side[v].client
    BY <1>1
<1>. QED
    BY <1>1, <1>2 DEF ModerationInv

\* A worker lets go of its request, which moves on.
LEMMA SideLeaves ==
    ASSUME ModerationInv, NEW w \in Worker, NEW CONSTANT s, side' = [side EXCEPT ![w] = s],
           DOMAIN s = DOMAIN Fresh, s.client = Nobody,
           NEW CONSTANT m, \A u \in Upload : u = side[w].client => UploadInv(m),
           DOMAIN up' = Upload, \A u \in Upload : up'[u] = IF u = side[w].client THEN m ELSE up[u]
    PROVE  ModerationInv'
<1>1. DOMAIN side' = Worker /\ side'[w] = s /\ \A v \in Worker : v # w => side'[v] = side[v]
    BY DEF ModerationInv
<1>2. \A u \in Upload : up'[u] = IF u = side[w].client THEN m ELSE up[u]
    OBVIOUS
<1>3. \A u \in Upload : UploadInv(up[u])'
    BY <1>2 DEF ModerationInv
<1>4. ASSUME NEW v \in Worker, side'[v].client # Nobody
      PROVE  v # w /\ side'[v] = side[v] /\ up'[side[v].client] = up[side[v].client]
  <2>1. v # w /\ side'[v] = side[v]
      BY <1>1, <1>4
  <2>2. side[v].client \in Upload /\ side[v].client # side[w].client
      BY <1>4, <2>1 DEF ModerationInv
  <2>. QED
      BY <1>2, <2>1, <2>2
<1>5. \A v \in Worker : DOMAIN side'[v] = DOMAIN Fresh /\ side'[v].client \in Upload \cup {Nobody}
    BY <1>1 DEF ModerationInv
<1>6. \A v \in Worker : side'[v].client # Nobody => WorkerInv(side'[v], up'[side'[v].client])
    BY <1>4 DEF ModerationInv
<1>7. \A v, x \in Worker : side'[v].client = side'[x].client /\ side'[v].client # Nobody => v = x
    BY <1>4 DEF ModerationInv
<1>. QED
    BY <1>1, <1>2, <1>3, <1>5, <1>6, <1>7 DEF ModerationInv

-----------------------------------------------------------------------------
(* The steps of an upload.                                                 *)

LEMMA NoJobFits == UploadInv(NoJob)
<1>1. NoJob \in Jobs
  <2>1. "idle" \in Stands /\ 1 \in PageNos /\ 0 \in Percent /\ <<>> \in Seq(Page)
      BY Settings DEF Stands, PageNos
  <2>. QED
      BY <2>1 DEF NoJob, Jobs
<1>. QED
    BY <1>1 DEF NoJob, UploadInv

\* The page is done with: the next one is sent, or all is published.
LEMMA AssessMoves ==
    ASSUME ModerationInv, NEW u \in Upload, Assess(u)
    PROVE  ModerationInv'
<1>1. PICK j \in Jobs : j = up[u] /\ UploadInv(j) /\ j.at = "assess"
    BY DEF ModerationInv, UploadInv, Assess
<1>2. PICK page : page = j.pages[j.k]
    OBVIOUS
<1>3. /\ j.pages \in Seq(Page) /\ DOMAIN j.pages = 1..Len(j.pages) /\ Len(j.pages) \in Nat
      /\ j.k \in 1..Len(j.pages) /\ page \in Page
    BY <1>1, <1>2 DEF UploadInv, Jobs
<1>4. PICK step, k : /\ step = (IF j.k = Len(j.pages) THEN "publish" ELSE "send")
                     /\ k = (IF j.k = Len(j.pages) THEN j.k ELSE j.k + 1)
    OBVIOUS
<1>5. PICK remote, flags :
          /\ up' = [up EXCEPT ![u] = [j EXCEPT !.at = step, !.k = k, !.remote = remote, !.flags = flags]]
          /\ \/ remote = Max({j.remote, page.suggest})
                /\ flags = j.flags \cup {f \in {<<j.k, "graphic-violence">>} : page.violent}
             \/ remote = j.remote /\ flags = j.flags
  <2>1. PICK next : next = [j EXCEPT !.at = step, !.k = k]
      OBVIOUS
  <2>2. \/ up' = [up EXCEPT ![u] = [next EXCEPT
                     !.remote = Max({@, page.suggest}),
                     !.flags = @ \cup {f \in {<<j.k, "graphic-violence">>} : page.violent}]]
        \/ up' = [up EXCEPT ![u] = next]
      BY <1>1, <1>2, <1>4, <2>1 DEF Assess, Current
  <2>3. \A r, f : [next EXCEPT !.remote = r, !.flags = f] = [j EXCEPT !.at = step, !.k = k, !.remote = r, !.flags = f]
      BY <2>1 DEF Jobs
  <2>4. next.remote = j.remote /\ next.flags = j.flags
        /\ next = [j EXCEPT !.at = step, !.k = k, !.remote = j.remote, !.flags = j.flags]
      BY <2>1 DEF Jobs
  <2>. QED
      BY <2>1, <2>2, <2>3, <2>4
<1>6. PICK m : m = [j EXCEPT !.at = step, !.k = k, !.remote = remote, !.flags = flags]
    OBVIOUS
<1>7. /\ m.at = step /\ m.k = k /\ m.flags = flags /\ m.pages = j.pages /\ m.seen = j.seen /\ m.scored = j.scored
      /\ m.score = j.score /\ m.items = j.items /\ m.rating = j.rating
    BY <1>6 DEF Jobs
<1>8. m \in Jobs
  <2>1. remote \in {0, Mature, Explicit}
    <3>1. j.remote \in {0, Mature, Explicit} /\ page.suggest \in {0, Mature, Explicit}
        BY <1>3 DEF Jobs, Page
    <3>2. Max({j.remote, page.suggest}) = IF j.remote <= page.suggest THEN page.suggest ELSE j.remote
        BY <3>1, GreaterOf DEF Mature, Explicit
    <3>. QED
        BY <1>5, <3>1, <3>2
  <2>2. flags \in SUBSET (PageNos \X Marks)
    <3>1. <<j.k, "graphic-violence">> \in PageNos \X Marks /\ j.flags \in SUBSET (PageNos \X Marks)
        BY DEF Jobs, Marks
    <3>. QED
        BY <1>5, <3>1
  <2>3. step \in Stands /\ k \in PageNos
      BY <1>3, <1>4 DEF Stands, PageNos
  <2>. QED
      BY <1>6, <2>1, <2>2, <2>3 DEF Jobs
<1>9. Passed(j) = 1..j.k /\ Passed(m) = 1..j.k
  <2>1. Passed(j) = 1..j.k
      BY <1>1 DEF Passed
  <2>2. step = "send" => k - 1 = j.k
      BY <1>3, <1>4
  <2>. QED
      BY <1>4, <1>7, <2>1, <2>2 DEF Passed
<1>10. \A n \in 1..j.k : Clear(m, n)
  <2>1. j.flags \subseteq flags
      BY <1>5
  <2>2. \A n \in 1..j.k : Clear(j, n)
      BY <1>1, <1>9 DEF UploadInv
  <2>. QED
      BY <1>7, <2>1, <2>2 DEF Clear
<1>11. UploadInv(m)
  <2>1. j.seen \subseteq 1..j.k /\ j.scored \subseteq 1..j.k /\ j.rating = 0 /\ j.pages # <<>>
      BY <1>1, <1>9 DEF UploadInv
  <2>2. k \in DOMAIN j.pages /\ (step = "publish" => k = Len(j.pages)) /\ step \in {"send", "publish"}
      BY <1>3, <1>4
  <2>. QED
      BY <1>7, <1>8, <1>9, <1>10, <2>1, <2>2 DEF UploadInv
<1>. QED
    BY <1>1, <1>5, <1>6, <1>11, JobMoves DEF Assess

LEMMA UploadMoves ==
    ASSUME ModerationInv, NEW u \in Upload,
           \/ \E pages \in Archives, asked \in Asked : Arrive(u, pages, asked)
           \/ Send(u) \/ Fail(u) \/ Assess(u) \/ Publish(u) \/ Enqueue(u) \/ Finish(u) \/ Depart(u)
    PROVE  ModerationInv'
<1>1. PICK j \in Jobs : j = up[u] /\ UploadInv(j)
    BY DEF ModerationInv, UploadInv
<1>2. ASSUME NEW pages \in Archives, NEW asked \in Asked, Arrive(u, pages, asked) PROVE ModerationInv'
  <2>1. PICK m : m = [NoJob EXCEPT !.at = "send", !.pages = pages, !.asked = asked]
      OBVIOUS
  <2>2. /\ m = [at |-> "send", pages |-> pages, asked |-> asked, k |-> 1, score |-> 0, remote |-> 0,
                flags |-> {}, seen |-> {}, scored |-> {}, rating |-> 0, items |-> {}]
        /\ pages \in Seq(Page) /\ pages # <<>> /\ asked \in {Low, Mature, Explicit}
      BY <2>1, Settings DEF NoJob
  <2>3. m \in Jobs
    <3>1. "send" \in Stands /\ 1 \in PageNos /\ 0 \in Percent
        BY Settings DEF Stands, PageNos
    <3>. QED
        BY <2>2, <3>1 DEF Jobs
  <2>4. UploadInv(m)
    <3>1. 1 \in DOMAIN pages /\ 1..(1 - 1) = {}
        BY <2>2
    <3>. QED
        BY <2>2, <2>3, <3>1 DEF UploadInv, Passed, Outcomes
  <2>5. up' = [up EXCEPT ![u] = m] /\ side' = side /\ up[u].at # "wait"
      BY <1>2, <2>1 DEF Arrive
  <2>. QED
      BY <2>4, <2>5, JobMoves
<1>3. CASE Send(u)
  <2>1. PICK m : m = [j EXCEPT !.at = "wait"]
      OBVIOUS
  <2>2. up' = [up EXCEPT ![u] = m] /\ side' = side /\ up[u].at # "wait" /\ j.at = "send"
      BY <1>1, <1>3, <2>1 DEF Send
  <2>3. m \in Jobs
      BY <2>1 DEF Jobs, Stands
  <2>4. UploadInv(m)
    <3>1. m.at = "wait" /\ m.k = j.k /\ m.pages = j.pages /\ m.flags = j.flags /\ m.seen = j.seen /\ m.scored = j.scored
          /\ m.score = j.score /\ m.rating = j.rating
        BY <2>1 DEF Jobs
    <3>2. Passed(m) = 1..(j.k - 1) /\ Passed(j) = 1..(j.k - 1)
        BY <2>2, <3>1 DEF Passed
    <3>3. \A k \in 1..(j.k - 1) : Clear(m, k)
        BY <1>1, <2>2, <3>1, <3>2 DEF UploadInv, Clear, Outcomes
    <3>. QED
        BY <1>1, <2>2, <2>3, <3>1, <3>2, <3>3 DEF UploadInv
  <2>. QED
      BY <2>2, <2>4, JobMoves
<1>4. CASE Fail(u)
  <2>1. PICK m : m = [j EXCEPT !.at = "failed"]
      OBVIOUS
  <2>2. up' = [up EXCEPT ![u] = m] /\ side' = HungUp(u) /\ j.at # "idle"
      BY <1>1, <1>4, <2>1 DEF Fail
  <2>3. m \in Jobs
      BY <2>1 DEF Jobs, Stands, Outcomes
  <2>4. UploadInv(m)
      BY <1>1, <2>1, <2>2, <2>3 DEF UploadInv, Outcomes, Jobs
  <2>. QED
      BY <2>2, <2>4, JobMoves
<1>5. CASE Publish(u)
  <2>1. PICK m : m = [j EXCEPT !.at = "queue", !.rating = RatingOf(j.asked, j.remote, j.score)]
      OBVIOUS
  <2>2. up' = [up EXCEPT ![u] = m] /\ side' = side /\ up[u].at # "wait" /\ j.at = "publish"
      BY <1>1, <1>5, <2>1 DEF Publish
  <2>3. m \in Jobs
    <3>1. RatingOf(j.asked, j.remote, j.score) \in {Low, Mature, Explicit}
      <4>1. PICK x \in {0, Mature, Explicit} : x = IF j.remote # 0 THEN j.remote ELSE SuggestedForScore(j.score)
          BY DEF Jobs, SuggestedForScore
      <4>2. j.asked \in {Low, Mature, Explicit}
          BY DEF Jobs
      <4>3. j.asked \in Nat /\ x \in Nat
          BY <4>1, <4>2 DEF Low, Mature, Explicit
      <4>4. Max({j.asked, x}) = IF j.asked <= x THEN x ELSE j.asked
          BY <4>3, GreaterOf
      <4>. QED
          BY <4>1, <4>2, <4>4 DEF RatingOf, Low, Mature, Explicit
    <3>. QED
        BY <2>1, <3>1 DEF Jobs, Stands
  <2>4. UploadInv(m)
    <3>1. j.k = Len(j.pages) /\ \A k \in 1..j.k : Clear(j, k)
        BY <1>1, <2>2 DEF UploadInv, Passed, Outcomes
    <3>2. DOMAIN j.pages = 1..Len(j.pages) /\ j.pages # <<>> /\ j.k \in DOMAIN j.pages
        BY <1>1, <2>2 DEF UploadInv, Jobs
    <3>3. \A k \in 1..j.k : Clear(m, k)
        BY <2>1, <3>1 DEF Clear, Jobs
    <3>4. \A k \in DOMAIN j.pages : k \in j.seen => ~Refusable(j.pages[k])
        BY <3>1, <3>2 DEF Clear
    <3>. QED
        BY <2>1, <2>3, <3>1, <3>2, <3>3, <3>4 DEF UploadInv, Passed, Outcomes, Jobs
  <2>. QED
      BY <2>2, <2>4, JobMoves
<1>6. CASE Enqueue(u)
  <2>1. PICK f \in j.flags \ j.items : up' = [up EXCEPT ![u] = [j EXCEPT !.items = @ \cup {f}]]
      BY <1>1, <1>6 DEF Enqueue, ModerationInv
  <2>2. PICK m : m = [j EXCEPT !.items = @ \cup {f}]
      OBVIOUS
  <2>3. up' = [up EXCEPT ![u] = m] /\ side' = side /\ up[u].at # "wait" /\ j.at = "queue"
      BY <1>1, <1>6, <2>1, <2>2 DEF Enqueue
  <2>4. m \in Jobs
      BY <2>1, <2>2 DEF Jobs
  <2>5. UploadInv(m)
    <3>1. j \in Jobs /\ UploadInv(j) /\ DOMAIN m = DOMAIN j
        BY <1>1, <2>2 DEF UploadInv, Jobs
    <3>2. /\ m.at = "queue" /\ m.pages = j.pages /\ m.k = j.k /\ m.seen = j.seen /\ m.scored = j.scored
          /\ m.rating = j.rating /\ m.asked = j.asked /\ m.remote = j.remote /\ m.score = j.score
          /\ m.flags = j.flags
        BY <2>2, <2>3, <3>1 DEF Jobs
    <3>3. Passed(m) = Passed(j) /\ \A k \in Passed(j) : Clear(j, k)
        BY <2>3, <3>1, <3>2 DEF Passed, UploadInv
    <3>4. \A k \in Passed(m) : Clear(m, k)
        BY <3>2, <3>3 DEF Clear
    <3>. QED
        BY <2>3, <2>4, <3>1, <3>2, <3>4 DEF UploadInv
  <2>. QED
      BY <2>3, <2>5, JobMoves
<1>7. CASE Finish(u)
  <2>1. PICK m : m = [j EXCEPT !.at = "done"]
      OBVIOUS
  <2>2. up' = [up EXCEPT ![u] = m] /\ side' = side /\ up[u].at # "wait" /\ j.at = "queue"
        /\ j.flags = j.items
      BY <1>1, <1>7, <2>1 DEF Finish
  <2>3. m \in Jobs
      BY <2>1 DEF Jobs, Stands, Outcomes
  <2>4. UploadInv(m)
      BY <1>1, <2>1, <2>2, <2>3 DEF UploadInv, Passed, Clear, Outcomes, Jobs
  <2>. QED
      BY <2>2, <2>4, JobMoves
<1>8. CASE Depart(u)
  <2>1. PICK m : m = NoJob
      OBVIOUS
  <2>2. up' = [up EXCEPT ![u] = m] /\ side' = side /\ up[u].at # "wait"
      BY <1>1, <1>8, <2>1 DEF Depart, Outcomes
  <2>3. UploadInv(m)
      BY <2>1, NoJobFits
  <2>. QED
      BY <2>2, <2>3, JobMoves
<1>9. CASE Assess(u)
    BY <1>9, AssessMoves
<1>. QED
    BY <1>2, <1>3, <1>4, <1>5, <1>6, <1>7, <1>8, <1>9

-----------------------------------------------------------------------------
(* The steps of a worker.                                                  *)

\* A free worker is nobody's, so the upload it takes is served by no other.
LEMMA AcceptMoves ==
    ASSUME ModerationInv, NEW w \in Worker, NEW u \in Upload, Accept(w, u)
    PROVE  ModerationInv'
<1>1. PICK s : s = [side[w] EXCEPT !.phase = "load", !.client = u, !.page = Current(u)]
    OBVIOUS
<1>2. side' = [side EXCEPT ![w] = s] /\ up' = up /\ up[u].at = "wait"
    BY <1>1 DEF Accept
<1>3. /\ DOMAIN s = DOMAIN Fresh /\ s.phase = "load" /\ s.client = u /\ s.page = up[u].pages[up[u].k]
    BY <1>1 DEF ModerationInv, Fresh, Current
<1>4. DOMAIN side' = Worker /\ side'[w] = s /\ \A v \in Worker : v # w => side'[v] = side[v]
    BY <1>2 DEF ModerationInv
<1>5. WorkerInv(s, up[u])
    BY <1>2, <1>3 DEF WorkerInv
<1>6. \A v \in Worker : side[v].client # u
    BY DEF Accept, Served
<1>7. \A v \in Worker : DOMAIN side'[v] = DOMAIN Fresh /\ side'[v].client \in Upload \cup {Nobody}
    BY <1>3, <1>4 DEF ModerationInv
<1>8. \A v \in Worker : side'[v].client # Nobody => WorkerInv(side'[v], up[side'[v].client])
    BY <1>3, <1>4, <1>5 DEF ModerationInv
<1>9. \A v, x \in Worker : side'[v].client = side'[x].client /\ side'[v].client # Nobody => v = x
    BY <1>3, <1>4, <1>6 DEF ModerationInv
<1>. QED
    BY <1>2, <1>4, <1>7, <1>8, <1>9 DEF ModerationInv

\* Loading changes what is loaded and when it is tried again, no more.
LEMMA Loaded ==
    ASSUME NEW s, DOMAIN s = DOMAIN Fresh, NEW backendOk, NEW styleOk
    PROVE  LET t == Ensured(s, backendOk, styleOk)
           IN  /\ DOMAIN t = DOMAIN Fresh /\ t.phase = s.phase /\ t.client = s.client
               /\ t.page = s.page /\ t.style = s.style /\ t.got = s.got /\ t.answer = s.answer
BY DEF Ensured, Fresh

LEMMA LoadMoves ==
    ASSUME ModerationInv, NEW w \in Worker, NEW backendOk \in BOOLEAN, NEW styleOk \in BOOLEAN,
           Load(w, backendOk, styleOk)
    PROVE  ModerationInv'
<1>1. PICK t : t = Ensured(side[w], backendOk, styleOk)
    OBVIOUS
<1>2. /\ DOMAIN side[w] = DOMAIN Fresh
      /\ DOMAIN t = DOMAIN Fresh /\ t.phase = side[w].phase /\ t.client = side[w].client
      /\ t.page = side[w].page /\ t.style = side[w].style
    BY <1>1, Loaded DEF ModerationInv
<1>3. PICK s : s = IF t.phase = "start" THEN [t EXCEPT !.phase = "free"]
                   ELSE IF t.loaded THEN [t EXCEPT !.phase = "classify"]
                        ELSE [t EXCEPT !.phase = "judge", !.style = "unknown"]
    OBVIOUS
<1>4. side' = [side EXCEPT ![w] = s] /\ up' = up /\ side[w].phase \in {"start", "load"}
    BY <1>1, <1>3 DEF Load
<1>5. DOMAIN s = DOMAIN Fresh /\ s.client = side[w].client /\ s.page = side[w].page
      /\ (side[w].phase # "start" => (s.phase = "classify" \/ (s.phase = "judge" /\ s.style = "unknown")))
    BY <1>2, <1>3 DEF Fresh
<1>6. ASSUME side[w].client # Nobody PROVE WorkerInv(s, up[side[w].client])
  <2>1. WorkerInv(side[w], up[side[w].client])
      BY <1>6 DEF ModerationInv
  <2>2. side[w].phase # "start"
      BY <2>1 DEF WorkerInv
  <2>. QED
      BY <1>5, <2>1, <2>2 DEF WorkerInv, StyleFound, Found
<1>. QED
    BY <1>4, <1>5, <1>6, SideMoves

LEMMA ClassifyMoves ==
    ASSUME ModerationInv, NEW w \in Worker, Classify(w)
    PROVE  ModerationInv'
<1>1. PICK style, got :
          /\ side' = [side EXCEPT ![w].phase = "judge", ![w].style = style, ![w].got = got]
          /\ Found(style, got, side[w].page.p)
  <2>1. PICK read \in SUBSET Class, best \in Best(side[w].page.p) :
            \E style \in {StyleOf(best, Read(side[w].page.p, read)), "unknown"} :
                side' = [side EXCEPT ![w].phase = "judge", ![w].style = style,
                                     ![w].got = read \cap {Photo}]
      BY DEF Classify
  <2>2. PICK style : /\ style \in {StyleOf(best, Read(side[w].page.p, read)), "unknown"}
                     /\ side' = [side EXCEPT ![w].phase = "judge", ![w].style = style,
                                            ![w].got = read \cap {Photo}]
      BY <2>1
  <2>3. PICK got : got = read \cap {Photo}
      OBVIOUS
  <2>4. Found(style, got, side[w].page.p)
      BY <2>2, <2>3 DEF Found
  <2>5. side' = [side EXCEPT ![w].phase = "judge", ![w].style = style, ![w].got = got]
      BY <2>2, <2>3
  <2>. QED
      BY <2>4, <2>5
<1>2. PICK s : s = [side[w] EXCEPT !.phase = "judge", !.style = style, !.got = got]
    OBVIOUS
<1>3. side' = [side EXCEPT ![w] = s] /\ up' = up
    BY <1>1, <1>2 DEF Classify, ModerationInv
<1>4. DOMAIN s = DOMAIN Fresh /\ s.client = side[w].client /\ s.page = side[w].page
      /\ s.phase = "judge" /\ s.style = style /\ s.got = got
    BY <1>2 DEF ModerationInv, Fresh
<1>5. ASSUME side[w].client # Nobody PROVE WorkerInv(s, up[side[w].client])
  <2>1. WorkerInv(side[w], up[side[w].client])
      BY <1>5 DEF ModerationInv
  <2>. QED
      BY <1>1, <1>4, <2>1 DEF WorkerInv, StyleFound
<1>. QED
    BY <1>3, <1>4, <1>5, SideMoves

LEMMA JudgeMoves ==
    ASSUME ModerationInv, NEW w \in Worker, Judge(w)
    PROVE  ModerationInv'
<1>1. PICK heard \in BOOLEAN :
          side' = [side EXCEPT ![w].phase = "reply",
              ![w].answer = Judged(side[w].style, Read(side[w].page.p, side[w].got),
                                   IF heard THEN side[w].page.score ELSE 0, heard)]
    BY DEF Judge
<1>2. PICK s : s = [side[w] EXCEPT !.phase = "reply",
              !.answer = Judged(side[w].style, Read(side[w].page.p, side[w].got),
                                IF heard THEN side[w].page.score ELSE 0, heard)]
    OBVIOUS
<1>3. side' = [side EXCEPT ![w] = s] /\ up' = up /\ side[w].phase = "judge"
    BY <1>1, <1>2 DEF Judge, ModerationInv
<1>4. DOMAIN s = DOMAIN Fresh /\ s.client = side[w].client /\ s.page = side[w].page
      /\ s.phase = "reply" /\ s.style = side[w].style /\ s.got = side[w].got
      /\ s.answer = Judged(s.style, Read(s.page.p, s.got), IF heard THEN s.page.score ELSE 0, heard)
    BY <1>2 DEF ModerationInv, Fresh
<1>5. ASSUME side[w].client # Nobody PROVE WorkerInv(s, up[side[w].client])
  <2>1. WorkerInv(side[w], up[side[w].client])
      BY <1>5 DEF ModerationInv
  <2>. QED
      BY <1>3, <1>4, <2>1 DEF WorkerInv, StyleFound
<1>. QED
    BY <1>3, <1>4, <1>5, SideMoves

\* Its cool-downs are all that time changes in a worker.
LEMMA TickMoves ==
    ASSUME ModerationInv, Tick
    PROVE  ModerationInv'
<1>1. /\ up' = up /\ DOMAIN side' = Worker
      /\ \A w \in Worker : side'[w] = [side[w] EXCEPT !.cool = Max({0, @ - 1}),
                                                      !.backendCool = Max({0, @ - 1})]
    BY DEF Tick
<1>2. \A w \in Worker : /\ DOMAIN side'[w] = DOMAIN side[w] /\ side'[w].phase = side[w].phase
                        /\ side'[w].client = side[w].client /\ side'[w].page = side[w].page
                        /\ side'[w].style = side[w].style /\ side'[w].answer = side[w].answer
                        /\ side'[w].got = side[w].got
  <2>. SUFFICES ASSUME NEW w \in Worker
                PROVE  /\ DOMAIN side'[w] = DOMAIN side[w] /\ side'[w].phase = side[w].phase
                       /\ side'[w].client = side[w].client /\ side'[w].page = side[w].page
                       /\ side'[w].style = side[w].style /\ side'[w].answer = side[w].answer
                       /\ side'[w].got = side[w].got
      OBVIOUS
  <2>1. PICK cool, backendCool : cool = Max({0, side[w].cool - 1})
                                 /\ backendCool = Max({0, side[w].backendCool - 1})
      OBVIOUS
  <2>2. side'[w] = [side[w] EXCEPT !.cool = cool, !.backendCool = backendCool]
      BY <1>1, <2>1, Zenon
  <2>3. DOMAIN side[w] = DOMAIN Fresh
      BY DEF ModerationInv
  <2>. QED
      BY <2>2, <2>3 DEF Fresh
<1>3. ASSUME NEW w \in Worker, side'[w].client # Nobody
      PROVE  WorkerInv(side'[w], up[side'[w].client])
  <2>1. WorkerInv(side[w], up[side[w].client])
      BY <1>2, <1>3 DEF ModerationInv
  <2>. QED
      BY <1>2, <2>1 DEF WorkerInv, StyleFound
<1>4. \A w, v \in Worker : side'[w].client = side'[v].client /\ side'[w].client # Nobody => w = v
    BY <1>2 DEF ModerationInv
<1>5. \A w \in Worker : DOMAIN side'[w] = DOMAIN Fresh /\ side'[w].client \in Upload \cup {Nobody}
    BY <1>2 DEF ModerationInv
<1>. QED
    BY <1>1, <1>3, <1>4, <1>5 DEF ModerationInv

\* What an upload makes of an answer, and of what its worker has read.
Told(j, a, got) ==
    [j EXCEPT !.at = IF a.allow THEN "assess" ELSE "blocked",
              !.score = Max({@, a.score}),
              !.flags = IF a.allow /\ a.why # "" THEN @ \cup {<<j.k, a.why>>} ELSE @,
              !.seen = IF Photo \in got THEN @ \cup {j.k} ELSE @,
              !.scored = IF a.heard THEN @ \cup {j.k} ELSE @]

\* An upload that has been answered: a page that was let through is clear.
LEMMA Heard ==
    ASSUME NEW CONSTANT j, UploadInv(j), NEW CONSTANT s, WorkerInv(s, j), s.phase = "reply",
           NEW CONSTANT a, a = s.answer, NEW CONSTANT m,
           m = Told(j, a, s.got)
    PROVE  UploadInv(m)
<1>1. /\ j \in Jobs /\ j.at = "wait" /\ j.k \in DOMAIN j.pages /\ j.rating = 0 /\ j.pages # <<>>
      /\ j.seen \subseteq 1..(j.k - 1) /\ j.scored \subseteq 1..(j.k - 1)
      /\ \A k \in 1..(j.k - 1) : Clear(j, k)
    BY DEF UploadInv, WorkerInv, Passed, Outcomes
<1>2. PICK page : page = j.pages[j.k]
    OBVIOUS
<1>3. /\ page \in Page /\ j.k \in PageNos /\ j.score \in Percent /\ j.pages \in Seq(Page)
      /\ j.flags \in SUBSET (PageNos \X Marks) /\ j.seen \in SUBSET PageNos
      /\ j.scored \in SUBSET PageNos
    BY <1>1, <1>2 DEF Jobs
<1>4. /\ a.why \in Whys /\ a.score \in Percent
      /\ Photo \in s.got /\ a.allow => ~Refusable(page)
      /\ Photo \in s.got /\ a.allow /\ Leads(page.p) /\ page.p[Photo] >= PhotoMin => a.why = Photo
      /\ a.heard => /\ a.score = page.score
                    /\ page.score >= ExplicitMin /\ page.score < ExplicitMax => a.why = "explicit"
  <2>1. PICK heard \in BOOLEAN : a = Judged(s.style, Read(page.p, s.got), IF heard THEN page.score ELSE 0, heard)
      BY <1>2 DEF WorkerInv
  <2>2. Found(s.style, s.got, page.p)
      BY <1>2 DEF WorkerInv, StyleFound
  <2>. QED
      BY <1>3, <2>1, <2>2, JudgedPage
<1>5. PICK score : score = Max({j.score, a.score})
    OBVIOUS
<1>6. score \in Percent /\ score >= j.score /\ score >= a.score
      /\ score \in Nat /\ j.score \in Nat /\ a.score \in Nat /\ ExplicitMax \in Nat
  <2>1. j.score \in Nat /\ a.score \in Nat /\ ExplicitMax \in Nat
      BY <1>3, <1>4, Settings
  <2>2. score = IF j.score <= a.score THEN a.score ELSE j.score
      BY <1>5, <2>1, GreaterOf
  <2>. QED
      BY <1>3, <1>4, <2>1, <2>2
<1>7. PICK at, flags, seen, scored :
          /\ at = (IF a.allow THEN "assess" ELSE "blocked")
          /\ flags = (IF a.allow /\ a.why # "" THEN j.flags \cup {<<j.k, a.why>>} ELSE j.flags)
          /\ seen = (IF Photo \in s.got THEN j.seen \cup {j.k} ELSE j.seen)
          /\ scored = (IF a.heard THEN j.scored \cup {j.k} ELSE j.scored)
    OBVIOUS
<1>8. m = [j EXCEPT !.at = at, !.score = score, !.flags = flags, !.seen = seen, !.scored = scored]
    BY <1>5, <1>7 DEF Told
<1>9. /\ m.at = at /\ m.score = score /\ m.flags = flags /\ m.seen = seen /\ m.scored = scored
      /\ m.k = j.k /\ m.pages = j.pages /\ m.rating = j.rating
    BY <1>1, <1>8 DEF Jobs
<1>10. m \in Jobs
  <2>1. at \in Stands
      BY <1>7 DEF Stands, Outcomes
  <2>2. flags \in SUBSET (PageNos \X Marks)
    <3>1. <<j.k, a.why>> \in PageNos \X Marks
        BY <1>3, <1>4 DEF Marks
    <3>. QED
        BY <1>3, <1>7, <3>1
  <2>3. seen \in SUBSET PageNos /\ scored \in SUBSET PageNos
      BY <1>3, <1>7
  <2>4. m = [at |-> at, pages |-> j.pages, asked |-> j.asked, k |-> j.k, score |-> score,
             remote |-> j.remote, flags |-> flags, seen |-> seen, scored |-> scored, rating |-> j.rating,
             items |-> j.items]
      BY <1>1, <1>8 DEF Jobs
  <2>5. /\ j.pages \in Seq(Page) /\ j.asked \in {Low, Mature, Explicit} /\ j.k \in PageNos
        /\ j.remote \in {0, Mature, Explicit} /\ j.rating \in {0, Low, Mature, Explicit}
        /\ j.items \in SUBSET (PageNos \X Marks)
      BY <1>1 DEF Jobs
  <2>. QED
      BY <1>6, <2>1, <2>2, <2>3, <2>4, <2>5 DEF Jobs
<1>11. /\ j.flags \subseteq flags /\ seen \subseteq 1..j.k /\ scored \subseteq 1..j.k
       /\ j.k \notin j.seen /\ j.k \notin j.scored
       /\ seen = j.seen \/ (seen = j.seen \cup {j.k} /\ Photo \in s.got)
       /\ scored = j.scored \/ (scored = j.scored \cup {j.k} /\ a.heard)
  <2>1. 1..j.k = 1..(j.k - 1) \cup {j.k} /\ j.k \notin 1..(j.k - 1)
      BY <1>3 DEF PageNos
  <2>2. scored = j.scored \/ (scored = j.scored \cup {j.k} /\ a.heard)
      BY <1>7, Zenon
  <2>3. seen = j.seen \/ (seen = j.seen \cup {j.k} /\ Photo \in s.got)
      BY <1>7, Zenon
  <2>4. j.flags \subseteq flags
      BY <1>7
  <2>. QED
      BY <1>1, <2>1, <2>2, <2>3, <2>4
<1>12. ASSUME a.allow, NEW k \in 1..j.k PROVE Clear(m, k)
  <2>1. CASE k = j.k
    <3>0. k \in seen => Photo \in s.got
        BY <1>11, <2>1
    <3>1. Photo \in s.got => ~Refusable(page)
        BY <1>4, <1>12
    <3>2. Photo \in s.got /\ Leads(page.p) /\ page.p[Photo] >= PhotoMin => <<k, Photo>> \in flags
        BY <1>4, <1>7, <1>12, <2>1 DEF Photo
    <3>3. k \in scored => a.heard
        BY <1>11, <2>1
    <3>4. a.heard /\ page.score >= ExplicitMin /\ page.score < ExplicitMax => <<k, "explicit">> \in flags
        BY <1>4, <1>7, <1>12, <2>1
    <3>5. a.heard /\ page.score >= ExplicitMax => score >= ExplicitMax
        BY <1>4, <1>6
    <3>. QED
        BY <1>2, <1>9, <2>1, <3>0, <3>1, <3>2, <3>3, <3>4, <3>5 DEF Clear
  <2>2. CASE k # j.k
    <3>1. k \in 1..(j.k - 1) /\ Clear(j, k)
        BY <1>1, <1>3, <2>2 DEF PageNos
    <3>2. (k \in seen => k \in j.seen) /\ (k \in scored => k \in j.scored)
        BY <1>7, <2>2
    <3>3. j.score >= ExplicitMax => score >= ExplicitMax
        BY <1>6
    <3>. QED
        BY <1>9, <1>11, <3>1, <3>2, <3>3 DEF Clear
  <2>. QED
      BY <2>1, <2>2
<1>13. CASE a.allow
  <2>1. at = "assess" /\ Passed(m) = 1..j.k
      BY <1>7, <1>9, <1>13 DEF Passed
  <2>. QED
      BY <1>1, <1>9, <1>10, <1>11, <1>12, <1>13, <2>1 DEF UploadInv
<1>14. CASE ~a.allow
  <2>1. at = "blocked"
      BY <1>7, <1>14
  <2>. QED
      BY <1>1, <1>9, <1>10, <2>1 DEF UploadInv
<1>. QED
    BY <1>13, <1>14

\* The answer goes to the upload that the worker was asked by, if it is there.
LEMMA ReplyMoves ==
    ASSUME ModerationInv, NEW w \in Worker, Reply(w)
    PROVE  ModerationInv'
<1>1. PICK a, c : a = side[w].answer /\ c = side[w].client
    OBVIOUS
<1>2. PICK m : m = Told(up[c], a, side[w].got)
    OBVIOUS
<1>3. PICK s : s = [side[w] EXCEPT !.phase = "free", !.client = Nobody,
                                   !.page = <<>>, !.style = "", !.got = {}, !.answer = <<>>]
    OBVIOUS
<1>4. side' = [side EXCEPT ![w] = s] /\ side[w].phase = "reply"
    BY <1>3 DEF Reply, ModerationInv
<1>5. DOMAIN s = DOMAIN Fresh /\ s.client = Nobody
    BY <1>3 DEF ModerationInv, Fresh
<1>6. c \in Upload \cup {Nobody} /\ Nobody \notin Upload /\ DOMAIN up = Upload
    BY <1>1, Settings DEF ModerationInv
<1>7. up' = [u \in Upload |-> IF u \in {c} \ {Nobody} THEN Told(up[u], a, side[w].got) ELSE up[u]]
    BY <1>1 DEF Reply, Receiver, Told
<1>8. DOMAIN up' = Upload
    BY <1>7
<1>9. \A u \in Upload : u = c => up'[u] = m
    BY <1>2, <1>6, <1>7
<1>10. \A u \in Upload : up'[u] = IF u = c THEN m ELSE up[u]
  <2>1. \A u \in Upload : u # c => up'[u] = up[u]
      BY <1>7
  <2>. QED
      BY <1>6, <1>9, <2>1
<1>11. ASSUME c \in Upload PROVE UploadInv(m)
  <2>1. UploadInv(up[c]) /\ WorkerInv(side[w], up[c])
    <3>1. side[w].client = c /\ c # Nobody
        BY <1>1, <1>6, <1>11
    <3>. QED
        BY <1>11, <3>1 DEF ModerationInv
  <2>2. PICK j, t : /\ j = up[c] /\ t = side[w]
                    /\ UploadInv(j) /\ WorkerInv(t, j) /\ t.phase = "reply" /\ a = t.answer
      BY <1>1, <1>4, <2>1
  <2>3. m = Told(j, a, t.got)
      BY <1>2, <2>2
  <2>. QED
      BY <2>2, <2>3, Heard
<1>. QED
    BY <1>1, <1>4, <1>5, <1>8, <1>10, <1>11, SideLeaves

\* The upload that a recycled worker served fails.
LEMMA RecycleMoves ==
    ASSUME ModerationInv, NEW w \in Worker, Recycle(w)
    PROVE  ModerationInv'
<1>1. PICK c : c = side[w].client
    OBVIOUS
<1>2. PICK m : m = [up[c] EXCEPT !.at = "failed"]
    OBVIOUS
<1>3. PICK s : s = Fresh
    OBVIOUS
<1>4. side' = [side EXCEPT ![w] = s] /\ DOMAIN s = DOMAIN Fresh /\ s.client = Nobody
    BY <1>3 DEF Recycle, Fresh
<1>5. c \in Upload \cup {Nobody} /\ Nobody \notin Upload /\ DOMAIN up = Upload
    BY <1>1, Settings DEF ModerationInv
<1>6. up' = [u \in Upload |-> IF u = c THEN m ELSE up[u]]
    BY <1>1, <1>2 DEF Recycle
<1>7. DOMAIN up' = Upload
    BY <1>6
<1>8. \A u \in Upload : up'[u] = IF u = c THEN m ELSE up[u]
    BY <1>6
<1>9. ASSUME c \in Upload PROVE UploadInv(m)
  <2>1. PICK j \in Jobs : j = up[c] /\ UploadInv(j) /\ j.at = "wait"
      BY <1>1, <1>5, <1>9 DEF ModerationInv, UploadInv, WorkerInv
  <2>2. m \in Jobs
      BY <1>2, <2>1 DEF Jobs, Stands, Outcomes
  <2>. QED
      BY <1>2, <2>1, <2>2 DEF UploadInv, Outcomes, Jobs
<1>. QED
    BY <1>1, <1>4, <1>7, <1>8, <1>9, SideLeaves

-----------------------------------------------------------------------------
(* The invariant and what follows from it.                                 *)

LEMMA ModerationStarts == ModerationInit => ModerationInv
<1>. SUFFICES ASSUME ModerationInit PROVE ModerationInv
    OBVIOUS
<1>1. DOMAIN up = Upload /\ \A u \in Upload : up[u] = NoJob
    BY DEF ModerationInit
<1>2. DOMAIN side = Worker /\ \A w \in Worker : side[w] = Fresh
    BY DEF ModerationInit
<1>3. Fresh.client = Nobody
    BY DEF Fresh
<1>. QED
    BY <1>1, <1>2, <1>3, NoJobFits DEF ModerationInv

LEMMA ModerationSteps ==
    ASSUME ModerationInv, [ModerationNext]_moderationVars
    PROVE  ModerationInv'
<1>1. ASSUME NEW u \in Upload, NEW pages \in Archives, NEW asked \in Asked, Arrive(u, pages, asked)
      PROVE  ModerationInv'
    BY <1>1, UploadMoves
<1>2. ASSUME NEW u \in Upload,
             Send(u) \/ Fail(u) \/ Assess(u) \/ Publish(u) \/ Enqueue(u) \/ Finish(u) \/ Depart(u)
      PROVE  ModerationInv'
    BY <1>2, UploadMoves
<1>3. ASSUME NEW w \in Worker, NEW u \in Upload, Accept(w, u) PROVE ModerationInv'
    BY <1>3, AcceptMoves
<1>4. ASSUME NEW w \in Worker, Serve(w) \/ Recycle(w) PROVE ModerationInv'
    BY <1>4, LoadMoves, ClassifyMoves, JudgeMoves, ReplyMoves, RecycleMoves DEF Serve
<1>5. CASE Tick
    BY <1>5, TickMoves
<1>6. CASE UNCHANGED moderationVars
    BY <1>6 DEF moderationVars, ModerationInv
<1>. QED
    BY <1>1, <1>2, <1>3, <1>4, <1>5, <1>6 DEF ModerationNext

\* Every upload keeps what it was told about every page it has passed, and a
\* worker that serves one works on the page that it waits for.
THEOREM ModerationInvariant == ModerationSafeSpec => []ModerationInv
BY ModerationStarts, ModerationSteps, PTL DEF ModerationSafeSpec

\* However many uploads and workers there are, whatever the thresholds and the
\* pages, and whatever is late or lost on the way: nothing is published that
\* the classifier has read and the thresholds refuse, and all that it has read
\* and that is to be reviewed is in the review queue.
THEOREM PublishedIsJudged == ModerationSafeSpec => []PublishedAsJudged
<1>1. ASSUME ModerationInv, NEW u \in Upload, NEW k \in DOMAIN up[u].pages, up[u].rating # 0, k \in up[u].seen
      PROVE  ~Refusable(up[u].pages[k])
    BY <1>1 DEF ModerationInv, UploadInv
<1>2. ASSUME ModerationInv, NEW u \in Upload, NEW k \in DOMAIN up[u].pages, up[u].at = "done"
      PROVE  LET j    == up[u]
                 page == j.pages[k]
             IN  /\ k \in j.seen /\ Leads(page.p) /\ page.p[Photo] >= PhotoMin => <<k, Photo>> \in j.items
                 /\ k \in j.scored =>
                       /\ page.score >= ExplicitMin /\ page.score < ExplicitMax
                             => <<k, "explicit">> \in j.items
                       /\ page.score >= ExplicitMax => j.rating = Explicit \/ j.remote # 0
  <2>1. PICK j \in Jobs : j = up[u] /\ UploadInv(j) /\ j.at = "done"
      BY <1>2 DEF ModerationInv, UploadInv
  <2>2. j.k = Len(j.pages) /\ j.flags = j.items /\ j.rating = RatingOf(j.asked, j.remote, j.score)
      BY <2>1 DEF UploadInv
  <2>3. k \in 1..j.k
      BY <1>2, <2>1, <2>2 DEF Jobs
  <2>4. Clear(j, k)
      BY <2>1, <2>3 DEF UploadInv, Passed
  <2>5. ASSUME j.score >= ExplicitMax, j.remote = 0 PROVE j.rating = Explicit
    <3>1. j.rating = Max({j.asked, Explicit})
        BY <2>2, <2>5 DEF RatingOf, SuggestedForScore
    <3>2. j.asked \in Nat /\ Explicit \in Nat /\ j.asked <= Explicit
        BY DEF Jobs, Low, Mature, Explicit
    <3>. QED
        BY <3>1, <3>2, GreaterOf
  <2>. QED
      BY <2>1, <2>2, <2>4, <2>5 DEF Clear
<1>3. ModerationInv => PublishedAsJudged
    BY <1>1, <1>2 DEF PublishedAsJudged, Refusable
<1>. QED
    BY <1>3, ModerationInvariant, PTL
=============================================================================
