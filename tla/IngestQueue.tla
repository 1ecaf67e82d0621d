---------------------------- MODULE IngestQueue ----------------------------
(***************************************************************************)
(* The comic ingest queue of cylinder_sites/common/rate_limit.py: a lock,  *)
(* its condition variable, and two counters.  begin_comic_ingest_session   *)
(* blocks the calling thread until a slot is free or its deadline passed;  *)
(* end_comic_ingest_session gives the slot back and notifies one waiter.   *)
(*                                                                         *)
(* Everything between acquiring the lock and releasing it (by leaving the  *)
(* with-block or by condition.wait) is one step.  threading.Condition is   *)
(* modelled by its contract: notify removes some thread of the wait set; a *)
(* thread that timed out stays in the wait set until it holds the lock     *)
(* again, so it can still consume a notification.                          *)
(***************************************************************************)
EXTENDS Integers, FiniteSets

CONSTANTS Thread,         \* threads that call begin and end
          MaxConcurrent   \* COMIC_INGEST_MAX_CONCURRENT, unlimited when <= 0

ASSUME QueueAssumption ==
    /\ IsFiniteSet(Thread)
    /\ MaxConcurrent \in Int

VARIABLES pc,        \* pc[t]: "idle", "queued" (inside begin) or "running"
          active,    \* _ComicIngestQueueState.active
          waiting,   \* _ComicIngestQueueState.waiting
          waitSet,   \* the threads asleep in condition.wait, not yet notified
          expired    \* the queued threads whose deadline has passed

vars == <<pc, active, waiting, waitSet, expired>>

Queued  == {t \in Thread : pc[t] = "queued"}
Running == {t \in Thread : pc[t] = "running"}

\* The threads that are awake inside begin, about to test the loop condition.
Pending == Queued \ waitSet

Unlimited == MaxConcurrent <= 0
Full      == ~Unlimited /\ active >= MaxConcurrent

-----------------------------------------------------------------------------
(* The steps of the two functions.                                         *)

Init ==
    /\ pc = [t \in Thread |-> "idle"]
    /\ active = 0
    /\ waiting = 0
    /\ waitSet = {}
    /\ expired = {}

\* A slot is free: the while loop is not entered, whoever else is waiting.
\* Without a limit begin answers "allowed" before it touches the state.
BeginFree(t) ==
    /\ ~Full
    /\ pc[t] = "idle"
    /\ pc' = [pc EXCEPT ![t] = "running"]
    /\ active' = IF Unlimited THEN active ELSE active + 1
    /\ UNCHANGED <<waiting, waitSet, expired>>

\* No slot: the thread counts itself as waiting and sleeps.
BeginQueue(t) ==
    /\ Full
    /\ pc[t] = "idle"
    /\ pc' = [pc EXCEPT ![t] = "queued"]
    /\ waiting' = waiting + 1
    /\ waitSet' = waitSet \cup {t}
    /\ UNCHANGED <<active, expired>>

\* time.time() goes past the deadline of a queued thread.
DeadlinePasses(t) ==
    /\ pc[t] = "queued"
    /\ t \notin expired
    /\ expired' = expired \cup {t}
    /\ UNCHANGED <<pc, active, waiting, waitSet>>

\* condition.wait can return: notified, or timed out.
Awake(t) == pc[t] = "queued" /\ (t \notin waitSet \/ t \in expired)

(* Seeded faults, one plausible slip each.  A mutant puts one of them in     *)
(* place of TakeSlot, GiveUp or End; the specification never uses them.      *)

\* "if" in place of "while": the condition is not tested again.
FaultTakeSlotUntested(t) ==
    /\ Awake(t)
    /\ pc' = [pc EXCEPT ![t] = "running"]
    /\ active' = active + 1
    /\ waiting' = waiting - 1
    /\ waitSet' = waitSet \ {t}
    /\ expired' = expired \ {t}

\* A thread that timed out is left in the wait set.
FaultTakeSlotStaysAsleep(t) ==
    /\ Awake(t)
    /\ ~Full
    /\ pc' = [pc EXCEPT ![t] = "running"]
    /\ active' = active + 1
    /\ waiting' = waiting - 1
    /\ expired' = expired \ {t}
    /\ UNCHANGED waitSet

FaultGiveUp(t, slots, count) ==
    /\ Awake(t)
    /\ t \in expired
    /\ pc' = [pc EXCEPT ![t] = "idle"]
    /\ active' = active - slots
    /\ waiting' = waiting - count
    /\ waitSet' = waitSet \ {t}
    /\ expired' = expired \ {t}

\* The deadline is tested before the slots are.
FaultGiveUpUntested(t) == FaultGiveUp(t, 0, 1)

\* The cleanup of a refused thread gives back a slot it never had.
FaultGiveUpReleases(t) == Full /\ FaultGiveUp(t, 1, 1)

\* The refusal returns without undoing the increment of waiting.
FaultGiveUpStillCounted(t) == Full /\ FaultGiveUp(t, 0, 0)

\* The deadline is looked at only when a notification arrives.
FaultGiveUpOnlyNotified(t) == Full /\ t \notin waitSet /\ FaultGiveUp(t, 0, 1)

\* The slot is given back in silence.
FaultEndSilent(t) ==
    /\ pc[t] = "running"
    /\ pc' = [pc EXCEPT ![t] = "idle"]
    /\ active' = IF active > 0 THEN active - 1 ELSE active
    /\ UNCHANGED <<waiting, waitSet, expired>>

-----------------------------------------------------------------------------

\* The loop condition is tested first: a late thread still takes a free slot.
TakeSlot(t) ==
    /\ Awake(t)
    /\ ~Full
    /\ pc' = [pc EXCEPT ![t] = "running"]
    /\ active' = active + 1
    /\ waiting' = waiting - 1
    /\ waitSet' = waitSet \ {t}
    /\ expired' = expired \ {t}

GiveUp(t) ==
    /\ Awake(t)
    /\ Full
    /\ t \in expired
    /\ pc' = [pc EXCEPT ![t] = "idle"]
    /\ waiting' = waiting - 1
    /\ waitSet' = waitSet \ {t}
    /\ expired' = expired \ {t}
    /\ UNCHANGED active

\* Another thread took the slot this one was notified about.
WaitAgain(t) ==
    /\ Awake(t)
    /\ Full
    /\ t \notin expired
    /\ waitSet' = waitSet \cup {t}
    /\ UNCHANGED <<pc, active, waiting, expired>>

Notify ==
    IF waitSet = {} THEN UNCHANGED waitSet
                    ELSE \E t \in waitSet : waitSet' = waitSet \ {t}

End(t) ==
    /\ pc[t] = "running"
    /\ pc' = [pc EXCEPT ![t] = "idle"]
    /\ active' = IF active > 0 THEN active - 1 ELSE active
    /\ Notify
    /\ UNCHANGED <<waiting, expired>>

Begin(t)   == BeginFree(t) \/ BeginQueue(t)
Recheck(t) == TakeSlot(t) \/ GiveUp(t) \/ WaitAgain(t)

Next == \E t \in Thread : Begin(t) \/ DeadlinePasses(t) \/ Recheck(t) \/ End(t)

SafeSpec == Init /\ [][Next]_vars

\* The clock advances and the operating system schedules a runnable thread.
\* Nothing is assumed about End: an ingest may take for ever.
Fairness == \A t \in Thread : WF_vars(DeadlinePasses(t)) /\ WF_vars(Recheck(t))

Spec == SafeSpec /\ Fairness

-----------------------------------------------------------------------------
(* Properties.                                                             *)

\* The counters are counters, only queued threads sleep or have a deadline.
TypeOK ==
    /\ pc \in [Thread -> {"idle", "queued", "running"}]
    /\ active \in Nat
    /\ waiting \in Nat
    /\ waitSet \in SUBSET Queued
    /\ expired \in SUBSET Queued

\* The counter active is the number of threads that were told "allowed" and
\* have not called end: the slot count neither leaks nor goes below the
\* truth, whatever the order of admissions, time-outs and releases.
ActiveIsRunning == active = IF Unlimited THEN 0 ELSE Cardinality(Running)

\* The counter waiting, the queue position shown to users, is the number of
\* threads inside begin: every exit of the loop gave its increment back.
WaitingIsQueued == waiting = Cardinality(Queued)

\* Both counters tell the truth.
CountersExact == ActiveIsRunning /\ WaitingIsQueued

\* Never more than COMIC_INGEST_MAX_CONCURRENT ingests at once.
WithinLimit == ~Unlimited => Cardinality(Running) <= MaxConcurrent

\* No lost wake-up: while somebody sleeps, every free slot has a thread that
\* is already awake and about to test the loop condition.  One notify per end
\* suffices, although newcomers overtake and timed-out threads eat
\* notifications.
NoLostWakeup ==
    waitSet # {} => MaxConcurrent - active <= Cardinality(Pending)

\* Every thread inside begin is answered: it gets a slot or is turned away.
Answered == \A t \in Thread : pc[t] = "queued" ~> pc[t] # "queued"

\* Where a thread stands at the gate, read off its program counter.
gateWhere == [t \in Thread |-> CASE pc[t] = "idle"    -> "out"
                                 [] pc[t] = "queued"  -> "asked"
                                 [] pc[t] = "running" -> "in"]

\* The queue implements the gate: nobody is turned away from a gate that has
\* room, nobody enters a full one, and everybody who asks is answered.
Gate == INSTANCE AdmissionGate WITH Capacity <- MaxConcurrent, where <- gateWhere

ImplementsGate == Gate!Spec
=============================================================================
