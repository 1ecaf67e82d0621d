-------------------------- MODULE UploadAdmission --------------------------
(***************************************************************************)
(* How an upload request gets in: the per-user limiter of rate_limit.py    *)
(* (upload sessions in flight and a sliding window of attempts), the comic *)
(* ingest queue, and the handlers that take and give back both.            *)
(*                                                                         *)
(*   "api"      /api/comic-ingest and /api/comic-ingest/metadata: slot     *)
(*              first, then upload session, both held by the request;      *)
(*   "browser"  /comic/upload: session first; the request spools the file  *)
(*              and hands it to a background thread that takes the slot;   *)
(*   "page"     the page uploads of the editor: a session only.            *)
(*                                                                         *)
(* A request is one-shot.  Stages:                                         *)
(*   new -> queueing -> slotted -> inside -> closing -> over      (api)    *)
(*   new -> spooling -> handed -> queueing -> slotted -> closing -> over   *)
(*   new -> inside -> over                                        (page)   *)
(* "dropped" is a request that was answered and kept what it held.         *)
(* A request has a thread of its own, and is named by it.                  *)
(***************************************************************************)
EXTENDS IngestQueue

CONSTANTS User,        \* normalized user names
          Mixes,       \* the ways requests may arrive: route and user of each
          UploadMax,   \* UPLOAD_MAX_CONCURRENT_PER_USER
          RateMax,     \* UPLOAD_RATE_MAX_REQUESTS
          MaxTracked   \* MAX_TRACKED_RATE_LIMIT_KEYS

\* The requests of one process, each handled once.
Request == Thread

AllRoutes == {"api", "browser", "page"}

ASSUME AdmissionAssumption ==
    /\ IsFiniteSet(User)
    /\ Mixes \subseteq [Request -> AllRoutes \X User]
    /\ {UploadMax, RateMax, MaxTracked} \subseteq Nat

VARIABLES route, user,     \* what each request is, fixed when it arrives
          stage,           \* where its handler stands
          inFlight,        \* _UPLOAD_IN_FLIGHT, 0 for a missing key
          attempts,        \* timestamps of the user inside the current window
          tracked          \* the keys of _UPLOAD_ATTEMPT_TIMESTAMPS

queueVars     == vars
limiterVars   == <<inFlight, attempts, tracked>>
admissionVars == <<route, user, stage, limiterVars, queueVars>>

AdmissionInit ==
    /\ \E mix \in Mixes :
        /\ route = [r \in Request |-> mix[r][1]]
        /\ user  = [r \in Request |-> mix[r][2]]
    /\ stage = [r \in Request |-> "new"]
    /\ inFlight = [u \in User |-> 0]
    /\ attempts = [u \in User |-> 0]
    /\ tracked = {}
    /\ Init

Go(r, from, to) ==
    /\ stage[r] = from
    /\ stage' = [stage EXCEPT ![r] = to]
    /\ UNCHANGED <<route, user>>

-----------------------------------------------------------------------------
(* The per-user limiter.                                                   *)

Idle(u) == inFlight[u] <= 0

\* The keys one pruning pass may remove: idle users without recent attempts,
\* and, among the overflow of least recent keys, those that are idle.  Which
\* keys are least recent is left open.
Stale == {u \in tracked : attempts[u] = 0 /\ Idle(u)}

Overflow(keys) ==
    {S \in SUBSET keys :
        Cardinality(S) = IF Cardinality(keys) > MaxTracked
                         THEN Cardinality(keys) - MaxTracked ELSE 0}

\* Seeded fault: the overflow is evicted whether or not it is in use.
FaultPrunable ==
    UNION {{old \cup lru : lru \in Overflow(tracked \ old)} : old \in SUBSET Stale}

Prunable ==
    UNION {{old \cup {u \in lru : Idle(u)} : lru \in Overflow(tracked \ old)} :
              old \in SUBSET Stale}

Forget(f, S) == [u \in User |-> IF u \in S THEN 0 ELSE f[u]]

MaySession(u, att, fly) == fly[u] < UploadMax /\ att[u] < RateMax

\* begin_upload_session: prune, then refuse or count the session.  A refusal
\* stores the trimmed list, so the key is tracked either way.
BeginUpload(r, allowed) ==
    LET u == user[r] IN
    \E gone \in Prunable :
        LET att == Forget(attempts, gone)
            fly == Forget(inFlight, gone)
        IN  /\ allowed = MaySession(u, att, fly)
            /\ tracked' = (tracked \ gone) \cup {u}
            /\ attempts' = IF allowed THEN [att EXCEPT ![u] = @ + 1] ELSE att
            /\ inFlight' = IF allowed THEN [fly EXCEPT ![u] = @ + 1] ELSE fly

\* end_upload_session: the key is popped at one, decremented above.
EndUpload(r) ==
    /\ inFlight' = [inFlight EXCEPT ![user[r]] = IF @ <= 1 THEN 0 ELSE @ - 1]
    /\ UNCHANGED <<attempts, tracked>>

\* The oldest attempt of a user leaves the window.
WindowSlides(u) ==
    /\ attempts[u] > 0
    /\ attempts' = [attempts EXCEPT ![u] = @ - 1]
    /\ UNCHANGED <<route, user, stage, inFlight, tracked, queueVars>>

-----------------------------------------------------------------------------
(* The ingest queue, entered by an api request or a background thread.     *)

EnterQueue(r, from) ==
    /\ Begin(r)
    /\ Go(r, from, IF pc'[r] = "running" THEN "slotted" ELSE "queueing")
    /\ UNCHANGED limiterVars

QueueTakeSlot(r) ==
    /\ TakeSlot(r)
    /\ Go(r, "queueing", "slotted")
    /\ UNCHANGED limiterVars

\* The api handler answers 429; the background thread still has a session.
QueueGiveUp(r) ==
    /\ GiveUp(r)
    /\ Go(r, "queueing", IF route[r] = "api" THEN "over" ELSE "closing")
    /\ UNCHANGED limiterVars

QueueWaits(r) ==
    /\ DeadlinePasses(r) \/ WaitAgain(r)
    /\ UNCHANGED <<route, user, stage, limiterVars>>

-----------------------------------------------------------------------------
(* /api/comic-ingest and /api/comic-ingest/metadata.                       *)

ApiEnter(r) == route[r] = "api" /\ EnterQueue(r, "new")

ApiSession(r) ==
    /\ route[r] = "api"
    /\ BeginUpload(r, TRUE)
    /\ Go(r, "slotted", "inside")
    /\ UNCHANGED queueVars

\* The refusal returns before the try block whose finally ends the ingest
\* session, so the slot stays taken.
ApiRefused(r) ==
    /\ route[r] = "api"
    /\ BeginUpload(r, FALSE)
    /\ Go(r, "slotted", "dropped")
    /\ UNCHANGED queueVars

\* The finally block, whatever the ingest did: first the session ...
ApiFinish(r) ==
    /\ route[r] = "api"
    /\ EndUpload(r)
    /\ Go(r, "inside", "closing")
    /\ UNCHANGED queueVars

\* ... then the slot.
ApiClose(r) ==
    /\ route[r] = "api"
    /\ End(r)
    /\ Go(r, "closing", "over")
    /\ UNCHANGED limiterVars

-----------------------------------------------------------------------------
(* /comic/upload.                                                          *)

BrowserBegin(r, allowed) ==
    /\ route[r] = "browser"
    /\ BeginUpload(r, allowed)
    /\ Go(r, "new", IF allowed THEN "spooling" ELSE "over")
    /\ UNCHANGED queueVars

\* Seeded fault: the failed request leaves its session open.
FaultBrowserNoSpace(r) ==
    /\ Go(r, "spooling", "over")
    /\ UNCHANGED <<limiterVars, queueVars>>

\* mkdtemp failed: task_dir is None, the finally block ends the session.
BrowserNoSpace(r) ==
    /\ EndUpload(r)
    /\ Go(r, "spooling", "over")
    /\ UNCHANGED queueVars

\* The archive is too large, or saving it or starting the thread failed:
\* task_dir is set, no thread exists, nobody ends the session.
BrowserSpoolFails(r) ==
    /\ Go(r, "spooling", "dropped")
    /\ UNCHANGED <<limiterVars, queueVars>>

BrowserHandOver(r) ==
    /\ Go(r, "spooling", "handed")
    /\ UNCHANGED <<limiterVars, queueVars>>

BrowserEnter(r) == EnterQueue(r, "handed")

\* The thread's finally block: the slot, if it has one, then the session.
BrowserFinish(r) ==
    /\ route[r] = "browser"
    /\ End(r)
    /\ Go(r, "slotted", "closing")
    /\ UNCHANGED limiterVars

BrowserClose(r) ==
    /\ route[r] = "browser"
    /\ EndUpload(r)
    /\ Go(r, "closing", "over")
    /\ UNCHANGED queueVars

-----------------------------------------------------------------------------
(* Page uploads of the editor.                                             *)

PageBegin(r, allowed) ==
    /\ route[r] = "page"
    /\ BeginUpload(r, allowed)
    /\ Go(r, "new", IF allowed THEN "inside" ELSE "over")
    /\ UNCHANGED queueVars

PageFinish(r) ==
    /\ route[r] = "page"
    /\ EndUpload(r)
    /\ Go(r, "inside", "over")
    /\ UNCHANGED queueVars

-----------------------------------------------------------------------------

Handle(r) ==
    \/ ApiEnter(r) \/ ApiSession(r) \/ ApiRefused(r) \/ ApiFinish(r) \/ ApiClose(r)
    \/ BrowserBegin(r, TRUE) \/ BrowserBegin(r, FALSE)
    \/ BrowserNoSpace(r) \/ BrowserSpoolFails(r) \/ BrowserHandOver(r)
    \/ BrowserEnter(r) \/ BrowserFinish(r) \/ BrowserClose(r)
    \/ PageBegin(r, TRUE) \/ PageBegin(r, FALSE) \/ PageFinish(r)
    \/ QueueTakeSlot(r) \/ QueueGiveUp(r) \/ QueueWaits(r)

Ended(r) == stage[r] \in {"over", "dropped"}

\* Every request was answered: the process is idle.
Quiet == (\A r \in Request : Ended(r)) /\ UNCHANGED admissionVars

AdmissionNext ==
    \/ \E r \in Request : Handle(r)
    \/ \E u \in User : WindowSlides(u)
    \/ Quiet

AdmissionSafeSpec == AdmissionInit /\ [][AdmissionNext]_admissionVars

\* Threads are scheduled, the clock advances and an ingest terminates (its
\* sidecar calls have time-outs).
AdmissionSpec == AdmissionSafeSpec /\ \A r \in Request : WF_admissionVars(Handle(r))

-----------------------------------------------------------------------------
(* Properties.                                                             *)

HoldsSession(r) ==
    CASE route[r] = "api"     -> stage[r] = "inside"
      [] route[r] = "browser" -> stage[r] \in {"spooling", "handed", "queueing", "slotted", "closing"}
      [] route[r] = "page"    -> stage[r] = "inside"

HoldsSlot(r) ==
    CASE route[r] = "api"     -> stage[r] \in {"slotted", "inside", "closing"}
      [] route[r] = "browser" -> stage[r] = "slotted"
      [] route[r] = "page"    -> FALSE

Sessions(u) == {r \in Request : user[r] = u /\ HoldsSession(r)}
Slots       == {r \in Request : HoldsSlot(r)}
Dropped(p)  == {r \in Request : stage[r] = "dropped" /\ route[r] = p}

\* A user never has more uploads in progress than the limit, although the
\* pruning of the limiter's tables runs while they are in progress.
SessionsWithinLimit == \A u \in User : Cardinality(Sessions(u)) <= UploadMax

\* Every session and every slot that is counted belongs to a request that is
\* still being handled or to one of the two early returns that keep theirs:
\* no other path of the handlers, time-outs included, loses or returns twice.
AccountsBalance ==
    /\ \A u \in User :
        inFlight[u] = Cardinality(Sessions(u))
                        + Cardinality({r \in Dropped("browser") : user[r] = u})
    /\ MaxConcurrent > 0 => active = Cardinality(Slots) + Cardinality(Dropped("api"))

\* Every request is answered, also when the slots it waits for were dropped
\* and never come back: the queue's deadline cuts the wait.
EveryRequestEnds == \A r \in Request : <>Ended(r)

\* A request is told "Comic ingest queue is full" only while MaxConcurrent
\* requests really are ingesting.
QueueFullIsTrue ==
    [][\A r \in Request : QueueGiveUp(r) => Cardinality(Slots) >= MaxConcurrent]_admissionVars
=============================================================================
