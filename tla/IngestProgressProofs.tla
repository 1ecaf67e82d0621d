------------------------- MODULE IngestProgressProofs -------------------------
(***************************************************************************)
(* What a browser learns of an upload: proofs about IngestProgress for any *)
(* number of workers, polls and steps and any time to live.  The page      *)
(* never goes back: memories, the file, the answers under way and the page *)
(* hold copies of what the job has published, and among all those copies a *)
(* later time means a later step.  No poll is told an expired step.  And   *)
(* while the job publishes in time, the worker that runs it and a worker   *)
(* that knows nothing of it tell the latest step.                          *)
(***************************************************************************)
EXTENDS IngestProgress, TLAPS

Value    == [step : Nat, at : Nat]
CallStep == {"idle", "scan", "unlink", "act"}
PollRec  == [state : {"idle", "asked", "answered"}, worker : Worker, cold : BOOLEAN,
             step : Nat, now : Nat, value : Value]

TypeInv ==
    /\ now \in Nat /\ now > 0
    /\ job \in [alive : BOOLEAN, step : Nat, at : Nat]
    /\ memory \in [Worker -> Value]
    /\ file \in Value
    /\ at \in [Worker -> CallStep]
    /\ loc \in [Worker -> [now : Nat, polls : SUBSET Poll]]
    /\ poll \in [Poll -> PollRec]
    /\ shown \in Value

\* Every copy of a published step, wherever it is held.
Held ==
    {None, file, shown} \cup {memory[w] : w \in Worker} \cup {poll[f].value : f \in Poll}

\* Nothing is held that the job has not published.
HeldIsPublished ==
    \A v \in Held :
        IF job.step = 0 THEN v = None ELSE v.step <= job.step /\ v.at <= job.at

\* Of any two copies, the one with the later time has the later step.
TimesOrderSteps == \A v, x \in Held : v.at <= x.at => v.step <= x.step

\* A call of the job that holds the lock read the clock after the last step.
CallIsLater ==
    at[Home] # "idle" /\ loc[Home].polls = {} =>
        loc[Home].now > 0 /\ (job.step > 0 => job.at < loc[Home].now)

IInv == TypeInv /\ HeldIsPublished /\ TimesOrderSteps /\ CallIsLater

-----------------------------------------------------------------------------
(* Lemmas.                                                                 *)

\* _prune_stale keeps an entry or drops it.
LEMMA PrunedIsHeld ==
    ASSUME NEW v, NEW t
    PROVE  Pruned(v, t) \in {v, None}
BY DEF Pruned

\* What is held, place by place.
LEMMA HeldPlaces ==
    /\ None \in Held /\ file \in Held /\ shown \in Held
    /\ \A w \in Worker : memory[w] \in Held
    /\ \A f \in Poll : poll[f].value \in Held
BY DEF Held

\* The call that takes a worker's lock: entries are typed, and memory holds
\* nothing new.
LEMMA EnterCall ==
    ASSUME TypeInv, NEW w \in Worker, NEW polls \in SUBSET Poll, Enter(w, polls)
    PROVE  /\ memory' \in [Worker -> Value]
           /\ at' \in [Worker -> CallStep]
           /\ loc' \in [Worker -> [now : Nat, polls : SUBSET Poll]]
           /\ \A x \in Worker : memory'[x] \in Held
<1>1. /\ memory[w] \in Value /\ None \in Value
      /\ Pruned(memory[w], now) \in {memory[w], None}
    BY PrunedIsHeld DEF TypeInv, None, Value
<1>2. [now |-> now, polls |-> polls] \in [now : Nat, polls : SUBSET Poll]
    BY DEF TypeInv
<1>. QED
    BY <1>1, <1>2, HeldPlaces DEF Enter, TypeInv, CallStep

\* Every step but Publish copies what is held or drops it.
LEMMA CopyStepInv ==
    ASSUME IInv, TypeInv', CallIsLater', Held' \subseteq Held,
           job'.step = job.step, job'.at = job.at
    PROVE  IInv'
<1>1. HeldIsPublished'
  <2>1. None' = None
      BY DEF None
  <2>. QED
      BY <2>1 DEF IInv, HeldIsPublished
<1>2. TimesOrderSteps'
    BY DEF IInv, TimesOrderSteps
<1>. QED
    BY <1>1, <1>2 DEF IInv

-----------------------------------------------------------------------------
(* One lemma per step.                                                     *)

\* A call of the job takes the lock of its worker, later than its last step.
LEMMA BeginSetInv == ASSUME IInv, BeginSet PROVE IInv'
<1>1. Enter(Home, {}) /\ UNCHANGED <<now, job, file, poll, shown>>
    BY DEF BeginSet
<1>2. /\ memory' \in [Worker -> Value] /\ at' \in [Worker -> CallStep]
      /\ loc' \in [Worker -> [now : Nat, polls : SUBSET Poll]]
      /\ \A x \in Worker : memory'[x] \in Held
    BY <1>1, EnterCall, ProgressAssumption DEF IInv
<1>3. TypeInv'
    BY <1>1, <1>2 DEF IInv, TypeInv
<1>4. Held' \subseteq Held
    BY <1>1, <1>2, HeldPlaces DEF Held, None
<1>5. CallIsLater'
  <2>1. loc'[Home].now = now
      BY <1>1, ProgressAssumption DEF Enter, IInv, TypeInv
  <2>. QED
      BY <1>1, <2>1 DEF BeginSet, CallIsLater, IInv, TypeInv
<1>. QED
    BY <1>1, <1>3, <1>4, <1>5, CopyStepInv

\* A poll takes the lock of the worker that answers it.
LEMMA BeginGetInv == ASSUME IInv, NEW f \in Poll, NEW w \in Worker, BeginGet(f, w) PROVE IInv'
<1>1. Enter(w, {f}) /\ UNCHANGED <<now, job, file, shown>>
    BY DEF BeginGet
<1>2. /\ memory' \in [Worker -> Value] /\ at' \in [Worker -> CallStep]
      /\ loc' \in [Worker -> [now : Nat, polls : SUBSET Poll]]
      /\ \A x \in Worker : memory'[x] \in Held
    BY <1>1, EnterCall DEF IInv
<1>3. /\ poll' \in [Poll -> PollRec]
      /\ \A g \in Poll : poll'[g].value \in {poll[g].value, None}
  <2>. DEFINE p == [state |-> "asked", worker |-> w, cold |-> memory'[w] = None,
                    step |-> job.step, now |-> now, value |-> None]
  <2>1. p \in PollRec /\ p.value = None
    <3>1. None \in Value /\ job.step \in Nat /\ now \in Nat /\ (memory'[w] = None) \in BOOLEAN
        BY DEF IInv, TypeInv, None, Value
    <3>. QED
        BY <3>1 DEF PollRec
  <2>2. poll' = [poll EXCEPT ![f] = p]
      BY DEF BeginGet
  <2>. QED
      BY <2>1, <2>2 DEF IInv, TypeInv
<1>4. TypeInv'
    BY <1>1, <1>2, <1>3 DEF IInv, TypeInv
<1>5. Held' \subseteq Held
  <2>1. \A g \in Poll : poll'[g].value \in Held
      BY <1>3, HeldPlaces
  <2>2. \A x \in Worker : memory'[x] \in Held
      BY <1>2
  <2>3. file' = file /\ shown' = shown
      BY <1>1
  <2>. QED
      BY <2>1, <2>2, <2>3, HeldPlaces DEF Held, None
<1>6. CallIsLater'
  <2>1. CASE w = Home
      BY <1>1, <2>1 DEF Enter, IInv, TypeInv, CallIsLater
  <2>2. CASE w # Home
      BY <1>1, <2>2 DEF Enter, IInv, TypeInv, CallIsLater
  <2>. QED
      BY <2>1, <2>2
<1>. QED
    BY <1>1, <1>4, <1>5, <1>6, CopyStepInv

\* Looking into the file and unlinking it.
LEMMA PruneFileInv == ASSUME IInv, NEW w \in Worker, Scan(w) \/ Unlink(w) PROVE IInv'
<1>1. /\ UNCHANGED <<now, job, memory, loc, poll, shown>>
      /\ file' \in {file, None}
      /\ at[w] # "idle" /\ \E s \in {"unlink", "act"} : at' = [at EXCEPT ![w] = s]
    BY DEF Scan, Unlink
<1>2. TypeInv'
    BY <1>1 DEF IInv, TypeInv, CallStep, None, Value
<1>3. Held' \subseteq Held
    BY <1>1, HeldPlaces DEF Held, None
<1>4. CallIsLater'
    BY <1>1, ProgressAssumption DEF IInv, TypeInv, CallIsLater
<1>. QED
    BY <1>1, <1>2, <1>3, <1>4, CopyStepInv

\* The job publishes: the new step is above all that is held, and so is its
\* time, because the call read the clock after the last one.
LEMMA PublishInv == ASSUME IInv, Publish PROVE IInv'
<1>. DEFINE v == [step |-> job.step + 1, at |-> loc[Home].now]
<1>1. /\ memory' = [memory EXCEPT ![Home] = v] /\ file' = v
      /\ job' = [job EXCEPT !.step = v.step, !.at = v.at]
      /\ Leave(Home) /\ UNCHANGED <<now, poll, shown>>
    BY DEF Publish
<1>2. /\ v \in Value /\ v.step = job.step + 1 /\ v.at > 0
      /\ job.step > 0 => job.at < v.at
      /\ job.step \in Nat /\ job.at \in Nat
    BY ProgressAssumption DEF Publish, IInv, TypeInv, CallIsLater, Value
<1>3. job'.step = v.step /\ job'.at = v.at
    BY <1>1 DEF IInv, TypeInv
<1>4. Held \subseteq Value
    BY DEF Held, IInv, TypeInv, PollRec, None, Value
<1>5. Held' \subseteq Held \cup {v}
    BY <1>1, HeldPlaces DEF Held, None, IInv, TypeInv
<1>6. \A x \in Held : x.step <= job.step /\ x.at < v.at
    BY <1>2, <1>4 DEF IInv, HeldIsPublished, None, Value
<1>7. TypeInv'
  <2>1. job' \in [alive : BOOLEAN, step : Nat, at : Nat]
      BY <1>1, <1>2 DEF IInv, TypeInv, Value
  <2>2. /\ at' \in [Worker -> CallStep]
        /\ loc' \in [Worker -> [now : Nat, polls : SUBSET Poll]]
      BY <1>1 DEF Leave, NoLoc, IInv, TypeInv, CallStep
  <2>. QED
      BY <1>1, <1>2, <2>1, <2>2 DEF IInv, TypeInv
<1>8. HeldIsPublished'
  <2>1. \A x \in Held \cup {v} : x.step <= v.step /\ x.at <= v.at
      BY <1>2, <1>4, <1>6 DEF Value
  <2>. QED
      BY <1>2, <1>3, <1>5, <2>1 DEF HeldIsPublished
<1>9. TimesOrderSteps'
  <2>1. \A x, y \in Held \cup {v} : x.at <= y.at => x.step <= y.step
      BY <1>2, <1>4, <1>6 DEF Value, IInv, TimesOrderSteps
  <2>. QED
      BY <1>5, <2>1 DEF TimesOrderSteps
<1>10. CallIsLater'
    BY <1>1, ProgressAssumption DEF Leave, CallIsLater, IInv, TypeInv
<1>. QED
    BY <1>7, <1>8, <1>9, <1>10 DEF IInv

\* An answer is a copy of the worker's memory or of the file.
LEMMA AnswerInv == ASSUME IInv, NEW f \in Poll, NEW w \in Worker, Answer(w, f) PROVE IInv'
<1>. DEFINE found == IF memory[w] # None THEN memory[w] ELSE Pruned(file, loc[w].now)
<1>1. /\ memory' = [memory EXCEPT ![w] = found]
      /\ poll' = [poll EXCEPT ![f] = [@ EXCEPT !.state = "answered", !.value = found]]
      /\ Leave(w) /\ UNCHANGED <<now, job, file, shown>>
    BY DEF Answer
<1>2. found \in Held /\ found \in Value
  <2>1. found \in {memory[w], file, None}
      BY PrunedIsHeld
  <2>. QED
      BY <2>1, HeldPlaces DEF IInv, TypeInv, None, Value
<1>3. /\ poll' \in [Poll -> PollRec]
      /\ poll'[f].value = found
      /\ \A g \in Poll : g # f => poll'[g] = poll[g]
  <2>. DEFINE p == [poll[f] EXCEPT !.state = "answered", !.value = found]
  <2>1. poll[f] \in PollRec
      BY DEF IInv, TypeInv
  <2>2. p \in PollRec /\ p.value = found
      BY <1>2, <2>1 DEF PollRec
  <2>3. poll' = [poll EXCEPT ![f] = p]
      BY <1>1
  <2>. QED
      BY <2>2, <2>3 DEF IInv, TypeInv
<1>4. TypeInv'
  <2>1. /\ at' \in [Worker -> CallStep]
        /\ loc' \in [Worker -> [now : Nat, polls : SUBSET Poll]]
      BY <1>1 DEF Leave, NoLoc, IInv, TypeInv, CallStep
  <2>. QED
      BY <1>1, <1>2, <1>3, <2>1 DEF IInv, TypeInv
<1>5. Held' \subseteq Held
  <2>1. \A x \in Worker : memory'[x] \in Held
      BY <1>1, <1>2, HeldPlaces DEF IInv, TypeInv
  <2>2. \A g \in Poll : poll'[g].value \in Held
      BY <1>2, <1>3, HeldPlaces
  <2>. QED
      BY <1>1, <2>1, <2>2, HeldPlaces DEF Held, None
<1>6. CallIsLater'
    BY <1>1, ProgressAssumption DEF Leave, CallIsLater, IInv, TypeInv
<1>. QED
    BY <1>1, <1>4, <1>5, <1>6, CopyStepInv

\* A recycled worker forgets; the job's last step stays what it was.
LEMMA RestartInv == ASSUME IInv, NEW w \in Worker, Restart(w) PROVE IInv'
<1>1. /\ memory' = [memory EXCEPT ![w] = None] /\ Leave(w)
      /\ \A f \in Poll : poll'[f] \in {poll[f], NoPoll}
      /\ UNCHANGED <<now, file, shown>>
    BY DEF Restart
<1>2. job' \in [alive : BOOLEAN, step : Nat, at : Nat] /\ job'.step = job.step /\ job'.at = job.at
    BY DEF Restart, IInv, TypeInv
<1>3. NoPoll \in PollRec /\ NoPoll.value = None /\ None \in Value
    BY ProgressAssumption DEF NoPoll, PollRec, None, Value
<1>4. poll' \in [Poll -> PollRec]
  <2>1. poll' = [f \in Poll |-> IF f \in loc[w].polls THEN NoPoll ELSE poll[f]]
      BY DEF Restart
  <2>2. \A f \in Poll : poll[f] \in PollRec
      BY DEF IInv, TypeInv
  <2>. QED
      BY <1>3, <2>1, <2>2
<1>5. TypeInv'
    BY <1>1, <1>2, <1>3, <1>4 DEF Leave, NoLoc, IInv, TypeInv, CallStep
<1>6. Held' \subseteq Held
  <2>1. \A x \in Worker : memory'[x] \in Held
      BY <1>1, HeldPlaces DEF IInv, TypeInv
  <2>2. \A g \in Poll : poll'[g].value \in Held
      BY <1>1, <1>3, HeldPlaces
  <2>. QED
      BY <1>1, <2>1, <2>2, HeldPlaces DEF Held, None
<1>7. CallIsLater'
    BY <1>1, <1>2, ProgressAssumption DEF Leave, CallIsLater, IInv, TypeInv
<1>. QED
    BY <1>2, <1>5, <1>6, <1>7, CopyStepInv

\* What the page shows is an answer it got, or what it showed.
LEMMA ShowInv == ASSUME IInv, NEW f \in Poll, Show(f) PROVE IInv' /\ shown'.step >= shown.step
<1>. DEFINE v == poll[f].value
<1>1. /\ shown' \in {shown, v} /\ (shown' = v => v.at >= shown.at \/ shown' = shown)
      /\ poll' = [poll EXCEPT ![f] = NoPoll]
      /\ UNCHANGED <<now, job, memory, file, at, loc>>
    BY DEF Show, Newer
<1>2. v \in Held /\ shown \in Held /\ v \in Value /\ shown \in Value
    BY HeldPlaces DEF IInv, TypeInv, PollRec
<1>3. shown'.step >= shown.step
    BY <1>1, <1>2 DEF IInv, TimesOrderSteps, Value
<1>4. NoPoll \in PollRec /\ NoPoll.value = None
    BY ProgressAssumption DEF NoPoll, PollRec, None, Value
<1>5. TypeInv'
    BY <1>1, <1>2, <1>4 DEF IInv, TypeInv
<1>6. Held' \subseteq Held
  <2>1. \A g \in Poll : poll'[g].value \in Held
      BY <1>1, <1>4, HeldPlaces DEF IInv, TypeInv
  <2>. QED
      BY <1>1, <1>2, <2>1, HeldPlaces DEF Held, None
<1>7. CallIsLater'
    BY <1>1 DEF IInv, CallIsLater
<1>. QED
    BY <1>1, <1>3, <1>5, <1>6, <1>7, CopyStepInv

-----------------------------------------------------------------------------
(* The theorems.                                                           *)

\* Every step keeps the invariant, and the page never goes back in it.
LEMMA NextInv == ASSUME IInv, [Next]_vars PROVE IInv' /\ shown'.step >= shown.step
<1>1. CASE Tick \/ UNCHANGED vars
  <2>1. UNCHANGED <<job, memory, file, at, loc, poll, shown>> /\ now' \in {now, now + 1}
      BY <1>1 DEF Tick, vars
  <2>2. TypeInv' /\ CallIsLater' /\ Held' \subseteq Held
      BY <2>1 DEF IInv, TypeInv, CallIsLater, Held, None
  <2>. QED
      BY <2>1, <2>2, CopyStepInv DEF IInv, TypeInv, Value
<1>2. CASE \E f \in Poll : Show(f)
    BY <1>2, ShowInv
<1>3. CASE \/ BeginSet \/ Publish
           \/ \E w \in Worker : Scan(w) \/ Unlink(w) \/ Restart(w)
           \/ \E f \in Poll, w \in Worker : BeginGet(f, w) \/ Answer(w, f)
  <2>1. shown' = shown
      BY <1>3 DEF BeginSet, Publish, Scan, Unlink, Restart, BeginGet, Answer
  <2>2. IInv'
      BY <1>3, BeginSetInv, PublishInv, PruneFileInv, RestartInv, BeginGetInv, AnswerInv
  <2>. QED
      BY <2>1, <2>2 DEF IInv, TypeInv, Value
<1>. QED
    BY <1>1, <1>2, <1>3 DEF Next, Done

\* The inductive invariant of the specification.
THEOREM ProgressInvariant == Spec => []IInv
<1>1. Init => IInv
  <2>1. Init => TypeInv
      BY ProgressAssumption DEF Init, TypeInv, Value, CallStep, PollRec, None, NoPoll, NoLoc
  <2>2. Init => Held = {None}
      BY DEF Init, Held, NoPoll
  <2>3. Init => CallIsLater
      BY ProgressAssumption DEF Init, CallIsLater
  <2>. QED
      BY <2>1, <2>2, <2>3 DEF Init, IInv, HeldIsPublished, TimesOrderSteps, None
<1>2. IInv /\ [Next]_vars => IInv'
    BY NextInv
<1>. QED
    BY <1>1, <1>2, PTL DEF Spec

\* However polls are spread over workers, however their answers overtake each
\* other and whichever workers are recycled, the page never goes back.
THEOREM PageNeverGoesBack == Spec => ShownNeverGoesBack
<1>1. IInv /\ [Next]_vars => [shown'.step >= shown.step]_vars
    BY NextInv
<1>. QED
    BY <1>1, ProgressInvariant, PTL DEF Spec, ShownNeverGoesBack

-----------------------------------------------------------------------------
(* What polls are told.                                                    *)

\* A call that answers a poll holds its worker's lock: the poll is the call's
\* own, nobody touches the worker's memory meanwhile, and what the memory holds
\* had not expired when the call read the clock.
CallsAnswer ==
    \A w \in Worker : \A f \in loc[w].polls :
        /\ loc[w].polls = {f} /\ at[w] # "idle"
        /\ poll[f].state = "asked" /\ poll[f].worker = w
        /\ poll[f].now = loc[w].now /\ poll[f].step <= job.step
        /\ poll[f].cold => memory[w] = None
        /\ memory[w] # None => ~Expired(memory[w], loc[w].now)

\* Calls read the clock in the past, and only a running job publishes.
CallsArePast ==
    /\ \A w \in Worker : loc[w].now <= now
    /\ at[Home] # "idle" /\ loc[Home].polls = {} => Running

Told == CallsAnswer /\ CallsArePast /\ NothingExpiredIsTold

Last == [step |-> job.step, at |-> job.at]

\* While the job publishes in time, its last step is in the file and in the
\* memory of its worker until it expires, and a worker that has found an expired
\* file unlinks it only when no step is to follow.
Current ==
    /\ job.step = 0 => job.at = 1
    /\ Running => now <= job.at + TTL
    /\ job.step > 0 /\ ~Expired(job, now) =>
          file = Last /\ (job.alive => memory[Home] = Last)
    /\ \A w \in Worker : at[w] = "unlink" => Expired(job, now)

\* Pruning at a time leaves nothing that has expired by then.
LEMMA PrunedIsFresh ==
    ASSUME NEW v, NEW t, Pruned(v, t) # None
    PROVE  Pruned(v, t) = v /\ ~Expired(v, t)
BY DEF Pruned

\* What a call finds of worker x when another worker's state is written.
LEMMA ToldLocal ==
    ASSUME IInv, Told, NEW w \in Worker, job.step <= job'.step,
           \A x \in Worker \ {w} : /\ at'[x] = "idle" <=> at[x] = "idle"
                                   /\ loc'[x] = loc[x] /\ memory'[x] = memory[x],
           \A x \in Worker \ {w} : \A f \in loc[x].polls : poll'[f] = poll[f],
           job' \in [alive : BOOLEAN, step : Nat, at : Nat],
           \A f \in loc'[w].polls :
               /\ loc'[w].polls = {f} /\ at'[w] # "idle"
               /\ poll'[f].state = "asked" /\ poll'[f].worker = w
               /\ poll'[f].now = loc'[w].now /\ poll'[f].step <= job'.step
               /\ poll'[f].cold => memory'[w] = None
               /\ memory'[w] # None => ~Expired(memory'[w], loc'[w].now)
    PROVE  CallsAnswer'
<1>. SUFFICES ASSUME NEW x \in Worker, NEW f \in loc'[x].polls
              PROVE  /\ loc'[x].polls = {f} /\ at'[x] # "idle"
                     /\ poll'[f].state = "asked" /\ poll'[f].worker = x
                     /\ poll'[f].now = loc'[x].now /\ poll'[f].step <= job'.step
                     /\ poll'[f].cold => memory'[x] = None
                     /\ memory'[x] # None => ~Expired(memory'[x], loc'[x].now)
    BY DEF CallsAnswer, Expired, None
<1>1. CASE x = w
    BY <1>1
<1>2. CASE x # w
  <2>1. f \in loc[x].polls /\ poll'[f] = poll[f] /\ f \in Poll
      BY <1>2 DEF IInv, TypeInv
  <2>2. poll[f].step \in Nat /\ job.step \in Nat /\ job'.step \in Nat
      BY <2>1 DEF IInv, TypeInv, PollRec
  <2>. QED
      BY <1>2, <2>1, <2>2 DEF Told, CallsAnswer
<1>. QED
    BY <1>1, <1>2

\* An answer that was not told before is told now by Answer only.
LEMMA ToldBefore ==
    ASSUME NothingExpiredIsTold,
           \A f \in Poll : poll'[f].state = "answered" =>
               poll'[f].value = poll[f].value /\ poll'[f].now = poll[f].now /\ poll[f].state = "answered"
    PROVE  NothingExpiredIsTold'
BY DEF NothingExpiredIsTold, Answered, Expired, None

\* The job's call and a poll's call take the lock, ...
LEMMA EnterTold ==
    ASSUME IInv, Told, BeginSet \/ (\E f \in Poll, w \in Worker : BeginGet(f, w))
    PROVE  Told'
<1>1. CASE BeginSet
  <2>1. /\ UNCHANGED <<now, job, file, poll, shown>> /\ Home \in Worker
        /\ at' = [at EXCEPT ![Home] = "scan"]
        /\ loc' = [loc EXCEPT ![Home] = [now |-> now, polls |-> {}]]
        /\ memory' = [memory EXCEPT ![Home] = Pruned(@, now)]
        /\ Running
      BY <1>1, ProgressAssumption DEF BeginSet, Enter
  <2>2. CallsAnswer'
      BY <2>1, ToldLocal DEF IInv, TypeInv
  <2>3. CallsArePast'
      BY <2>1 DEF CallsArePast, Running, Told, IInv, TypeInv
  <2>. QED
      BY <2>1, <2>2, <2>3, ToldBefore DEF Told
<1>2. ASSUME NEW f \in Poll, NEW w \in Worker, BeginGet(f, w) PROVE Told'
  <2>. DEFINE p == [state |-> "asked", worker |-> w, cold |-> memory'[w] = None,
                    step |-> job.step, now |-> now, value |-> None]
  <2>1. /\ UNCHANGED <<now, job, file, shown>> /\ poll[f].state = "idle"
        /\ at' = [at EXCEPT ![w] = "scan"]
        /\ loc' = [loc EXCEPT ![w] = [now |-> now, polls |-> {f}]]
        /\ memory' = [memory EXCEPT ![w] = Pruned(@, now)]
        /\ poll' = [poll EXCEPT ![f] = p]
      BY <1>2 DEF BeginGet, Enter
  <2>2. memory'[w] # None => ~Expired(memory'[w], now)
      BY <2>1, PrunedIsFresh DEF IInv, TypeInv
  <2>3. /\ loc'[w].polls = {f} /\ loc'[w].now = now /\ at'[w] = "scan"
        /\ poll'[f] = p /\ p.state = "asked" /\ p.worker = w /\ p.now = now /\ p.step = job.step
        /\ p.cold => memory'[w] = None
      BY <2>1 DEF IInv, TypeInv
  <2>4. \A x \in Worker \ {w} : f \notin loc[x].polls
      BY <2>1 DEF Told, CallsAnswer
  <2>5. job.step <= job.step /\ job.step \in Nat /\ job \in [alive : BOOLEAN, step : Nat, at : Nat]
      BY DEF IInv, TypeInv
  <2>. HIDE DEF p
  <2>6. \A x \in Worker \ {w} : \A g \in loc[x].polls : poll'[g] = poll[g]
      BY <2>1, <2>4 DEF IInv, TypeInv
  <2>7. \A x \in Worker \ {w} : /\ at'[x] = "idle" <=> at[x] = "idle"
                                /\ loc'[x] = loc[x] /\ memory'[x] = memory[x]
      BY <2>1 DEF IInv, TypeInv
  <2>8. CallsAnswer'
      BY <2>1, <2>2, <2>3, <2>5, <2>6, <2>7, ToldLocal
  <2>9. CallsArePast'
    <3>1. \A x \in Worker : loc'[x].now <= now
        BY <2>1 DEF CallsArePast, Told, IInv, TypeInv
    <3>2. w = Home => loc'[Home].polls # {}
        BY <2>3
    <3>3. w # Home => at'[Home] = at[Home] /\ loc'[Home] = loc[Home]
        BY <2>1, ProgressAssumption DEF IInv, TypeInv
    <3>. QED
        BY <2>1, <3>1, <3>2, <3>3 DEF CallsArePast, Running, Told
  <2>10. \A g \in Poll : poll'[g].state = "answered" => poll'[g] = poll[g]
      BY <2>1, <2>3 DEF IInv, TypeInv
  <2>. QED
      BY <2>8, <2>9, <2>10, ToldBefore DEF Told
<1>. QED
    BY <1>1, <1>2

\* ... look at the file, ...
LEMMA PruneFileTold ==
    ASSUME IInv, Told, NEW w \in Worker, Scan(w) \/ Unlink(w)
    PROVE  Told'
<1>1. /\ UNCHANGED <<now, job, memory, loc, poll, shown>>
      /\ at[w] # "idle" /\ \E s \in {"unlink", "act"} : at' = [at EXCEPT ![w] = s]
    BY DEF Scan, Unlink
<1>2. \A x \in Worker : at'[x] = "idle" <=> at[x] = "idle"
    BY <1>1 DEF IInv, TypeInv
<1>3. CallsAnswer'
    BY <1>1, <1>2 DEF Told, CallsAnswer, Expired, None
<1>4. CallsArePast'
    BY <1>1, <1>2, ProgressAssumption DEF Told, CallsArePast, Running
<1>. QED
    BY <1>1, <1>3, <1>4, ToldBefore DEF Told

\* ... and end: with a step published, ...
LEMMA PublishTold == ASSUME IInv, Told, Publish PROVE Told'
<1>1. /\ at' = [at EXCEPT ![Home] = "idle"] /\ loc' = [loc EXCEPT ![Home] = NoLoc]
      /\ \A x \in Worker \ {Home} : memory'[x] = memory[x]
      /\ job' = [job EXCEPT !.step = job.step + 1, !.at = loc[Home].now]
      /\ UNCHANGED <<now, poll, shown>> /\ Home \in Worker
    BY ProgressAssumption DEF Publish, Leave, IInv, TypeInv
<1>2. /\ job' \in [alive : BOOLEAN, step : Nat, at : Nat] /\ job.step <= job'.step
  <2>1. job \in [alive : BOOLEAN, step : Nat, at : Nat] /\ loc[Home].now \in Nat /\ job.step + 1 \in Nat
      BY <1>1 DEF IInv, TypeInv
  <2>2. job' \in [alive : BOOLEAN, step : Nat, at : Nat] /\ job'.step = job.step + 1
      BY <1>1, <2>1
  <2>. QED
      BY <2>1, <2>2
<1>3. loc'[Home] = NoLoc /\ at'[Home] = "idle" /\ NoLoc.polls = {} /\ NoLoc.now = 0
    BY <1>1 DEF NoLoc, IInv, TypeInv
<1>4. \A x \in Worker \ {Home} : loc'[x] = loc[x] /\ at'[x] = at[x]
    BY <1>1 DEF IInv, TypeInv
<1>5. CallsAnswer'
    BY <1>1, <1>2, <1>3, <1>4, ToldLocal
<1>6. CallsArePast'
    BY <1>1, <1>3, <1>4 DEF CallsArePast, Told, IInv, TypeInv
<1>. QED
    BY <1>1, <1>5, <1>6, ToldBefore DEF Told

\* ... with an answer, which had not expired when the call read the clock, ...
LEMMA AnswerTold ==
    ASSUME IInv, Told, NEW f \in Poll, NEW w \in Worker, Answer(w, f)
    PROVE  Told'
<1>. DEFINE found == IF memory[w] # None THEN memory[w] ELSE Pruned(file, loc[w].now)
            p == [poll[f] EXCEPT !.state = "answered", !.value = found]
<1>1. /\ memory' = [memory EXCEPT ![w] = found]
      /\ poll' = [poll EXCEPT ![f] = p]
      /\ at' = [at EXCEPT ![w] = "idle"] /\ loc' = [loc EXCEPT ![w] = NoLoc]
      /\ UNCHANGED <<now, job, file, shown>> /\ loc[w].polls = {f}
    BY DEF Answer, Leave
<1>2. /\ poll[f].state = "asked" /\ poll[f].worker = w /\ poll[f].now = loc[w].now
      /\ memory[w] # None => ~Expired(memory[w], loc[w].now)
    BY <1>1 DEF Told, CallsAnswer
<1>3. found # None => ~Expired(found, loc[w].now)
    BY <1>2, PrunedIsFresh
<1>4. p.state = "answered" /\ p.value = found /\ p.now = loc[w].now
    BY <1>2 DEF IInv, TypeInv, PollRec
<1>. HIDE DEF p, found
<1>5. /\ poll'[f] = p /\ loc'[w] = NoLoc /\ at'[w] = "idle" /\ NoLoc.polls = {} /\ NoLoc.now = 0
      /\ \A g \in Poll \ {f} : poll'[g] = poll[g]
      /\ \A x \in Worker \ {w} : loc'[x] = loc[x] /\ at'[x] = at[x] /\ memory'[x] = memory[x]
    BY <1>1 DEF NoLoc, IInv, TypeInv
<1>6. \A x \in Worker \ {w} : \A g \in loc[x].polls : g # f /\ g \in Poll
    BY <1>2 DEF Told, CallsAnswer, IInv, TypeInv
<1>7. CallsAnswer'
  <2>1. job' \in [alive : BOOLEAN, step : Nat, at : Nat] /\ job.step <= job'.step
      BY <1>1 DEF IInv, TypeInv
  <2>. QED
      BY <1>5, <1>6, <2>1, ToldLocal
<1>8. CallsArePast'
    BY <1>1, <1>5, ProgressAssumption DEF CallsArePast, Running, Told, IInv, TypeInv
<1>9. NothingExpiredIsTold'
    BY <1>3, <1>4, <1>5 DEF NothingExpiredIsTold, Answered, Expired, None, Told
<1>. QED
    BY <1>7, <1>8, <1>9 DEF Told

\* ... or with the worker, whose poll is then answered by nobody.
LEMMA RestartTold == ASSUME IInv, Told, NEW w \in Worker, Restart(w) PROVE Told'
<1>1. /\ memory' = [memory EXCEPT ![w] = None]
      /\ at' = [at EXCEPT ![w] = "idle"] /\ loc' = [loc EXCEPT ![w] = NoLoc]
      /\ poll' = [f \in Poll |-> IF f \in loc[w].polls THEN NoPoll ELSE poll[f]]
      /\ job' = IF w = Home THEN [job EXCEPT !.alive = FALSE] ELSE job
      /\ UNCHANGED <<now, file, shown>>
    BY DEF Restart, Leave
<1>2. /\ job' \in [alive : BOOLEAN, step : Nat, at : Nat] /\ job'.step = job.step
      /\ job.step <= job'.step /\ (w # Home => job' = job)
  <2>1. job \in [alive : BOOLEAN, step : Nat, at : Nat] /\ job.step <= job.step
      BY DEF IInv, TypeInv
  <2>2. CASE w = Home
      BY <1>1, <2>1, <2>2
  <2>3. CASE w # Home
      BY <1>1, <2>1, <2>3
  <2>. QED
      BY <2>2, <2>3
<1>3. /\ loc'[w] = NoLoc /\ at'[w] = "idle" /\ NoLoc.polls = {} /\ NoLoc.now = 0
      /\ \A x \in Worker \ {w} : loc'[x] = loc[x] /\ at'[x] = at[x] /\ memory'[x] = memory[x]
    BY <1>1 DEF NoLoc, IInv, TypeInv
<1>4. \A x \in Worker \ {w} : \A g \in loc[x].polls : poll'[g] = poll[g]
  <2>1. \A x \in Worker \ {w} : \A g \in loc[x].polls : g \notin loc[w].polls /\ g \in Poll
      BY DEF Told, CallsAnswer, IInv, TypeInv
  <2>. QED
      BY <1>1, <2>1
<1>5. CallsAnswer'
    BY <1>2, <1>3, <1>4, ToldLocal
<1>6. CallsArePast'
    BY <1>1, <1>2, <1>3, ProgressAssumption DEF CallsArePast, Running, Told, IInv, TypeInv
<1>7. NothingExpiredIsTold'
    BY <1>1, ToldBefore DEF NoPoll, Told
<1>. QED
    BY <1>5, <1>6, <1>7 DEF Told

\* A step keeps what is known of the calls under way.
LEMMA ToldInv == ASSUME IInv, Told, [Next]_vars PROVE Told'
<1>1. CASE Tick \/ UNCHANGED vars
  <2>1. UNCHANGED <<job, memory, file, at, loc, poll, shown>> /\ now' \in {now, now + 1}
      BY <1>1 DEF Tick, vars
  <2>2. CallsAnswer'
      BY <2>1 DEF Told, CallsAnswer, Expired, None
  <2>3. CallsArePast'
      BY <2>1, ProgressAssumption DEF Told, CallsArePast, Running, IInv, TypeInv
  <2>. QED
      BY <2>1, <2>2, <2>3, ToldBefore DEF Told
<1>2. ASSUME NEW f \in Poll, Show(f) PROVE Told'
  <2>1. /\ poll[f].state = "answered" /\ poll' = [poll EXCEPT ![f] = NoPoll]
        /\ UNCHANGED <<now, job, memory, file, at, loc>>
      BY <1>2 DEF Show
  <2>2. \A x \in Worker : \A g \in loc[x].polls : poll'[g] = poll[g]
      BY <2>1 DEF Told, CallsAnswer, IInv, TypeInv
  <2>3. CallsAnswer'
      BY <2>1, <2>2 DEF Told, CallsAnswer, Expired, None
  <2>4. CallsArePast'
      BY <2>1 DEF Told, CallsArePast, Running
  <2>5. NothingExpiredIsTold'
      BY <2>1, ToldBefore DEF NoPoll, Told, IInv, TypeInv
  <2>. QED
      BY <2>3, <2>4, <2>5 DEF Told
<1>. QED
    BY <1>1, <1>2, EnterTold, PruneFileTold, PublishTold, AnswerTold, RestartTold DEF Next, Done


\* The types that the comparisons of times need.
LEMMA Times ==
    ASSUME IInv
    PROVE  /\ now \in Nat /\ job.at \in Nat /\ job.step \in Nat /\ TTL \in Nat
           /\ job.alive \in BOOLEAN
           /\ job.step = 0 => file = None
  BY ProgressAssumption, HeldPlaces DEF IInv, TypeInv, HeldIsPublished

\* A step that publishes nothing keeps the last step where it is, unless it has
\* expired, and what was answered.
LEMMA CurrentKept ==
    ASSUME IInv, Current, HomeAndColdAreCurrent,
           job'.step = job.step, job'.at = job.at, job'.alive => job.alive, now' \in {now, now + 1},
           Running' => now' <= job.at + TTL,
           Expired(job, now) \/ file' = file,
           Expired(job, now) \/ job.step = 0 \/ ~job'.alive \/ memory'[Home] = memory[Home],
           \A w \in Worker : at'[w] = "unlink" => at[w] = "unlink" \/ Expired(job, now),
           \A f \in Poll : poll'[f].state = "answered" =>
               \/ poll'[f] = poll[f]
               \/ poll'[f].cold \/ (poll'[f].worker = Home /\ job'.alive) =>
                      poll'[f].value.step >= poll'[f].step \/ Expired(job, now)
    PROVE  Current' /\ HomeAndColdAreCurrent'
<1>1. /\ Expired(job, now)' <=> job.at + TTL < now'
      /\ Expired(job, now) <=> job.at + TTL < now
    BY DEF Expired
<1>2. Expired(job, now) => Expired(job, now)'
    BY <1>1, Times
<1>3. Last' = Last
    BY DEF Last
<1>4. (job.step > 0 /\ ~Expired(job, now) => file = Last /\ (job.alive => memory[Home] = Last))'
    BY <1>2, <1>3, Times DEF Current
<1>5. Current'
    BY <1>2, <1>4 DEF Current
<1>6. HomeAndColdAreCurrent'
    BY <1>2 DEF HomeAndColdAreCurrent, Answered, UpToDate
<1>. QED
    BY <1>5, <1>6

\* Pruning the home worker's memory leaves the job's last step there.
LEMMA EnterKeepsHome ==
    ASSUME IInv, Current, NEW w \in Worker, NEW polls, Enter(w, polls)
    PROVE  Expired(job, now) \/ job.step = 0 \/ ~job.alive \/ memory'[Home] = memory[Home]
<1>. SUFFICES ASSUME ~Expired(job, now), job.step # 0, job.alive, w = Home
              PROVE  memory'[Home] = memory[Home]
    BY DEF Enter, IInv, TypeInv
<1>1. memory[Home] = Last
    BY Times DEF Current
<1>2. ~Expired(Last, now)
    BY DEF Expired, Last
<1>. QED
    BY <1>1, <1>2 DEF Enter, Pruned, IInv, TypeInv

\* A call that finds the file expired finds the job's last step expired.
LEMMA ScanKeepsCurrent ==
    ASSUME IInv, Told, Prompt, Current, HomeAndColdAreCurrent, NEW w \in Worker, Scan(w) \/ Unlink(w)
    PROVE  Current' /\ HomeAndColdAreCurrent'
<1>1. UNCHANGED <<now, job, memory, loc, poll, shown>>
    BY DEF Scan, Unlink
<1>2. Expired(job, now) \/ file' = file
    BY DEF Scan, Unlink, Current
<1>3. ASSUME NEW x \in Worker, at'[x] = "unlink", at[x] # "unlink" PROVE Expired(job, now)
  <2>1. x = w /\ Scan(w) /\ file # None /\ Expired(file, loc[w].now)
      BY <1>3 DEF Scan, Unlink, IInv, TypeInv
  <2>2. CASE file = Last
    <3>1. job.at + TTL < loc[w].now /\ loc[w].now <= now /\ loc[w].now \in Nat
        BY <2>1, <2>2 DEF Expired, Last, Told, CallsArePast, IInv, TypeInv
    <3>. QED
        BY <3>1, Times DEF Expired
  <2>3. CASE file # Last
      BY <2>1, <2>3, Times DEF Current
  <2>. QED
      BY <2>2, <2>3
<1>4. Running' => now' <= job.at + TTL
    BY <1>1 DEF Current, Running
<1>. QED
    BY <1>1, <1>2, <1>3, <1>4, CurrentKept

\* A call that finds nothing in memory finds the job's last step in the file,
\* and the home worker has it in memory.
LEMMA AnswerKeepsCurrent ==
    ASSUME IInv, Told, Prompt, Current, HomeAndColdAreCurrent,
           NEW f \in Poll, NEW w \in Worker, Answer(w, f)
    PROVE  Current' /\ HomeAndColdAreCurrent'
<1>. DEFINE found == IF memory[w] # None THEN memory[w] ELSE Pruned(file, loc[w].now)
            p == [poll[f] EXCEPT !.state = "answered", !.value = found]
<1>1. /\ memory' = [memory EXCEPT ![w] = found]
      /\ poll' = [poll EXCEPT ![f] = p]
      /\ at' = [at EXCEPT ![w] = "idle"]
      /\ UNCHANGED <<now, job, file, shown>> /\ loc[w].polls = {f}
    BY DEF Answer, Leave
<1>2. /\ poll[f].worker = w /\ poll[f].step <= job.step /\ poll[f].step \in Nat
      /\ poll[f].cold => memory[w] = None
      /\ loc[w].now \in Nat /\ loc[w].now <= now
    BY <1>1 DEF Told, CallsAnswer, CallsArePast, IInv, TypeInv, PollRec
<1>3. p.cold = poll[f].cold /\ p.worker = w /\ p.step = poll[f].step /\ p.value = found
    BY <1>2 DEF IInv, TypeInv, PollRec
<1>4. ASSUME ~Expired(job, now), job.step # 0
      PROVE  /\ job.alive => memory[Home] = Last
             /\ Last # None /\ Pruned(file, loc[w].now) = Last
  <2>1. file = Last /\ (job.alive => memory[Home] = Last)
      BY <1>4, Times DEF Current
  <2>2. Last # None
      BY <1>4, Times DEF Last, None
  <2>3. ~(job.at + TTL < loc[w].now)
      BY <1>2, <1>4, Times DEF Expired
  <2>4. Pruned(file, loc[w].now) = Last
      BY <2>1, <2>3 DEF Pruned, Expired, Last
  <2>. QED
      BY <2>1, <2>2, <2>4
<1>5. ASSUME ~Expired(job, now), job.step # 0, p.cold \/ (p.worker = Home /\ job.alive)
      PROVE  found = Last
    BY <1>2, <1>3, <1>4, <1>5
<1>6. found \in Value
    BY PrunedIsHeld DEF IInv, TypeInv, None, Value
<1>. HIDE DEF found, p
<1>7. p.cold \/ (p.worker = Home /\ job.alive) => p.value.step >= p.step \/ Expired(job, now)
  <2>1. CASE job.step = 0
      BY <1>2, <1>3, <1>6, <2>1 DEF Value
  <2>2. CASE job.step # 0
    <3>1. Last.step = job.step
        BY DEF Last
    <3>. QED
        BY <1>2, <1>3, <1>5, <2>2, <3>1, Times
  <2>. QED
      BY <2>1, <2>2
<1>8. \A g \in Poll : poll'[g] = IF g = f THEN p ELSE poll[g]
    BY <1>1 DEF IInv, TypeInv
<1>9. Expired(job, now) \/ job.step = 0 \/ ~job'.alive \/ memory'[Home] = memory[Home]
    BY <1>1, <1>4 DEF found, IInv, TypeInv
<1>10. \A x \in Worker : at'[x] = "unlink" => at[x] = "unlink"
    BY <1>1 DEF IInv, TypeInv
<1>11. Running' => now' <= job.at + TTL
    BY <1>1 DEF Current, Running
<1>. QED
    BY <1>1, <1>7, <1>8, <1>9, <1>10, <1>11, CurrentKept

\* A step that is published replaces one that has not expired, so nothing that
\* was answered before is excused by that.
LEMMA PublishKeepsCurrent ==
    ASSUME IInv, Told, Prompt, Current, HomeAndColdAreCurrent, Publish
    PROVE  Current' /\ HomeAndColdAreCurrent'
<1>. DEFINE v == [step |-> job.step + 1, at |-> loc[Home].now]
<1>1. /\ memory' = [memory EXCEPT ![Home] = v] /\ file' = v
      /\ job' = [job EXCEPT !.step = v.step, !.at = v.at]
      /\ at' = [at EXCEPT ![Home] = "idle"]
      /\ UNCHANGED <<now, poll, shown>>
    BY DEF Publish, Leave
<1>2. Running /\ now <= job.at + TTL /\ ~Expired(job, now)
  <2>1. Running /\ now <= job.at + TTL
      BY DEF Publish, Told, CallsArePast, Current
  <2>. QED
      BY <2>1, Times DEF Expired
<1>3. job'.at = loc[Home].now /\ loc[Home].now \in Nat /\ Last' = v
    BY <1>1, ProgressAssumption DEF IInv, TypeInv, Last
<1>4. job.step > 0 => job.at < loc[Home].now
    BY DEF Publish, IInv, CallIsLater
<1>5. now' <= job'.at + TTL
  <2>1. loc[Home].now > 0 /\ (job.step = 0 => job.at = 1)
      BY DEF Publish, IInv, CallIsLater, Current
  <2>2. job.at <= loc[Home].now
      BY <1>3, <1>4, <2>1, Times
  <2>. QED
      BY <1>1, <1>2, <1>3, <2>2, Times
<1>6. file' = Last' /\ memory'[Home] = Last'
    BY <1>1, <1>3, ProgressAssumption DEF IInv, TypeInv
<1>7. \A w \in Worker : at'[w] # "unlink"
    BY <1>1, <1>2 DEF Current, IInv, TypeInv
<1>8. Current'
  <2>1. job'.step = job.step + 1 /\ job.step + 1 # 0
      BY <1>1, Times DEF IInv, TypeInv
  <2>. QED
      BY <1>5, <1>6, <1>7, <2>1 DEF Current
<1>9. job'.alive = job.alive
    BY <1>1 DEF IInv, TypeInv
<1>10. HomeAndColdAreCurrent'
    BY <1>1, <1>2, <1>9 DEF HomeAndColdAreCurrent, Answered, UpToDate
<1>. QED
    BY <1>8, <1>10


\* Every step keeps the last step where it can be found.
LEMMA CurrentInv ==
    ASSUME IInv, Told, Prompt, Current, HomeAndColdAreCurrent, [Next]_vars
    PROVE  Current' /\ HomeAndColdAreCurrent'
<1>0. job \in [alive : BOOLEAN, step : Nat, at : Nat]
    BY DEF IInv, TypeInv
<1>1. CASE Tick \/ UNCHANGED vars
  <2>1. UNCHANGED <<job, memory, file, at, loc, poll, shown>> /\ now' \in {now, now + 1}
      BY <1>1 DEF Tick, vars
  <2>2. Running' => now' <= job.at + TTL
    <3>1. CASE Tick
        BY <3>1, Times DEF Tick, Running
    <3>2. CASE UNCHANGED vars
        BY <3>2 DEF vars, Current, Running
    <3>. QED
        BY <1>1, <3>1, <3>2
  <2>. QED
      BY <2>1, <2>2, CurrentKept
<1>2. ASSUME NEW w \in Worker, NEW polls, Enter(w, polls), UNCHANGED <<now, job, file>>,
             \A f \in Poll : poll'[f].state = "answered" => poll'[f] = poll[f]
      PROVE  Current' /\ HomeAndColdAreCurrent'
  <2>1. Running' => now' <= job.at + TTL
      BY <1>2 DEF Current, Running
  <2>2. \A x \in Worker : at'[x] = "unlink" => at[x] = "unlink"
      BY <1>2 DEF Enter, IInv, TypeInv
  <2>3. Expired(job, now) \/ job.step = 0 \/ ~job'.alive \/ memory'[Home] = memory[Home]
      BY <1>2, EnterKeepsHome
  <2>. QED
      BY <1>2, <2>1, <2>2, <2>3, CurrentKept
<1>3. CASE BeginSet
  <2>1. Enter(Home, {}) /\ UNCHANGED <<now, job, file, poll>>
      BY <1>3 DEF BeginSet
  <2>. QED
      BY <1>2, <2>1, ProgressAssumption
<1>4. ASSUME NEW f \in Poll, NEW w \in Worker, BeginGet(f, w)
      PROVE  Current' /\ HomeAndColdAreCurrent'
  <2>1. Enter(w, {f}) /\ UNCHANGED <<now, job, file>>
      BY <1>4 DEF BeginGet
  <2>2. \A g \in Poll : poll'[g].state = "answered" => poll'[g] = poll[g]
      BY <1>4 DEF BeginGet, IInv, TypeInv
  <2>. QED
      BY <1>2, <2>1, <2>2
<1>5. ASSUME NEW f \in Poll, Show(f) PROVE Current' /\ HomeAndColdAreCurrent'
  <2>1. /\ poll' = [poll EXCEPT ![f] = NoPoll] /\ NoPoll.state = "idle"
        /\ UNCHANGED <<now, job, memory, file, at, loc>>
      BY <1>5 DEF Show, NoPoll
  <2>2. \A g \in Poll : poll'[g].state = "answered" => poll'[g] = poll[g]
      BY <2>1 DEF IInv, TypeInv
  <2>3. Running' => now' <= job.at + TTL
      BY <2>1 DEF Current, Running
  <2>. QED
      BY <2>1, <2>2, <2>3, CurrentKept
<1>6. ASSUME NEW w \in Worker, Restart(w) PROVE Current' /\ HomeAndColdAreCurrent'
  <2>1. /\ memory' = [memory EXCEPT ![w] = None] /\ at' = [at EXCEPT ![w] = "idle"]
        /\ poll' = [f \in Poll |-> IF f \in loc[w].polls THEN NoPoll ELSE poll[f]]
        /\ job' = IF w = Home THEN [job EXCEPT !.alive = FALSE] ELSE job
        /\ UNCHANGED <<now, file, shown>> /\ NoPoll.state = "idle"
      BY <1>6 DEF Restart, Leave, NoPoll
  <2>2. /\ job'.step = job.step /\ job'.at = job.at /\ (job'.alive => job.alive)
        /\ ~job'.alive \/ (w # Home /\ job' = job)
      BY <1>0, <2>1
  <2>3. Running' => now' <= job.at + TTL
      BY <2>1, <2>2 DEF Current, Running
  <2>4. ~job'.alive \/ memory'[Home] = memory[Home]
      BY <2>1, <2>2 DEF IInv, TypeInv
  <2>5. \A x \in Worker : at'[x] = "unlink" => at[x] = "unlink"
      BY <2>1 DEF IInv, TypeInv
  <2>6. \A g \in Poll : poll'[g].state = "answered" => poll'[g] = poll[g]
      BY <2>1
  <2>. QED
      BY <2>1, <2>2, <2>3, <2>4, <2>5, <2>6, CurrentKept
<1>. QED
    BY <1>1, <1>3, <1>4, <1>5, <1>6, ScanKeepsCurrent, AnswerKeepsCurrent, PublishKeepsCurrent
       DEF Next, Done

\* All of it holds at the start.
LEMMA InitTold == Init => Told /\ Current /\ HomeAndColdAreCurrent
<1>. SUFFICES ASSUME Init PROVE Told /\ Current /\ HomeAndColdAreCurrent
    OBVIOUS
<1>1. /\ now = 1 /\ job = [alive |-> TRUE, step |-> 0, at |-> 1]
      /\ at[Home] = "idle" /\ \A w \in Worker : at[w] = "idle" /\ loc[w] = NoLoc
      /\ \A f \in Poll : poll[f].state = "idle"
    BY ProgressAssumption DEF Init, NoPoll
<1>2. job.step = 0 /\ job.at = 1 /\ NoLoc.polls = {} /\ NoLoc.now = 0
    BY <1>1 DEF NoLoc
<1>3. Told
    BY <1>1, <1>2 DEF Told, CallsAnswer, CallsArePast, NothingExpiredIsTold, Answered
<1>4. Current
    BY <1>1, <1>2, ProgressAssumption DEF Current
<1>. QED
    BY <1>1, <1>3, <1>4 DEF HomeAndColdAreCurrent, Answered

\* No poll is told a step that had outlived the time to live when the poll was
\* taken up: every way to an answer goes through _prune_stale.
THEOREM NothingExpired == Spec => []NothingExpiredIsTold
<1>1. Init => Told
    BY InitTold
<1>2. IInv /\ Told /\ [Next]_vars => Told'
    BY ToldInv
<1>3. Told => NothingExpiredIsTold
    BY DEF Told
<1>. QED
    BY <1>1, <1>2, <1>3, ProgressInvariant, PTL DEF Spec

\* If the job publishes at least once per time to live, the worker that runs it
\* and every worker that knew nothing of it answer with the latest step: no other
\* worker unlinks the file under a job that goes on.
THEOREM LatestIsTold == ASSUME Prompt PROVE Spec => []HomeAndColdAreCurrent
<1>1. Init => Told /\ Current /\ HomeAndColdAreCurrent
    BY InitTold
<1>2. IInv /\ Told /\ [Next]_vars => Told'
    BY ToldInv
<1>3. IInv /\ Told /\ Current /\ HomeAndColdAreCurrent /\ [Next]_vars => Current' /\ HomeAndColdAreCurrent'
    BY CurrentInv
<1>. QED
    BY <1>1, <1>2, <1>3, ProgressInvariant, PTL DEF Spec
=============================================================================
