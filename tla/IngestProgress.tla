---------------------------- MODULE IngestProgress ----------------------------
(***************************************************************************)
(* How a browser learns of the progress of one upload (ingest_progress.py).*)
(* The job publishes its steps in the worker process it runs in.  Each     *)
(* worker keeps what it knows of the token in memory; a file that all      *)
(* workers share is read only by a worker that knows nothing of it.  Both  *)
(* forget what is older than a time to live.  A lock per worker serialises *)
(* its calls, but nothing orders the file operations of two workers.       *)
(* Every 1.2 s the browser sends a poll, which any worker may answer and   *)
(* whose answer may overtake an earlier one.                               *)
(***************************************************************************)
EXTENDS Naturals, FiniteSets

CONSTANTS Worker,    \* gunicorn worker processes
          Home,      \* the one that runs the job
          Poll,      \* polls the browser may have under way
          LastStep,  \* the job's last step, published with done = True
          TTL,       \* _TTL_SECONDS
          MaxTime,   \* bound: the clock
          Prompt     \* BOOLEAN: the job publishes at least once per TTL

ASSUME ProgressAssumption ==
    /\ Home \in Worker
    /\ LastStep \in Nat \ {0} /\ TTL \in Nat /\ MaxTime \in Nat
    /\ Prompt \in BOOLEAN

VARIABLES
    now,     \* the clock, which all workers share
    job,     \* [alive, step, at]: the last step published, and when
    memory,  \* memory[w]: w's _PROGRESS entry
    file,    \* the progress file
    at,      \* at[w]: the call that holds w's lock: its next step
    loc,     \* loc[w]: when the call read the clock, and the poll it answers
    poll,    \* poll[f]: [state, worker, cold, step, now, value]
    shown    \* what the page shows

vars == <<now, job, memory, file, at, loc, poll, shown>>

None   == [step |-> 0, at |-> 0]
NoPoll == [state |-> "idle", worker |-> Home, cold |-> FALSE, step |-> 0, now |-> 0, value |-> None]
NoLoc  == [now |-> 0, polls |-> {}]

Init ==
    /\ now = 1
    /\ job = [alive |-> TRUE, step |-> 0, at |-> 1]
    /\ memory = [w \in Worker |-> None]
    /\ file = None
    /\ at = [w \in Worker |-> "idle"]
    /\ loc = [w \in Worker |-> NoLoc]
    /\ poll = [f \in Poll |-> NoPoll]
    /\ shown = None

Running == job.alive /\ job.step < LastStep

\* Time passes; with Prompt, not so much that a running job stays silent.
Tick ==
    /\ now < MaxTime
    /\ Prompt /\ Running => now < job.at + TTL
    /\ now' = now + 1
    /\ UNCHANGED <<job, memory, file, at, loc, poll, shown>>

Expired(v, t) == v.at + TTL < t

\* Seeded fault for Pruned: the worker's memory is not looked at.
FaultPruned(v, t) == v

\* _prune_stale.
Pruned(v, t) == IF Expired(v, t) THEN None ELSE v

\* A call reads the clock and takes the lock of worker w.
Enter(w, polls) ==
    /\ at[w] = "idle"
    /\ at' = [at EXCEPT ![w] = "scan"]
    /\ loc' = [loc EXCEPT ![w] = [now |-> now, polls |-> polls]]
    /\ memory' = [memory EXCEPT ![w] = Pruned(@, now)]

\* The job calls set_progress for its next step.
BeginSet ==
    /\ Running
    /\ job.step > 0 => job.at < now
    /\ Enter(Home, {})
    /\ UNCHANGED <<now, job, file, poll, shown>>

\* The page's timer sends a poll, and worker w takes it up: get_progress.  Of
\* the poll, what was published by then is remembered, and whether w had
\* nothing in memory.
BeginGet(f, w) ==
    /\ poll[f].state = "idle"
    /\ shown.step < LastStep
    /\ Enter(w, {f})
    /\ poll' = [poll EXCEPT ![f] =
                   [state |-> "asked", worker |-> w, cold |-> memory'[w] = None,
                    step |-> job.step, now |-> now, value |-> None]]
    /\ UNCHANGED <<now, job, file, shown>>

\* _prune_stale_files looks into the file ...
Scan(w) ==
    /\ at[w] = "scan"
    /\ at' = [at EXCEPT ![w] = IF file # None /\ Expired(file, loc[w].now) THEN "unlink" ELSE "act"]
    /\ UNCHANGED <<now, job, memory, file, loc, poll, shown>>

\* ... and unlinks the path, whatever it names by now.
Unlink(w) ==
    /\ at[w] = "unlink"
    /\ file' = None
    /\ at' = [at EXCEPT ![w] = "act"]
    /\ UNCHANGED <<now, job, memory, loc, poll, shown>>

Leave(w) ==
    /\ at' = [at EXCEPT ![w] = "idle"]
    /\ loc' = [loc EXCEPT ![w] = NoLoc]

\* Seeded fault for Publish: the file is written only at the end.
FaultPublish ==
    LET v == [step |-> job.step + 1, at |-> loc[Home].now] IN
    /\ at[Home] = "act" /\ loc[Home].polls = {}
    /\ memory' = [memory EXCEPT ![Home] = v]
    /\ file' = IF v.step = LastStep THEN v ELSE file
    /\ job' = [job EXCEPT !.step = v.step, !.at = v.at]
    /\ Leave(Home)
    /\ UNCHANGED <<now, poll, shown>>

\* The rest of set_progress: memory, then the file, which is replaced as a
\* whole.
Publish ==
    LET v == [step |-> job.step + 1, at |-> loc[Home].now] IN
    /\ at[Home] = "act" /\ loc[Home].polls = {}
    /\ memory' = [memory EXCEPT ![Home] = v]
    /\ file' = v
    /\ job' = [job EXCEPT !.step = v.step, !.at = v.at]
    /\ Leave(Home)
    /\ UNCHANGED <<now, poll, shown>>

\* The rest of get_progress: what memory has, and only else what the file has.
Answer(w, f) ==
    LET found == IF memory[w] # None THEN memory[w] ELSE Pruned(file, loc[w].now) IN
    /\ at[w] = "act" /\ loc[w].polls = {f}
    /\ memory' = [memory EXCEPT ![w] = found]
    /\ poll' = [poll EXCEPT ![f] = [@ EXCEPT !.state = "answered", !.value = found]]
    /\ Leave(w)
    /\ UNCHANGED <<now, job, file, shown>>

\* Seeded fault for Newer: every answer is shown.
FaultNewer(v) == TRUE

\* The page drops an answer whose updated_at is before that of the last.
Newer(v) == v.at >= shown.at

\* The browser gets the answer of a poll.
Show(f) ==
    LET v == poll[f].value IN
    /\ poll[f].state = "answered"
    /\ shown' = IF v # None /\ Newer(v) THEN v ELSE shown
    /\ poll' = [poll EXCEPT ![f] = NoPoll]
    /\ UNCHANGED <<now, job, memory, file, at, loc>>

\* The worker is recycled: its memory and its threads are gone, and a poll it
\* was about to answer gets nothing.
Restart(w) ==
    /\ memory' = [memory EXCEPT ![w] = None]
    /\ Leave(w)
    /\ poll' = [f \in Poll |-> IF f \in loc[w].polls THEN NoPoll ELSE poll[f]]
    /\ job' = IF w = Home THEN [job EXCEPT !.alive = FALSE] ELSE job
    /\ UNCHANGED <<now, file, shown>>

Done == now = MaxTime /\ shown.step = LastStep /\ UNCHANGED vars

Next ==
    \/ Tick
    \/ BeginSet \/ Publish
    \/ \E w \in Worker : Scan(w) \/ Unlink(w) \/ Restart(w)
    \/ \E f \in Poll, w \in Worker : BeginGet(f, w) \/ Answer(w, f)
    \/ \E f \in Poll : Show(f)
    \/ Done

Spec == Init /\ [][Next]_vars

-----------------------------------------------------------------------------
(* Properties.                                                             *)

Answered == {f \in Poll : poll[f].state = "answered"}

\* The answer is at least as new as what was published when the poll was
\* taken up, unless that has outlived the time to live by now.
UpToDate(f) == poll[f].value.step >= poll[f].step \/ Expired(job, now)

\* The worker that runs the job, and a worker that has nothing in memory yet,
\* answer with the latest step, whatever other workers prune meanwhile.
HomeAndColdAreCurrent ==
    \A f \in Answered :
        poll[f].cold \/ (poll[f].worker = Home /\ job.alive) => UpToDate(f)

\* No poll is answered with a step that had outlived the time to live when it
\* was taken up, from memory or from the file.
NothingExpiredIsTold ==
    \A f \in Answered : poll[f].value # None => ~Expired(poll[f].value, poll[f].now)

\* However the polls' answers overtake each other and whichever workers give
\* them, the page never goes back to an earlier step.
ShownNeverGoesBack == [][shown'.step >= shown.step]_vars
=============================================================================
