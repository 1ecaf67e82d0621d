------------------------------ MODULE WorkReview ------------------------------
(***************************************************************************)
(* The rating of one comic, the admins' review queue about it and the      *)
(* reports of visitors.  Five kinds of request write the rating: the       *)
(* owner's metadata form, the page editor (which raises it from what       *)
(* moderation saw and writes back the copy it read), an admin's metadata   *)
(* form, and an admin who approves a flagged upload or promotes a work     *)
(* somebody reported.  Each reads first and writes later.  Tags,           *)
(* titles and pages are left out (ComicPages has the pages).               *)
(***************************************************************************)
EXTENDS Integers, FiniteSets, SequencesExt

CONSTANTS Owner,       \* request threads of the uploader, who is no admin
          Admin,       \* request threads of admins
          Source,      \* source_member: which upload was flagged
          Scales,      \* the bounds of a behaviour, see scale
          DraftForm,   \* BOOLEAN: may pages come from the upload editor's form?
          DeleteWorks  \* BOOLEAN: may the work be deleted?

ASSUME ReviewAssumption ==
    /\ Owner \cap Admin = {}
    /\ Scales \subseteq [ops : Nat, items : Nat, reports : Nat]
    /\ {DraftForm, DeleteWorks} \subseteq BOOLEAN

\* The ratings, by rank: everything below Mature is one value here.
Low      == 1
Mature   == 2
Explicit == 3
Rating   == {Low, Mature, Explicit}

Reason == {"explicit", "graphic-violence"}
Final  == {"approved", "rejected", "dismissed"}
Marks  == {"re-open", "resolved", "false-report", "needs-research"}

VARIABLES
    scale,   \* bounds: requests started, review items and reports ever filed
    work,    \* [alive, rating]: the row in works
    queue,   \* moderation_review_queue by id: [src, why, status]
    reports, \* dmca_reports by id: the status, "removed" once deleted
    at,      \* at[u]: the next step of u's request
    loc,     \* loc[u]: the request and what it has read
    answer,  \* answer[u]: what u's last review or report was told
    ops,     \* requests started
    solo     \* history: the running request has run alone so far

vars == <<scale, work, queue, reports, at, loc, answer, ops, solo>>

User == Owner \cup Admin

-----------------------------------------------------------------------------
(* Requests.  r is the rating asked for or suggested by moderation, form   *)
(* the rating field of the upload editor (0: none, the page comes from the *)
(* work's own editor), src and why the flag moderation raised (why = "none",   *)
(* none), item and verdict a review or what is done about a report.        *)

Req(k, r, f, s, y, n, v) ==
    [kind |-> k, r |-> r, form |-> f, src |-> s, why |-> y, item |-> n, verdict |-> v]

AnySource == CHOOSE s \in Source : TRUE

Edits == {Req("edit", r, 0, AnySource, "none", 0, "none") : r \in Rating}

PageUploads ==
    {Req("addPage", r, f, s, y, 0, "none") :
        r \in Rating, f \in IF DraftForm THEN Rating ELSE {0},
        s \in Source, y \in Reason \cup {"none"}}
    \cup {Req("replacePage", r, 0, AnySource, "none", 0, "none") : r \in Rating}
    \cup {Req("movePage", Low, 0, AnySource, "none", 0, "none")}

Reviews == {Req("review", 0, 0, AnySource, "none", n, v) : n \in 1..scale.items, v \in Final}

OnReports ==
    {Req("mark", 0, 0, AnySource, "none", n, v) : n \in 1..scale.reports, v \in Marks}
    \cup {Req("promote", 0, 0, AnySource, "none", n, "resolved") : n \in 1..scale.reports}
    \cup {Req("remove", 0, 0, AnySource, "none", n, "removed") : n \in 1..scale.reports}

Deletions == {Req("delete", 0, 0, AnySource, "none", 0, "none")}

NoReq == Req("none", 0, 0, AnySource, "none", 0, "none")
NoLoc == [req |-> NoReq, seen |-> 0]

-----------------------------------------------------------------------------
Init ==
    /\ scale \in Scales
    /\ work = [alive |-> TRUE, rating |-> Low]
    /\ queue = <<>>
    /\ reports = <<>>
    /\ at = [u \in User |-> "idle"]
    /\ loc = [u \in User |-> NoLoc]
    /\ answer = [u \in User |-> "none"]
    /\ ops = 0
    /\ solo = TRUE

AllIdle == \A u \in User : at[u] = "idle"

\* What a step on the work or on the queue leaves alone.
NoReport == UNCHANGED <<scale, reports>>

To(u, step, l) ==
    /\ at' = [at EXCEPT ![u] = step]
    /\ loc' = [loc EXCEPT ![u] = l]

Stop(u) == To(u, "idle", NoLoc)

Start(u) ==
    /\ at[u] = "idle"
    /\ ops < scale.ops
    /\ ops' = ops + 1
    /\ solo' = AllIdle

\* comic.ex.post reads the work at once, and answers 404 if it is gone.
Begin(u, q) ==
    /\ Start(u)
    /\ work.alive
    /\ To(u, CASE q.kind = "edit"    -> "lock"
               [] q.kind = "addPage" -> "moderated"
               [] q.kind = "delete"  -> "drop"
               [] OTHER              -> "reread",
          [req |-> q, seen |-> work.rating])
    /\ UNCHANGED <<work, queue, answer>>

\* get_moderation_review_item finds the item whatever its status is by now.
IsItem(n) == n \in DOMAIN queue

\* An admin acts on a row of the queue page.
BeginReview(u, q) ==
    /\ Start(u)
    /\ IsItem(q.item)
    /\ To(u, IF q.verdict = "approved" /\ queue[q.item].why = "explicit" THEN "rate" ELSE "resolve",
          [req |-> q, seen |-> work.rating])
    /\ answer' = [answer EXCEPT ![u] = "none"]
    /\ UNCHANGED <<work, queue>>

\* list_content_reports: what the page of reports may have shown by now.
Listed == DOMAIN reports

\* An admin acts on a report that was listed, and may be removed meanwhile.
BeginReport(u, q) ==
    /\ Start(u)
    /\ q.item \in Listed
    /\ To(u, IF q.kind = "promote" THEN "rate" ELSE "mark", [req |-> q, seen |-> work.rating])
    /\ answer' = [answer EXCEPT ![u] = "none"]
    /\ UNCHANGED <<work, queue>>

\* Seeded fault for Locked: raising to Explicit is not looked at.
FaultLocked(admin, current, asked) ==
    ~admin /\ current = Explicit /\ asked # Explicit

\* Seeded fault for Locked: lowering from Explicit is not looked at.
FaultLockedRaiseOnly(admin, current, asked) ==
    ~admin /\ asked = Explicit /\ current \notin {Mature, Explicit}

\* should_lock_explicit_demotion.
Locked(admin, current, asked) ==
    /\ ~admin
    /\ \/ current = Explicit /\ asked # Explicit
       \/ asked = Explicit /\ current \notin {Mature, Explicit}

\* The metadata form: the lock is decided on the rating read before.
Refused(u) ==
    /\ at[u] = "lock"
    /\ Locked(u \in Admin, loc[u].seen, loc[u].req.r)
    /\ Stop(u)
    /\ UNCHANGED <<work, queue, answer, ops, solo>>

\* update_work_metadata.  The UPDATE of a deleted work changes no row.
SaveMetadata(u) ==
    /\ at[u] = "lock"
    /\ ~Locked(u \in Admin, loc[u].seen, loc[u].req.r)
    /\ work' = IF work.alive THEN [work EXCEPT !.rating = loc[u].req.r] ELSE work
    /\ Stop(u)
    /\ UNCHANGED <<queue, answer, ops, solo>>

\* Seeded fault for Elevated: what moderation suggests is ignored.
FaultElevated(current, suggested) == current

\* _elevate_rating.
Elevated(current, suggested) == IF suggested > current THEN suggested ELSE current

\* ingest_editor_page looks the work up again after moderation, but starts
\* from the rating it was handed: the one the page's form carried, or the one
\* the handler read.
Moderated(u) ==
    LET q == loc[u].req IN
    /\ at[u] = "moderated"
    /\ IF work.alive
       THEN To(u, "upsert", [loc[u] EXCEPT
                   !.seen = Elevated(IF q.form = 0 THEN @ ELSE q.form, q.r)])
       ELSE Stop(u)
    /\ UNCHANGED <<work, queue, answer, ops, solo>>

\* _require_editor_owner: the other page operations read the rating now.
Reread(u) ==
    LET q == loc[u].req IN
    /\ at[u] = "reread"
    /\ IF work.alive
       THEN To(u, "upsert", [loc[u] EXCEPT
                   !.seen = IF q.kind = "movePage" THEN work.rating ELSE Elevated(work.rating, q.r)])
       ELSE Stop(u)
    /\ UNCHANGED <<work, queue, answer, ops, solo>>

\* upsert_work writes the whole row back, and makes it again if it is gone.
Upsert(u) ==
    /\ at[u] = "upsert"
    /\ work' = [alive |-> TRUE, rating |-> loc[u].seen]
    /\ IF loc[u].req.why = "none" THEN Stop(u) ELSE To(u, "enqueue", loc[u])
    /\ UNCHANGED <<queue, answer, ops, solo>>

Same(i, src, why, status) ==
    queue[i].src = src /\ queue[i].why = why /\ queue[i].status = status

\* Seeded fault for Enqueue: ON CONFLICT is missing and so is the index.
FaultEnqueue(u) ==
    LET q == loc[u].req IN
    /\ at[u] = "enqueue"
    /\ Len(queue) < scale.items
    /\ queue' = Append(queue, [src |-> q.src, why |-> q.why, status |-> "pending"])
    /\ Stop(u)
    /\ UNCHANGED <<work, answer, ops, solo>>

\* enqueue_moderation_review: a flag that is pending already is refreshed.
Enqueue(u) ==
    LET q == loc[u].req IN
    /\ at[u] = "enqueue"
    /\ IF \E i \in DOMAIN queue : Same(i, q.src, q.why, "pending")
       THEN UNCHANGED queue
       ELSE /\ Len(queue) < scale.items
            /\ queue' = Append(queue, [src |-> q.src, why |-> q.why, status |-> "pending"])
    /\ Stop(u)
    /\ UNCHANGED <<work, answer, ops, solo>>

\* The bound on items is reached: the flag is dropped.
EnqueueBound(u) ==
    /\ at[u] = "enqueue"
    /\ Len(queue) = scale.items
    /\ \A i \in DOMAIN queue : ~Same(i, loc[u].req.src, loc[u].req.why, "pending")
    /\ Stop(u)
    /\ UNCHANGED <<work, queue, answer, ops, solo>>

\* set_work_rating looks the work up and gives up if it is gone ...
LookUp(u) ==
    /\ at[u] = "rate"
    /\ IF work.alive THEN To(u, "setRating", loc[u]) /\ UNCHANGED answer
       ELSE Stop(u) /\ answer' = [answer EXCEPT ![u] = "rating-failed"]
    /\ UNCHANGED <<work, queue, ops, solo>>

\* Seeded fault for SetRating: the write is forgotten.
FaultSetRating(u) ==
    /\ at[u] = "setRating"
    /\ To(u, IF loc[u].req.kind = "promote" THEN "mark" ELSE "resolve", loc[u])
    /\ UNCHANGED <<work, queue, answer, ops, solo>>

\* ... and then writes Explicit.
SetRating(u) ==
    /\ at[u] = "setRating"
    /\ work' = IF work.alive THEN [work EXCEPT !.rating = Explicit] ELSE work
    /\ To(u, IF loc[u].req.kind = "promote" THEN "mark" ELSE "resolve", loc[u])
    /\ UNCHANGED <<queue, answer, ops, solo>>

\* The UPDATE of a pending item runs into the unique index, which has the
\* status in it: an item of the same flag was given the same verdict before.
Clashes(u) ==
    LET q == loc[u].req IN
    \E i \in DOMAIN queue : Same(i, queue[q.item].src, queue[q.item].why, q.verdict)

\* Seeded fault for IsOpen: WHERE id = ? without the status.
FaultIsOpen(n) == TRUE

IsOpen(n) == queue[n].status = "pending"

\* update_moderation_review_status.
Resolve(u) ==
    LET q == loc[u].req IN
    /\ at[u] = "resolve"
    /\ IsOpen(q.item) => ~Clashes(u)
    /\ IF IsOpen(q.item)
       THEN /\ queue' = [queue EXCEPT ![q.item].status = q.verdict]
            /\ answer' = [answer EXCEPT ![u] = q.verdict]
       ELSE /\ UNCHANGED queue
            /\ answer' = [answer EXCEPT ![u] = "not-found"]
    /\ Stop(u)
    /\ UNCHANGED <<work, ops, solo>>

\* IntegrityError: the verdict is lost, the item stays pending.
ResolveFails(u) ==
    /\ at[u] = "resolve"
    /\ IsOpen(loc[u].req.item) /\ Clashes(u)
    /\ Stop(u)
    /\ answer' = [answer EXCEPT ![u] = "error"]
    /\ UNCHANGED <<work, queue, ops, solo>>

AddReport == reports' = Append(reports, "open")

\* A visitor, signed in or not, reports the work, which may be gone by then.
FileReport ==
    /\ Len(reports) < scale.reports
    /\ AddReport
    /\ UNCHANGED <<scale, work, queue, at, loc, answer, ops, solo>>

\* Is the row still there?
IsReport(n) == reports[n] # "removed"

\* update_content_report_status and delete_content_report: no guard on the
\* status, and a promotion does not ask whether the row was there.
MarkReport(u) ==
    LET q == loc[u].req IN
    /\ at[u] = "mark"
    /\ reports' = IF IsReport(q.item) THEN [reports EXCEPT ![q.item] = q.verdict] ELSE reports
    /\ answer' = [answer EXCEPT ![u] =
           IF q.kind = "promote" THEN "promoted"
           ELSE IF IsReport(q.item) THEN q.verdict ELSE "not-found"]
    /\ Stop(u)
    /\ UNCHANGED <<scale, work, queue, ops, solo>>

\* delete_work; the review items and the reports of the work stay.
DropWork(u) ==
    /\ at[u] = "drop"
    /\ work' = [work EXCEPT !.alive = FALSE]
    /\ Stop(u)
    /\ UNCHANGED <<queue, answer, ops, solo>>

Step(u) ==
    \/ Refused(u) \/ SaveMetadata(u)
    \/ Moderated(u) \/ Reread(u) \/ Upsert(u) \/ Enqueue(u) \/ EnqueueBound(u)
    \/ LookUp(u) \/ SetRating(u) \/ Resolve(u) \/ ResolveFails(u)
    \/ DropWork(u)

Done == AllIdle /\ (ops = scale.ops \/ ~work.alive) /\ UNCHANGED vars

Next ==
    \/ /\ NoReport
       /\ \/ \E u \in User : \E q \in Edits : Begin(u, q)
          \/ \E u \in Owner : \E q \in PageUploads : Begin(u, q)
          \/ DeleteWorks /\ \E u \in User : \E q \in Deletions : Begin(u, q)
          \/ \E u \in Admin : \E q \in Reviews : BeginReview(u, q)
          \/ \E u \in Admin : \E q \in OnReports : BeginReport(u, q)
          \/ \E u \in User : Step(u)
    \/ FileReport
    \/ \E u \in Admin : MarkReport(u)
    \/ Done

Spec == Init /\ [][Next]_vars

-----------------------------------------------------------------------------
(* Properties.                                                             *)

\* "Only admins can lower Explicit, and non-admins can only raise to Explicit
\* from Mature": as long as requests do not overlap, no step of an owner's
\* request lowers a work from Explicit, whatever raced before it, and the
\* metadata form makes one Explicit only if it was Mature.
ExplicitLock ==
    [][\A u \in Owner :
          solo /\ at'[u] # at[u] /\ work.alive =>
              /\ work.rating = Explicit => work'.rating = Explicit
              /\ at[u] = "lock" /\ work'.rating = Explicit
                     => work.rating \in {Mature, Explicit}]_vars

\* A page's moderation rating is a floor: once an upload that was not
\* overlapped is done, the work is rated at least as high as suggested.
SuggestionIsFloor ==
    [][\A u \in Owner :
          /\ solo
          /\ at'[u] = "idle" /\ at[u] \in {"upsert", "enqueue"}
          /\ loc[u].req.kind # "movePage"
          => work'.rating >= loc[u].req.r]_vars

\* The moment an item flagged explicit becomes approved, or a promotion is
\* reported done, by a request that was not overlapped, the work is Explicit.
ApprovalMarksExplicit ==
    [][/\ \A i \in DOMAIN queue :
             solo /\ queue[i].status # "approved" /\ queue'[i].status = "approved" =>
                 (queue[i].why = "explicit" /\ work.alive => work.rating = Explicit)
       /\ \A u \in Admin :
             solo /\ answer[u] # "promoted" /\ answer'[u] = "promoted" =>
                 work = [alive |-> TRUE, rating |-> Explicit]]_vars

\* However admins race on an item, it gets one verdict and keeps it.
ReviewedOnce ==
    [][\A i \in DOMAIN queue :
          queue[i].status # "pending" => queue'[i] = queue[i]]_vars

\* However uploads race, a flag is pending at most once, so that one verdict
\* settles it.
OnePendingPerFlag ==
    \A i, j \in DOMAIN queue :
        queue[i].status = "pending" /\ Same(j, queue[i].src, queue[i].why, "pending") => i = j
=============================================================================
