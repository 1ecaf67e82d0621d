--------------------------- MODULE WorkReviewProofs ---------------------------
(***************************************************************************)
(* Proofs about the rating and the review queue of WorkReview, for any     *)
(* number of uploaders and admins whose requests interleave in any way.    *)
(* An item gets one verdict and keeps it, and a flag is pending at most    *)
(* once: both rest on an invariant that says what a request still carries  *)
(* when it reaches the step that writes the queue.  The lock on Explicit,  *)
(* the floor of a suggestion and what an approval promises concern         *)
(* requests that run alone: they rest on a second invariant, which says    *)
(* what such a request knows of the work at each of its steps.             *)
(***************************************************************************)
EXTENDS WorkReview, TLAPS

Status  == Final \cup {"pending"}
Item    == [src : Source, why : Reason, status : Status]
Level   == 0..3
Kind    == {"none", "edit", "addPage", "replacePage", "movePage", "review",
            "mark", "promote", "remove", "delete"}
Verdict == Final \cup Marks \cup {"removed", "none"}
At      == {"idle", "lock", "moderated", "drop", "reread", "upsert", "enqueue",
            "rate", "setRating", "resolve", "mark"}
Request == [kind : Kind, r : Level, form : Level, src : Source \cup {AnySource},
            why : Reason \cup {"none"}, item : Nat, verdict : Verdict]

TypeInv ==
    /\ work \in [alive : BOOLEAN, rating : Level]
    /\ queue \in Seq(Item)
    /\ at \in [User -> At]
    /\ loc \in [User -> [req : Request, seen : Level]]

\* What the request q carries at step: a flag names its upload, a review
\* names an item of the queue and a final verdict, and only the requests that
\* may write the queue reach the steps that write it.
Fits(step, q) ==
    /\ q.why # "none" => q.src \in Source
    /\ q.kind = "review" => q.verdict \in Final /\ q.item \in DOMAIN queue
    /\ step = "enqueue" => q.why # "none"
    /\ step \in {"rate", "setRating"} => q.kind \in {"review", "promote"}
    /\ step = "resolve" => q.kind = "review"

RequestsCarry == \A u \in User : Fits(at[u], loc[u].req)

IInv == TypeInv /\ RequestsCarry /\ OnePendingPerFlag

-----------------------------------------------------------------------------
(* Lemmas.                                                                 *)

\* The requests that can be made.
LEMMA Requests ==
    /\ \A q \in Edits \cup PageUploads \cup Deletions :
          /\ q \in Request /\ q.kind \notin {"review", "promote"}
          /\ q.why # "none" => q.src \in Source
    /\ \A q \in Reviews : q \in Request /\ q.kind = "review" /\ q.why = "none" /\ q.verdict \in Final
    /\ \A q \in OnReports : q \in Request /\ q.kind # "review" /\ q.why = "none"
    /\ NoReq \in Request /\ NoReq.kind = "none" /\ NoReq.why = "none"
<1>0. /\ \A r \in Rating : r \in Level
      /\ 0 \in Level /\ Low \in Level /\ 0 \in Nat
      /\ "none" \in Verdict /\ "resolved" \in Verdict /\ "removed" \in Verdict
      /\ "none" \in Reason \cup {"none"} /\ AnySource \in Source \cup {AnySource}
      /\ \A n \in 1..scale.items : n \in Nat
      /\ \A n \in 1..scale.reports : n \in Nat
    BY DEF Rating, Level, Low, Mature, Explicit, Verdict, Marks
<1>. USE DEF Req, Request, Kind, Verdict, Level
<1>1. \A q \in Edits \cup Deletions :
          q \in Request /\ q.kind \notin {"review", "promote"} /\ q.why = "none"
    BY <1>0 DEF Edits, Deletions
<1>2. \A q \in PageUploads :
          /\ q \in Request /\ q.kind \notin {"review", "promote"}
          /\ q.why # "none" => q.src \in Source
  <2>1. \A f \in IF DraftForm THEN Rating ELSE {0} : f \in Level
      BY <1>0
  <2>2. ASSUME NEW r \in Rating, NEW f \in IF DraftForm THEN Rating ELSE {0},
               NEW s \in Source, NEW y \in Reason \cup {"none"}
        PROVE  /\ Req("addPage", r, f, s, y, 0, "none") \in Request
               /\ Req("addPage", r, f, s, y, 0, "none").kind \notin {"review", "promote"}
               /\ Req("addPage", r, f, s, y, 0, "none").src \in Source
      BY <1>0, <2>1
  <2>3. \A q \in {Req("replacePage", r, 0, AnySource, "none", 0, "none") : r \in Rating}
                  \cup {Req("movePage", Low, 0, AnySource, "none", 0, "none")} :
            q \in Request /\ q.kind \notin {"review", "promote"} /\ q.why = "none"
      BY <1>0
  <2>. QED
      BY <2>2, <2>3 DEF PageUploads
<1>3. \A q \in Reviews : q \in Request /\ q.kind = "review" /\ q.why = "none" /\ q.verdict \in Final
  <2>1. \A v \in Final : v \in Verdict
      BY DEF Verdict
  <2>. QED
      BY <1>0, <2>1 DEF Reviews
<1>4. \A q \in OnReports : q \in Request /\ q.kind # "review" /\ q.why = "none"
  <2>1. \A v \in Marks : v \in Verdict
      BY DEF Verdict
  <2>. QED
      BY <1>0, <2>1 DEF OnReports
<1>5. NoReq \in Request /\ NoReq.kind = "none" /\ NoReq.why = "none"
    BY <1>0 DEF NoReq
<1>. QED
    BY <1>1, <1>2, <1>3, <1>4, <1>5

\* One request moves on; the queue keeps its items.
LEMMA Moves ==
    ASSUME TypeInv, RequestsCarry, NEW u \in User, NEW step \in At,
           NEW l \in [req : Request, seen : Level],
           To(u, step, l), Fits(step, l.req), DOMAIN queue \subseteq DOMAIN queue'
    PROVE  /\ at' \in [User -> At]
           /\ loc' \in [User -> [req : Request, seen : Level]]
           /\ RequestsCarry'
<1>1. /\ at' \in [User -> At] /\ at'[u] = step
      /\ loc' \in [User -> [req : Request, seen : Level]] /\ loc'[u] = l
      /\ \A v \in User : v # u => at'[v] = at[v] /\ loc'[v] = loc[v]
    BY DEF TypeInv, To
<1>2. ASSUME NEW v \in User PROVE Fits(at[v], loc[v].req)'
  <2>1. CASE v = u
      BY <1>1, <2>1 DEF Fits
  <2>2. CASE v # u
      BY <1>1, <2>2 DEF RequestsCarry, Fits
  <2>. QED
      BY <2>1, <2>2
<1>. QED
    BY <1>1, <1>2 DEF RequestsCarry

\* A request that ends.
LEMMA Stops ==
    ASSUME TypeInv, RequestsCarry, NEW u \in User, Stop(u), DOMAIN queue \subseteq DOMAIN queue'
    PROVE  /\ at' \in [User -> At]
           /\ loc' \in [User -> [req : Request, seen : Level]]
           /\ RequestsCarry'
<1>1. NoLoc \in [req : Request, seen : Level] /\ NoLoc.req = NoReq
    BY Requests DEF NoLoc, Level
<1>2. Fits("idle", NoLoc.req)
    BY <1>1, Requests DEF Fits
<1>. QED
    BY <1>1, <1>2, Moves DEF Stop, At

\* A step that leaves the queue alone leaves the flags alone.
LEMMA SameFlags ==
    OnePendingPerFlag /\ UNCHANGED queue => OnePendingPerFlag'
BY DEF OnePendingPerFlag, Same

-----------------------------------------------------------------------------
(* One lemma per group of steps.                                           *)

\* A request about the work, a review or a report starts.
LEMMA BeginInv ==
    ASSUME IInv, NoReport, NEW u \in User, NEW q,
           \/ q \in Edits \cup PageUploads \cup Deletions /\ Begin(u, q)
           \/ q \in Reviews /\ BeginReview(u, q)
           \/ q \in OnReports /\ BeginReport(u, q)
    PROVE  IInv'
<1>. DEFINE l == [req |-> q, seen |-> work.rating]
<1>1. UNCHANGED <<work, queue>>
    BY DEF Begin, BeginReview, BeginReport
<1>2. q \in Request /\ l \in [req : Request, seen : Level] /\ l.req = q
  <2>1. q \in Request
      BY Requests
  <2>2. work.rating \in Level
      BY DEF IInv, TypeInv
  <2>. QED
      BY <2>1, <2>2
<1>3. \E step \in At : To(u, step, l) /\ Fits(step, q)
  <2>1. CASE q \in Edits \cup PageUploads \cup Deletions /\ Begin(u, q)
    <3>1. PICK step \in {"lock", "moderated", "drop", "reread"} : To(u, step, l)
        BY <2>1 DEF Begin
    <3>2. Fits(step, q)
        BY <2>1, <3>1, Requests DEF Fits
    <3>. QED
        BY <3>1, <3>2 DEF At
  <2>2. CASE q \in Reviews /\ BeginReview(u, q)
    <3>1. PICK step \in {"rate", "resolve"} : To(u, step, l)
        BY <2>2 DEF BeginReview
    <3>2. Fits(step, q)
        BY <2>2, <3>1, Requests DEF Fits, BeginReview, IsItem
    <3>. QED
        BY <3>1, <3>2 DEF At
  <2>3. CASE q \in OnReports /\ BeginReport(u, q)
    <3>1. PICK step \in {"rate", "mark"} : To(u, step, l) /\ (step = "rate" => q.kind = "promote")
        BY <2>3 DEF BeginReport
    <3>2. Fits(step, q)
        BY <2>3, <3>1, Requests DEF Fits
    <3>. QED
        BY <3>1, <3>2 DEF At
  <2>. QED
      BY <2>1, <2>2, <2>3
<1>4. PICK step \in At : To(u, step, l) /\ Fits(step, l.req)
    BY <1>2, <1>3
<1>5. TypeInv' /\ RequestsCarry'
    BY <1>1, <1>2, <1>4, Moves DEF IInv, TypeInv
<1>. QED
    BY <1>1, <1>5, SameFlags DEF IInv

\* The steps that write the work or nothing at all leave the queue alone.
LEMMA WorkStepInv ==
    ASSUME IInv, NEW u \in User,
           \/ Refused(u) \/ SaveMetadata(u) \/ Moderated(u) \/ Reread(u) \/ Upsert(u)
           \/ LookUp(u) \/ SetRating(u) \/ DropWork(u) \/ EnqueueBound(u)
           \/ ResolveFails(u) \/ MarkReport(u)
    PROVE  IInv'
<1>1. /\ loc[u] \in [req : Request, seen : Level]
      /\ loc[u].req \in Request /\ loc[u].seen \in Level
      /\ loc[u].req.r \in Level /\ loc[u].req.form \in Level
      /\ work.alive \in BOOLEAN /\ work.rating \in Level
      /\ Fits(at[u], loc[u].req)
    BY DEF IInv, TypeInv, RequestsCarry, Request
<1>2. queue' = queue
    BY DEF Refused, SaveMetadata, Moderated, Reread, Upsert, LookUp, SetRating, DropWork,
           EnqueueBound, ResolveFails, MarkReport
<1>3. work' \in [alive : BOOLEAN, rating : Level]
  <2>1. CASE SaveMetadata(u)
      BY <1>1, <2>1 DEF SaveMetadata, IInv, TypeInv
  <2>2. CASE Upsert(u)
      BY <1>1, <2>2 DEF Upsert
  <2>3. CASE SetRating(u)
      BY <1>1, <2>3 DEF SetRating, IInv, TypeInv, Explicit, Level
  <2>4. CASE DropWork(u)
      BY <1>1, <2>4 DEF DropWork, IInv, TypeInv
  <2>5. CASE \/ Refused(u) \/ Moderated(u) \/ Reread(u) \/ LookUp(u)
             \/ EnqueueBound(u) \/ ResolveFails(u) \/ MarkReport(u)
      BY <2>5
      DEF IInv, TypeInv, Refused, Moderated, Reread, LookUp, EnqueueBound, ResolveFails,
          MarkReport
  <2>. QED
      BY <2>1, <2>2, <2>3, <2>4, <2>5
<1>4. /\ at' \in [User -> At]
      /\ loc' \in [User -> [req : Request, seen : Level]]
      /\ RequestsCarry'
  <2>1. CASE Stop(u)
      BY <1>2, <2>1, Stops DEF IInv
  <2>2. ASSUME NEW x \in Level,
               \/ To(u, "upsert", [loc[u] EXCEPT !.seen = x])
               \/ at[u] = "upsert" /\ loc[u].req.why # "none" /\ To(u, "enqueue", loc[u])
               \/ at[u] = "rate" /\ To(u, "setRating", loc[u])
               \/ at[u] = "setRating" /\ loc[u].req.kind = "promote" /\ To(u, "mark", loc[u])
               \/ at[u] = "setRating" /\ loc[u].req.kind # "promote" /\ To(u, "resolve", loc[u])
        PROVE  /\ at' \in [User -> At]
               /\ loc' \in [User -> [req : Request, seen : Level]]
               /\ RequestsCarry'
    <3>1. PICK l \in [req : Request, seen : Level], step \in At :
              To(u, step, l) /\ Fits(step, l.req)
      <4>. DEFINE l == [loc[u] EXCEPT !.seen = x]
      <4>1. l \in [req : Request, seen : Level] /\ l.req = loc[u].req
          BY <1>1
      <4>2. Fits("upsert", l.req)
          BY <1>1, <4>1 DEF Fits
      <4>. QED
          BY <1>1, <2>2, <4>1, <4>2 DEF Fits, At
    <3>. QED
        BY <1>2, <3>1, Moves DEF IInv
  <2>3. CASE Moderated(u)
    <3>1. Elevated(IF loc[u].req.form = 0 THEN loc[u].seen ELSE loc[u].req.form, loc[u].req.r)
              \in Level
        BY <1>1 DEF Elevated
    <3>. QED
        BY <2>1, <2>2, <2>3, <3>1 DEF Moderated
  <2>4. CASE Reread(u)
    <3>1. (IF loc[u].req.kind = "movePage" THEN work.rating
           ELSE Elevated(work.rating, loc[u].req.r)) \in Level
        BY <1>1 DEF Elevated
    <3>. QED
        BY <2>1, <2>2, <2>4, <3>1 DEF Reread
  <2>5. CASE Upsert(u) \/ LookUp(u) \/ SetRating(u)
      BY <1>1, <2>1, <2>2, <2>5 DEF Upsert, LookUp, SetRating
  <2>6. CASE \/ Refused(u) \/ SaveMetadata(u) \/ DropWork(u) \/ EnqueueBound(u)
             \/ ResolveFails(u) \/ MarkReport(u)
      BY <2>1, <2>6
      DEF Refused, SaveMetadata, DropWork, EnqueueBound, ResolveFails, MarkReport
  <2>. QED
      BY <2>3, <2>4, <2>5, <2>6
<1>. QED
    BY <1>2, <1>3, <1>4, SameFlags DEF IInv, TypeInv

\* A flag joins the queue only if it is not pending there.
LEMMA EnqueueInv ==
    ASSUME IInv, NEW u \in User, Enqueue(u)
    PROVE  IInv'
<1>. DEFINE new == [src |-> loc[u].req.src, why |-> loc[u].req.why, status |-> "pending"]
<1>1. queue \in Seq(Item)
    BY DEF IInv, TypeInv
<1>2. new \in Item
  <2>1. loc[u].req \in Request /\ Fits("enqueue", loc[u].req)
      BY DEF IInv, TypeInv, RequestsCarry, Enqueue
  <2>2. loc[u].req.why \in Reason /\ loc[u].req.src \in Source
      BY <2>1 DEF Fits, Request
  <2>. QED
      BY <2>2 DEF Item, Status
<1>3. CASE queue' = queue
  <2>1. work' = work /\ Stop(u)
      BY DEF Enqueue
  <2>. QED
      BY <1>3, <2>1, Stops, SameFlags DEF IInv, TypeInv
<1>4. CASE /\ queue' = Append(queue, new)
           /\ \A i \in DOMAIN queue : ~Same(i, loc[u].req.src, loc[u].req.why, "pending")
  <2>1. work' = work /\ Stop(u)
      BY DEF Enqueue
  <2>2. /\ queue' \in Seq(Item)
        /\ DOMAIN queue' = DOMAIN queue \cup {Len(queue) + 1}
        /\ queue'[Len(queue) + 1] = new
        /\ \A i \in DOMAIN queue : queue'[i] = queue[i] /\ i # Len(queue) + 1
      BY <1>1, <1>2, <1>4
  <2>3. OnePendingPerFlag'
      BY <1>4, <2>2 DEF IInv, OnePendingPerFlag, Same
  <2>. QED
      BY <2>1, <2>2, <2>3, Stops DEF IInv, TypeInv
<1>. QED
    BY <1>3, <1>4 DEF Enqueue

\* A verdict ends one item and touches no other.
LEMMA ResolveInv ==
    ASSUME IInv, NEW u \in User, Resolve(u)
    PROVE  /\ IInv'
           /\ \A i \in DOMAIN queue : queue[i].status # "pending" => queue'[i] = queue[i]
<1>. DEFINE q == loc[u].req
<1>1. queue \in Seq(Item) /\ q.verdict \in Final /\ q.item \in DOMAIN queue
    BY DEF IInv, TypeInv, RequestsCarry, Resolve, Fits
<1>2. work' = work /\ Stop(u)
    BY DEF Resolve
<1>3. CASE queue' = queue
    BY <1>2, <1>3, Stops, SameFlags DEF IInv, TypeInv
<1>4. CASE IsOpen(q.item) /\ queue' = [queue EXCEPT ![q.item].status = q.verdict]
  <2>1. /\ DOMAIN queue' = DOMAIN queue
        /\ \A i \in DOMAIN queue : i # q.item => queue'[i] = queue[i]
        /\ queue'[q.item] = [queue[q.item] EXCEPT !.status = q.verdict]
      BY <1>1, <1>4
  <2>2. queue[q.item] \in Item /\ q.verdict \in Status
      BY <1>1 DEF Status
  <2>3. queue'[q.item] \in Item /\ queue'[q.item].status = q.verdict
      BY <2>1, <2>2 DEF Item
  <2>4. queue' \in Seq(Item)
      BY <1>1, <1>4, <2>1, <2>3
  <2>5. q.verdict # "pending"
      BY <1>1 DEF Final
  <2>6. OnePendingPerFlag'
      BY <2>1, <2>3, <2>5 DEF IInv, OnePendingPerFlag, Same
  <2>. QED
      BY <1>2, <1>4, <2>1, <2>4, <2>6, Stops DEF IInv, TypeInv, IsOpen
<1>. QED
    BY <1>3, <1>4 DEF Resolve

-----------------------------------------------------------------------------
(* The theorems.                                                           *)

\* Every step keeps the inductive invariant, and a verdict that was given.
LEMMA NextInv ==
    ASSUME IInv, [Next]_vars
    PROVE  /\ IInv'
           /\ \A i \in DOMAIN queue : queue[i].status # "pending" => queue'[i] = queue[i]
<1>1. CASE \/ \E u \in User : \E q \in Edits : Begin(u, q) /\ NoReport
           \/ \E u \in Owner : \E q \in PageUploads : Begin(u, q) /\ NoReport
           \/ \E u \in User : \E q \in Deletions : Begin(u, q) /\ NoReport
           \/ \E u \in Admin : \E q \in Reviews : BeginReview(u, q) /\ NoReport
           \/ \E u \in Admin : \E q \in OnReports : BeginReport(u, q) /\ NoReport
  <2>1. PICK u \in User, q \in Edits \cup PageUploads \cup Deletions \cup Reviews \cup OnReports :
            /\ NoReport
            /\ \/ q \in Edits \cup PageUploads \cup Deletions /\ Begin(u, q)
               \/ q \in Reviews /\ BeginReview(u, q)
               \/ q \in OnReports /\ BeginReport(u, q)
      BY <1>1 DEF User
  <2>2. queue' = queue
      BY <2>1 DEF Begin, BeginReview, BeginReport
  <2>. QED
      BY <2>1, <2>2, BeginInv
<1>2. ASSUME NEW u \in User,
             \/ Refused(u) \/ SaveMetadata(u) \/ Moderated(u) \/ Reread(u) \/ Upsert(u)
             \/ LookUp(u) \/ SetRating(u) \/ DropWork(u) \/ EnqueueBound(u)
             \/ ResolveFails(u) \/ MarkReport(u)
      PROVE  IInv' /\ queue' = queue
    BY <1>2, WorkStepInv
    DEF Refused, SaveMetadata, Moderated, Reread, Upsert, LookUp, SetRating, DropWork,
        EnqueueBound, ResolveFails, MarkReport
<1>3. ASSUME NEW u \in User, Enqueue(u)
      PROVE  IInv' /\ \A i \in DOMAIN queue : queue'[i] = queue[i]
  <2>1. queue \in Seq(Item)
      BY DEF IInv, TypeInv
  <2>. QED
      BY <1>3, <2>1, EnqueueInv DEF Enqueue
<1>4. CASE FileReport \/ UNCHANGED vars
  <2>1. UNCHANGED <<work, queue, at, loc>>
      BY <1>4 DEF FileReport, vars
  <2>. QED
      BY <2>1, SameFlags DEF IInv, TypeInv, RequestsCarry, Fits
<1>. QED
    BY <1>1, <1>2, <1>3, <1>4, ResolveInv DEF Next, Step, Done, User

\* The inductive invariant of the specification.
THEOREM ReviewInvariant == Spec => []IInv
<1>1. Init => IInv
  <2>1. NoLoc \in [req : Request, seen : Level] /\ NoLoc.req = NoReq
      BY Requests DEF NoLoc, Level
  <2>2. Init => TypeInv
      BY <2>1 DEF Init, TypeInv, At, Level, Low
  <2>3. Init => RequestsCarry
      BY <2>1, Requests DEF Init, RequestsCarry, Fits
  <2>4. Init => OnePendingPerFlag
      BY DEF Init, OnePendingPerFlag
  <2>. QED
      BY <2>2, <2>3, <2>4 DEF IInv
<1>2. IInv /\ [Next]_vars => IInv'
    BY NextInv
<1>. QED
    BY <1>1, <1>2, PTL DEF Spec

\* However uploads race, enqueue_moderation_review leaves at most one pending
\* item per upload and reason, so that one verdict settles the flag.
THEOREM FlagPendingOnce == Spec => []OnePendingPerFlag
<1>1. IInv => OnePendingPerFlag
    BY DEF IInv
<1>. QED
    BY <1>1, ReviewInvariant, PTL

\* However admins race on an item, update_moderation_review_status gives it
\* one verdict, and nothing changes the item afterwards.
THEOREM ItemReviewedOnce == Spec => ReviewedOnce
<1>1. IInv /\ [Next]_vars =>
          [\A i \in DOMAIN queue : queue[i].status # "pending" => queue'[i] = queue[i]]_vars
    BY NextInv
<1>. QED
    BY <1>1, ReviewInvariant, PTL DEF Spec, ReviewedOnce

-----------------------------------------------------------------------------
(* Requests that run alone.                                                *)

\* Only one request runs while solo holds, ...
Alone == solo => \A u, v \in User : at[u] # "idle" /\ at[v] # "idle" => u = v

\* ... and at each of its steps it knows what the work is like, or has made it
\* so.
Fresh(step, l) ==
    /\ step \in {"lock", "moderated"} => l.seen = work.rating
    /\ step = "upsert" /\ ~DraftForm => l.seen >= work.rating
    /\ step = "enqueue" => l.seen = work.rating
    /\ step = "setRating" => work.alive
    /\ step = "mark" /\ l.req.kind = "promote" => work.alive /\ work.rating = Explicit
    /\ step = "resolve" /\ l.req.verdict = "approved" /\ queue[l.req.item].why = "explicit" =>
          work.rating = Explicit

RunsFresh == solo => \A u \in User : Fresh(at[u], loc[u])

\* What a request carries even when it is overlapped: pages of the work's own
\* editor carry no rating, and a page's suggestion is in the rating to write.
Asks(step, l) ==
    /\ ~DraftForm => l.req.form = 0
    /\ step \in {"upsert", "enqueue"} /\ l.req.kind # "movePage" => l.seen >= l.req.r

SoloInv ==
    /\ DOMAIN answer = User
    /\ Alone /\ RunsFresh
    /\ \A u \in User : Asks(at[u], loc[u])

\* Only pages from the upload editor carry a rating.
LEMMA Forms ==
    \A q \in Edits \cup PageUploads \cup Deletions \cup Reviews \cup OnReports :
        ~DraftForm => q.form = 0
<1>. USE DEF Req
<1>1. \A q \in Edits \cup Deletions \cup Reviews \cup OnReports : q.form = 0
    BY DEF Edits, Deletions, Reviews, OnReports
<1>2. \A q \in PageUploads : ~DraftForm => q.form = 0
    BY DEF PageUploads
<1>. QED
    BY <1>1, <1>2

\* The rating of moderation and the one it started from are both floors.
LEMMA ElevatedIsFloor ==
    ASSUME NEW current \in Level, NEW suggested \in Level
    PROVE  /\ Elevated(current, suggested) \in Level
           /\ Elevated(current, suggested) >= suggested
           /\ Elevated(current, suggested) >= current
BY DEF Elevated, Level

\* Request u moves on and leaves the others where they are.
LEMMA SoloMoves ==
    ASSUME TypeInv, SoloInv, NEW u \in User, NEW step, NEW l, To(u, step, l),
           solo' => AllIdle \/ (solo /\ at[u] # "idle"),
           solo' /\ step # "idle" => Fresh(step, l)',
           Asks(step, l), DOMAIN answer' = User
    PROVE  SoloInv'
<1>1. /\ at'[u] = step /\ loc'[u] = l
      /\ \A v \in User : v # u => at'[v] = at[v] /\ loc'[v] = loc[v]
    BY DEF TypeInv, To
<1>2. ASSUME solo', NEW v \in User, v # u PROVE at'[v] = "idle"
    BY <1>1, <1>2 DEF SoloInv, Alone, AllIdle
<1>3. Alone'
    BY <1>2 DEF Alone
<1>4. RunsFresh'
  <2>. SUFFICES ASSUME solo', NEW v \in User PROVE Fresh(at[v], loc[v])'
      BY DEF RunsFresh
  <2>1. CASE at'[v] = "idle"
      BY <2>1 DEF Fresh
  <2>2. CASE at'[v] # "idle"
    <3>1. v = u
        BY <1>2, <2>2
    <3>. QED
        BY <1>1, <2>2, <3>1 DEF Fresh
  <2>. QED
      BY <2>1, <2>2
<1>5. ASSUME NEW v \in User PROVE Asks(at[v], loc[v])'
    BY <1>1 DEF SoloInv, Asks
<1>. QED
    BY <1>3, <1>4, <1>5 DEF SoloInv

\* A request that ends.
LEMMA SoloStops ==
    ASSUME TypeInv, SoloInv, NEW u \in User, Stop(u), solo' = solo, at[u] # "idle",
           DOMAIN answer' = User
    PROVE  SoloInv'
<1>1. Asks("idle", NoLoc)
    BY DEF Asks, NoLoc, NoReq, Req
<1>. QED
    BY <1>1, SoloMoves DEF Stop

\* A request that starts while all are idle starts with what the work is like.
LEMMA BeginSolo ==
    ASSUME IInv, SoloInv, NEW u \in User, NEW q,
           \/ q \in Edits \cup PageUploads \cup Deletions /\ Begin(u, q)
           \/ q \in Reviews /\ BeginReview(u, q)
           \/ q \in OnReports /\ BeginReport(u, q)
    PROVE  SoloInv'
<1>0. PICK l : l = [req |-> q, seen |-> work.rating]
    OBVIOUS
<1>1. /\ UNCHANGED <<work, queue>> /\ solo' = AllIdle
      /\ DOMAIN answer' = DOMAIN answer
    BY DEF Begin, BeginReview, BeginReport, Start
<1>2. l.req = q /\ l.seen = work.rating /\ (~DraftForm => l.req.form = 0)
    BY <1>0, Forms
<1>3. CASE q \in Edits \cup PageUploads \cup Deletions /\ Begin(u, q)
  <2>1. PICK step \in {"lock", "moderated", "drop", "reread"} : To(u, step, l)
      BY <1>0, <1>3 DEF Begin
  <2>2. Fresh(step, l)' /\ Asks(step, l)
      BY <1>1, <1>2, <2>1 DEF Fresh, Asks
  <2>. QED
      BY <1>1, <2>1, <2>2, SoloMoves DEF IInv, SoloInv
<1>4. CASE q \in Reviews /\ BeginReview(u, q)
  <2>1. PICK step \in {"rate", "resolve"} :
            /\ To(u, step, l)
            /\ step = "resolve" => ~(q.verdict = "approved" /\ queue[q.item].why = "explicit")
      BY <1>0, <1>4 DEF BeginReview
  <2>2. Fresh(step, l)' /\ Asks(step, l)
      BY <1>1, <1>2, <2>1 DEF Fresh, Asks
  <2>. QED
      BY <1>1, <2>1, <2>2, SoloMoves DEF IInv, SoloInv
<1>5. CASE q \in OnReports /\ BeginReport(u, q)
  <2>1. PICK step \in {"rate", "mark"} : To(u, step, l) /\ (step = "mark" => q.kind # "promote")
      BY <1>0, <1>5 DEF BeginReport
  <2>2. Fresh(step, l)' /\ Asks(step, l)
      BY <1>1, <1>2, <2>1 DEF Fresh, Asks
  <2>. QED
      BY <1>1, <2>1, <2>2, SoloMoves DEF IInv, SoloInv
<1>. QED
    BY <1>3, <1>4, <1>5

\* A step of a request that runs alone leaves it knowing the work as it is.
LEMMA StepSolo ==
    ASSUME IInv, SoloInv, NEW u \in User, Step(u) \/ MarkReport(u)
    PROVE  SoloInv'
<1>1. /\ loc[u] \in [req : Request, seen : Level]
      /\ loc[u].req \in Request /\ loc[u].seen \in Level
      /\ loc[u].req.r \in Level /\ loc[u].req.form \in Level
      /\ work.alive \in BOOLEAN /\ work.rating \in Level
    BY DEF IInv, TypeInv, Request
<1>2. Asks(at[u], loc[u]) /\ (solo => Fresh(at[u], loc[u]))
    BY DEF SoloInv, RunsFresh
<1>3. solo' = solo /\ at[u] # "idle" /\ DOMAIN answer' = User
    BY DEF Step, MarkReport, Refused, SaveMetadata, Moderated, Reread, Upsert, Enqueue,
           EnqueueBound, LookUp, SetRating, Resolve, ResolveFails, DropWork, SoloInv
<1>4. CASE Stop(u)
    BY <1>3, <1>4, SoloStops DEF IInv
<1>5. ASSUME NEW step, NEW l, To(u, step, l), solo => Fresh(step, l)', Asks(step, l)
      PROVE  SoloInv'
    BY <1>3, <1>5, SoloMoves DEF IInv
<1>6. CASE Moderated(u) /\ ~Stop(u)
  <2>. DEFINE from == IF loc[u].req.form = 0 THEN loc[u].seen ELSE loc[u].req.form
  <2>0. PICK l : l = [loc[u] EXCEPT !.seen = Elevated(from, loc[u].req.r)]
      OBVIOUS
  <2>1. /\ l.req = loc[u].req /\ l.seen = Elevated(from, loc[u].req.r)
        /\ from \in Level /\ l.seen \in Level
      BY <1>1, <2>0, ElevatedIsFloor
  <2>2. l.seen >= loc[u].req.r /\ l.seen >= from
      BY <1>1, <2>1, ElevatedIsFloor
  <2>3. To(u, "upsert", l) /\ UNCHANGED <<work, queue>> /\ at[u] = "moderated"
      BY <1>6, <2>0 DEF Moderated
  <2>4. ~DraftForm => from = loc[u].seen
      BY <1>2 DEF Asks
  <2>. HIDE DEF from
  <2>5. solo => Fresh("upsert", l)'
      BY <1>2, <2>1, <2>2, <2>3, <2>4 DEF Fresh
  <2>6. Asks("upsert", l)
      BY <1>2, <2>1, <2>2 DEF Asks
  <2>. QED
      BY <1>5, <2>3, <2>5, <2>6
<1>7. CASE Reread(u) /\ ~Stop(u)
  <2>. DEFINE rating == IF loc[u].req.kind = "movePage" THEN work.rating
                        ELSE Elevated(work.rating, loc[u].req.r)
  <2>0. PICK l : l = [loc[u] EXCEPT !.seen = rating]
      OBVIOUS
  <2>1. /\ l.req = loc[u].req /\ l.seen = rating /\ rating \in Level
        /\ work.rating >= work.rating
      BY <1>1, <2>0, ElevatedIsFloor DEF Level
  <2>2. rating >= work.rating /\ (loc[u].req.kind # "movePage" => rating >= loc[u].req.r)
      BY <1>1, <2>1, ElevatedIsFloor
  <2>3. To(u, "upsert", l) /\ UNCHANGED <<work, queue>>
      BY <1>7, <2>0 DEF Reread
  <2>. HIDE DEF rating
  <2>4. solo => Fresh("upsert", l)'
      BY <2>1, <2>2, <2>3 DEF Fresh
  <2>5. Asks("upsert", l)
      BY <1>2, <2>1, <2>2 DEF Asks
  <2>. QED
      BY <1>5, <2>3, <2>4, <2>5
<1>8. CASE Upsert(u) /\ ~Stop(u)
  <2>1. To(u, "enqueue", loc[u]) /\ work' = [alive |-> TRUE, rating |-> loc[u].seen] /\ at[u] = "upsert"
      BY <1>8 DEF Upsert
  <2>2. PICK l : l = loc[u]
      OBVIOUS
  <2>3. Fresh("enqueue", l)'
      BY <2>1, <2>2 DEF Fresh
  <2>4. Asks("enqueue", l)
      BY <1>2, <2>1, <2>2 DEF Asks
  <2>. QED
      BY <1>5, <2>1, <2>2, <2>3, <2>4
<1>9. CASE LookUp(u) /\ ~Stop(u)
  <2>1. To(u, "setRating", loc[u]) /\ work' = work /\ work.alive
      BY <1>9 DEF LookUp
  <2>2. PICK l : l = loc[u]
      OBVIOUS
  <2>3. Fresh("setRating", l)'
      BY <2>1 DEF Fresh
  <2>4. Asks("setRating", l)
      BY <1>2, <2>2 DEF Asks
  <2>. QED
      BY <1>5, <2>1, <2>2, <2>3, <2>4
<1>10. CASE SetRating(u)
  <2>1. PICK l : l = loc[u]
      OBVIOUS
  <2>2. PICK step \in {"mark", "resolve"} : To(u, step, l)
      BY <1>10, <2>1 DEF SetRating
  <2>3. solo => work'.alive /\ work'.rating = Explicit
    <3>1. solo => work.alive
        BY <1>2, <1>10 DEF SetRating, Fresh
    <3>. QED
        BY <1>10, <3>1 DEF SetRating, IInv, TypeInv
  <2>4. solo => Fresh(step, l)'
      BY <2>2, <2>3 DEF Fresh
  <2>5. Asks(step, l)
      BY <1>2, <2>1, <2>2 DEF Asks
  <2>. QED
      BY <1>5, <2>2, <2>4, <2>5
<1>. QED
    BY <1>4, <1>6, <1>7, <1>8, <1>9, <1>10
    DEF Step, MarkReport, Refused, SaveMetadata, Enqueue, EnqueueBound, Resolve, ResolveFails,
        DropWork


\* Every step keeps what is known of requests that run alone.
LEMMA NextSolo == ASSUME IInv, SoloInv, [Next]_vars PROVE SoloInv'
<1>1. CASE FileReport \/ UNCHANGED vars
  <2>1. UNCHANGED <<work, queue, at, loc, answer, solo>>
      BY <1>1 DEF FileReport, vars
  <2>. QED
      BY <2>1 DEF SoloInv, Alone, RunsFresh, Fresh, Asks
<1>. QED
    BY <1>1, BeginSolo, StepSolo DEF Next, Done, User

\* It holds at the start.
LEMMA InitSolo == Init => SoloInv
<1>. SUFFICES ASSUME Init PROVE SoloInv
    OBVIOUS
<1>1. \A u \in User : at[u] = "idle" /\ loc[u] = NoLoc
    BY DEF Init
<1>2. NoLoc.req.form = 0
    BY DEF NoLoc, NoReq, Req
<1>. QED
    BY <1>1, <1>2 DEF Init, SoloInv, Alone, RunsFresh, Fresh, Asks

\* What changes the queue is a step of a request, and what changes an answer is
\* one or the start of a review or of a work on a report.
LEMMA Acts ==
    ASSUME [Next]_vars
    PROVE  /\ queue' # queue => \E u \in User : Step(u) \/ MarkReport(u)
           /\ answer' # answer =>
                 \E u \in User : \/ Step(u) \/ MarkReport(u)
                                \/ \E q : BeginReview(u, q) \/ BeginReport(u, q)
<1>1. ASSUME NEW u, NEW q, Begin(u, q) PROVE UNCHANGED <<queue, answer>>
    BY <1>1 DEF Begin
<1>2. ASSUME NEW u, NEW q, BeginReview(u, q) \/ BeginReport(u, q) PROVE UNCHANGED queue
    BY <1>2 DEF BeginReview, BeginReport
<1>. QED
    BY <1>1, <1>2 DEF Next, Done, FileReport, vars, User

\* Only its own step takes a request on; whatever starts leaves the work alone.
LEMMA OnlyActor ==
    ASSUME IInv, [Next]_vars, NEW u \in User, at'[u] # at[u]
    PROVE  Step(u) \/ MarkReport(u) \/ (at[u] = "idle" /\ work' = work)
<1>0. at \in [User -> At]
    BY DEF IInv, TypeInv
<1>1. ASSUME NEW x \in User, NEW step, NEW l, To(x, step, l) PROVE x = u
    BY <1>0, <1>1 DEF To
<1>2. ASSUME NEW x \in User, NEW q, Begin(x, q) \/ BeginReview(x, q) \/ BeginReport(x, q)
      PROVE  at[u] = "idle" /\ work' = work
  <2>1. \E step, l : To(x, step, l)
      BY <1>2 DEF Begin, BeginReview, BeginReport
  <2>. QED
      BY <1>1, <1>2, <2>1 DEF Begin, BeginReview, BeginReport, Start
<1>3. ASSUME NEW x \in User, Step(x) \/ MarkReport(x) PROVE x = u
  <2>1. \E step, l : To(x, step, l)
      BY <1>3 DEF Step, MarkReport, Refused, SaveMetadata, Moderated, Reread, Upsert, Enqueue,
                  EnqueueBound, LookUp, SetRating, Resolve, ResolveFails, DropWork, Stop
  <2>. QED
      BY <1>1, <2>1
<1>. QED
    BY <1>2, <1>3 DEF Next, Done, FileReport, vars, User

\* While requests do not overlap and pages come from the work's own editor, no
\* step of an owner's request lowers a work from Explicit, and the metadata form
\* makes one Explicit only if it was Mature: should_lock_explicit_demotion and
\* _elevate_rating, on the rating the handler has read.
THEOREM OwnersAreLocked == ASSUME ~DraftForm PROVE Spec => ExplicitLock
<1>1. ASSUME IInv, SoloInv, [Next]_vars, NEW u \in Owner, solo, at'[u] # at[u], work.alive
      PROVE  /\ work.rating = Explicit => work'.rating = Explicit
             /\ at[u] = "lock" /\ work'.rating = Explicit => work.rating \in {Mature, Explicit}
  <2>0. /\ u \in User /\ u \notin Admin
        /\ loc[u].seen \in Level /\ work.rating \in Level
        /\ Fresh(at[u], loc[u])
        /\ work \in [alive : BOOLEAN, rating : Level]
      BY <1>1, ReviewAssumption DEF User, IInv, TypeInv, SoloInv, RunsFresh
  <2>1. Step(u) \/ work' = work
      BY <1>1, <2>0, OnlyActor DEF MarkReport
  <2>2. CASE SaveMetadata(u)
    <3>1. loc[u].seen = work.rating /\ work'.rating = loc[u].req.r
        BY <1>1, <2>0, <2>2 DEF SaveMetadata, Fresh
    <3>. QED
        BY <2>0, <2>2, <3>1 DEF SaveMetadata, Locked
  <2>3. CASE Upsert(u)
    <3>1. work'.rating = loc[u].seen /\ loc[u].seen >= work.rating /\ at[u] = "upsert"
        BY <2>0, <2>3 DEF Upsert, Fresh
    <3>. QED
        BY <2>0, <3>1 DEF Explicit, Level
  <2>4. CASE SetRating(u)
      BY <1>1, <2>0, <2>4 DEF SetRating
  <2>5. CASE work'.rating = work.rating
    <3>1. CASE at[u] = "lock" /\ work.rating = Explicit
        BY <2>5, <3>1
    <3>. QED
        BY <2>5, <3>1
  <2>. QED
      BY <2>0, <2>1, <2>2, <2>3, <2>4, <2>5
      DEF Step, Refused, Moderated, Reread, Enqueue, EnqueueBound, LookUp, Resolve, ResolveFails,
          DropWork
<1>2. IInv /\ SoloInv /\ [Next]_vars =>
        [\A u \in Owner :
          solo /\ at'[u] # at[u] /\ work.alive =>
              /\ work.rating = Explicit => work'.rating = Explicit
              /\ at[u] = "lock" /\ work'.rating = Explicit
                     => work.rating \in {Mature, Explicit}]_vars
    BY <1>1
<1>3. IInv /\ SoloInv /\ [Next]_vars => SoloInv'
    BY NextSolo
<1>. QED
    BY <1>2, <1>3, InitSolo, ReviewInvariant, PTL DEF Spec, ExplicitLock

\* Once a page upload that was not overlapped is done, the work is rated at
\* least as high as moderation suggested, from whichever editor it came.
THEOREM SuggestionsAreFloors == Spec => SuggestionIsFloor
<1>1. ASSUME IInv, SoloInv, [Next]_vars, NEW u \in Owner, solo, at'[u] = "idle",
             at[u] \in {"upsert", "enqueue"}, loc[u].req.kind # "movePage"
      PROVE  work'.rating >= loc[u].req.r
  <2>0. u \in User /\ Fresh(at[u], loc[u]) /\ loc[u].seen >= loc[u].req.r
      BY <1>1 DEF User, SoloInv, RunsFresh, Asks
  <2>1. Step(u) \/ MarkReport(u)
      BY <1>1, <2>0, OnlyActor
  <2>2. Upsert(u) \/ Enqueue(u) \/ EnqueueBound(u)
      BY <1>1, <2>1
      DEF Step, MarkReport, Refused, SaveMetadata, Moderated, Reread, LookUp, SetRating, Resolve,
          ResolveFails, DropWork
  <2>3. work'.rating = loc[u].seen
    <3>1. CASE Upsert(u)
        BY <3>1 DEF Upsert
    <3>2. CASE Enqueue(u) \/ EnqueueBound(u)
        BY <2>0, <3>2 DEF Enqueue, EnqueueBound, Fresh
    <3>. QED
        BY <2>2, <3>1, <3>2
  <2>. QED
      BY <2>0, <2>3
<1>2. IInv /\ SoloInv /\ [Next]_vars =>
        [\A u \in Owner :
          /\ solo
          /\ at'[u] = "idle" /\ at[u] \in {"upsert", "enqueue"}
          /\ loc[u].req.kind # "movePage"
          => work'.rating >= loc[u].req.r]_vars
    BY <1>1
<1>3. IInv /\ SoloInv /\ [Next]_vars => SoloInv'
    BY NextSolo
<1>. QED
    BY <1>2, <1>3, InitSolo, ReviewInvariant, PTL DEF Spec, SuggestionIsFloor

\* The moment an item flagged explicit becomes approved, or a promotion is
\* reported done, by a request that was not overlapped, the work is Explicit:
\* set_work_rating comes before the verdict.
THEOREM ApprovalsMark == Spec => ApprovalMarksExplicit
<1>1. ASSUME IInv, SoloInv, [Next]_vars, NEW i \in DOMAIN queue, solo,
             queue[i].status # "approved", queue'[i].status = "approved",
             queue[i].why = "explicit"
      PROVE  work.rating = Explicit
  <2>1. queue \in Seq(Item)
      BY <1>1 DEF IInv, TypeInv
  <2>2. queue'[i] # queue[i]
      BY <1>1
  <2>3. PICK u \in User : Enqueue(u) \/ Resolve(u)
    <3>1. PICK u \in User : Step(u) \/ MarkReport(u)
        BY <1>1, <2>2, Acts
    <3>. QED
        BY <2>2, <3>1
        DEF Step, MarkReport, Refused, SaveMetadata, Moderated, Reread, Upsert, LookUp, SetRating,
            EnqueueBound, ResolveFails, DropWork
  <2>4. ~Enqueue(u)
      BY <2>1, <2>2 DEF Enqueue
  <2>5. Resolve(u) /\ loc[u].req.item \in DOMAIN queue
      BY <1>1, <2>3, <2>4 DEF IInv, RequestsCarry, Fits, Resolve
  <2>6. queue' = [queue EXCEPT ![loc[u].req.item].status = loc[u].req.verdict]
      BY <2>2, <2>5 DEF Resolve
  <2>7. i = loc[u].req.item
      BY <2>1, <2>2, <2>6
  <2>8. queue'[i].status = loc[u].req.verdict
    <3>1. queue[i] \in Item
        BY <2>1
    <3>2. queue'[i] = [queue[i] EXCEPT !.status = loc[u].req.verdict]
        BY <2>1, <2>6, <2>7
    <3>. QED
        BY <3>1, <3>2 DEF Item
  <2>. QED
      BY <1>1, <2>5, <2>7, <2>8 DEF SoloInv, RunsFresh, Fresh, Resolve
<1>2. ASSUME IInv, SoloInv, [Next]_vars, NEW u \in Admin, solo,
             answer[u] # "promoted", answer'[u] = "promoted"
      PROVE  work = [alive |-> TRUE, rating |-> Explicit]
  <2>1. u \in User /\ DOMAIN answer = User /\ answer'[u] # answer[u]
      BY <1>2 DEF User, SoloInv
  <2>2. ASSUME NEW x \in User, NEW told, answer' = [answer EXCEPT ![x] = told]
        PROVE  x = u /\ told = "promoted"
      BY <1>2, <2>1, <2>2
  <2>3. MarkReport(u)
    <3>1. ASSUME NEW x \in User, Resolve(x) PROVE FALSE
      <4>1. loc[x].req.verdict \in Final
          BY <1>2, <3>1 DEF IInv, RequestsCarry, Fits, Resolve
      <4>2. PICK told \in {loc[x].req.verdict, "not-found"} : answer' = [answer EXCEPT ![x] = told]
          BY <3>1 DEF Resolve
      <4>. QED
          BY <2>2, <4>1, <4>2 DEF Final
    <3>2. ASSUME NEW x \in User, LookUp(x) \/ ResolveFails(x) PROVE FALSE
        BY <2>1, <2>2, <3>2 DEF LookUp, ResolveFails
    <3>3. ASSUME NEW x \in User, NEW q, BeginReview(x, q) \/ BeginReport(x, q) PROVE FALSE
        BY <2>2, <3>3 DEF BeginReview, BeginReport
    <3>4. ASSUME NEW x \in User, MarkReport(x) PROVE x = u
        BY <2>2, <3>4 DEF MarkReport
    <3>5. PICK x \in User : \/ Step(x) \/ MarkReport(x)
                            \/ \E q : BeginReview(x, q) \/ BeginReport(x, q)
        BY <1>2, <2>1, Acts
    <3>. QED
        BY <2>1, <3>1, <3>2, <3>3, <3>4, <3>5
        DEF Step, Refused, SaveMetadata, Moderated, Reread, Upsert, Enqueue, SetRating,
            EnqueueBound, DropWork
  <2>4. loc[u].req.kind = "promote"
    <3>1. loc[u].req.verdict # "promoted"
        BY <1>2, <2>1 DEF IInv, TypeInv, Request, Verdict, Final, Marks
    <3>2. answer' = [answer EXCEPT ![u] =
              IF loc[u].req.kind = "promote" THEN "promoted"
              ELSE IF IsReport(loc[u].req.item) THEN loc[u].req.verdict ELSE "not-found"]
        BY <2>3 DEF MarkReport
    <3>. QED
        BY <1>2, <2>1, <3>1, <3>2
  <2>5. work.alive /\ work.rating = Explicit
      BY <1>2, <2>1, <2>3, <2>4 DEF SoloInv, RunsFresh, Fresh, MarkReport
  <2>6. work \in [alive : BOOLEAN, rating : Level]
      BY <1>2 DEF IInv, TypeInv
  <2>. QED
      BY <2>5, <2>6
<1>3. IInv /\ SoloInv /\ [Next]_vars =>
        [/\ \A i \in DOMAIN queue :
             solo /\ queue[i].status # "approved" /\ queue'[i].status = "approved" =>
                 (queue[i].why = "explicit" /\ work.alive => work.rating = Explicit)
         /\ \A u \in Admin :
             solo /\ answer[u] # "promoted" /\ answer'[u] = "promoted" =>
                 work = [alive |-> TRUE, rating |-> Explicit]]_vars
    BY <1>1, <1>2
<1>4. IInv /\ SoloInv /\ [Next]_vars => SoloInv'
    BY NextSolo
<1>. QED
    BY <1>3, <1>4, InitSolo, ReviewInvariant, PTL DEF Spec, ApprovalMarksExplicit
=============================================================================
