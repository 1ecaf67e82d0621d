--------------------------- MODULE MediaStoreProofs ---------------------------
(***************************************************************************)
(* The media store under everything that writes and deletes in it: proofs  *)
(* about MediaStore for any number of requests, jobs, works, pictures and  *)
(* sweeps.                                                                 *)
(*                                                                         *)
(* Three layers, each resting on those before it: what the state is made   *)
(* of, who may run beside whom (nothing runs beside a sweep, a deletion or *)
(* a request without leaving a mark in the history), and where objects are *)
(* as long as there is no such mark.                                       *)
(***************************************************************************)
EXTENDS MediaStore, TLAPS

USE DEF fanartStore, pageStore

\* urllib's quote leaves the work ids alone.
PlainIds == \A w \in Work : Quote[w] = w

-----------------------------------------------------------------------------
(* What the state is made of.                                              *)

AnyPicture == Picture \cup {NoPicture}

ReqRec == [kind : {"none", "upload", "delete", "create", "fill", "drop"}, pic : AnyPicture,
           tags : BOOLEAN, item : Nat, chosen : SUBSET Ids]
StepName == {"idle", "check", "put", "write", "insert", "tag", "find", "erase", "remove", "create", "slug",
             "fill", "drop"}
LocRec == [req : ReqRec, item : Nat, doomed : AnyPicture, gallery : Nat]

\* The picture of an upload is one.
UploadsPicture(q) == q.kind = "upload" => q.pic \in Picture

\* A request and its next step belong together.
Fits(step, l) ==
    /\ UploadsPicture(l.req)
    /\ step \in {"check", "put", "write", "insert", "tag"} => l.req.kind = "upload"
    /\ step = "tag" => l.item \in Ids
    /\ step \in {"find", "erase", "remove"} => l.req.kind = "delete" /\ l.req.item \in Ids
    /\ step \in {"create", "slug", "fill", "drop"} => l.req.kind \in {"create", "fill", "drop"}
    /\ step = "slug" => l.req.kind # "create"
    /\ step = "fill" => l.gallery # 0

FanartType ==
    /\ objects \subseteq Picture
    /\ items \in [Ids -> AnyPicture]
    /\ lastItem \in Nat /\ lastItem <= MaxItems
    /\ \A n \in Ids : n > lastItem => items[n] = NoPicture
    /\ tagged \subseteq Ids
    /\ gallery \in [id : Nat, items : SUBSET Ids]
    /\ lastGallery \in Nat
    /\ at \in [Request -> StepName]
    /\ loc \in [Request -> LocRec]
    /\ ops \in Nat
    /\ solo \in ReqRec
    /\ trouble \subseteq {"lost", "litter"}
    /\ \A r \in Request : Fits(at[r], loc[r])

PageState == {"none", "queued", "running", "open", "ok", "bad", "taken"}

JobRec == [step : {"idle", "store", "shutdown", "upsert", "rows", "list", "drop", "keys"},
           kind : {"none", "import", "delete"}, work : Work \cup {NoPicture},
           pics : Seq(Picture), skip : BOOLEAN, next : Nat, pool : Seq(PageState),
           broken : BOOLEAN, keys : SUBSET Picture, alone : BOOLEAN]

Areas0 == Work \cup {"fanart"}

SweepRec == [step : {"idle", "list", "delete"}, todo : SUBSET (Areas0 \X Picture),
             seen : SUBSET (Areas0 \X Picture), doomed : SUBSET (Areas0 \X Picture),
             whole : BOOLEAN, alone : BOOLEAN]

\* A job is on a work, its kind has its own steps, and its pool knows its pages.
JobFits(r) ==
    /\ r.step = "idle" => r = NoJob
    /\ r.step # "idle" => r.work \in Work
    /\ DOMAIN r.pool = DOMAIN r.pics
    /\ r.step \in {"store", "shutdown", "upsert", "rows"} => r.kind = "import"
    /\ r.step \in {"list", "drop", "keys"} => r.kind = "delete" /\ r.pool = <<>>

JobType ==
    /\ mix \in Mix
    /\ pageObjects \subseteq Work \X Picture
    /\ alive \subseteq Work
    /\ shown \in [Work -> SUBSET Picture]
    /\ job \in [Job -> JobRec]
    /\ jobs \in Nat
    /\ sweep \in SweepRec
    /\ sweeps \in Nat
    /\ clash \subseteq Work
    /\ \A j \in Job : JobFits(job[j])

-----------------------------------------------------------------------------
(* Fanart requests and the sweep.                                          *)

\* Two requests overlapping, or one and a sweep, leave these marks.
Orderly == "lost" \notin trouble \/ "litter" \notin trouble \/ solo.kind # "none"

OneAtATime ==
    Orderly =>
        /\ \A r, s \in Request : at[r] # "idle" /\ at[s] # "idle" => r = s
        /\ Sweeping => AllIdle

\* What a request that runs alone knows of the table and of the store.
Knows(step, l) ==
    /\ step \in {"check", "put", "write", "insert"} => lastItem < MaxItems
    /\ step \in {"write", "insert", "tag"} => l.req.pic \in objects
    /\ step = "erase" => l.req.item \in Live /\ items[l.req.item] = l.doomed
    /\ step = "remove" => l.doomed \notin Used

RequestsKnow == Orderly => \A r \in Request : Knows(at[r], loc[r])

\* The request that has run alone is the one under way.
SoloRuns == solo.kind # "none" => \A r \in Request : at[r] # "idle" => loc[r].req = solo

\* While nothing is lost the picture of every item is stored ...
NothingLost == "lost" \notin trouble => Used \subseteq objects

\* An upload that ran alone has left the key of its picture.
UploadStores == AllIdle /\ solo.kind = "upload" /\ solo.pic \in Used => solo.pic \in objects

\* ... and while there is no litter a stored picture is that of an item, or
\* about to become it, or about to be removed.
Claimed(p) ==
    \/ p \in Used
    \/ \E r \in Request : \/ at[r] \in {"write", "insert"} /\ p = loc[r].req.pic
                          \/ at[r] = "remove" /\ p = loc[r].doomed
NoFanartLitter == "litter" \notin trouble => \A p \in objects : Claimed(p)

\* A sweep that is left alone spares what an item shows.
SparesItems ==
    Orderly /\ sweep.step = "delete" => \A p \in Used : <<"fanart", p>> \notin sweep.doomed

FanartInv ==
    /\ NothingDangles
    /\ OneAtATime
    /\ RequestsKnow
    /\ SoloRuns
    /\ UploadStores
    /\ NothingLost
    /\ NoFanartLitter
    /\ SparesItems

-----------------------------------------------------------------------------
(* Comic jobs and the sweep.                                               *)

\* Jobs that disturb each other are known to.
Marked(j) == ~job[j].alone /\ job[j].work \in clash

Meet(i, j) == i # j /\ job[i].step # "idle" /\ job[j].step # "idle" /\ job[i].work = job[j].work

ClashesAreMarked ==
    /\ \A i, j \in Job : Meet(i, j) /\ job[i].kind = "delete" =>
          Marked(i) /\ Marked(j) /\ "litter" \in trouble
    /\ \A j \in Job : Sweeping /\ job[j].step # "idle" => Marked(j)

\* The pages an import is past are submitted, and when all are about to become
\* rows none has failed.
PoolFollows(r) ==
    r.kind = "import" =>
        /\ r.step \in {"store", "upsert", "rows"} => ~r.broken
        /\ \A k \in DOMAIN r.pool : k < r.next => r.pool[k] # "none"
        /\ r.step \in {"upsert", "rows"} \/ (r.step = "shutdown" /\ ~r.broken) =>
              \A k \in DOMAIN r.pool : r.pool[k] \in {"ok", "taken"}

PoolsFollow == \A j \in Job : PoolFollows(job[j])

\* What an undisturbed import has uploaded is in the store.
UploadsStay ==
    \A j \in Job :
        job[j].kind = "import" /\ ~job[j].broken /\ (job[j].alone \/ job[j].work \notin clash) =>
            \A k \in DOMAIN job[j].pool :
                job[j].pool[k] \in {"open", "ok", "taken"} => UploadKey(j, k) \in pageObjects

\* The pages of an undisturbed work have their keys in the store.
PagesStay == \A w \in Work \ clash : \A p \in shown[w] : <<w, p>> \in pageObjects

\* An undisturbed deletion has left no rows when it deletes the objects.
RowsGoFirst ==
    \A j \in Job : job[j].step = "keys" /\ job[j].work \notin clash => shown[job[j].work] = {}

\* The sweep spares what a page of an undisturbed work shows.
SparesPages ==
    sweep.step = "delete" =>
        \A w \in Work \ clash : \A p \in shown[w] : <<w, p>> \notin sweep.doomed

\* Page rows belong to a work that is there.
RowsHaveWork == \A w \in Work : shown[w] # {} => w \in alive

\* A deletion has listed all that its work shows.
ListsAll ==
    "litter" \notin trouble =>
        \A j \in Job : job[j].step = "drop" => shown[job[j].work] \subseteq job[j].keys

\* While there is no litter, an object is that of a page, or some job that is
\* under way has put it or is about to delete it.
Holds(r, w, p) ==
    /\ r.work = w
    /\ \/ r.step \in {"store", "shutdown", "upsert", "rows"} /\ p \in Range(r.pics)
       \/ r.step = "keys" /\ p \in r.keys
NoPageLitter ==
    "litter" \notin trouble =>
        \A w \in Work, p \in Picture :
            <<w, p>> \in pageObjects => p \in shown[w] \/ \E j \in Job : Holds(job[j], w, p)

JobInv ==
    /\ ClashesAreMarked
    /\ PoolsFollow
    /\ UploadsStay
    /\ RowsGoFirst
    /\ PagesStay
    /\ SparesPages
    /\ RowsHaveWork
    /\ ListsAll
    /\ NoPageLitter

-----------------------------------------------------------------------------
(* The sweep that is alone and leaves nothing out.                         *)

\* What is in the store is in an area the sweep looks at.
AreasCover ==
    /\ ops <= mix.ops /\ jobs <= mix.jobs
    /\ objects # {} \/ (\E r \in Request : at[r] # "idle") => ops > 0
    /\ pageObjects # {} \/ Busy # {} => jobs > 0

SweepSees ==
    Sweeping /\ sweep.alone =>
        /\ AllIdle /\ Busy = {}
        /\ sweep.whole /\ sweep.step = "list" => Store \subseteq sweep.todo \cup sweep.seen
        /\ sweep.whole /\ sweep.step = "delete" => Store \ Expected \subseteq sweep.doomed

SweepInv == AreasCover /\ SweepSees
IInv     == FanartType /\ JobType /\ FanartInv /\ JobInv /\ SweepInv

-----------------------------------------------------------------------------
(* Types: fanart.                                                          *)

LEMMA NoneTyped == NoReq \in ReqRec /\ NoLoc \in LocRec /\ Fits("idle", NoLoc)
BY DEF NoReq, NoLoc, Req, ReqRec, LocRec, AnyPicture, Fits, UploadsPicture

\* A request moves on.
LEMMA MovesTyped ==
    ASSUME FanartType, NEW r \in Request, NEW step \in StepName, NEW l \in LocRec,
           Fits(step, l), To(r, step, l)
    PROVE  /\ at' \in [Request -> StepName] /\ loc' \in [Request -> LocRec]
           /\ \A x \in Request : Fits(at'[x], loc'[x])
<1>1. at' \in [Request -> StepName] /\ loc' \in [Request -> LocRec]
    BY DEF FanartType, To
<1>2. \A x \in Request : IF x = r THEN at'[x] = step /\ loc'[x] = l
                         ELSE at'[x] = at[x] /\ loc'[x] = loc[x]
    BY DEF FanartType, To
<1>. QED
    BY <1>1, <1>2 DEF FanartType

\* It ends.
LEMMA StopsTyped ==
    ASSUME FanartType, NEW r \in Request, Stop(r)
    PROVE  /\ at' \in [Request -> StepName] /\ loc' \in [Request -> LocRec]
           /\ \A x \in Request : Fits(at'[x], loc'[x])
BY NoneTyped, MovesTyped DEF Stop, StepName

\* The whole state, when the request moves and the table is typed.
LEMMA StepTyped ==
    ASSUME FanartType, NEW r \in Request, Step(r) PROVE FanartType'
<1>. USE FanartAssumption
<1>1. /\ loc[r] \in LocRec /\ at[r] \in StepName /\ Fits(at[r], loc[r])
      /\ loc[r].req \in ReqRec /\ loc[r].item \in Nat /\ loc[r].doomed \in AnyPicture
      /\ loc[r].gallery \in Nat
    BY DEF FanartType, LocRec
<1>2. ASSUME NEW step \in StepName, NEW l \in LocRec, Fits(step, l), To(r, step, l),
             UNCHANGED <<dbVars, ops, history>>, objects' \subseteq Picture
      PROVE  FanartType'
    BY <1>2, MovesTyped DEF FanartType, dbVars, history
<1>3. ASSUME Stop(r), UNCHANGED <<ops, items, lastItem>>, objects' \subseteq Picture,
             solo' \in ReqRec, trouble' \subseteq {"lost", "litter"}, tagged' \subseteq Ids,
             gallery' \in [id : Nat, items : SUBSET Ids], lastGallery' \in Nat
      PROVE  FanartType'
    BY <1>3, StopsTyped DEF FanartType
<1>4. CASE Check(r) \/ Put(r) \/ Write(r)
  <2>1. /\ loc[r].req.pic \in Picture
        /\ Fits("insert", loc[r]) /\ Fits("put", loc[r]) /\ Fits("write", loc[r])
      BY <1>1, <1>4 DEF Check, Put, Write, Fits, UploadsPicture
  <2>2. objects' \subseteq Picture /\ UNCHANGED <<dbVars, ops, history>>
      BY <1>4, <2>1 DEF Check, Put, Write, FanartType
  <2>3. \E step \in {"put", "write", "insert"} : To(r, step, loc[r])
      BY <1>4 DEF Check, Put, Write
  <2>. QED
      BY <1>1, <1>2, <2>1, <2>2, <2>3 DEF StepName
<1>5. CASE Insert(r)
  <2>1. PICK l : l = [loc[r] EXCEPT !.item = lastItem']
      OBVIOUS
  <2>2. lastItem' \in Ids /\ loc[r].req.pic \in AnyPicture
      BY <1>1, <1>5 DEF Insert, FanartType, Ids, ReqRec
  <2>3. l \in LocRec /\ l.req = loc[r].req /\ l.item = lastItem'
      BY <1>1, <2>1, <2>2 DEF LocRec, Ids
  <2>4. Fits("tag", l)
      BY <1>1, <1>5, <2>2, <2>3 DEF Insert, Fits
  <2>5. "tag" \in StepName /\ To(r, "tag", l)
      BY <1>5, <2>1 DEF Insert, StepName
  <2>6. /\ at' \in [Request -> StepName] /\ loc' \in [Request -> LocRec]
        /\ \A x \in Request : Fits(at'[x], loc'[x])
      BY <2>3, <2>4, <2>5, MovesTyped
  <2>7. /\ items' \in [Ids -> AnyPicture] /\ lastItem' \in Nat /\ lastItem' <= MaxItems
        /\ \A n \in Ids : n > lastItem' => items'[n] = NoPicture
      BY <1>5, <2>2 DEF Insert, FanartType, Ids
  <2>. QED
      BY <1>5, <2>6, <2>7 DEF Insert, FanartType, history
<1>6. CASE InsertBound(r) \/ TagFails(r) \/ Fail(r)
    BY <1>3, <1>6, NoneTyped DEF InsertBound, TagFails, Fail, Abandon, dbVars, FanartType
<1>7. CASE Tag(r)
  <2>1. tagged' \subseteq Ids
      BY <1>1, <1>7 DEF Tag, Fits, FanartType
  <2>. QED
      BY <1>3, <1>7, <2>1 DEF Tag, FanartType, history
<1>8. CASE Find(r) /\ ~Stop(r)
  <2>1. PICK l : l = [loc[r] EXCEPT !.doomed = items[loc[r].req.item]]
      OBVIOUS
  <2>2. loc[r].req.item \in Live /\ To(r, "erase", l) /\ UNCHANGED <<objects, dbVars, ops, history>>
      BY <1>8, <2>1 DEF Find
  <2>3. items[loc[r].req.item] \in AnyPicture
      BY <2>2 DEF Live, FanartType
  <2>4. l \in LocRec /\ l.req = loc[r].req
      BY <1>1, <2>1, <2>3 DEF LocRec
  <2>5. Fits("erase", l)
      BY <1>1, <1>8, <2>4 DEF Find, Fits
  <2>. QED
      BY <1>2, <2>2, <2>4, <2>5 DEF StepName, FanartType
<1>9. CASE Find(r) /\ Stop(r)
    BY <1>3, <1>9 DEF Find, FanartType, dbVars, history
<1>10. CASE Erase(r)
  <2>1. loc[r].req.item \in Ids /\ Fits("remove", loc[r])
      BY <1>1, <1>10 DEF Erase, Fits
  <2>2. /\ at' \in [Request -> StepName] /\ loc' \in [Request -> LocRec]
        /\ \A x \in Request : Fits(at'[x], loc'[x])
    <3>1. Stop(r) \/ To(r, "remove", loc[r])
        BY <1>10 DEF Erase
    <3>. QED
        BY <1>1, <2>1, <3>1, StopsTyped, MovesTyped DEF StepName
  <2>3. gallery' \in [id : Nat, items : SUBSET Ids]
      BY <1>10 DEF Erase, FanartType
  <2>4. /\ items' \in [Ids -> AnyPicture] /\ tagged' \subseteq Ids
        /\ \A n \in Ids : n > lastItem => items'[n] = NoPicture
      BY <1>10 DEF Erase, FanartType, AnyPicture
  <2>. QED
      BY <1>10, <2>2, <2>3, <2>4 DEF Erase, FanartType, history
<1>11. CASE Remove(r)
    BY <1>3, <1>11 DEF Remove, FanartType, dbVars, history
<1>12. CASE CreateGallery(r)
  <2>1. gallery' \in [id : Nat, items : SUBSET Ids] /\ lastGallery' \in Nat
      BY <1>12 DEF CreateGallery, FanartType
  <2>. QED
      BY <1>3, <1>12, <2>1 DEF CreateGallery, FanartType, history
<1>13. CASE FindGallery(r) /\ ~Stop(r)
  <2>1. PICK l : l = [loc[r] EXCEPT !.gallery = gallery.id]
      OBVIOUS
  <2>2. /\ gallery.id # 0 /\ gallery.id \in Nat /\ at[r] = "slug"
        /\ To(r, loc[r].req.kind, l) /\ UNCHANGED <<objects, dbVars, ops, history>>
      BY <1>13, <2>1 DEF FindGallery, FanartType
  <2>3. l \in LocRec /\ l.req = loc[r].req /\ l.gallery = gallery.id
      BY <1>1, <2>1, <2>2 DEF LocRec
  <2>4. loc[r].req.kind \in {"fill", "drop"}
      BY <1>1, <2>2 DEF Fits
  <2>5. loc[r].req.kind \in StepName /\ Fits(loc[r].req.kind, l)
      BY <1>1, <2>2, <2>3, <2>4 DEF Fits, StepName
  <2>. QED
      BY <1>2, <2>2, <2>3, <2>5 DEF FanartType
<1>14. CASE FindGallery(r) /\ Stop(r)
    BY <1>3, <1>14 DEF FindGallery, FanartType, dbVars, history
<1>15. CASE FillGallery(r) \/ DropGallery(r)
  <2>1. gallery' \in [id : Nat, items : SUBSET Ids]
      BY <1>15 DEF FillGallery, DropGallery, Fillable, Live, FanartType
  <2>. QED
      BY <1>3, <1>15, <2>1 DEF FillGallery, DropGallery, FanartType, history
<1>. QED
    BY <1>4, <1>5, <1>6, <1>7, <1>8, <1>9, <1>10, <1>11, <1>12, <1>13, <1>14, <1>15 DEF Step

\* A request begins.
LEMMA BeginTyped ==
    ASSUME FanartType, NEW r \in Request, NEW q \in Uploads \cup Deletions \cup GalleryForms,
           NEW skip \in BOOLEAN, NEW alone, Begin(r, q, skip, alone)
    PROVE  /\ FanartType'
           /\ \E step \in {"check", "put", "find", "create", "slug"}, l \in LocRec :
                 To(r, step, l) /\ Fits(step, l) /\ l.req = q
           /\ q \in ReqRec /\ UploadsPicture(q) /\ q.kind # "none"
<1>. USE FanartAssumption
<1>1. /\ q \in ReqRec /\ UploadsPicture(q)
      /\ q.kind \in {"upload", "delete", "create", "fill", "drop"}
      /\ q.kind = "delete" => q.item \in Ids
  <2>1. CASE q \in Uploads
    <3>1. PICK p \in Picture, t \in BOOLEAN : q = Req("upload", p, t, 0, {})
        BY <2>1 DEF Uploads
    <3>. QED
        BY <3>1 DEF Req, ReqRec, UploadsPicture, AnyPicture
  <2>2. CASE q \in Deletions
    <3>1. PICK n \in Ids : q = Req("delete", NoPicture, FALSE, n, {})
        BY <2>2 DEF Deletions
    <3>. QED
        BY <3>1 DEF Req, ReqRec, UploadsPicture, AnyPicture, Ids
  <2>3. CASE q \in GalleryForms
    <3>1. PICK k \in {"create", "fill", "drop"}, c \in SUBSET Ids :
              q = Req(k, NoPicture, FALSE, 0, c)
        BY <2>3 DEF GalleryForms
    <3>. QED
        BY <3>1 DEF Req, ReqRec, UploadsPicture, AnyPicture
  <2>. QED
      BY <2>1, <2>2, <2>3
<1>2. PICK step : step = FirstStep(skip)[q.kind]
    OBVIOUS
<1>3. /\ q.kind = "upload" => step \in {"check", "put"}
      /\ q.kind = "delete" => step = "find"
      /\ q.kind = "create" => step = "create"
      /\ q.kind \in {"fill", "drop"} => step = "slug"
    BY <1>2 DEF FirstStep
<1>4. PICK l : l = [NoLoc EXCEPT !.req = q]
    OBVIOUS
<1>5. l \in LocRec /\ l.req = q
    BY <1>1, <1>4, NoneTyped DEF LocRec
<1>6. step \in {"check", "put", "find", "create", "slug"} /\ Fits(step, l)
    BY <1>1, <1>3, <1>5 DEF Fits
<1>7. To(r, step, l)
    BY <1>2, <1>4 DEF Begin
<1>8. /\ at' \in [Request -> StepName] /\ loc' \in [Request -> LocRec]
      /\ \A x \in Request : Fits(at'[x], loc'[x])
    BY <1>5, <1>6, <1>7, MovesTyped DEF StepName
<1>9. solo' \in ReqRec /\ trouble' \subseteq {"lost", "litter"} /\ ops' \in Nat
    BY <1>1, NoneTyped DEF Begin, FanartType
<1>. QED
    BY <1>1, <1>5, <1>6, <1>7, <1>8, <1>9 DEF Begin, FanartType, dbVars

-----------------------------------------------------------------------------
(* Types: jobs and the sweep.                                              *)

LEMMA IdleTyped == NoJob \in JobRec /\ JobFits(NoJob) /\ NoSweep \in SweepRec
BY DEF NoJob, JobRec, JobFits, NoSweep, SweepRec

\* A job moves on.
LEMMA BecomesTyped ==
    ASSUME JobType, NEW j \in Job, NEW r \in JobRec, JobFits(r), Become(j, r)
    PROVE  /\ job' \in [Job -> JobRec] /\ \A i \in Job : JobFits(job'[i])
           /\ job'[j] = r /\ \A i \in Job \ {j} : job'[i] = job[i]
BY DEF JobType, Become

\* What a job can be taken to be.
LEMMA JobFields ==
    ASSUME JobType, NEW j \in Job
    PROVE  /\ job[j] \in JobRec /\ JobFits(job[j])
           /\ job[j].pics \in Seq(Picture) /\ job[j].next \in Nat /\ job[j].pool \in Seq(PageState)
           /\ job[j].keys \subseteq Picture /\ job[j].work \in Work \cup {NoPicture}
           /\ job[j].skip \in BOOLEAN /\ job[j].broken \in BOOLEAN /\ job[j].alone \in BOOLEAN
           /\ job[j].step \in {"idle", "store", "shutdown", "upsert", "rows", "list", "drop", "keys"}
           /\ job[j].kind \in {"none", "import", "delete"}
BY DEF JobType, JobRec

\* The records a step of a job makes of it.
LEMMA JobRecords ==
    ASSUME JobType, NEW j \in Job, NEW r,
           \/ r = NoJob
           \/ \E step \in {"drop", "keys"} :
                 /\ job[j].step \in {"list", "drop"}
                 /\ r = [job[j] EXCEPT !.step = step]
           \/ r = [job[j] EXCEPT !.step = "drop", !.keys = shown[job[j].work]] /\ job[j].step = "list"
           \/ job[j].step = "keys" /\ \E p : r = [job[j] EXCEPT !.keys = @ \ {p}]
           \/ \E step \in {"shutdown", "upsert", "rows"}, broken \in BOOLEAN :
                 /\ job[j].step \in {"store", "shutdown", "upsert"}
                 /\ r = [job[j] EXCEPT !.step = step, !.broken = broken]
           \/ \E step \in {"upsert", "rows"} :
                 /\ job[j].step \in {"shutdown", "upsert"}
                 /\ r = [job[j] EXCEPT !.step = step]
    PROVE  r \in JobRec /\ JobFits(r)
<1>1. /\ job[j] \in JobRec /\ JobFits(job[j]) /\ job[j].keys \subseteq Picture
      /\ NoJob \in JobRec /\ JobFits(NoJob)
      /\ job[j].step = "list" => shown[job[j].work] \subseteq Picture
    BY JobFields, IdleTyped DEF JobType, JobFits
<1>2. CASE \E step \in {"drop", "keys"} :
               job[j].step \in {"list", "drop"} /\ r = [job[j] EXCEPT !.step = step]
    BY <1>1, <1>2 DEF JobRec, JobFits
<1>3. CASE r = [job[j] EXCEPT !.step = "drop", !.keys = shown[job[j].work]] /\ job[j].step = "list"
    BY <1>1, <1>3 DEF JobRec, JobFits
<1>4. CASE job[j].step = "keys" /\ \E p : r = [job[j] EXCEPT !.keys = @ \ {p}]
    BY <1>1, <1>4 DEF JobRec, JobFits
<1>5. CASE \E step \in {"shutdown", "upsert", "rows"}, broken \in BOOLEAN :
               /\ job[j].step \in {"store", "shutdown", "upsert"}
               /\ r = [job[j] EXCEPT !.step = step, !.broken = broken]
    BY <1>1, <1>5 DEF JobRec, JobFits
<1>6. CASE \E step \in {"upsert", "rows"} :
               job[j].step \in {"shutdown", "upsert"} /\ r = [job[j] EXCEPT !.step = step]
    BY <1>1, <1>6 DEF JobRec, JobFits
<1>. QED
    BY <1>1, <1>2, <1>3, <1>4, <1>5, <1>6

\* The records a step of its pool makes of it.
LEMMA PoolRecords ==
    ASSUME JobType, NEW j \in Job, NEW r,
           \/ \E k \in DOMAIN job[j].pool, result \in PageState :
                 r = [job[j] EXCEPT !.pool[k] = result]
           \/ NextPage(j) /\ r = [job[j] EXCEPT !.pool[job[j].next] = "queued", !.next = @ + 1]
           \/ job[j].step = "store" /\ r = Taken(j)
    PROVE  r \in JobRec /\ JobFits(r)
<1>1. /\ job[j] \in JobRec /\ JobFits(job[j]) /\ job[j].pool \in Seq(PageState)
      /\ job[j].next \in Nat
    BY JobFields
<1>2. \A k \in DOMAIN job[j].pool, result \in PageState :
         [job[j].pool EXCEPT ![k] = result] \in Seq(PageState)
    BY <1>1
<1>3. \A k : k \notin DOMAIN job[j].pool => [job[j].pool EXCEPT ![k] = "queued"] = job[j].pool
    BY <1>1
<1>4. CASE \E k \in DOMAIN job[j].pool, result \in PageState :
               r = [job[j] EXCEPT !.pool[k] = result]
  <2>1. PICK k \in DOMAIN job[j].pool, result \in PageState :
            r = [job[j] EXCEPT !.pool[k] = result]
      BY <1>4
  <2>2. PICK pool : pool = [job[j].pool EXCEPT ![k] = result]
      OBVIOUS
  <2>3. pool \in Seq(PageState)
      BY <1>2, <2>2
  <2>4. r = [job[j] EXCEPT !.pool = pool] /\ DOMAIN pool = DOMAIN job[j].pool
      BY <1>1, <2>1, <2>2
  <2>5. job[j].step # "idle"
      BY <1>1, <2>1 DEF JobFits, NoJob
  <2>6. /\ r \in JobRec /\ r.pool = pool /\ r.pics = job[j].pics
        /\ r.step = job[j].step /\ r.work = job[j].work /\ r.kind = job[j].kind
      BY <1>1, <2>3, <2>4 DEF JobRec
  <2>. QED
      BY <1>1, <2>4, <2>5, <2>6 DEF JobFits
<1>5. CASE NextPage(j) /\ r = [job[j] EXCEPT !.pool[job[j].next] = "queued", !.next = @ + 1]
  <2>1. PICK pool : pool = [job[j].pool EXCEPT ![job[j].next] = "queued"]
      OBVIOUS
  <2>2. pool \in Seq(PageState)
      BY <1>1, <1>2, <1>3, <2>1 DEF PageState
  <2>3. PICK next \in Nat : next = job[j].next + 1
      BY <1>1
  <2>4. r = [job[j] EXCEPT !.pool = pool, !.next = next]
      BY <1>5, <2>1, <2>3
  <2>5. /\ r \in JobRec /\ r.pool = pool /\ r.pics = job[j].pics
        /\ r.step = job[j].step /\ r.work = job[j].work /\ r.kind = job[j].kind
      BY <1>1, <2>2, <2>3, <2>4 DEF JobRec
  <2>6. DOMAIN pool = DOMAIN job[j].pool /\ job[j].step = "store"
      BY <1>1, <1>5, <2>1 DEF NextPage
  <2>. QED
      BY <1>1, <2>5, <2>6 DEF JobFits
<1>6. CASE job[j].step = "store" /\ r = Taken(j)
  <2>1. PICK pool : pool = [k \in DOMAIN job[j].pool |->
                               IF job[j].pool[k] \in {"ok", "bad"} THEN "taken" ELSE job[j].pool[k]]
      OBVIOUS
  <2>2. pool \in Seq(PageState) /\ DOMAIN pool = DOMAIN job[j].pool
      BY <1>1, <2>1 DEF PageState
  <2>3. PICK bad \in BOOLEAN : bad = (Pages(j, {"bad"}) # {})
      OBVIOUS
  <2>4. r = [job[j] EXCEPT !.pool = pool, !.broken = bad,
                           !.step = IF bad THEN "shutdown" ELSE job[j].step]
      BY <1>6, <2>1, <2>3 DEF Taken
  <2>. QED
      BY <1>1, <1>6, <2>2, <2>4 DEF JobRec, JobFits
<1>. QED
    BY <1>4, <1>5, <1>6

\* What every step of a job does: it takes its own job on or ends it, and
\* touches little else.
Onward(j, r) ==
    r # NoJob => /\ r.work = job[j].work /\ r.kind = job[j].kind /\ r.pics = job[j].pics
                 /\ r.alone = job[j].alone

LEMMA JobStepShape ==
    ASSUME JobType, NEW j \in Job, JobStep(j)
    PROVE  /\ \E r \in JobRec : JobFits(r) /\ Become(j, r) /\ Onward(j, r)
           /\ job[j].step # "idle"
           /\ trouble' \in {trouble, trouble \cup {"litter"}}
           /\ sweep' = sweep /\ OnlyJobs
           /\ clash' # clash => ReplaceRows(j)
<1>1. job[j] \in JobRec /\ JobFits(job[j]) /\ NoJob \in JobRec /\ JobFits(NoJob)
    BY JobFields, IdleTyped
<1>2. job[j].step # "idle"
  <2>1. \A k \in DOMAIN job[j].pool : job[j].step # "idle"
      BY <1>1 DEF JobFits, NoJob
  <2>. QED
      BY <2>1 DEF JobStep, Submit, NextPage, Drain, WaitAll, Spoil, ShutDown, UpsertRow, ReplaceRows,
                  ReplaceRowsFails, ListPages, DropRow, DropKey, EndDelete, Die, LeaveFiles, Busy
<1>3. trouble' \in {trouble, trouble \cup {"litter"}}
    BY DEF JobStep, Submit, Drain, WaitAll, Spoil, ShutDown, UpsertRow, ReplaceRows, ReplaceRowsFails,
           StartUpload, OpenUpload, FinishUpload, FailUpload, ListPages, DropRow, DropKey, EndDelete, Die, LeaveFiles, Littered
<1>4. sweep' = sweep /\ OnlyJobs /\ (clash' # clash => ReplaceRows(j))
    BY DEF JobStep, Submit, Drain, WaitAll, Spoil, ShutDown, UpsertRow, ReplaceRows, ReplaceRowsFails,
           StartUpload, OpenUpload, FinishUpload, FailUpload, ListPages, DropRow, DropKey, EndDelete, Die
<1>. SUFFICES \E r \in JobRec : JobFits(r) /\ Become(j, r) /\ Onward(j, r)
    BY <1>2, <1>3, <1>4
<1>5. CASE StopJob(j)
    BY <1>1, <1>5 DEF StopJob, Onward
<1>6. CASE Submit(j) \/ Drain(j)
  <2>1. PICK r : /\ Become(j, r)
                 /\ \/ NextPage(j) /\ r = [job[j] EXCEPT !.pool[job[j].next] = "queued", !.next = @ + 1]
                    \/ job[j].step = "store" /\ r = Taken(j)
      BY <1>6 DEF Submit, Drain
  <2>2. r \in JobRec /\ JobFits(r)
      BY <2>1, PoolRecords
  <2>3. Onward(j, r)
      BY <1>1, <2>1 DEF Onward, Taken, JobRec
  <2>. QED
      BY <2>1, <2>2, <2>3
<1>7. CASE WaitAll(j) \/ Spoil(j) \/ (ShutDown(j) /\ ~StopJob(j)) \/ UpsertRow(j)
  <2>1. PICK r : /\ Become(j, r)
                 /\ \/ \E step \in {"shutdown", "upsert", "rows"}, broken \in BOOLEAN :
                          /\ job[j].step \in {"store", "shutdown", "upsert"}
                          /\ r = [job[j] EXCEPT !.step = step, !.broken = broken]
                    \/ \E step \in {"upsert", "rows"} :
                          /\ job[j].step \in {"shutdown", "upsert"}
                          /\ r = [job[j] EXCEPT !.step = step]
      BY <1>7 DEF WaitAll, Spoil, NextPage, ShutDown, UpsertRow
  <2>2. r \in JobRec /\ JobFits(r)
      BY <2>1, JobRecords
  <2>3. Onward(j, r)
      BY <1>1, <2>1 DEF Onward, JobRec
  <2>. QED
      BY <2>1, <2>2, <2>3
<1>8. CASE \E k \in DOMAIN job[j].pool : \/ StartUpload(j, k) \/ OpenUpload(j, k)
                                         \/ FinishUpload(j, k) \/ FailUpload(j, k)
  <2>1. PICK k \in DOMAIN job[j].pool, result \in PageState : Uploaded(j, k, result)
      BY <1>8 DEF StartUpload, OpenUpload, FinishUpload, FailUpload, PageState
  <2>2. PICK r : r = [job[j] EXCEPT !.pool[k] = result]
      OBVIOUS
  <2>3. r \in JobRec /\ JobFits(r)
      BY <2>2, PoolRecords
  <2>4. Become(j, r) /\ Onward(j, r)
      BY <1>1, <2>1, <2>2 DEF Onward, JobRec, Uploaded
  <2>. QED
      BY <2>3, <2>4
<1>9. CASE ListPages(j) \/ (DropRow(j) /\ ~StopJob(j)) \/ \E p \in job[j].keys : DropKey(j, p)
  <2>1. PICK r : /\ Become(j, r)
                 /\ \/ \E step \in {"drop", "keys"} :
                          job[j].step \in {"list", "drop"} /\ r = [job[j] EXCEPT !.step = step]
                    \/ /\ r = [job[j] EXCEPT !.step = "drop", !.keys = shown[job[j].work]]
                       /\ job[j].step = "list"
                    \/ job[j].step = "keys" /\ \E p : r = [job[j] EXCEPT !.keys = @ \ {p}]
      BY <1>9 DEF ListPages, DropRow, DropKey
  <2>2. r \in JobRec /\ JobFits(r)
      BY <2>1, JobRecords
  <2>3. Onward(j, r)
    <3>1. CASE \E step : r = [job[j] EXCEPT !.step = step]
        BY <1>1, <3>1 DEF Onward, JobRec
    <3>2. CASE r = [job[j] EXCEPT !.step = "drop", !.keys = shown[job[j].work]]
        BY <1>1, <3>2 DEF Onward, JobRec
    <3>3. CASE \E p : r = [job[j] EXCEPT !.keys = @ \ {p}]
        BY <1>1, <3>3 DEF Onward, JobRec
    <3>. QED
        BY <2>1, <3>1, <3>2, <3>3
  <2>. QED
      BY <2>1, <2>2, <2>3
<1>. QED
    BY <1>5, <1>6, <1>7, <1>8, <1>9
    DEF JobStep, ShutDown, ReplaceRows, ReplaceRowsFails, DropRow, EndDelete, Die

LEMMA JobStepTyped ==
    ASSUME JobType, NEW j \in Job, JobStep(j) PROVE JobType'
<1>1. job[j].step # "idle" /\ job[j] \in JobRec /\ JobFits(job[j]) /\ OnlyJobs /\ sweep' = sweep
    BY JobFields, JobStepShape
<1>2. job' \in [Job -> JobRec] /\ \A i \in Job : JobFits(job'[i])
  <2>1. PICK r \in JobRec : JobFits(r) /\ Become(j, r)
      BY JobStepShape
  <2>. QED
      BY <2>1, BecomesTyped
<1>3. job[j].work \in Work /\ \A k \in DOMAIN job[j].pool : UploadKey(j, k) \in Work \X Picture
    BY <1>1 DEF JobFits, UploadKey, JobRec
<1>4. /\ pageObjects' \subseteq Work \X Picture /\ alive' \subseteq Work
      /\ clash' \subseteq Work
    BY <1>3
    DEF JobStep, Submit, Drain, WaitAll, Spoil, ShutDown, UpsertRow, ReplaceRows, ReplaceRowsFails,
        StartUpload, OpenUpload, FinishUpload, FailUpload, ListPages, DropRow, DropKey, EndDelete, Die, LeaveFiles,
        PutBytes, OpenFile, FillFile, DeleteKey, JobType, comicRows
<1>5. shown' \in [Work -> SUBSET Picture]
  <2>1. Range(job[j].pics) \subseteq Picture
      BY <1>1 DEF JobRec, Range
  <2>. QED
      BY <1>3, <2>1
      DEF JobStep, Submit, Drain, WaitAll, Spoil, ShutDown, UpsertRow, ReplaceRows, ReplaceRowsFails,
          StartUpload, OpenUpload, FinishUpload, FailUpload, ListPages, DropRow, DropKey, EndDelete, Die, LeaveFiles,
          JobType, comicRows
<1>. QED
    BY <1>1, <1>2, <1>4, <1>5 DEF JobType, OnlyJobs

\* A job begins: what it is, and that the others at most lose their peace.
Begins(j, w) ==
    \/ \E pics \in Archives, skip \in mix.skips : BeginImport(j, w, pics, skip)
    \/ BeginDelete(j, w)

Disturbs(j, w) ==
    Sweeping \/ (On(w) # {} /\ (job'[j].kind = "delete" \/ \E i \in On(w) : job[i].kind = "delete"))

NewImport(r) ==
    /\ r.kind = "import" /\ r.step = "store" /\ r.broken = FALSE /\ r.next = 1
    /\ \A k \in DOMAIN r.pool : r.pool[k] = "none"
NewDelete(r) == r.kind = "delete" /\ r.step = "list" /\ r.pool = <<>>

LEMMA BeginShape ==
    ASSUME JobType, NEW j \in Job, NEW w \in Work, Begins(j, w)
    PROVE  /\ job' \in [Job -> JobRec] /\ \A i \in Job : JobFits(job'[i])
           /\ job[j].step = "idle" /\ job'[j].work = w
           /\ NewImport(job'[j]) \/ NewDelete(job'[j])
           /\ job'[j].alone => ~Disturbs(j, w)
           /\ \A i \in Job \ {j} :
                 /\ job'[i] = [job[i] EXCEPT !.alone = job'[i].alone]
                 /\ job'[i].alone => job[i].alone
                 /\ Disturbs(j, w) /\ ~Sweeping /\ i \in On(w) => ~job'[i].alone
           /\ clash' = IF Disturbs(j, w) THEN clash \cup {w} ELSE clash
           /\ trouble' = IF Disturbs(j, w) THEN trouble \cup {"litter"} ELSE trouble
           /\ jobs < mix.jobs /\ jobs' = jobs + 1
           /\ sweep' = [sweep EXCEPT !.alone = FALSE]
           /\ UNCHANGED <<objects, dbVars, at, loc, ops, solo, mix, pageObjects, comicRows, sweeps>>
<1>1. PICK r \in JobRec : /\ BeginJob(j, w, r)
                          /\ NewImport(r) \/ NewDelete(r)
                          /\ DOMAIN r.pool = DOMAIN r.pics
  <2>1. CASE \E pics \in Archives, skip \in mix.skips : BeginImport(j, w, pics, skip)
    <3>1. PICK pics \in Archives, skip \in mix.skips : BeginImport(j, w, pics, skip)
        BY <2>1
    <3>2. PICK r : r = [NoJob EXCEPT !.step = "store", !.kind = "import", !.pics = pics,
                                     !.skip = skip, !.pool = [k \in DOMAIN pics |-> "none"]]
        OBVIOUS
    <3>3. PICK n \in Nat : pics \in [1..n -> Picture]
        BY DEF Archives, JobType, Mix
    <3>4. pics \in Seq(Picture) /\ [k \in DOMAIN pics |-> "none"] \in Seq(PageState) /\ skip \in BOOLEAN
        BY <3>3 DEF PageState, JobType, Mix
    <3>5. r \in JobRec
        BY <3>2, <3>4, IdleTyped DEF JobRec
    <3>6. NewImport(r) /\ DOMAIN r.pool = DOMAIN r.pics
        BY <3>2 DEF NewImport, NoJob
    <3>. QED
        BY <3>1, <3>2, <3>5, <3>6 DEF BeginImport
  <2>2. CASE BeginDelete(j, w)
    <3>1. PICK r : r = [NoJob EXCEPT !.step = "list", !.kind = "delete"]
        OBVIOUS
    <3>2. r \in JobRec /\ NewDelete(r) /\ DOMAIN r.pool = DOMAIN r.pics
        BY <3>1, IdleTyped DEF JobRec, NewDelete, NoJob
    <3>. QED
        BY <2>2, <3>1, <3>2 DEF BeginDelete
  <2>. QED
      BY <2>1, <2>2 DEF Begins
<1>2. PICK deletes \in BOOLEAN : deletes = (r.kind = "delete" \/ \E i \in On(w) : job[i].kind = "delete")
    OBVIOUS
<1>3. PICK clashes \in BOOLEAN : clashes = (Sweeping \/ (deletes /\ On(w) # {}))
    OBVIOUS
<1>4. /\ job[j].step = "idle" /\ jobs < mix.jobs /\ jobs' = jobs + 1
      /\ job' = [i \in Job |->
              IF i = j THEN [r EXCEPT !.work = w, !.alone = ~clashes]
              ELSE [job[i] EXCEPT !.alone = @ /\ ~(i \in On(w) /\ deletes)]]
      /\ clash' = IF clashes THEN clash \cup {w} ELSE clash
      /\ trouble' = IF clashes THEN trouble \cup {"litter"} ELSE trouble
      /\ sweep' = [sweep EXCEPT !.alone = FALSE]
      /\ UNCHANGED <<objects, dbVars, at, loc, ops, solo, mix, pageObjects, comicRows, sweeps>>
    BY <1>1, <1>2, <1>3 DEF BeginJob
<1>5. PICK a \in BOOLEAN : a = ~clashes
    OBVIOUS
<1>6. /\ job'[j] = [r EXCEPT !.work = w, !.alone = a]
      /\ job'[j] \in JobRec /\ JobFits(job'[j]) /\ job'[j].work = w /\ job'[j].alone = a
      /\ NewImport(job'[j]) \/ NewDelete(job'[j])
      /\ job'[j].kind = r.kind
    BY <1>1, <1>4, <1>5 DEF JobRec, JobFits, NewImport, NewDelete
<1>7. ASSUME NEW i \in Job \ {j}
      PROVE  /\ job'[i] \in JobRec /\ JobFits(job'[i])
             /\ job'[i] = [job[i] EXCEPT !.alone = job'[i].alone]
             /\ job'[i].alone => job[i].alone
             /\ deletes /\ i \in On(w) => ~job'[i].alone
  <2>1. job[i] \in JobRec /\ JobFits(job[i]) /\ job[i].alone \in BOOLEAN
      BY JobFields
  <2>2. PICK b \in BOOLEAN : b = (job[i].alone /\ ~(i \in On(w) /\ deletes))
      OBVIOUS
  <2>3. job'[i] = [job[i] EXCEPT !.alone = b]
      BY <1>4, <1>7, <2>2
  <2>4. job[i].step = "idle" => b = FALSE /\ job[i].alone = FALSE
      BY <2>1, <2>2 DEF JobFits, NoJob
  <2>5. job'[i] \in JobRec /\ job'[i].alone = b
      BY <2>1, <2>3 DEF JobRec
  <2>6. JobFits(job'[i])
    <3>1. CASE job[i].step = "idle"
      <4>1. [job[i] EXCEPT !.alone = FALSE] = job[i]
          BY <2>1, <2>4, <3>1 DEF JobRec
      <4>. QED
          BY <2>1, <2>3, <2>4, <3>1, <4>1
    <3>2. CASE job[i].step # "idle"
        BY <2>1, <2>3, <3>2 DEF JobFits, JobRec
    <3>. QED
        BY <3>1, <3>2
  <2>. QED
      BY <2>2, <2>3, <2>5, <2>6
<1>8. Disturbs(j, w) = clashes
    BY <1>2, <1>3, <1>6 DEF Disturbs
<1>9. job' \in [Job -> JobRec] /\ \A i \in Job : JobFits(job'[i])
    BY <1>4, <1>6, <1>7
<1>. QED
    BY <1>3, <1>4, <1>5, <1>6, <1>7, <1>8, <1>9

LEMMA BeginJobTyped ==
    ASSUME JobType, NEW j \in Job, NEW w \in Work, Begins(j, w) PROVE JobType'
<1>1. [sweep EXCEPT !.alone = FALSE] \in SweepRec
    BY DEF JobType, SweepRec
<1>2. /\ job' \in [Job -> JobRec] /\ \A i \in Job : JobFits(job'[i])
      /\ clash' \in {clash, clash \cup {w}} /\ jobs' = jobs + 1
      /\ sweep' = [sweep EXCEPT !.alone = FALSE]
      /\ UNCHANGED <<mix, pageObjects, comicRows, sweeps>>
    BY BeginShape
<1>. QED
    BY <1>1, <1>2 DEF JobType, comicRows

\* What a step of the sweep leaves alone.
LEMMA SweepShape ==
    ASSUME JobType, SweepStep
    PROVE  /\ UNCHANGED <<dbVars, at, loc, ops, comicRows, jobs, mix>>
           /\ objects' \subseteq objects /\ pageObjects' \subseteq pageObjects
           /\ sweep' \in SweepRec /\ sweeps' \in Nat
           /\ ~BeginSweep => UNCHANGED <<job, solo, clash>>
<1>1. sweep \in SweepRec /\ NoSweep \in SweepRec /\ Areas \subseteq Areas0 /\ sweeps \in Nat
    BY IdleTyped DEF JobType, Areas, Areas0
<1>2. Areas \X Picture \subseteq Areas0 \X Picture
    BY <1>1
<1>3. CASE BeginSweep
  <2>1. PICK alone \in BOOLEAN : alone = (AllIdle /\ Busy = {})
      OBVIOUS
  <2>2. sweep' = [NoSweep EXCEPT !.step = "list", !.todo = Areas \X Picture, !.whole = TRUE, !.alone = alone]
      BY <1>3, <2>1 DEF BeginSweep
  <2>3. sweep' \in SweepRec
      BY <1>1, <1>2, <2>2 DEF SweepRec
  <2>. QED
      BY <1>1, <1>3, <2>3 DEF BeginSweep
<1>4. CASE \E k \in sweep.todo : ListDirectory(k)
  <2>1. PICK k \in sweep.todo : ListDirectory(k)
      BY <1>4
  <2>2. sweep.todo \ {k} \subseteq Areas0 \X Picture /\ sweep.seen \cup ({k} \cap Store) \subseteq Areas0 \X Picture
      BY <1>1 DEF SweepRec
  <2>3. sweep' \in SweepRec
      BY <1>1, <2>1, <2>2, ZenonT(60) DEF ListDirectory, SweepRec
  <2>. QED
      BY <1>1, <2>1, <2>3 DEF OnlySweep, ListDirectory, BeginSweep, Sweeping
<1>5. CASE FindOrphans
  <2>1. PICK part \in SUBSET sweep.seen, whole \in BOOLEAN :
            sweep' = [sweep EXCEPT !.step = "delete", !.seen = {}, !.doomed = part, !.whole = whole]
    <3>1. PICK part \in IF mix.limit THEN SUBSET (sweep.seen \ Expected) ELSE {sweep.seen \ Expected} :
              sweep' = [sweep EXCEPT !.step = "delete", !.seen = {}, !.doomed = part,
                                     !.whole = @ /\ part = sweep.seen \ Expected]
        BY <1>5 DEF FindOrphans
    <3>2. PICK whole \in BOOLEAN : whole = (sweep.whole /\ part = sweep.seen \ Expected)
        OBVIOUS
    <3>. QED
        BY <3>1, <3>2
  <2>2. part \subseteq Areas0 \X Picture
      BY <1>1, <2>1 DEF SweepRec
  <2>3. sweep' \in SweepRec
      BY <1>1, <2>1, <2>2 DEF SweepRec
  <2>. QED
      BY <1>1, <1>5, <2>3 DEF OnlySweep, FindOrphans, BeginSweep, Sweeping
<1>6. CASE \E k \in sweep.doomed : DeleteOrphan(k)
  <2>1. PICK k \in sweep.doomed : DeleteOrphan(k)
      BY <1>6
  <2>2. sweep' \in SweepRec
      BY <1>1, <2>1, ZenonT(60) DEF DeleteOrphan, SweepRec
  <2>. QED
      BY <1>1, <2>1, <2>2 DEF OnlySweep, DeleteOrphan, DeleteKey, BeginSweep, Sweeping
<1>7. CASE EndSweep \/ SweepDies
    BY <1>1, <1>7 DEF OnlySweep, EndSweep, SweepDies, BeginSweep, Sweeping
<1>. QED
    BY <1>3, <1>4, <1>5, <1>6, <1>7 DEF SweepStep

LEMMA SweepTyped ==
    ASSUME FanartType, JobType, SweepStep PROVE FanartType' /\ JobType'
<1>1. /\ UNCHANGED <<dbVars, at, loc, ops, comicRows, jobs, mix>>
      /\ objects' \subseteq objects /\ pageObjects' \subseteq pageObjects
      /\ sweep' \in SweepRec /\ sweeps' \in Nat /\ (~BeginSweep => UNCHANGED <<job, solo, clash>>)
    BY SweepShape
<1>2. /\ job' \in [Job -> JobRec] /\ clash' \subseteq Work /\ solo' \in ReqRec
      /\ \A j \in Job : JobFits(job'[j])
  <2>1. CASE BeginSweep
    <3>1. /\ job' = [j \in Job |-> [job[j] EXCEPT !.alone = FALSE]]
          /\ clash' = clash \cup {job[j].work : j \in Busy}
        BY <2>1 DEF BeginSweep
    <3>2. ASSUME NEW j \in Job PROVE job'[j] \in JobRec /\ JobFits(job'[j])
      <4>1. job[j] \in JobRec /\ JobFits(job[j]) /\ job'[j] = [job[j] EXCEPT !.alone = FALSE]
          BY <3>1, JobFields
      <4>2. CASE job[j].step = "idle"
        <5>1. job[j].alone = FALSE
            BY <4>1, <4>2 DEF JobFits, NoJob
        <5>2. [job[j] EXCEPT !.alone = FALSE] = job[j]
            BY <4>1, <5>1 DEF JobRec
        <5>. QED
            BY <4>1, <5>2
      <4>3. CASE job[j].step # "idle"
          BY <4>1, <4>3 DEF JobFits, JobRec
      <4>. QED
          BY <4>2, <4>3, <4>1 DEF JobRec
    <3>3. clash' \subseteq Work
        BY <3>1 DEF JobType, Busy, JobFits
    <3>. QED
        BY <2>1, <3>1, <3>2, <3>3, NoneTyped DEF BeginSweep, FanartType
  <2>2. CASE ~BeginSweep
      BY <1>1, <2>2 DEF JobType, FanartType
  <2>. QED
      BY <2>1, <2>2
<1>3. trouble' \subseteq {"lost", "litter"}
    BY DEF SweepStep, BeginSweep, ListDirectory, FindOrphans, DeleteOrphan, EndSweep, SweepDies, FanartType
<1>. QED
    BY <1>1, <1>2, <1>3 DEF FanartType, JobType, dbVars, comicRows

-----------------------------------------------------------------------------
(* The steps of the system, and its types.                                 *)

AnyForm == Uploads \cup Deletions \cup GalleryForms

LEMMA Steps ==
    ASSUME [MediaNext]_storeVars
    PROVE  \/ \E r \in Request, q \in AnyForm, skip \in BOOLEAN : BeginRequest(r, q, skip)
           \/ \E r \in Request : Step(r) /\ UNCHANGED <<mix, jobVars, sweepVars, clash>>
           \/ \E j \in Job, w \in Work : Begins(j, w)
           \/ \E j \in Job : JobStep(j)
           \/ SweepStep
           \/ UNCHANGED storeVars
<1>1. \A skip \in SkipChecks : skip \in BOOLEAN
    BY FanartAssumption
<1>. QED
    BY <1>1 DEF MediaNext, AnyForm, Begins, AllDone

Typed == FanartType /\ JobType

LEMMA InitTyped == MediaInit => Typed
<1>. SUFFICES ASSUME MediaInit PROVE Typed
    OBVIOUS
<1>1. FanartType
    BY NoneTyped, FanartAssumption DEF MediaInit, Init, FanartType, AnyPicture, StepName
<1>2. JobType
    BY IdleTyped, MediaAssumption DEF MediaInit, JobType
<1>. QED
    BY <1>1, <1>2 DEF Typed

LEMMA NextTyped == ASSUME Typed, [MediaNext]_storeVars PROVE Typed'
<1>1. ASSUME NEW r \in Request, NEW q \in AnyForm, NEW skip \in BOOLEAN, BeginRequest(r, q, skip)
      PROVE  Typed'
  <2>1. FanartType'
      BY <1>1, BeginTyped DEF Typed, BeginRequest, AnyForm
  <2>2. [sweep EXCEPT !.alone = FALSE] \in SweepRec
      BY DEF Typed, JobType, SweepRec
  <2>3. JobType'
      BY <1>1, <2>2 DEF Typed, BeginRequest, JobType, jobVars, comicRows
  <2>. QED
      BY <2>1, <2>3 DEF Typed
<1>2. ASSUME NEW r \in Request, Step(r), UNCHANGED <<mix, jobVars, sweepVars, clash>> PROVE Typed'
    BY <1>2, StepTyped DEF Typed, JobType, jobVars, sweepVars, comicRows
<1>3. ASSUME JobType', UNCHANGED <<objects, dbVars, at, loc, ops, solo>>,
             trouble' \in {trouble, trouble \cup {"litter"}}
      PROVE  Typed'
    BY <1>3 DEF Typed, FanartType, dbVars
<1>4. ASSUME NEW j \in Job, NEW w \in Work, Begins(j, w) PROVE Typed'
    BY <1>3, <1>4, BeginJobTyped, BeginShape DEF Typed
<1>5. ASSUME NEW j \in Job, JobStep(j) PROVE Typed'
    BY <1>3, <1>5, JobStepTyped, JobStepShape DEF Typed, OnlyJobs
<1>6. CASE SweepStep
    BY <1>6, SweepTyped DEF Typed
<1>7. CASE UNCHANGED storeVars
    BY <1>7
    DEF Typed, FanartType, JobType, storeVars, vars, dbVars, history, jobVars, comicRows, sweepVars
<1>. QED
    BY <1>1, <1>2, <1>4, <1>5, <1>6, <1>7, Steps

-----------------------------------------------------------------------------
(* Fanart: the steps of a request.                                         *)

\* Every step of a request takes it on or ends it.
LEMMA StepShape ==
    ASSUME FanartType, NEW r \in Request, Step(r)
    PROVE  /\ \E step \in StepName, l \in LocRec :
                 To(r, step, l) /\ (step # "idle" => l.req = loc[r].req)
           /\ at[r] # "idle"
           /\ solo' \in {solo, NoReq} /\ trouble' \in {trouble, trouble \cup {"litter"}}
           /\ ops' = ops
<1>1. loc[r] \in LocRec /\ NoLoc \in LocRec /\ Fits(at[r], loc[r])
    BY NoneTyped DEF FanartType
<1>2. \A step, l : To(r, step, l) => at'[r] = step /\ loc'[r] = l
    BY DEF To, FanartType
<1>3. \E step, l : To(r, step, l) /\ (step # "idle" => l.req = loc[r].req)
    BY <1>1 DEF Step, Check, Put, Write, Insert, InsertBound, Tag, TagFails, Find, Erase, Remove, CreateGallery,
                FindGallery, FillGallery, DropGallery, Fail, Abandon, Stop, LocRec
<1>4. at'[r] \in StepName /\ loc'[r] \in LocRec
    BY StepTyped DEF FanartType
<1>5. at[r] # "idle"
    BY DEF Step, Check, Put, Write, Insert, InsertBound, Tag, TagFails, Find, Erase, Remove, CreateGallery,
           FindGallery, FillGallery, DropGallery, Fail
<1>6. solo' \in {solo, NoReq} /\ trouble' \in {trouble, trouble \cup {"litter"}} /\ ops' = ops
    BY DEF Step, Check, Put, Write, Insert, InsertBound, Tag, TagFails, Find, Erase, Remove, CreateGallery,
           FindGallery, FillGallery, DropGallery, Fail, Abandon, history
<1>. QED
    BY <1>2, <1>3, <1>4, <1>5, <1>6

\* Tags and gallery places go with the item, whatever runs.
LEMMA StepDangles ==
    ASSUME FanartType, NothingDangles, NEW r \in Request, Step(r) PROVE NothingDangles'
<1>1. loc[r] \in LocRec /\ Fits(at[r], loc[r])
    BY DEF FanartType
<1>2. CASE Insert(r)
  <2>1. loc[r].req.pic \in Picture /\ lastItem' \in Ids
      BY <1>1, <1>2, FanartAssumption DEF Insert, Fits, UploadsPicture, FanartType, Ids
  <2>2. Live \subseteq Live'
      BY <1>2, <2>1, FanartAssumption DEF Insert, Live, FanartType, Ids
  <2>. QED
      BY <1>2, <2>2 DEF Insert, NothingDangles
<1>3. CASE Erase(r)
  <2>1. Live' = Live \ {loc[r].req.item}
      BY <1>3 DEF Erase, Live, FanartType, Ids
  <2>2. gallery'.items = gallery.items \ {loc[r].req.item} /\ gallery'.id = gallery.id
      BY <1>3 DEF Erase, FanartType
  <2>. QED
      BY <1>3, <2>1, <2>2 DEF Erase, NothingDangles
<1>4. CASE Tag(r)
    BY <1>1, <1>4 DEF Tag, NothingDangles, Live
<1>5. CASE CreateGallery(r) \/ DropGallery(r)
    BY <1>5 DEF CreateGallery, DropGallery, NothingDangles, Live, FanartType
<1>6. CASE FillGallery(r)
  <2>1. loc[r].gallery # 0
      BY <1>1, <1>6 DEF FillGallery, Fits
  <2>2. Live' = Live
      BY <1>6 DEF FillGallery, Live
  <2>. QED
      BY <1>6, <2>1, <2>2 DEF FillGallery, Fillable, StillThere, NothingDangles, FanartType
<1>. QED
    BY <1>2, <1>3, <1>4, <1>5, <1>6
    DEF Step, Check, Put, Write, InsertBound, TagFails, Find, Remove, FindGallery, Fail, dbVars, NothingDangles, Live

\* A step leaves the request alone if it was, and the sweep.
LEMMA StepOrder ==
    ASSUME FanartType, OneAtATime, SoloRuns, NEW r \in Request, Step(r), sweep' = sweep
    PROVE  /\ Orderly' => Orderly /\ ~Sweeping /\ \A x \in Request \ {r} : at[x] = "idle" /\ at'[x] = "idle"
           /\ OneAtATime' /\ SoloRuns'
<1>1. PICK step \in StepName, l \in LocRec : To(r, step, l) /\ (step # "idle" => l.req = loc[r].req)
    BY StepShape
<1>2. at[r] # "idle" /\ solo' \in {solo, NoReq} /\ trouble \subseteq trouble'
    BY StepShape
<1>3. \A x \in Request : IF x = r THEN at'[x] = step /\ loc'[x] = l ELSE at'[x] = at[x] /\ loc'[x] = loc[x]
    BY <1>1 DEF FanartType, To
<1>4. NoReq.kind = "none"
    BY DEF NoReq, Req
<1>5. Orderly' => Orderly
    BY <1>2, <1>4 DEF Orderly
<1>6. Orderly' => ~Sweeping /\ \A x \in Request \ {r} : at[x] = "idle" /\ at'[x] = "idle"
    BY <1>2, <1>3, <1>5 DEF OneAtATime, AllIdle
<1>7. OneAtATime'
    BY <1>6 DEF OneAtATime, Sweeping
<1>8. SoloRuns'
  <2>1. solo'.kind # "none" => solo' = solo /\ Orderly'
      BY <1>2, <1>4 DEF Orderly
  <2>. QED
      BY <1>1, <1>2, <1>3, <1>6, <2>1 DEF SoloRuns
<1>. QED
    BY <1>5, <1>6, <1>7, <1>8

Requests == OneAtATime /\ SoloRuns /\ RequestsKnow

\* A request that runs alone goes on knowing.
LEMMA StepKnows ==
    ASSUME FanartType, Requests, NEW r \in Request, Step(r), sweep' = sweep
    PROVE  RequestsKnow'
<1>. SUFFICES ASSUME Orderly' PROVE Knows(at[r], loc[r])'
  <2>1. Orderly' => \A x \in Request \ {r} : at'[x] = "idle"
      BY StepOrder DEF Requests
  <2>2. \A x \in Request : at'[x] = "idle" => Knows(at[x], loc[x])'
      BY DEF Knows
  <2>. QED
      BY <2>1, <2>2 DEF RequestsKnow
<1>1. Orderly /\ Knows(at[r], loc[r]) /\ loc[r] \in LocRec /\ Fits(at[r], loc[r])
    BY StepOrder DEF Requests, RequestsKnow, FanartType
<1>2. ASSUME NEW step, NEW l, To(r, step, l), Knows(step, l)' PROVE Knows(at[r], loc[r])'
  <2>1. at'[r] = step /\ loc'[r] = l
      BY <1>2 DEF To, FanartType
  <2>. QED
      BY <1>2, <2>1 DEF Knows
<1>3. CASE Stop(r)
  <2>1. at'[r] = "idle"
      BY <1>3 DEF Stop, To, FanartType
  <2>. QED
      BY <2>1 DEF Knows
<1>4. CASE Check(r) \/ Put(r) \/ Write(r)
  <2>1. PICK l : l = loc[r]
      OBVIOUS
  <2>2. PICK step \in {"put", "write", "insert"} : To(r, step, l)
      BY <1>4, <2>1 DEF Check, Put, Write
  <2>3. lastItem' < MaxItems /\ (step \in {"write", "insert"} => l.req.pic \in objects')
      BY <1>1, <1>4, <2>1, <2>2 DEF Check, Put, Write, Knows, dbVars, To, FanartType
  <2>4. Knows(step, l)'
      BY <2>2, <2>3 DEF Knows
  <2>. QED
      BY <1>2, <2>2, <2>4
<1>5. CASE Insert(r)
  <2>1. PICK l : l = [loc[r] EXCEPT !.item = lastItem']
      OBVIOUS
  <2>2. To(r, "tag", l) /\ l.req = loc[r].req /\ loc[r].req.pic \in objects /\ objects' = objects
      BY <1>1, <1>5, <2>1 DEF Insert, LocRec, Knows
  <2>3. Knows("tag", l)'
      BY <2>2 DEF Knows
  <2>. QED
      BY <1>2, <2>2, <2>3
<1>6. CASE Find(r) /\ ~Stop(r)
  <2>1. PICK l : l = [loc[r] EXCEPT !.doomed = items[loc[r].req.item]]
      OBVIOUS
  <2>2. /\ To(r, "erase", l) /\ l.req = loc[r].req /\ l.doomed = items[loc[r].req.item]
        /\ loc[r].req.item \in Live /\ items' = items
      BY <1>1, <1>6, <2>1 DEF Find, LocRec, dbVars
  <2>3. Knows("erase", l)'
      BY <2>2 DEF Knows, Live
  <2>. QED
      BY <1>2, <2>2, <2>3
<1>7. CASE Erase(r) /\ ~Stop(r)
  <2>1. PICK l : l = loc[r]
      OBVIOUS
  <2>2. /\ To(r, "remove", l) /\ l.req.item \in Live /\ ~InUse(l.doomed, Live \ {l.req.item})
        /\ items' = [items EXCEPT ![l.req.item] = NoPicture]
      BY <1>7, <2>1 DEF Erase
  <2>3. l.doomed \notin Used'
      BY <2>2 DEF Used, Live, InUse, FanartType
  <2>4. Knows("remove", l)'
      BY <2>3 DEF Knows
  <2>. QED
      BY <1>2, <2>2, <2>4
<1>8. CASE FindGallery(r) /\ ~Stop(r)
  <2>1. PICK l : l = [loc[r] EXCEPT !.gallery = gallery.id]
      OBVIOUS
  <2>2. PICK step : step = loc[r].req.kind
      OBVIOUS
  <2>3. To(r, step, l) /\ step \in {"fill", "drop"}
      BY <1>1, <1>8, <2>1, <2>2 DEF FindGallery, Fits
  <2>4. Knows(step, l)'
      BY <2>3 DEF Knows
  <2>. QED
      BY <1>2, <2>3, <2>4
<1>. QED
    BY <1>3, <1>4, <1>5, <1>6, <1>7, <1>8
    DEF Step, InsertBound, Tag, TagFails, Remove, CreateGallery, FillGallery, DropGallery, Fail, Abandon,
        Find, Erase, FindGallery

\* What a step of a request does to the table and the store.
LEMMA StepEffect ==
    ASSUME FanartType, NEW r \in Request, Step(r)
    PROVE  \/ /\ Put(r) /\ Used' = Used /\ objects' = objects \cup {loc[r].req.pic}
           \/ /\ Insert(r) /\ objects' = objects /\ loc[r].req.pic \in Picture
              /\ Used' = Used \cup {loc[r].req.pic}
           \/ /\ Erase(r) /\ objects' = objects
              /\ Used' \subseteq Used /\ Used \subseteq Used' \cup {items[loc[r].req.item]}
           \/ /\ Remove(r) /\ Used' = Used /\ objects' = objects \ {loc[r].doomed}
           \/ /\ ~Put(r) /\ ~Insert(r) /\ ~Erase(r) /\ ~Remove(r)
              /\ UNCHANGED <<items, objects>> /\ Used' = Used
<1>1. loc[r] \in LocRec /\ Fits(at[r], loc[r])
    BY DEF FanartType
<1>2. CASE Insert(r)
  <2>1. loc[r].req.pic \in Picture /\ lastItem' \in Ids /\ items[lastItem'] = NoPicture
      BY <1>1, <1>2, FanartAssumption DEF Insert, Fits, UploadsPicture, FanartType, Ids
  <2>2. Used' = Used \cup {loc[r].req.pic}
    <3>1. \A n \in Ids : items'[n] = IF n = lastItem' THEN loc[r].req.pic ELSE items[n]
        BY <1>2 DEF Insert, FanartType
    <3>2. loc[r].req.pic # NoPicture
        BY <2>1, FanartAssumption
    <3>. QED
        BY <2>1, <3>1, <3>2 DEF Used, Live
  <2>. QED
      BY <1>2, <2>1, <2>2 DEF Insert
<1>3. CASE Erase(r)
  <2>1. \A n \in Ids : items'[n] = IF n = loc[r].req.item THEN NoPicture ELSE items[n]
      BY <1>3 DEF Erase, FanartType
  <2>. QED
      BY <1>3, <2>1 DEF Erase, Used, Live
<1>4. CASE UNCHANGED items
  <2>1. Used' = Used
      BY <1>4 DEF Used, Live
  <2>. QED
      BY <1>2, <1>3, <1>4, <2>1
      DEF Step, Check, Put, Write, InsertBound, Tag, TagFails, Find, Remove, CreateGallery, FindGallery,
          FillGallery, DropGallery, Fail, dbVars
<1>. QED
    BY <1>2, <1>3, <1>4
    DEF Step, Check, Put, Write, InsertBound, Tag, TagFails, Find, Remove, CreateGallery, FindGallery,
        FillGallery, DropGallery, Fail, dbVars

\* As long as nothing overlaps a picture is stored before its item is inserted
\* and removed after its last item has gone.
LEMMA StepStores ==
    ASSUME FanartType, Requests, NothingLost, UploadStores, NoFanartLitter, NEW r \in Request, Step(r),
           sweep' = sweep
    PROVE  NothingLost' /\ UploadStores' /\ NoFanartLitter'
<1>1. PICK step \in StepName, l \in LocRec : To(r, step, l) /\ (step # "idle" => l.req = loc[r].req)
    BY StepShape
<1>2. /\ at[r] # "idle" /\ solo' \in {solo, NoReq} /\ trouble \subseteq trouble'
      /\ at'[r] = step /\ loc'[r] = l
    BY <1>1, StepShape DEF To, FanartType
<1>3. Orderly' => /\ Knows(at[r], loc[r])
                  /\ \A x \in Request \ {r} : at[x] = "idle" /\ at'[x] = "idle"
    BY StepOrder DEF Requests, RequestsKnow
<1>4. Fits(at[r], loc[r]) /\ NoReq.kind = "none"
    BY DEF FanartType, NoReq, Req
<1>5. NothingLost'
  <2>. SUFFICES ASSUME "lost" \notin trouble' PROVE Used' \subseteq objects'
      BY DEF NothingLost
  <2>1. Orderly' /\ Used \subseteq objects
      BY <1>2 DEF Orderly, NothingLost
  <2>2. Knows(at[r], loc[r])
      BY <1>3, <2>1
  <2>3. Insert(r) => loc[r].req.pic \in objects
      BY <2>2 DEF Insert, Knows
  <2>4. Remove(r) => loc[r].doomed \notin Used
      BY <2>2 DEF Remove, Knows
  <2>. QED
      BY <2>1, <2>3, <2>4, StepEffect
<1>6. UploadStores'
  <2>. SUFFICES ASSUME AllIdle', solo'.kind = "upload" PROVE solo'.pic \in objects'
      BY DEF UploadStores
  <2>1. solo' = solo /\ Orderly' /\ loc[r].req = solo /\ step = "idle"
      BY <1>2, <1>4 DEF Orderly, AllIdle, Requests, SoloRuns
  <2>2. at[r] \notin {"find", "erase", "remove", "create", "slug", "fill", "drop"}
      BY <1>4, <2>1 DEF Fits
  <2>3. Tag(r)
      BY <1>1, <1>2, <1>4, <2>1, <2>2
      DEF Step, Check, Put, Write, Insert, InsertBound, TagFails, Find, Erase, Remove, CreateGallery,
          FindGallery, FillGallery, DropGallery, Fail, Abandon, To, FanartType
  <2>. QED
      BY <1>3, <2>1, <2>3 DEF Tag, Knows
<1>7. NoFanartLitter'
  <2>. SUFFICES ASSUME "litter" \notin trouble', NEW p \in objects' PROVE Claimed(p)'
      BY DEF NoFanartLitter
  <2>1. Orderly' /\ (p \in objects => Claimed(p)) /\ ~Fail(r)
      BY <1>2 DEF Orderly, NoFanartLitter, Fail
  <2>2. p \in objects => \/ p \in Used
                         \/ at[r] \in {"write", "insert"} /\ p = loc[r].req.pic
                         \/ at[r] = "remove" /\ p = loc[r].doomed
      BY <1>3, <2>1 DEF Claimed
  <2>3. p \in Used' => Claimed(p)'
      BY DEF Claimed
  <2>4. CASE Put(r)
    <3>1. at'[r] \in {"write", "insert"} /\ loc'[r].req.pic = loc[r].req.pic
        BY <2>4 DEF Put, To, FanartType
    <3>. QED
        BY <2>2, <2>3, <2>4, <3>1, StepEffect DEF Put, Claimed, Insert, Erase, Remove
  <2>5. CASE Insert(r)
      BY <2>2, <2>3, <2>5, StepEffect DEF Insert, Put, Erase, Remove
  <2>6. CASE Erase(r)
    <3>1. items[loc[r].req.item] = loc[r].doomed
        BY <1>3, <2>1, <2>6 DEF Erase, Knows
    <3>2. p \in Used
        BY <2>2, <2>6 DEF Erase
    <3>3. CASE p \notin Used'
      <4>1. p = loc[r].doomed
          BY <2>6, <3>1, <3>2, <3>3, StepEffect DEF Insert, Put, Erase, Remove
      <4>2. \A n \in Live \ {loc[r].req.item} : items'[n] = items[n] /\ n \in Live'
          BY <2>6 DEF Erase, Live, FanartType
      <4>3. ~InUse(loc[r].doomed, Live \ {loc[r].req.item})
          BY <3>3, <4>1, <4>2 DEF InUse, Used
      <4>4. loc[r].req.item \in Live
          BY <1>3, <2>1, <2>6 DEF Erase, Knows
      <4>5. at'[r] = "remove" /\ loc'[r] = loc[r]
          BY <2>6, <4>3, <4>4 DEF Erase, To, FanartType
      <4>. QED
          BY <4>1, <4>5 DEF Claimed
    <3>. QED
        BY <2>3, <3>3
  <2>7. CASE Remove(r)
      BY <2>2, <2>3, <2>7, StepEffect DEF Insert, Put, Erase, Remove
  <2>8. CASE ~Put(r) /\ ~Insert(r) /\ ~Erase(r) /\ ~Remove(r)
    <3>0. CASE Write(r)
      <4>1. at'[r] = "insert" /\ loc'[r] = loc[r] /\ at[r] = "write"
          BY <3>0 DEF Write, To, FanartType
      <4>. QED
          BY <2>2, <2>3, <2>8, <4>1, StepEffect DEF Claimed
    <3>. SUFFICES ASSUME ~Write(r) PROVE Claimed(p)'
        BY <3>0
    <3>1. at[r] \notin {"write", "insert", "remove"}
        BY <1>3, <2>1, <2>8
        DEF Step, Check, InsertBound, Tag, TagFails, Find, CreateGallery, FindGallery, FillGallery,
            DropGallery, Knows, FanartType
    <3>. QED
        BY <2>2, <2>3, <2>8, <3>1, StepEffect
  <2>. QED
      BY <2>4, <2>5, <2>6, <2>7, <2>8
<1>. QED
    BY <1>5, <1>6, <1>7

\* A request goes on: nothing about the fanart is lost.
LEMMA StepFanart ==
    ASSUME FanartType, FanartInv, NEW r \in Request, Step(r), sweep' = sweep
    PROVE  FanartInv'
<1>1. Requests
    BY DEF FanartInv, Requests
<1>2. /\ OneAtATime' /\ SoloRuns' /\ RequestsKnow' /\ NothingDangles'
      /\ Orderly' => ~Sweeping
    BY <1>1, StepOrder, StepKnows, StepDangles DEF FanartInv
<1>3. NothingLost' /\ UploadStores' /\ NoFanartLitter'
    BY <1>1, StepStores DEF FanartInv
<1>4. SparesItems'
    BY <1>2 DEF SparesItems, Sweeping
<1>. QED
    BY <1>2, <1>3, <1>4 DEF FanartInv

\* A request begins: alone, or it leaves its marks.
LEMMA BeginFanart ==
    ASSUME FanartType, FanartInv, NEW r \in Request, NEW q \in AnyForm, NEW skip \in BOOLEAN,
           BeginRequest(r, q, skip)
    PROVE  FanartInv'
<1>1. PICK alone \in BOOLEAN : alone = (AllIdle /\ ~Sweeping)
    OBVIOUS
<1>2. Begin(r, q, skip, alone) /\ q \in Uploads \cup Deletions \cup GalleryForms
    BY <1>1 DEF BeginRequest, AnyForm
<1>3. PICK step \in {"check", "put", "find", "create", "slug"}, l \in LocRec :
          To(r, step, l) /\ Fits(step, l) /\ l.req = q
    BY <1>2, BeginTyped
<1>4. q.kind # "none" /\ q \in ReqRec /\ NoReq.kind = "none"
    BY <1>2, BeginTyped DEF NoReq, Req
<1>5. /\ at'[r] = step /\ loc'[r] = l
      /\ \A x \in Request \ {r} : at'[x] = at[x] /\ loc'[x] = loc[x]
      /\ sweep'.step = sweep.step /\ sweep'.doomed = sweep.doomed
      /\ UNCHANGED <<objects, items, lastItem, tagged, gallery>>
      /\ at[r] = "idle"
      /\ Live' = Live /\ Used' = Used
  <2>1. UNCHANGED <<objects, items, lastItem, tagged, gallery>> /\ at[r] = "idle"
      BY <1>2 DEF Begin, dbVars
  <2>2. sweep'.step = sweep.step /\ sweep'.doomed = sweep.doomed
      BY DEF BeginRequest
  <2>3. Live' = Live /\ Used' = Used
      BY <2>1 DEF Live, Used
  <2>. QED
      BY <1>3, <2>1, <2>2, <2>3 DEF To, FanartType
<1>6. /\ solo' = IF alone THEN q ELSE NoReq
      /\ trouble' = IF alone THEN trouble ELSE {"lost", "litter"}
    BY <1>2 DEF Begin
<1>7. ~AllIdle'
    BY <1>3, <1>5 DEF AllIdle
<1>8. NothingDangles' /\ UploadStores'
    BY <1>5, <1>7 DEF FanartInv, NothingDangles, UploadStores
<1>9. CASE ~alone
  <2>1. ~Orderly' /\ "lost" \in trouble' /\ "litter" \in trouble' /\ solo'.kind = "none"
      BY <1>4, <1>6, <1>9 DEF Orderly
  <2>. QED
      BY <1>8, <2>1
      DEF FanartInv, OneAtATime, RequestsKnow, SoloRuns, NothingLost, NoFanartLitter, SparesItems
<1>10. CASE alone
  <2>1. AllIdle /\ ~Sweeping /\ solo' = q /\ trouble' = trouble
      BY <1>1, <1>6, <1>10
  <2>2. OneAtATime' /\ SoloRuns'
      BY <1>3, <1>5, <2>1 DEF OneAtATime, SoloRuns, AllIdle, Sweeping
  <2>3. RequestsKnow'
    <3>1. q.kind = "upload" => lastItem < MaxItems
        BY <1>2 DEF Begin
    <3>2. step \in {"check", "put"} => lastItem' < MaxItems
        BY <1>3, <1>5, <3>1 DEF Fits
    <3>3. Knows(step, l)'
        BY <3>2 DEF Knows
    <3>4. ASSUME NEW x \in Request PROVE Knows(at[x], loc[x])'
      <4>1. CASE x = r
          BY <1>5, <3>3, <4>1 DEF Knows
      <4>2. CASE x # r
        <5>1. at'[x] = "idle"
            BY <1>5, <2>1, <4>2 DEF AllIdle
        <5>. QED
            BY <5>1 DEF Knows
      <4>. QED
          BY <4>1, <4>2
    <3>. QED
        BY <3>4 DEF RequestsKnow
  <2>4. NothingLost' /\ SparesItems'
      BY <1>5, <2>1 DEF FanartInv, NothingLost, SparesItems, Sweeping
  <2>5. NoFanartLitter'
    <3>1. \A p : Claimed(p) => Claimed(p)'
        BY <1>5, <2>1 DEF Claimed, AllIdle
    <3>. QED
        BY <1>5, <2>1, <3>1 DEF FanartInv, NoFanartLitter
  <2>. QED
      BY <1>8, <2>2, <2>3, <2>4, <2>5 DEF FanartInv
<1>. QED
    BY <1>9, <1>10

-----------------------------------------------------------------------------
(* Fanart: everything else.                                                *)

\* What leaves the fanart alone and does not bring the sweep on.
LEMMA FanartStays ==
    ASSUME FanartInv, UNCHANGED <<objects, dbVars, at, loc, solo>>, trouble \subseteq trouble',
           Sweeping' => Sweeping,
           sweep'.step = "delete" => sweep.step = "delete" /\ sweep'.doomed \subseteq sweep.doomed
    PROVE  FanartInv'
<1>1. Live' = Live /\ Used' = Used /\ UNCHANGED <<items, lastItem, tagged, gallery>>
    BY DEF Live, Used, dbVars
<1>2. Orderly' => Orderly
    BY DEF Orderly
<1>3. AllIdle' = AllIdle /\ \A p : Claimed(p) => Claimed(p)'
    BY <1>1 DEF AllIdle, Claimed
<1>4. NothingDangles' /\ OneAtATime' /\ SoloRuns' /\ UploadStores'
    BY <1>1, <1>2, <1>3 DEF FanartInv, NothingDangles, OneAtATime, SoloRuns, UploadStores
<1>5. RequestsKnow'
    BY <1>1, <1>2 DEF FanartInv, RequestsKnow, Knows
<1>6. NothingLost' /\ NoFanartLitter' /\ SparesItems'
    BY <1>1, <1>2, <1>3 DEF FanartInv, NothingLost, NoFanartLitter, SparesItems
<1>. QED
    BY <1>4, <1>5, <1>6 DEF FanartInv

\* Nothing is claimed by requests that do not run.
LEMMA IdleKnows ==
    ASSUME AllIdle' PROVE OneAtATime' /\ RequestsKnow' /\ SoloRuns'
BY DEF AllIdle, OneAtATime, RequestsKnow, SoloRuns, Knows

\* The sweep: what is shown is never among what it deletes, and when it was
\* alone and left nothing out no litter is left.
LEMMA SweepFanart ==
    ASSUME PlainIds, FanartType, JobType, FanartInv, SweepSees, SweepStep PROVE FanartInv'
<1>1. /\ UNCHANGED <<dbVars, at, loc>> /\ objects' \subseteq objects
      /\ ~BeginSweep => solo' = solo
    BY SweepShape
<1>2. Live' = Live /\ Used' = Used /\ AllIdle' = AllIdle /\ NothingDangles'
    BY <1>1 DEF Live, Used, dbVars, AllIdle, FanartInv, NothingDangles
<1>3. CASE BeginSweep
  <2>1. sweep'.step = "list" /\ objects' = objects
      BY <1>3 DEF BeginSweep, NoSweep
  <2>2. CASE AllIdle
    <3>1. solo' = solo /\ trouble' = trouble
        BY <1>3, <2>2 DEF BeginSweep
    <3>2. OneAtATime' /\ RequestsKnow' /\ SoloRuns' /\ SparesItems'
        BY <1>2, <2>1, <2>2, IdleKnows DEF SparesItems
    <3>3. \A p : Claimed(p) => Claimed(p)'
        BY <1>1, <1>2 DEF Claimed
    <3>4. UploadStores' /\ NothingLost' /\ NoFanartLitter'
        BY <1>2, <2>1, <3>1, <3>3 DEF FanartInv, UploadStores, NothingLost, NoFanartLitter
    <3>. QED
        BY <1>2, <3>2, <3>4 DEF FanartInv
  <2>3. CASE ~AllIdle
    <3>1. solo'.kind = "none" /\ "lost" \in trouble' /\ "litter" \in trouble'
        BY <1>3, <2>3 DEF BeginSweep, NoReq, Req
    <3>. QED
        BY <1>2, <3>1
        DEF Orderly, FanartInv, OneAtATime, RequestsKnow, SoloRuns, UploadStores, NothingLost,
            NoFanartLitter, SparesItems
  <2>. QED
      BY <2>2, <2>3
<1>4. CASE (\E k \in sweep.todo : ListDirectory(k)) \/ SweepDies
  <2>1. /\ sweep'.step \in {"list", "idle"} /\ Sweeping
        /\ UNCHANGED <<objects, dbVars, at, loc, solo>> /\ trouble' = trouble
    <3>1. CASE \E k \in sweep.todo : ListDirectory(k)
        BY <3>1 DEF ListDirectory, OnlySweep, Sweeping, JobType, SweepRec
    <3>2. CASE SweepDies
        BY <3>2 DEF SweepDies, OnlySweep, NoSweep
    <3>. QED
        BY <1>4, <3>1, <3>2
  <2>. QED
      BY <2>1, FanartStays
<1>5. CASE FindOrphans
  <2>1. /\ sweep'.doomed \cap Expected = {} /\ Sweeping' /\ Sweeping
        /\ objects' = objects /\ trouble' = trouble /\ solo' = solo
      BY <1>5 DEF FindOrphans, Sweeping, JobType, SweepRec
  <2>2. SparesItems'
      BY <1>2, <2>1 DEF SparesItems, Expected
  <2>3. \A p : Claimed(p) => Claimed(p)'
      BY <1>1, <1>2 DEF Claimed
  <2>4. OneAtATime' /\ SoloRuns' /\ UploadStores' /\ NothingLost' /\ NoFanartLitter'
      BY <1>1, <1>2, <2>1, <2>3
      DEF FanartInv, OneAtATime, Orderly, SoloRuns, UploadStores, NothingLost, NoFanartLitter
  <2>5. RequestsKnow'
      BY <1>1, <1>2, <2>1 DEF FanartInv, RequestsKnow, Knows, Orderly, dbVars
  <2>. QED
      BY <1>2, <2>2, <2>4, <2>5 DEF FanartInv
<1>6. CASE \E k \in sweep.doomed : DeleteOrphan(k)
  <2>1. PICK k \in sweep.doomed : DeleteOrphan(k)
      BY <1>6
  <2>2. /\ sweep.step = "delete" /\ Sweeping /\ Sweeping' /\ trouble' = trouble /\ solo' = solo
        /\ sweep'.step = "delete" /\ sweep'.doomed \subseteq sweep.doomed
        /\ objects' = objects \/ (k[1] = "fanart" /\ objects' = objects \ {k[2]})
    <3>1. sweep \in SweepRec /\ sweep.step = "delete"
        BY <2>1 DEF DeleteOrphan, JobType
    <3>2. sweep'.step = sweep.step /\ sweep'.doomed = sweep.doomed \ {k}
        BY <2>1, <3>1 DEF DeleteOrphan, SweepRec
    <3>3. objects' = objects \/ (k[1] = "fanart" /\ objects' = objects \ {k[2]})
        BY <2>1 DEF DeleteOrphan
    <3>. QED
        BY <2>1, <3>1, <3>2, <3>3 DEF DeleteOrphan, Sweeping
  <2>3. \A p : k[1] = "fanart" /\ k[2] = p => k = <<"fanart", p>>
      BY DEF JobType, SweepRec
  <2>4. Orderly => AllIdle /\ \A p \in Used : p \in objects => p \in objects'
      BY <2>2, <2>3 DEF FanartInv, OneAtATime, SparesItems
  <2>5. Orderly' = Orderly
      BY <2>2 DEF Orderly
  <2>6. SparesItems'
      BY <1>2, <2>2, <2>5 DEF FanartInv, SparesItems
  <2>7. OneAtATime' /\ RequestsKnow' /\ SoloRuns'
    <3>1. CASE Orderly
        BY <1>2, <2>4, <3>1, IdleKnows
    <3>2. CASE ~Orderly
        BY <2>5, <3>2 DEF OneAtATime, RequestsKnow, SoloRuns, Orderly
    <3>. QED
        BY <3>1, <3>2
  <2>8. UploadStores' /\ NothingLost'
      BY <1>2, <2>2, <2>4 DEF FanartInv, UploadStores, NothingLost, Orderly
  <2>9. NoFanartLitter'
    <3>1. \A p : Claimed(p) => Claimed(p)'
        BY <1>1, <1>2 DEF Claimed
    <3>. QED
        BY <1>1, <2>2, <3>1 DEF FanartInv, NoFanartLitter
  <2>. QED
      BY <1>2, <2>6, <2>7, <2>8, <2>9 DEF FanartInv
<1>7. CASE EndSweep
  <2>1. /\ UNCHANGED <<objects, dbVars, at, loc, solo>> /\ ~Sweeping' /\ sweep'.step # "delete"
        /\ sweep.step = "delete" /\ sweep.doomed = {} /\ Sweeping
      BY <1>7 DEF EndSweep, OnlySweep, NoSweep, Sweeping
  <2>2. CASE ~(sweep.alone /\ sweep.whole)
    <3>1. trouble' = trouble
        BY <1>7, <2>2 DEF EndSweep
    <3>. QED
        BY <2>1, <3>1, FanartStays
  <2>3. CASE sweep.alone /\ sweep.whole
    <3>1. AllIdle /\ Store \subseteq Expected /\ trouble' = trouble \ {"litter"}
        BY <1>7, <2>1, <2>3 DEF EndSweep, SweepSees
    <3>2. ASSUME NEW p \in objects PROVE p \in Used
      <4>1. <<"fanart", p>> \in Expected
          BY <3>1 DEF Store
      <4>2. \A w \in Work : \A x : ComicPageKey(w, x) # <<"fanart", p>>
          BY MediaAssumption DEF PlainIds, ComicPageKey
      <4>. QED
          BY <4>1, <4>2 DEF Expected
    <3>3. OneAtATime' /\ RequestsKnow' /\ SoloRuns'
        BY <1>2, <3>1, IdleKnows
    <3>4. UploadStores' /\ NothingLost' /\ NoFanartLitter' /\ SparesItems'
        BY <1>2, <2>1, <3>1, <3>2
        DEF FanartInv, UploadStores, NothingLost, NoFanartLitter, SparesItems, Claimed
    <3>. QED
        BY <1>2, <3>3, <3>4 DEF FanartInv
  <2>. QED
      BY <2>2, <2>3
<1>. QED
    BY <1>3, <1>4, <1>5, <1>6, <1>7 DEF SweepStep

-----------------------------------------------------------------------------
(* Comics: the steps of a job.                                             *)

\* A job takes only itself on, and takes its work off the clashes only when it
\* is alone on it and publishes it.
LEMMA JobMoves ==
    ASSUME JobType, NEW j \in Job, JobStep(j)
    PROVE  /\ \A i \in Job \ {j} : job'[i] = job[i]
           /\ job'[j] # NoJob => /\ job'[j].work = job[j].work /\ job'[j].kind = job[j].kind
                                 /\ job'[j].pics = job[j].pics /\ job'[j].alone = job[j].alone
           /\ job'[j] \in JobRec /\ JobFits(job'[j]) /\ job[j].step # "idle" /\ job[j].work \in Work
           /\ trouble \subseteq trouble' /\ sweep' = sweep
           /\ \/ clash' = clash
              \/ /\ ReplaceRows(j) /\ job[j].alone /\ On(job[j].work) = {j} /\ job'[j] = NoJob
                 /\ clash' = clash \ {job[j].work}
<1>1. PICK r \in JobRec : JobFits(r) /\ Become(j, r) /\ Onward(j, r)
    BY JobStepShape
<1>2. job'[j] = r /\ \A i \in Job \ {j} : job'[i] = job[i]
    BY <1>1, BecomesTyped
<1>3. /\ job[j].step # "idle" /\ trouble \subseteq trouble' /\ sweep' = sweep
      /\ clash' # clash => ReplaceRows(j)
    BY JobStepShape
<1>4. job[j].work \in Work
    BY <1>3, JobFields DEF JobFits
<1>5. clash' # clash => /\ job[j].alone /\ On(job[j].work) = {j} /\ job'[j] = NoJob
                        /\ clash' = clash \ {job[j].work}
  <2>1. ReplaceRows(j) => job'[j] = NoJob
      BY <1>1, <1>2 DEF ReplaceRows, StopJob, Become, JobType
  <2>. QED
      BY <1>3, <2>1 DEF ReplaceRows
<1>. QED
    BY <1>1, <1>2, <1>3, <1>4, <1>5 DEF Onward

\* Whoever meets a deletion, or the sweep, stays marked.
LEMMA JobClashes ==
    ASSUME JobType, ClashesAreMarked, NEW j \in Job, JobStep(j) PROVE ClashesAreMarked'
<1>1. /\ \A i \in Job \ {j} : job'[i] = job[i]
      /\ job'[j] # NoJob => /\ job'[j].work = job[j].work /\ job'[j].kind = job[j].kind
                            /\ job'[j].alone = job[j].alone
      /\ job[j].step # "idle" /\ trouble \subseteq trouble' /\ sweep' = sweep
      /\ NoJob.step = "idle"
    BY JobMoves DEF NoJob
<1>2. ASSUME NEW i \in Job, job'[i].step # "idle", Marked(i) PROVE Marked(i)'
  <2>1. job[i].step # "idle" /\ job'[i].work = job[i].work /\ job'[i].alone = job[i].alone
      BY <1>1, <1>2
  <2>2. CASE clash' = clash
      BY <1>2, <2>1, <2>2 DEF Marked
  <2>3. CASE /\ On(job[j].work) = {j} /\ job'[j] = NoJob
             /\ clash' = clash \ {job[j].work}
    <3>1. i # j /\ i \notin On(job[j].work)
        BY <1>1, <1>2, <2>3
    <3>2. job[i].work # job[j].work
        BY <2>1, <3>1 DEF On, Busy
    <3>. QED
        BY <1>2, <2>1, <2>3, <3>2 DEF Marked
  <2>. QED
      BY <2>2, <2>3, JobMoves
<1>3. ASSUME NEW i \in Job, NEW k \in Job, Meet(i, k)', job'[i].kind = "delete"
      PROVE  Marked(i)' /\ Marked(k)' /\ "litter" \in trouble'
  <2>1. Meet(i, k) /\ job[i].kind = "delete"
      BY <1>1, <1>3 DEF Meet
  <2>. QED
      BY <1>1, <1>2, <1>3, <2>1 DEF ClashesAreMarked, Meet
<1>4. ASSUME NEW i \in Job, Sweeping', job'[i].step # "idle" PROVE Marked(i)'
    BY <1>1, <1>2, <1>4 DEF ClashesAreMarked, Sweeping
<1>. QED
    BY <1>3, <1>4 DEF ClashesAreMarked

\* No page of an import gets lost on the way through the pool.
LEMMA JobPool ==
    ASSUME JobType, PoolsFollow, NEW j \in Job, JobStep(j) PROVE PoolsFollow'
<1>1. /\ \A i \in Job \ {j} : job'[i] = job[i]
      /\ job[j] \in JobRec /\ JobFits(job[j]) /\ PoolFollows(job[j])
      /\ job'[j] \in JobRec /\ JobFits(job'[j]) /\ job' \in [Job -> JobRec]
    BY JobMoves, JobFields, JobStepTyped DEF PoolsFollow, JobType
<1>. SUFFICES ASSUME job'[j].kind = "import" PROVE PoolFollows(job'[j])
    BY <1>1 DEF PoolsFollow, PoolFollows
<1>2. job'[j] # NoJob /\ job[j].kind = "import"
    BY JobMoves DEF NoJob
<1>3. /\ job[j].step \in {"store", "upsert", "rows"} => ~job[j].broken
      /\ \A k \in DOMAIN job[j].pool : k < job[j].next => job[j].pool[k] # "none"
      /\ job[j].step \in {"upsert", "rows"} \/ (job[j].step = "shutdown" /\ ~job[j].broken) =>
            \A k \in DOMAIN job[j].pool : job[j].pool[k] \in {"ok", "taken"}
    BY <1>1, <1>2 DEF PoolFollows
<1>4. CASE Submit(j)
  <2>1. job'[j] = [job[j] EXCEPT !.pool[job[j].next] = "queued", !.next = @ + 1]
      BY <1>4 DEF Submit, Become, JobType
  <2>2. /\ job'[j].step = "store" /\ ~job'[j].broken /\ job'[j].next = job[j].next + 1
        /\ job'[j].pool = [job[j].pool EXCEPT ![job[j].next] = "queued"]
      BY <1>1, <1>3, <1>4, <2>1 DEF Submit, NextPage, JobRec
  <2>3. ASSUME NEW k \in DOMAIN job'[j].pool, k < job'[j].next PROVE job'[j].pool[k] # "none"
    <3>1. k \in Nat /\ job[j].next \in Nat /\ k \in DOMAIN job[j].pool
        BY <1>1, <2>2 DEF JobRec
    <3>. QED
        BY <1>3, <2>2, <2>3, <3>1
  <2>. QED
      BY <2>2, <2>3 DEF PoolFollows
<1>5. CASE Drain(j)
  <2>1. job'[j] = Taken(j) /\ job[j].step = "store"
      BY <1>5 DEF Drain, Become, JobType
  <2>2. /\ job'[j].next = job[j].next
        /\ job'[j].step = IF job'[j].broken THEN "shutdown" ELSE "store"
        /\ job'[j].pool = [k \in DOMAIN job[j].pool |->
                              IF job[j].pool[k] \in {"ok", "bad"} THEN "taken" ELSE job[j].pool[k]]
      BY <1>1, <2>1 DEF Taken, JobRec
  <2>. QED
      BY <1>3, <2>2 DEF PoolFollows
<1>6. CASE WaitAll(j)
  <2>1. job'[j] = [job[j] EXCEPT !.step = "shutdown", !.broken = ~AllStored(j)]
      BY <1>6 DEF WaitAll, Become, JobType
  <2>2. /\ job'[j].next = job[j].next /\ job'[j].pool = job[j].pool /\ job'[j].step = "shutdown"
        /\ ~job'[j].broken => AllStored(j)
      BY <1>1, <2>1 DEF JobRec
  <2>3. ASSUME ~job'[j].broken, NEW k \in DOMAIN job[j].pool PROVE job[j].pool[k] \in {"ok", "taken"}
    <3>1. k < job[j].next
        BY <1>1, <1>6 DEF WaitAll, JobRec, JobFits
    <3>2. job[j].pool[k] \notin {"none", "queued", "running", "open", "bad"}
        BY <1>3, <1>6, <2>2, <2>3, <3>1 DEF WaitAll, AllStored, Pages, Unfinished
    <3>. QED
        BY <1>1, <3>2 DEF JobRec, PageState
  <2>. QED
      BY <1>3, <2>2, <2>3 DEF PoolFollows
<1>7. CASE Spoil(j)
  <2>1. job'[j] = [job[j] EXCEPT !.step = "shutdown", !.broken = TRUE]
      BY <1>7 DEF Spoil, Become, JobType
  <2>. QED
      BY <1>1, <1>3, <2>1 DEF PoolFollows, JobRec
<1>8. CASE ShutDown(j)
  <2>1. job'[j] = [job[j] EXCEPT !.step = "upsert"] /\ ~job[j].broken /\ job[j].step = "shutdown"
      BY <1>2, <1>8 DEF ShutDown, StopJob, Become, JobType
  <2>. QED
      BY <1>1, <1>3, <2>1 DEF PoolFollows, JobRec
<1>9. CASE UpsertRow(j)
  <2>1. job'[j] = [job[j] EXCEPT !.step = "rows"] /\ job[j].step = "upsert"
      BY <1>9 DEF UpsertRow, Become, JobType
  <2>. QED
      BY <1>1, <1>3, <2>1 DEF PoolFollows, JobRec
<1>10. CASE \E k \in DOMAIN job[j].pool : \/ StartUpload(j, k) \/ OpenUpload(j, k)
                                          \/ FinishUpload(j, k) \/ FailUpload(j, k)
  <2>1. PICK k \in DOMAIN job[j].pool, result \in {"ok", "running", "open", "bad"} :
            /\ Uploaded(j, k, result)
            /\ \E x \in DOMAIN job[j].pool : job[j].pool[x] \in {"queued", "running", "open"}
      BY <1>10 DEF StartUpload, OpenUpload, FinishUpload, FailUpload, Pages
  <2>2. job'[j] = [job[j] EXCEPT !.pool[k] = result]
      BY <2>1 DEF Uploaded, Become, JobType
  <2>3. /\ job'[j].next = job[j].next /\ job'[j].step = job[j].step /\ job'[j].broken = job[j].broken
        /\ job'[j].pool = [job[j].pool EXCEPT ![k] = result]
      BY <1>1, <2>2 DEF JobRec
  <2>. QED
      BY <1>3, <2>1, <2>3 DEF PoolFollows
<1>. QED
    BY <1>1, <1>2, <1>4, <1>5, <1>6, <1>7, <1>8, <1>9, <1>10
    DEF JobStep, ReplaceRows, ReplaceRowsFails, StopJob, ListPages, DropRow, DropKey, EndDelete, Die, LeaveFiles,
        Become, JobType, JobFits

\* What a step of a job does to the store: an upload puts a page of its work, a
\* deletion removes one.
LEMMA JobStores ==
    ASSUME PlainIds, JobType, NEW j \in Job, JobStep(j)
    PROVE  \/ pageObjects' = pageObjects
           \/ /\ \E k \in DOMAIN job[j].pool : pageObjects' = pageObjects \cup {UploadKey(j, k)}
              /\ job[j].step \notin {"list", "drop", "keys"} /\ job'[j] # NoJob
              /\ job'[j].step = job[j].step
           \/ /\ \E p \in job[j].keys : /\ pageObjects' = pageObjects \ {<<job[j].work, p>>}
                                        /\ job'[j].keys = job[j].keys \ {p}
              /\ job[j].step = "keys" /\ job'[j].step = "keys" /\ trouble' = trouble
<1>1. job[j] \in JobRec /\ JobFits(job[j]) /\ job[j].work \in Work /\ job' \in [Job -> JobRec]
    BY JobFields, JobMoves, JobStepTyped DEF JobType
<1>2. CASE \E k \in DOMAIN job[j].pool : OpenUpload(j, k) \/ FinishUpload(j, k) \/ FailUpload(j, k)
  <2>1. PICK k \in DOMAIN job[j].pool, result \in {"open", "ok", "bad"} :
            /\ Uploaded(j, k, result)
            /\ pageObjects' \in {pageObjects, pageObjects \cup {UploadKey(j, k)}}
      BY <1>2 DEF OpenUpload, FinishUpload, FailUpload, PutBytes, OpenFile, FillFile, LeaveFiles
  <2>2. job'[j] = [job[j] EXCEPT !.pool[k] = result]
      BY <2>1 DEF Uploaded, Become, JobType
  <2>3. job'[j].step = job[j].step /\ DOMAIN job'[j].pool = DOMAIN job[j].pool
      BY <1>1, <2>2 DEF JobRec
  <2>4. job'[j] # NoJob
      BY <2>3, JobMoves DEF NoJob
  <2>5. job[j].step \notin {"list", "drop", "keys"}
      BY <1>1, <2>1 DEF JobFits
  <2>. QED
      BY <2>1, <2>3, <2>4, <2>5
<1>3. CASE \E p \in job[j].keys : DropKey(j, p)
  <2>1. PICK p \in job[j].keys : DropKey(j, p)
      BY <1>3
  <2>2. /\ job'[j] = [job[j] EXCEPT !.keys = @ \ {p}] /\ job[j].step = "keys"
        /\ \/ pageObjects' = pageObjects \ {<<Quote[job[j].work], p>>} /\ trouble' = trouble
           \/ pageObjects' = pageObjects
      BY <2>1 DEF DropKey, Become, JobType, DeleteKey, ComicPageKey
  <2>3. job'[j].step = "keys" /\ job'[j].keys = job[j].keys \ {p}
      BY <1>1, <2>2 DEF JobRec
  <2>4. Quote[job[j].work] = job[j].work
      BY <1>1 DEF PlainIds
  <2>. QED
      BY <2>1, <2>2, <2>3, <2>4
<1>. QED
    BY <1>2, <1>3
    DEF JobStep, Submit, Drain, WaitAll, Spoil, ShutDown, UpsertRow, ReplaceRows, ReplaceRowsFails,
        StartUpload, ListPages, DropRow, EndDelete, Die, LeaveFiles

\* And to the rows: an import publishes its pages, a deletion takes them down.
LEMMA JobPublishes ==
    ASSUME JobType, NEW j \in Job, JobStep(j)
    PROVE  \/ shown' = shown /\ alive \subseteq alive'
           \/ /\ ReplaceRows(j) /\ shown' = [shown EXCEPT ![job[j].work] = Range(job[j].pics)]
              /\ job[j].step = "rows" /\ job[j].work \in alive /\ UNCHANGED <<alive, pageObjects>>
              /\ job'[j] = NoJob
              /\ "litter" \notin trouble' => shown[job[j].work] \subseteq Range(job[j].pics)
           \/ /\ DropRow(j) /\ shown' = [shown EXCEPT ![job[j].work] = {}] /\ job[j].step = "drop"
              /\ alive' = alive \ {job[j].work} /\ UNCHANGED <<pageObjects, clash, trouble>>
              /\ IF job[j].work \in alive THEN job'[j] = [job[j] EXCEPT !.step = "keys"]
                 ELSE job'[j] = NoJob
<1>1. ReplaceRows(j) => /\ job'[j] = NoJob
                        /\ "litter" \notin trouble' => shown[job[j].work] \subseteq Range(job[j].pics)
    BY DEF ReplaceRows, StopJob, Become, JobType, Littered
<1>2. DropRow(j) => IF job[j].work \in alive THEN job'[j] = [job[j] EXCEPT !.step = "keys"]
                    ELSE job'[j] = NoJob
    BY DEF DropRow, StopJob, Become, JobType
<1>. QED
    BY <1>1, <1>2
    DEF JobStep, Submit, Drain, WaitAll, Spoil, ShutDown, UpsertRow, ReplaceRows, ReplaceRowsFails,
        StartUpload, OpenUpload, FinishUpload, FailUpload, ListPages, DropRow, DropKey, EndDelete, Die, LeaveFiles, comicRows

\* What is uploaded stays: only a deletion takes it away, and its jobs are marked.
LEMMA JobUploads ==
    ASSUME PlainIds, JobType, ClashesAreMarked, PoolsFollow, UploadsStay, NEW j \in Job, JobStep(j)
    PROVE  UploadsStay'
<1>. DEFINE Stays(i) == \A k \in DOMAIN job[i].pool :
                            job[i].pool[k] \in {"open", "ok", "taken"} => UploadKey(i, k) \in pageObjects
            Safe(i)  == job[i].kind = "import" /\ ~job[i].broken /\ (job[i].alone \/ job[i].work \notin clash)
<1>. SUFFICES ASSUME NEW i \in Job, Safe(i)' PROVE Stays(i)'
    BY DEF UploadsStay
<1>1. /\ \A x \in Job : job[x] \in JobRec /\ JobFits(job[x]) /\ PoolFollows(job[x])
      /\ NoJob.kind = "none" /\ NoJob.step = "idle" /\ job[j].step # "idle"
      /\ \A x \in Job \ {j} : job'[x] = job[x]
      /\ job' \in [Job -> JobRec]
    BY JobFields, JobMoves, JobStepTyped DEF PoolsFollow, NoJob, JobType
<1>2. /\ job[i].kind = "import" /\ job[i].step # "idle" /\ job'[i].work = job[i].work
      /\ job'[i].pics = job[i].pics /\ (job[i].alone \/ job[i].work \notin clash)
  <2>1. job'[i] # NoJob
      BY <1>1
  <2>2. /\ job[i].kind = "import" /\ job'[i].work = job[i].work /\ job'[i].pics = job[i].pics
        /\ job'[i].alone = job[i].alone
      BY <1>1, <2>1, JobMoves
  <2>3. job[i].step # "idle"
      BY <1>1, <2>2 DEF JobFits
  <2>4. CASE clash' # clash
    <3>1. On(job[j].work) = {j} /\ job'[j] = NoJob /\ clash' = clash \ {job[j].work}
        BY <2>4, JobMoves
    <3>2. job[i].work # job[j].work
        BY <2>1, <2>3, <3>1 DEF On, Busy
    <3>. QED
        BY <2>2, <2>3, <3>1, <3>2
  <2>. QED
      BY <2>2, <2>3, <2>4
<1>3. \A k \in DOMAIN job[i].pool : UploadKey(i, k) \in pageObjects => UploadKey(i, k) \in pageObjects'
  <2>1. CASE \E p \in job[j].keys : pageObjects' = pageObjects \ {<<job[j].work, p>>} /\ job[j].step = "keys"
    <3>1. i # j /\ job[j].kind = "delete"
        BY <1>1, <1>2, <2>1 DEF JobFits
    <3>2. job[i].work # job[j].work
        BY <1>1, <1>2, <3>1 DEF ClashesAreMarked, Meet, Marked
    <3>. QED
        BY <2>1, <3>2 DEF UploadKey
  <2>. QED
      BY <2>1, JobStores
<1>4. \A k : UploadKey(i, k)' = UploadKey(i, k)
    BY <1>2 DEF UploadKey
<1>5. CASE i # j
  <2>1. job'[i] = job[i]
      BY <1>1, <1>5
  <2>2. Stays(i)
      BY <1>2, <2>1 DEF UploadsStay
  <2>. QED
      BY <1>3, <1>4, <2>1, <2>2
<1>6. CASE i = j
  <2>1. job'[j] # NoJob /\ job[j].kind = "import"
      BY <1>1, <1>2, <1>6
  <2>3. ~job[j].broken => Stays(j)
      BY <1>2, <1>6 DEF UploadsStay
  <2>4. CASE Submit(j)
    <3>1. job'[j] = [job[j] EXCEPT !.pool[job[j].next] = "queued", !.next = @ + 1]
        BY <2>4 DEF Submit, Become, JobType
    <3>2. job'[j].pool = [job[j].pool EXCEPT ![job[j].next] = "queued"] /\ job'[j].broken = job[j].broken
        BY <1>1, <3>1 DEF JobRec
    <3>. QED
        BY <1>3, <1>4, <1>6, <2>3, <3>2
  <2>5. CASE Drain(j)
    <3>1. job'[j] = Taken(j) /\ job[j].step = "store"
        BY <2>5 DEF Drain, Become, JobType
    <3>2. job'[j].pool = [k \in DOMAIN job[j].pool |->
                             IF job[j].pool[k] \in {"ok", "bad"} THEN "taken" ELSE job[j].pool[k]]
        BY <1>1, <3>1 DEF Taken, JobRec
    <3>3. ~job[j].broken
        BY <1>1, <2>1, <3>1 DEF PoolFollows
    <3>4. PICK bad \in BOOLEAN : bad = (Pages(j, {"bad"}) # {})
        OBVIOUS
    <3>5. job'[j].broken = bad
        BY <1>1, <3>1, <3>4 DEF Taken, JobRec
    <3>6. \A k \in DOMAIN job[j].pool : job[j].pool[k] # "bad"
        BY <1>6, <3>4, <3>5 DEF Pages
    <3>. QED
        BY <1>3, <1>4, <1>6, <2>3, <3>2, <3>3, <3>6
  <2>6. CASE \E k \in DOMAIN job[j].pool : \/ StartUpload(j, k) \/ OpenUpload(j, k)
                                           \/ FinishUpload(j, k) \/ FailUpload(j, k)
    <3>1. PICK k \in DOMAIN job[j].pool, result \in {"ok", "running", "open", "bad"} :
              /\ Uploaded(j, k, result)
              /\ result \in {"open", "ok"} => UploadKey(j, k) \in pageObjects' \/ job[j].pool[k] = "open"
        BY <2>6 DEF StartUpload, OpenUpload, FinishUpload, FailUpload, PutBytes, OpenFile, Exists, Pages
    <3>2. job'[j] = [job[j] EXCEPT !.pool[k] = result]
        BY <3>1 DEF Uploaded, Become, JobType
    <3>3. job'[j].pool = [job[j].pool EXCEPT ![k] = result] /\ job'[j].broken = job[j].broken
        BY <1>1, <3>2 DEF JobRec
    <3>. QED
        BY <1>3, <1>4, <1>6, <2>3, <3>1, <3>3
  <2>7. CASE WaitAll(j)
    <3>1. job'[j] = [job[j] EXCEPT !.step = "shutdown", !.broken = ~AllStored(j)] /\ job[j].step = "store"
        BY <2>7 DEF WaitAll, Become, JobType
    <3>2. job'[j].pool = job[j].pool /\ ~job[j].broken
        BY <1>1, <2>1, <3>1 DEF JobRec, PoolFollows
    <3>. QED
        BY <1>3, <1>4, <1>6, <2>3, <3>2
  <2>8. CASE Spoil(j)
    <3>1. job'[j] = [job[j] EXCEPT !.step = "shutdown", !.broken = TRUE]
        BY <2>8 DEF Spoil, Become, JobType
    <3>. QED
        BY <1>1, <1>6, <3>1 DEF JobRec
  <2>9. CASE ShutDown(j) \/ UpsertRow(j)
    <3>1. \E step \in {"upsert", "rows"} : job'[j] = [job[j] EXCEPT !.step = step]
        BY <2>1, <2>9 DEF ShutDown, UpsertRow, StopJob, Become, JobType
    <3>2. job'[j].pool = job[j].pool /\ job'[j].broken = job[j].broken
        BY <1>1, <3>1 DEF JobRec
    <3>. QED
        BY <1>3, <1>4, <1>6, <2>3, <3>2
  <2>. QED
      BY <1>1, <2>1, <2>4, <2>5, <2>6, <2>7, <2>8, <2>9
      DEF JobStep, ReplaceRows, ReplaceRowsFails, StopJob, ListPages, DropRow, DropKey, EndDelete, Die,
          LeaveFiles, Become, JobType, JobFits
<1>. QED
    BY <1>5, <1>6

\* The steps of a deletion that go on.
LEMMA JobDeletes ==
    ASSUME JobType, NEW j \in Job, JobStep(j), job'[j] # NoJob, job'[j].step \in {"drop", "keys"}
    PROVE  \/ ListPages(j) /\ job[j].step = "list" /\ job'[j].step = "drop"
              /\ job'[j].keys = shown[job[j].work] /\ pageObjects' = pageObjects
           \/ DropRow(j) /\ job[j].step = "drop" /\ job'[j].step = "keys" /\ job'[j].keys = job[j].keys
           \/ job[j].step = "keys" /\ job'[j].step = "keys"
<1>1. /\ job[j] \in JobRec /\ JobFits(job[j]) /\ job[j].step # "idle" /\ JobFits(job'[j])
      /\ job[j].kind = job'[j].kind /\ DOMAIN <<>> = {}
    BY JobFields, JobMoves
<1>2. job[j].step \in {"list", "drop", "keys"} /\ DOMAIN job[j].pool = {}
    BY <1>1 DEF JobFits, JobRec
<1>3. CASE ListPages(j)
  <2>1. job'[j] = [job[j] EXCEPT !.step = "drop", !.keys = shown[job[j].work]] /\ job[j].step = "list"
      BY <1>3 DEF ListPages, Become, JobType
  <2>. QED
      BY <1>1, <1>3, <2>1 DEF JobRec, ListPages
<1>4. CASE DropRow(j)
  <2>1. job'[j] = [job[j] EXCEPT !.step = "keys"] /\ job[j].step = "drop"
      BY <1>4 DEF DropRow, StopJob, Become, JobType
  <2>. QED
      BY <1>1, <1>4, <2>1 DEF JobRec
<1>5. CASE \E p \in job[j].keys : DropKey(j, p)
  <2>1. PICK p : job'[j] = [job[j] EXCEPT !.keys = @ \ {p}] /\ job[j].step = "keys"
      BY <1>5 DEF DropKey, Become, JobType
  <2>. QED
      BY <1>1, <2>1 DEF JobRec
<1>. QED
    BY <1>2, <1>3, <1>4, <1>5
    DEF JobStep, Submit, NextPage, Drain, WaitAll, Spoil, ShutDown, UpsertRow, ReplaceRows,
        ReplaceRowsFails, EndDelete, Die, LeaveFiles, StopJob, Become, JobType

\* A deletion that nothing disturbs has no rows to miss; the rows of a work that
\* is gone are gone.
LEMMA JobRows ==
    ASSUME JobType, ClashesAreMarked, RowsGoFirst, RowsHaveWork, SparesPages, NEW j \in Job, JobStep(j)
    PROVE  RowsGoFirst' /\ RowsHaveWork' /\ SparesPages'
<1>1. /\ \A x \in Job : job[x] \in JobRec /\ JobFits(job[x])
      /\ \A x \in Job \ {j} : job'[x] = job[x]
      /\ NoJob.step = "idle" /\ job[j].step # "idle" /\ job[j].work \in Work /\ sweep' = sweep
      /\ shown \in [Work -> SUBSET Picture]
    BY JobFields, JobMoves DEF NoJob, JobType
<1>2. \A w \in Work : w \notin clash' /\ w \in clash => w = job[j].work /\ ReplaceRows(j)
    BY JobMoves
<1>3. RowsHaveWork'
    BY <1>1, JobPublishes DEF RowsHaveWork
<1>4. SparesPages'
  <2>. SUFFICES ASSUME sweep.step = "delete", NEW w \in Work \ clash', NEW p \in shown'[w]
                PROVE  <<w, p>> \notin sweep.doomed
      BY <1>1 DEF SparesPages
  <2>1. Marked(j)
      BY <1>1 DEF ClashesAreMarked, Sweeping
  <2>2. clash' = clash
      BY <2>1, JobMoves DEF Marked
  <2>3. w # job[j].work
      BY <2>1, <2>2 DEF Marked
  <2>4. p \in shown[w]
      BY <1>1, <2>3, JobPublishes
  <2>. QED
      BY <2>2, <2>4 DEF SparesPages
<1>5. RowsGoFirst'
  <2>. SUFFICES ASSUME NEW i \in Job, job'[i].step = "keys", job'[i].work \notin clash'
                PROVE  shown'[job'[i].work] = {}
      BY DEF RowsGoFirst
  <2>1. CASE i # j
    <3>1. job'[i] = job[i] /\ job[i].step = "keys" /\ job[i].kind = "delete" /\ job[i].work \in Work
        BY <1>1, <2>1 DEF JobFits
    <3>2. CASE job[i].work = job[j].work
      <4>1. Marked(i) /\ Marked(j)
          BY <1>1, <2>1, <3>1, <3>2 DEF ClashesAreMarked, Meet
      <4>. QED
          BY <3>1, <4>1, JobMoves DEF Marked
    <3>3. CASE job[i].work # job[j].work
      <4>1. job[i].work \notin clash /\ shown'[job[i].work] = shown[job[i].work]
          BY <1>1, <1>2, <3>1, <3>3, JobPublishes
      <4>. QED
          BY <3>1, <4>1 DEF RowsGoFirst
    <3>. QED
        BY <3>2, <3>3
  <2>2. CASE i = j
    <3>1. job'[j] # NoJob /\ job'[j].work = job[j].work
        BY <1>1, <2>2, JobMoves
    <3>2. CASE DropRow(j)
        BY <1>1, <2>2, <3>1, <3>2, JobPublishes DEF DropRow, ReplaceRows
    <3>3. CASE ~DropRow(j)
      <4>1. shown' = shown /\ clash' = clash
          BY <3>1, <3>3, JobPublishes, JobMoves
      <4>2. job[j].step = "keys"
          BY <2>2, <3>1, <3>3, JobDeletes
      <4>. QED
          BY <2>2, <3>1, <4>1, <4>2 DEF RowsGoFirst
    <3>. QED
        BY <3>2, <3>3
  <2>. QED
      BY <2>1, <2>2
<1>. QED
    BY <1>3, <1>4, <1>5

\* Pages get their rows when all are stored, and a deletion that nothing
\* disturbs has taken the rows down before it deletes.
LEMMA JobPublished ==
    ASSUME PlainIds, JobType, ClashesAreMarked, PoolsFollow, UploadsStay, RowsGoFirst, PagesStay,
           NEW j \in Job, JobStep(j)
    PROVE  PagesStay'
<1>1. /\ job[j] \in JobRec /\ JobFits(job[j]) /\ job[j].work \in Work /\ job[j].step # "idle"
      /\ shown \in [Work -> SUBSET Picture]
    BY JobFields, JobMoves DEF JobType
<1>. SUFFICES ASSUME NEW w \in Work \ clash', NEW p \in shown'[w] PROVE <<w, p>> \in pageObjects'
    BY DEF PagesStay
<1>2. CASE ReplaceRows(j) /\ w = job[j].work
  <2>1. /\ shown'[w] = Range(job[j].pics) /\ job[j].step = "rows" /\ pageObjects' = pageObjects
      BY <1>1, <1>2, JobPublishes DEF ReplaceRows, DropRow
  <2>2. PICK k \in DOMAIN job[j].pics : p = job[j].pics[k]
      BY <2>1 DEF Range
  <2>3. /\ job[j].kind = "import" /\ ~job[j].broken /\ k \in DOMAIN job[j].pool
        /\ job[j].pool[k] \in {"ok", "taken"}
      BY <1>1, <2>1, <2>2 DEF JobFits, PoolsFollow, PoolFollows
  <2>4. job[j].alone \/ job[j].work \notin clash
      BY <1>2, JobMoves
  <2>. QED
      BY <1>2, <2>1, <2>2, <2>3, <2>4 DEF UploadsStay, UploadKey
<1>3. CASE ~(ReplaceRows(j) /\ w = job[j].work)
  <2>1. w \notin clash /\ p \in shown[w]
    <3>1. w \notin clash
        BY <1>3, JobMoves
    <3>2. p \in shown[w]
        BY <1>1, <1>3, JobPublishes
    <3>. QED
        BY <3>1, <3>2
  <2>2. <<w, p>> \in pageObjects
      BY <2>1 DEF PagesStay
  <2>3. CASE w = job[j].work /\ job[j].step = "keys"
      BY <2>1, <2>3 DEF RowsGoFirst
  <2>. QED
      BY <2>2, <2>3, JobStores
<1>. QED
    BY <1>2, <1>3

\* A deletion has listed everything, unless somebody met it.
LEMMA JobLists ==
    ASSUME JobType, ClashesAreMarked, ListsAll, NEW j \in Job, JobStep(j)
    PROVE  ListsAll'
<1>1. /\ \A x \in Job : job[x] \in JobRec /\ JobFits(job[x])
      /\ \A x \in Job \ {j} : job'[x] = job[x]
      /\ NoJob.step = "idle" /\ job[j].step # "idle" /\ job[j].work \in Work
      /\ shown \in [Work -> SUBSET Picture] /\ trouble \subseteq trouble'
      /\ job'[j] # NoJob => job'[j].work = job[j].work
    BY JobFields, JobMoves DEF NoJob, JobType
<1>. SUFFICES ASSUME "litter" \notin trouble', NEW i \in Job, job'[i].step = "drop"
              PROVE  shown'[job'[i].work] \subseteq job'[i].keys
    BY DEF ListsAll
<1>2. CASE i = j
  <2>1. job'[j].keys = shown[job[j].work] /\ job[j].step = "list"
      BY <1>1, <1>2, JobDeletes
  <2>2. shown' = shown
      BY <2>1, JobPublishes
  <2>. QED
      BY <1>1, <1>2, <2>1, <2>2
<1>3. CASE i # j
  <2>1. job'[i] = job[i] /\ job[i].kind = "delete" /\ job[i].step = "drop" /\ job[i].work \in Work
      BY <1>1, <1>3 DEF JobFits
  <2>2. job[i].work # job[j].work
      BY <1>1, <1>3, <2>1 DEF ClashesAreMarked, Meet
  <2>3. shown'[job[i].work] = shown[job[i].work]
      BY <1>1, <2>1, <2>2, JobPublishes
  <2>. QED
      BY <1>1, <2>1, <2>3 DEF ListsAll
<1>. QED
    BY <1>2, <1>3

\* How a job ends that leaves no litter.
LEMMA JobEnds ==
    ASSUME JobType, NEW j \in Job, JobStep(j), "litter" \notin trouble'
    PROVE  /\ job'[j] = NoJob =>
                 ReplaceRows(j) \/ (DropRow(j) /\ job[j].step = "drop") \/ EndDelete(j)
           /\ job[j].step = "keys" =>
                 \/ EndDelete(j)
                 \/ \E q : /\ pageObjects' = pageObjects \ {<<Quote[job[j].work], q>>}
                           /\ job'[j] = [job[j] EXCEPT !.keys = @ \ {q}]
<1>1. job[j] \in JobRec /\ JobFits(job[j]) /\ job[j].step # "idle" /\ NoJob.step = "idle"
    BY JobFields, JobMoves DEF NoJob
<1>2. /\ job'[j] = NoJob => \/ ReplaceRows(j) \/ EndDelete(j)
                            \/ DropRow(j) /\ job[j].step = "drop"
  <2>1. CASE Submit(j)
    <3>1. job'[j] = [job[j] EXCEPT !.pool[job[j].next] = "queued", !.next = @ + 1]
        BY <2>1 DEF Submit, Become, JobType
    <3>. QED
        BY <1>1, <3>1 DEF JobRec
  <2>2. CASE Drain(j)
    <3>1. job'[j] = Taken(j)
        BY <2>2 DEF Drain, Become, JobType
    <3>2. job'[j].step \in {"shutdown", job[j].step}
        BY <1>1, <3>1 DEF JobRec, Taken
    <3>. QED
        BY <1>1, <3>2
  <2>3. CASE WaitAll(j) \/ Spoil(j) \/ UpsertRow(j) \/ ListPages(j)
    <3>1. \/ \E broken : job'[j] = [job[j] EXCEPT !.step = "shutdown", !.broken = broken]
          \/ job'[j] = [job[j] EXCEPT !.step = "rows"]
          \/ \E keys : job'[j] = [job[j] EXCEPT !.step = "drop", !.keys = keys]
        BY <2>3 DEF WaitAll, Spoil, UpsertRow, ListPages, Become, JobType
    <3>. QED
        BY <1>1, <3>1 DEF JobRec
  <2>4. CASE ShutDown(j)
    <3>1. job'[j] = [job[j] EXCEPT !.step = "upsert"]
        BY <2>4 DEF ShutDown, Littered, Become, JobType
    <3>. QED
        BY <1>1, <3>1 DEF JobRec
  <2>5. CASE \E k \in DOMAIN job[j].pool : \/ StartUpload(j, k) \/ OpenUpload(j, k)
                                           \/ FinishUpload(j, k) \/ FailUpload(j, k)
    <3>1. PICK k, result : Uploaded(j, k, result)
        BY <2>5 DEF StartUpload, OpenUpload, FinishUpload, FailUpload
    <3>2. job'[j] = [job[j] EXCEPT !.pool[k] = result]
        BY <3>1 DEF Uploaded, Become, JobType
    <3>. QED
        BY <1>1, <3>2 DEF JobRec
  <2>6. CASE \E p \in job[j].keys : DropKey(j, p)
    <3>1. PICK p : job'[j] = [job[j] EXCEPT !.keys = @ \ {p}]
        BY <2>6 DEF DropKey, Become, JobType
    <3>. QED
        BY <1>1, <3>1 DEF JobRec
  <2>. QED
      BY <2>1, <2>2, <2>3, <2>4, <2>5, <2>6 DEF JobStep, DropRow, ReplaceRowsFails, Die, Littered
<1>3. ASSUME job[j].step = "keys"
      PROVE  \/ EndDelete(j)
             \/ \E q : /\ pageObjects' = pageObjects \ {<<Quote[job[j].work], q>>}
                       /\ job'[j] = [job[j] EXCEPT !.keys = @ \ {q}]
  <2>1. DOMAIN job[j].pool = {}
      BY <1>1, <1>3 DEF JobFits
  <2>2. CASE \E p \in job[j].keys : DropKey(j, p)
      BY <2>2 DEF DropKey, Littered, DeleteKey, ComicPageKey, Become, JobType
  <2>. QED
      BY <1>3, <2>1, <2>2
      DEF JobStep, Submit, NextPage, Drain, WaitAll, Spoil, ShutDown, UpsertRow, ReplaceRows,
          ReplaceRowsFails, ListPages, DropRow, Die, Littered
<1>. QED
    BY <1>2, <1>3

\* An object is always that of a page or in the hands of a job.
LEMMA JobLitter ==
    ASSUME PlainIds, JobType, RowsHaveWork, ListsAll, NoPageLitter, NEW j \in Job, JobStep(j)
    PROVE  NoPageLitter'
<1>1. /\ job[j] \in JobRec /\ JobFits(job[j]) /\ JobFits(job'[j]) /\ job'[j] \in JobRec
      /\ \A x \in Job \ {j} : job'[x] = job[x]
      /\ NoJob.step = "idle" /\ job[j].step # "idle" /\ job[j].work \in Work
      /\ shown \in [Work -> SUBSET Picture] /\ trouble \subseteq trouble'
      /\ job'[j] # NoJob => /\ job'[j].work = job[j].work /\ job'[j].kind = job[j].kind
                            /\ job'[j].pics = job[j].pics
    BY JobFields, JobMoves DEF NoJob, JobType
<1>2. ASSUME job'[j] # NoJob, job[j].step \in {"store", "shutdown", "upsert", "rows"}
      PROVE  job'[j].step \in {"store", "shutdown", "upsert", "rows"}
    BY <1>1, <1>2 DEF JobFits, JobRec
<1>. SUFFICES ASSUME "litter" \notin trouble', NEW w \in Work, NEW p \in Picture,
                     <<w, p>> \in pageObjects', p \notin shown'[w]
              PROVE  \E i \in Job : Holds(job'[i], w, p)
  <2>1. \A i \in Job : \A v, q : Holds(job[i], v, q)' <=> Holds(job'[i], v, q)
      BY DEF Holds
  <2>. QED
      BY <2>1 DEF NoPageLitter
<1>3. CASE <<w, p>> \notin pageObjects
  <2>1. PICK k \in DOMAIN job[j].pool : <<w, p>> = UploadKey(j, k)
      BY <1>3, JobStores
  <2>2. job[j].step \notin {"list", "drop", "keys"} /\ job'[j] # NoJob
      BY <1>3, JobStores
  <2>3. w = job[j].work /\ p = job[j].pics[k] /\ k \in DOMAIN job[j].pics
      BY <1>1, <2>1 DEF UploadKey, JobFits
  <2>4. job[j].step \in {"store", "shutdown", "upsert", "rows"}
      BY <1>1, <2>2 DEF JobRec
  <2>. QED
      BY <1>1, <1>2, <2>2, <2>3, <2>4 DEF Holds, Range
<1>4. CASE <<w, p>> \in pageObjects /\ p \in shown[w]
  <2>1. /\ DropRow(j) /\ w = job[j].work /\ job[j].step = "drop"
        /\ IF job[j].work \in alive THEN job'[j] = [job[j] EXCEPT !.step = "keys"]
           ELSE job'[j] = NoJob
      BY <1>1, <1>4, JobPublishes
  <2>2. w \in alive /\ shown[w] \subseteq job[j].keys
      BY <1>1, <1>4, <2>1 DEF RowsHaveWork, ListsAll
  <2>3. job'[j].step = "keys" /\ job'[j].keys = job[j].keys /\ job'[j].work = w
      BY <1>1, <2>1, <2>2 DEF JobRec
  <2>. QED
      BY <1>4, <2>2, <2>3 DEF Holds
<1>5. CASE <<w, p>> \in pageObjects /\ p \notin shown[w]
  <2>1. PICK i \in Job : Holds(job[i], w, p)
      BY <1>1, <1>5 DEF NoPageLitter
  <2>2. CASE i # j
      BY <1>1, <2>1, <2>2
  <2>3. CASE i = j /\ job[j].step = "keys"
    <3>1. p \in job[j].keys /\ w = job[j].work
        BY <2>1, <2>3 DEF Holds
    <3>2. PICK q : /\ pageObjects' = pageObjects \ {<<Quote[job[j].work], q>>}
                   /\ job'[j] = [job[j] EXCEPT !.keys = @ \ {q}]
        BY <2>3, <3>1, JobEnds DEF EndDelete
    <3>3. q # p
        BY <1>1, <3>1, <3>2 DEF PlainIds
    <3>4. job'[j].step = "keys" /\ job'[j].work = w /\ p \in job'[j].keys
        BY <1>1, <2>3, <3>1, <3>2, <3>3 DEF JobRec
    <3>. QED
        BY <3>4 DEF Holds
  <2>4. CASE i = j /\ job[j].step # "keys"
    <3>1. job[j].step \in {"store", "shutdown", "upsert", "rows"} /\ p \in Range(job[j].pics) /\ w = job[j].work
        BY <2>1, <2>4 DEF Holds
    <3>2. job'[j] # NoJob
      <4>. SUFFICES ASSUME job'[j] = NoJob PROVE FALSE
          OBVIOUS
      <4>1. ReplaceRows(j)
          BY <3>1, JobEnds DEF EndDelete
      <4>2. shown'[w] = Range(job[j].pics)
          BY <1>1, <3>1, <4>1 DEF ReplaceRows
      <4>. QED
          BY <3>1, <4>2
    <3>. QED
        BY <1>1, <1>2, <3>1, <3>2 DEF Holds
  <2>. QED
      BY <2>2, <2>3, <2>4
<1>. QED
    BY <1>3, <1>4, <1>5

LEMMA JobStepInv ==
    ASSUME PlainIds, JobType, JobInv, NEW j \in Job, JobStep(j) PROVE JobInv'
BY JobClashes, JobPool, JobUploads, JobRows, JobPublished, JobLists, JobLitter DEF JobInv

-----------------------------------------------------------------------------
(* Comics: everything else.                                                *)

\* A job begins: whoever is disturbed is marked.
LEMMA BeginJobInv ==
    ASSUME JobType, JobInv, NEW j \in Job, NEW w \in Work, Begins(j, w) PROVE JobInv'
<1>1. /\ job' \in [Job -> JobRec] /\ \A i \in Job : JobFits(job'[i])
      /\ job[j].step = "idle" /\ job'[j].work = w
      /\ NewImport(job'[j]) \/ NewDelete(job'[j])
      /\ job'[j].alone => ~Disturbs(j, w)
      /\ clash' = IF Disturbs(j, w) THEN clash \cup {w} ELSE clash
      /\ trouble' = IF Disturbs(j, w) THEN trouble \cup {"litter"} ELSE trouble
      /\ UNCHANGED <<pageObjects, alive, shown>>
      /\ sweep'.step = sweep.step /\ sweep'.doomed = sweep.doomed
    BY BeginShape DEF comicRows, JobType, SweepRec
<1>2. ASSUME NEW i \in Job \ {j}
      PROVE  /\ job'[i].step = job[i].step /\ job'[i].kind = job[i].kind /\ job'[i].work = job[i].work
             /\ job'[i].pics = job[i].pics /\ job'[i].next = job[i].next /\ job'[i].pool = job[i].pool
             /\ job'[i].broken = job[i].broken /\ job'[i].keys = job[i].keys
             /\ job'[i].alone => job[i].alone
             /\ Disturbs(j, w) /\ ~Sweeping /\ i \in On(w) => ~job'[i].alone
  <2>1. /\ job'[i] = [job[i] EXCEPT !.alone = job'[i].alone]
        /\ job'[i].alone => job[i].alone
        /\ Disturbs(j, w) /\ ~Sweeping /\ i \in On(w) => ~job'[i].alone
      BY BeginShape
  <2>2. job[i] \in JobRec
      BY JobFields
  <2>. QED
      BY <2>1, <2>2 DEF JobRec
<1>3. clash \subseteq clash' /\ trouble \subseteq trouble'
    BY <1>1
<1>4. ClashesAreMarked'
  <2>1. ASSUME NEW i \in Job \ {j}, Marked(i) PROVE Marked(i)'
      BY <1>2, <1>3, <2>1 DEF Marked
  <2>2. ASSUME NEW i \in Job, NEW k \in Job, Meet(i, k)', job'[i].kind = "delete", i # j, k # j
        PROVE  Marked(i)' /\ Marked(k)' /\ "litter" \in trouble'
    <3>1. Meet(i, k) /\ job[i].kind = "delete"
        BY <1>2, <2>2 DEF Meet
    <3>. QED
        BY <1>3, <2>1, <2>2, <3>1 DEF JobInv, ClashesAreMarked
  <2>3. ASSUME NEW x \in Job \ {j}, job[x].step # "idle", job[x].work = w,
               job[x].kind = "delete" \/ job'[j].kind = "delete"
        PROVE  Marked(x)' /\ Marked(j)' /\ "litter" \in trouble'
    <3>1. x \in On(w)
        BY <2>3 DEF On, Busy
    <3>2. Disturbs(j, w)
        BY <2>3, <3>1 DEF Disturbs
    <3>3. ~job'[x].alone
      <4>1. CASE Sweeping
          BY <1>2, <2>3, <4>1 DEF JobInv, ClashesAreMarked, Marked
      <4>. QED
          BY <1>2, <3>1, <3>2, <4>1
    <3>. QED
        BY <1>1, <1>2, <2>3, <3>2, <3>3 DEF Marked
  <2>4. ASSUME NEW i \in Job, NEW k \in Job, Meet(i, k)', job'[i].kind = "delete", i = j \/ k = j
        PROVE  Marked(i)' /\ Marked(k)' /\ "litter" \in trouble'
    <3>1. CASE i = j
        BY <1>1, <1>2, <2>3, <2>4, <3>1 DEF Meet
    <3>2. CASE k = j
        BY <1>1, <1>2, <2>3, <2>4, <3>2 DEF Meet
    <3>. QED
        BY <2>4, <3>1, <3>2
  <2>5. ASSUME NEW i \in Job, Sweeping', job'[i].step # "idle" PROVE Marked(i)'
    <3>1. Sweeping
        BY <1>1, <2>5 DEF Sweeping
    <3>2. CASE i = j
        BY <1>1, <3>1, <3>2 DEF Marked, Disturbs
    <3>3. CASE i # j
        BY <1>2, <2>1, <2>5, <3>1, <3>3 DEF JobInv, ClashesAreMarked
    <3>. QED
        BY <3>2, <3>3
  <2>. QED
      BY <2>2, <2>4, <2>5 DEF ClashesAreMarked
<1>5. PoolsFollow'
  <2>1. PoolFollows(job'[j])
    <3>1. CASE NewImport(job'[j])
      <4>1. \A k \in DOMAIN job'[j].pool : ~(k < 1)
          BY <1>1 DEF JobRec
      <4>. QED
          BY <3>1, <4>1 DEF NewImport, PoolFollows
    <3>2. CASE NewDelete(job'[j])
        BY <3>2 DEF NewDelete, PoolFollows
    <3>. QED
        BY <1>1, <3>1, <3>2
  <2>2. ASSUME NEW i \in Job \ {j} PROVE PoolFollows(job'[i])
      BY <1>2 DEF JobInv, PoolsFollow, PoolFollows
  <2>3. \A i \in Job : PoolFollows(job[i])' <=> PoolFollows(job'[i])
      BY DEF PoolFollows
  <2>. QED
      BY <2>1, <2>2, <2>3 DEF PoolsFollow
<1>6. UploadsStay'
  <2>1. ASSUME NEW i \in Job, i = j, job'[i].kind = "import", NEW k \in DOMAIN job'[i].pool
        PROVE  job'[i].pool[k] \notin {"open", "ok", "taken"}
      BY <1>1, <2>1 DEF NewImport, NewDelete
  <2>2. ASSUME NEW i \in Job \ {j}, job'[i].kind = "import" /\ ~job'[i].broken,
               job'[i].alone \/ job'[i].work \notin clash',
               NEW k \in DOMAIN job'[i].pool, job'[i].pool[k] \in {"open", "ok", "taken"}
        PROVE  UploadKey(i, k)' \in pageObjects'
      BY <1>1, <1>2, <1>3, <2>2 DEF JobInv, UploadsStay, UploadKey
  <2>. QED
      BY <2>1, <2>2 DEF UploadsStay
<1>7. RowsGoFirst' /\ ListsAll'
  <2>1. job'[j].step \notin {"drop", "keys"}
      BY <1>1 DEF NewImport, NewDelete
  <2>. QED
      BY <1>1, <1>2, <1>3, <2>1 DEF JobInv, RowsGoFirst, ListsAll
<1>8. PagesStay' /\ SparesPages' /\ RowsHaveWork'
    BY <1>1, <1>3 DEF JobInv, PagesStay, SparesPages, RowsHaveWork
<1>9. NoPageLitter'
  <2>1. \A i \in Job : \A v, q : Holds(job[i], v, q) => Holds(job[i], v, q)'
      BY <1>1, <1>2 DEF Holds
  <2>. QED
      BY <1>1, <1>3, <2>1 DEF JobInv, NoPageLitter
<1>. QED
    BY <1>4, <1>5, <1>6, <1>7, <1>8, <1>9 DEF JobInv

\* What leaves the comics alone and does not bring the sweep on.
LEMMA ComicsStay ==
    ASSUME JobInv, UNCHANGED <<pageObjects, alive, shown, job, clash>>, trouble \subseteq trouble',
           Sweeping' => Sweeping,
           sweep'.step = "delete" => sweep.step = "delete" /\ sweep'.doomed \subseteq sweep.doomed
    PROVE  JobInv'
<1>1. ClashesAreMarked' /\ PoolsFollow' /\ UploadsStay'
    BY DEF JobInv, ClashesAreMarked, Meet, Marked, PoolsFollow, PoolFollows, UploadsStay, UploadKey
<1>2. RowsGoFirst' /\ PagesStay' /\ SparesPages' /\ RowsHaveWork' /\ ListsAll'
    BY DEF JobInv, RowsGoFirst, PagesStay, SparesPages, RowsHaveWork, ListsAll
<1>3. NoPageLitter'
    BY DEF JobInv, NoPageLitter, Holds
<1>. QED
    BY <1>1, <1>2, <1>3 DEF JobInv

\* The sweep: it marks whoever runs, and spares the pages of a work that nobody
\* else is on.
LEMMA SweepJobInv ==
    ASSUME PlainIds, JobType, JobInv, SweepSees, SweepStep PROVE JobInv'
<1>1. /\ UNCHANGED <<alive, shown>> /\ pageObjects' \subseteq pageObjects
      /\ ~BeginSweep => job' = job /\ clash' = clash
      /\ sweep \in SweepRec
    BY SweepShape DEF comicRows, JobType
<1>2. ASSUME job' = job, clash' = clash
      PROVE  /\ RowsGoFirst' /\ RowsHaveWork' /\ PoolsFollow'
             /\ \A i, v, q : Holds(job[i], v, q)' <=> Holds(job[i], v, q)
             /\ \A i, k : UploadKey(i, k)' = UploadKey(i, k)
             /\ \A i : Marked(i)' = Marked(i)
             /\ \A i, k : Meet(i, k)' = Meet(i, k)
    BY <1>1, <1>2
    DEF JobInv, RowsGoFirst, RowsHaveWork, PoolsFollow, PoolFollows, Holds, UploadKey, Marked, Meet
<1>3. CASE BeginSweep
  <2>1. /\ job' = [j \in Job |-> [job[j] EXCEPT !.alone = FALSE]]
        /\ clash' = clash \cup {job[j].work : j \in Busy}
        /\ pageObjects' = pageObjects /\ sweep'.step = "list"
        /\ "litter" \in trouble => "litter" \in trouble'
      BY <1>3 DEF BeginSweep, NoSweep
  <2>2. ASSUME NEW i \in Job
        PROVE  /\ job'[i].step = job[i].step /\ job'[i].kind = job[i].kind /\ job'[i].work = job[i].work
               /\ job'[i].pics = job[i].pics /\ job'[i].next = job[i].next /\ job'[i].pool = job[i].pool
               /\ job'[i].broken = job[i].broken /\ job'[i].keys = job[i].keys /\ ~job'[i].alone
    <3>1. job'[i] = [job[i] EXCEPT !.alone = FALSE] /\ job[i] \in JobRec
        BY <2>1, JobFields
    <3>. QED
        BY <3>1 DEF JobRec
  <2>3. ASSUME NEW i \in Job, job[i].step # "idle" PROVE Marked(i)'
      BY <2>1, <2>2, <2>3 DEF Marked, Busy
  <2>4. ClashesAreMarked'
    <3>1. \A i, k \in Job : Meet(i, k)' = Meet(i, k)
        BY <2>2 DEF Meet
    <3>2. \A i, k \in Job : Meet(i, k) /\ job[i].kind = "delete" => "litter" \in trouble'
        BY <2>1 DEF JobInv, ClashesAreMarked
    <3>3. \A i, k \in Job : Meet(i, k) => job[i].step # "idle" /\ job[k].step # "idle"
        BY DEF Meet
    <3>. QED
        BY <2>2, <2>3, <3>1, <3>2, <3>3 DEF ClashesAreMarked
  <2>5. PoolsFollow'
      BY <2>2 DEF JobInv, PoolsFollow, PoolFollows
  <2>6. UploadsStay'
      BY <2>1, <2>2 DEF JobInv, UploadsStay, UploadKey
  <2>7. RowsGoFirst' /\ ListsAll'
      BY <1>1, <2>1, <2>2, SMTT(30) DEF JobInv, RowsGoFirst, ListsAll
  <2>8. PagesStay' /\ SparesPages' /\ RowsHaveWork'
      BY <1>1, <2>1 DEF JobInv, PagesStay, SparesPages, RowsHaveWork
  <2>9. NoPageLitter'
    <3>1. \A i \in Job : \A v, q : Holds(job[i], v, q) => Holds(job[i], v, q)'
        BY <2>2 DEF Holds
    <3>. QED
        BY <1>1, <2>1, <3>1 DEF JobInv, NoPageLitter
  <2>. QED
      BY <2>4, <2>5, <2>6, <2>7, <2>8, <2>9 DEF JobInv
<1>4. CASE (\E k \in sweep.todo : ListDirectory(k)) \/ SweepDies
  <2>1. /\ sweep'.step \in {"list", "idle"} /\ Sweeping
        /\ UNCHANGED <<pageObjects, job, clash, trouble>>
    <3>1. CASE \E k \in sweep.todo : ListDirectory(k)
        BY <1>1, <3>1 DEF ListDirectory, Sweeping, SweepRec
    <3>2. CASE SweepDies
        BY <3>2 DEF SweepDies, NoSweep
    <3>. QED
        BY <1>4, <3>1, <3>2
  <2>. QED
      BY <1>1, <2>1, ComicsStay
<1>5. CASE FindOrphans
  <2>1. /\ sweep'.doomed \cap Expected = {} /\ Sweeping
        /\ UNCHANGED <<pageObjects, job, clash, trouble>>
      BY <1>1, <1>5 DEF FindOrphans, Sweeping, SweepRec
  <2>2. SparesPages'
    <3>1. \A w \in Work : \A p \in shown[w] : <<w, p>> \in Expected
        BY DEF Expected, ComicPageKey, PlainIds
    <3>. QED
        BY <1>1, <2>1, <3>1 DEF SparesPages
  <2>3. ClashesAreMarked' /\ UploadsStay' /\ PagesStay' /\ ListsAll' /\ NoPageLitter'
      BY <1>1, <1>2, <2>1
      DEF JobInv, ClashesAreMarked, UploadsStay, PagesStay, ListsAll, NoPageLitter
  <2>. QED
      BY <1>2, <2>1, <2>2, <2>3 DEF JobInv
<1>6. CASE \E k \in sweep.doomed : DeleteOrphan(k)
  <2>1. PICK k \in sweep.doomed : DeleteOrphan(k)
      BY <1>6
  <2>2. /\ sweep.step = "delete" /\ Sweeping /\ UNCHANGED <<job, clash, trouble>>
        /\ pageObjects' \in {pageObjects, pageObjects \ {k}}
        /\ sweep'.step = "delete" /\ sweep'.doomed \subseteq sweep.doomed
    <3>1. sweep'.step = sweep.step /\ sweep'.doomed = sweep.doomed \ {k} /\ sweep.step = "delete"
        BY <1>1, <2>1 DEF DeleteOrphan, SweepRec
    <3>. QED
        BY <2>1, <3>1 DEF DeleteOrphan, DeleteKey, Sweeping
  <2>3. UploadsStay'
    <3>1. \A i \in Job : job[i].kind = "import" => job[i].step # "idle"
        BY JobFields DEF JobFits, NoJob
    <3>2. \A i \in Job : job[i].kind = "import" => ~job[i].alone /\ job[i].work \in clash
        BY <2>2, <3>1 DEF JobInv, ClashesAreMarked, Marked
    <3>. QED
        BY <2>2, <3>2 DEF UploadsStay
  <2>4. PagesStay' /\ SparesPages'
      BY <1>1, <2>2 DEF JobInv, PagesStay, SparesPages
  <2>5. ClashesAreMarked' /\ ListsAll'
      BY <1>1, <1>2, <2>2 DEF JobInv, ClashesAreMarked, ListsAll
  <2>6. NoPageLitter'
      BY <1>1, <1>2, <2>2 DEF JobInv, NoPageLitter
  <2>. QED
      BY <1>2, <2>2, <2>3, <2>4, <2>5, <2>6 DEF JobInv
<1>7. CASE EndSweep
  <2>1. /\ UNCHANGED <<pageObjects, job, clash>> /\ ~Sweeping' /\ sweep'.step # "delete"
        /\ sweep.step = "delete" /\ sweep.doomed = {} /\ Sweeping
      BY <1>7 DEF EndSweep, NoSweep, Sweeping
  <2>2. CASE ~(sweep.alone /\ sweep.whole)
    <3>1. trouble' = trouble
        BY <1>7, <2>2 DEF EndSweep
    <3>. QED
        BY <1>1, <2>1, <3>1, ComicsStay
  <2>3. CASE sweep.alone /\ sweep.whole
    <3>1. Busy = {} /\ Store \subseteq Expected
        BY <2>1, <2>3 DEF SweepSees
    <3>2. ClashesAreMarked' /\ ListsAll'
        BY <2>1, <3>1 DEF Busy, ClashesAreMarked, Meet, ListsAll
    <3>3. NoPageLitter'
      <4>1. ASSUME NEW w \in Work, NEW p, <<w, p>> \in pageObjects PROVE p \in shown[w]
        <5>1. <<w, p>> \in Expected /\ w # "fanart"
            BY <3>1, <4>1, MediaAssumption DEF Store
        <5>2. PICK v \in Work : \E q \in shown[v] : <<w, p>> = <<v, q>>
            BY <5>1 DEF Expected, ComicPageKey, PlainIds
        <5>. QED
            BY <5>2
      <4>. QED
          BY <1>1, <2>1, <4>1 DEF NoPageLitter
    <3>4. UploadsStay' /\ PagesStay' /\ SparesPages'
        BY <1>1, <1>2, <2>1 DEF JobInv, UploadsStay, PagesStay, SparesPages
    <3>. QED
        BY <1>2, <2>1, <3>2, <3>3, <3>4 DEF JobInv
  <2>. QED
      BY <2>2, <2>3
<1>. QED
    BY <1>3, <1>4, <1>5, <1>6, <1>7 DEF SweepStep

-----------------------------------------------------------------------------
(* The sweep that is alone and leaves nothing out.                         *)

LEMMA NextAreas ==
    ASSUME Typed, AreasCover, [MediaNext]_storeVars PROVE AreasCover'
<1>0. /\ mix.ops \in Nat /\ mix.jobs \in Nat /\ ops \in Nat /\ jobs \in Nat
    BY FanartAssumption DEF Typed, FanartType, JobType, Mix
<1>1. ASSUME NEW r \in Request, NEW q \in AnyForm, NEW skip \in BOOLEAN, BeginRequest(r, q, skip)
      PROVE  AreasCover'
  <2>1. ops < mix.ops /\ ops' = ops + 1 /\ UNCHANGED <<mix, jobs, pageObjects, job>>
      BY <1>1 DEF BeginRequest, Begin, jobVars
  <2>. QED
      BY <1>0, <2>1 DEF AreasCover, Busy
<1>2. ASSUME NEW r \in Request, Step(r), UNCHANGED <<mix, jobVars, sweepVars, clash>> PROVE AreasCover'
  <2>1. at[r] # "idle" /\ ops' = ops
      BY <1>2, StepShape DEF Typed
  <2>. QED
      BY <1>0, <1>2, <2>1 DEF AreasCover, Busy, jobVars
<1>3. ASSUME NEW j \in Job, NEW w \in Work, Begins(j, w) PROVE AreasCover'
  <2>1. jobs < mix.jobs /\ jobs' = jobs + 1 /\ UNCHANGED <<mix, ops, objects, at>>
      BY <1>3, BeginShape DEF Typed
  <2>. QED
      BY <1>0, <2>1 DEF AreasCover
<1>4. ASSUME NEW j \in Job, JobStep(j) PROVE AreasCover'
  <2>1. job[j].step # "idle" /\ UNCHANGED <<mix, jobs, ops, objects, at>>
      BY <1>4, JobStepShape DEF Typed, OnlyJobs
  <2>. QED
      BY <1>0, <2>1 DEF AreasCover, Busy
<1>5. CASE SweepStep
  <2>1. /\ UNCHANGED <<at, ops, jobs, mix>> /\ objects' \subseteq objects /\ pageObjects' \subseteq pageObjects
        /\ ~BeginSweep => job' = job
      BY <1>5, SweepShape DEF Typed
  <2>2. ASSUME NEW j \in Job PROVE job'[j].step = job[j].step
    <3>1. CASE BeginSweep
      <4>1. job'[j] = [job[j] EXCEPT !.alone = FALSE] /\ job[j] \in JobRec
          BY <3>1, JobFields DEF BeginSweep, Typed
      <4>. QED
          BY <4>1 DEF JobRec
    <3>. QED
        BY <2>1, <3>1
  <2>3. Busy' = Busy
      BY <2>2 DEF Busy
  <2>. QED
      BY <2>1, <2>3 DEF AreasCover
<1>6. CASE UNCHANGED storeVars
    BY <1>6 DEF AreasCover, Busy, storeVars, vars, jobVars
<1>. QED
    BY <1>1, <1>2, <1>3, <1>4, <1>5, <1>6, Steps

LEMMA NextSees ==
    ASSUME Typed, AreasCover, SweepSees, [MediaNext]_storeVars PROVE SweepSees'
<1>0. sweep \in SweepRec
    BY DEF Typed, JobType
<1>1. ASSUME sweep' = [sweep EXCEPT !.alone = FALSE] PROVE SweepSees'
    BY <1>0, <1>1 DEF SweepSees, SweepRec
<1>2. ASSUME sweep' = sweep, ~(AllIdle /\ Busy = {}) PROVE SweepSees'
    BY <1>2 DEF SweepSees, Sweeping
<1>3. ASSUME NEW r \in Request, NEW q \in AnyForm, NEW skip \in BOOLEAN, BeginRequest(r, q, skip)
      PROVE  SweepSees'
    BY <1>1, <1>3 DEF BeginRequest
<1>4. ASSUME NEW r \in Request, Step(r), UNCHANGED <<mix, jobVars, sweepVars, clash>> PROVE SweepSees'
    BY <1>2, <1>4, StepShape DEF Typed, AllIdle, sweepVars
<1>5. ASSUME NEW j \in Job, NEW w \in Work, Begins(j, w) PROVE SweepSees'
    BY <1>1, <1>5, BeginShape DEF Typed
<1>6. ASSUME NEW j \in Job, JobStep(j) PROVE SweepSees'
    BY <1>2, <1>6, JobStepShape DEF Typed, Busy
<1>7. CASE SweepStep
  <2>1. /\ UNCHANGED <<items, shown, at>> /\ (~BeginSweep => job' = job)
      BY <1>7, SweepShape DEF Typed, dbVars, comicRows
  <2>2. Expected' = Expected /\ AllIdle' = AllIdle
      BY <2>1 DEF Expected, Used, Live, AllIdle
  <2>3. CASE BeginSweep
    <3>1. PICK alone \in BOOLEAN : alone = (AllIdle /\ Busy = {})
        OBVIOUS
    <3>2. /\ sweep' = [NoSweep EXCEPT !.step = "list", !.todo = Areas \X Picture,
                                      !.whole = TRUE, !.alone = alone]
          /\ UNCHANGED <<objects, pageObjects>>
          /\ job' = [j \in Job |-> [job[j] EXCEPT !.alone = FALSE]]
        BY <2>3, <3>1 DEF BeginSweep
    <3>3. sweep'.step = "list" /\ sweep'.todo = Areas \X Picture /\ sweep'.alone = alone
        BY <3>2 DEF NoSweep
    <3>4. Busy' = Busy
      <4>1. ASSUME NEW j \in Job PROVE job'[j].step = job[j].step
          BY <3>2, JobFields DEF Typed, JobRec
      <4>. QED
          BY <4>1 DEF Busy
    <3>5. Store \subseteq Areas \X Picture
      <4>1. \A p \in objects : <<"fanart", p>> \in Areas \X Picture
        <5>1. objects # {} => "fanart" \in Areas
            BY FanartAssumption DEF AreasCover, Areas, Typed, FanartType, JobType, Mix
        <5>. QED
            BY <5>1 DEF Typed, FanartType
      <4>2. pageObjects \subseteq Areas \X Picture
        <5>1. pageObjects # {} => Work \subseteq Areas
            BY FanartAssumption DEF AreasCover, Areas, Typed, FanartType, JobType, Mix
        <5>. QED
            BY <5>1 DEF Typed, JobType
      <4>. QED
          BY <4>1, <4>2 DEF Store
    <3>6. Store' = Store
        BY <3>2 DEF Store
    <3>. QED
        BY <2>2, <3>1, <3>3, <3>4, <3>5, <3>6 DEF SweepSees
  <2>4. CASE ~BeginSweep
    <3>1. Busy' = Busy
        BY <2>1, <2>4 DEF Busy
    <3>2. CASE \E k \in sweep.todo : ListDirectory(k)
      <4>1. PICK k \in sweep.todo : ListDirectory(k)
          BY <3>2
      <4>2. Store' = Store
          BY <4>1 DEF ListDirectory, Store
      <4>3. CASE sweep' = [sweep EXCEPT !.todo = @ \ {k}, !.seen = @ \cup ({k} \cap Store)]
        <5>1. /\ sweep'.step = sweep.step /\ sweep'.alone = sweep.alone /\ sweep'.whole = sweep.whole
              /\ sweep'.todo = sweep.todo \ {k} /\ sweep'.seen = sweep.seen \cup ({k} \cap Store)
              /\ sweep.step = "list"
            BY <1>0, <4>1, <4>3 DEF SweepRec, ListDirectory
        <5>. QED
            BY <2>2, <3>1, <4>2, <5>1 DEF SweepSees, Sweeping
      <4>4. CASE sweep' = [sweep EXCEPT !.todo = @ \ {k}, !.whole = FALSE]
        <5>1. /\ sweep'.step = sweep.step /\ sweep'.alone = sweep.alone /\ ~sweep'.whole
            BY <1>0, <4>4 DEF SweepRec
        <5>. QED
            BY <2>2, <3>1, <5>1 DEF SweepSees, Sweeping
      <4>. QED
          BY <4>1, <4>3, <4>4 DEF ListDirectory
    <3>3. CASE FindOrphans
      <4>1. PICK part : /\ sweep.step = "list" /\ sweep.todo = {}
                        /\ sweep' = [sweep EXCEPT !.step = "delete", !.seen = {}, !.doomed = part,
                                            !.whole = @ /\ part = sweep.seen \ Expected]
                        /\ UNCHANGED <<objects, pageObjects>>
          BY <3>3 DEF FindOrphans
      <4>2. PICK whole \in BOOLEAN : whole = (sweep.whole /\ part = sweep.seen \ Expected)
          OBVIOUS
      <4>3. /\ sweep'.step = "delete" /\ sweep'.doomed = part /\ sweep'.whole = whole
            /\ sweep'.alone = sweep.alone
          BY <1>0, <4>1, <4>2 DEF SweepRec
      <4>4. Store' = Store
          BY <4>1 DEF Store
      <4>. QED
          BY <2>2, <3>1, <4>1, <4>2, <4>3, <4>4 DEF SweepSees, Sweeping
    <3>4. CASE \E k \in sweep.doomed : DeleteOrphan(k)
      <4>1. PICK k \in sweep.doomed : DeleteOrphan(k)
          BY <3>4
      <4>2. sweep.step = "delete" /\ sweep'.step = "delete" /\ sweep'.alone = sweep.alone
          BY <1>0, <4>1 DEF SweepRec, DeleteOrphan
      <4>3. CASE /\ sweep' = [sweep EXCEPT !.doomed = @ \ {k}]
                 /\ objects' = (IF k[1] = "fanart" THEN objects \ {k[2]} ELSE objects)
                 /\ pageObjects' = pageObjects \ {k}
        <5>1. sweep'.whole = sweep.whole /\ sweep'.doomed = sweep.doomed \ {k}
            BY <1>0, <4>3 DEF SweepRec
        <5>2. Store' \subseteq Store \ {k}
          <6>1. ASSUME NEW p \in objects' PROVE <<"fanart", p>> \in Store \ {k}
            <7>1. p \in objects /\ (k[1] = "fanart" => p # k[2])
                BY <4>3, <6>1
            <7>2. <<"fanart", p>> # k
                BY <7>1
            <7>. QED
                BY <7>1, <7>2 DEF Store
          <6>2. pageObjects' \subseteq Store \ {k}
              BY <4>3 DEF Store
          <6>. QED
              BY <6>1, <6>2 DEF Store
        <5>. QED
            BY <2>2, <3>1, <4>2, <5>1, <5>2 DEF SweepSees, Sweeping
      <4>4. CASE sweep' = [sweep EXCEPT !.doomed = @ \ {k}, !.whole = FALSE]
        <5>1. ~sweep'.whole
            BY <1>0, <4>4 DEF SweepRec
        <5>. QED
            BY <2>2, <3>1, <4>2, <5>1 DEF SweepSees, Sweeping
      <4>. QED
          BY <4>1, <4>3, <4>4 DEF DeleteOrphan, DeleteKey
    <3>5. CASE EndSweep \/ SweepDies
        BY <3>5 DEF EndSweep, SweepDies, NoSweep, SweepSees, Sweeping
    <3>. QED
        BY <1>7, <2>4, <3>2, <3>3, <3>4, <3>5 DEF SweepStep
  <2>. QED
      BY <2>3, <2>4
<1>8. CASE UNCHANGED storeVars
  <2>1. UNCHANGED <<at, objects, items, pageObjects, shown, job, sweep>>
      BY <1>8 DEF storeVars, vars, dbVars, jobVars, comicRows, sweepVars
  <2>. QED
      BY <2>1 DEF SweepSees, Sweeping, AllIdle, Busy, Store, Expected, Used, Live
<1>. QED
    BY <1>3, <1>4, <1>5, <1>6, <1>7, <1>8, Steps

-----------------------------------------------------------------------------
(* Everything together.                                                    *)

LEMMA NextFanart ==
    ASSUME PlainIds, Typed, FanartInv, SweepSees, [MediaNext]_storeVars PROVE FanartInv'
<1>1. ASSUME NEW r \in Request, NEW q \in AnyForm, NEW skip \in BOOLEAN, BeginRequest(r, q, skip)
      PROVE  FanartInv'
    BY <1>1, BeginFanart DEF Typed
<1>2. ASSUME NEW r \in Request, Step(r), UNCHANGED <<mix, jobVars, sweepVars, clash>> PROVE FanartInv'
    BY <1>2, StepFanart DEF Typed, sweepVars
<1>3. ASSUME NEW j \in Job, NEW w \in Work, Begins(j, w) PROVE FanartInv'
  <2>1. /\ UNCHANGED <<objects, dbVars, at, loc, solo>> /\ trouble \subseteq trouble'
        /\ sweep' = [sweep EXCEPT !.alone = FALSE]
      BY <1>3, BeginShape DEF Typed
  <2>2. sweep'.step = sweep.step /\ sweep'.doomed = sweep.doomed
      BY <2>1 DEF Typed, JobType, SweepRec
  <2>. QED
      BY <2>1, <2>2, FanartStays DEF Sweeping
<1>4. ASSUME NEW j \in Job, JobStep(j) PROVE FanartInv'
  <2>1. /\ UNCHANGED <<objects, dbVars, at, loc, solo>> /\ trouble \subseteq trouble' /\ sweep' = sweep
      BY <1>4, JobStepShape, JobMoves DEF Typed, OnlyJobs
  <2>. QED
      BY <2>1, FanartStays DEF Sweeping
<1>5. CASE SweepStep
    BY <1>5, SweepFanart DEF Typed
<1>6. CASE UNCHANGED storeVars
    BY <1>6, FanartStays DEF storeVars, vars, history, sweepVars, Sweeping
<1>. QED
    BY <1>1, <1>2, <1>3, <1>4, <1>5, <1>6, Steps

LEMMA NextJobs ==
    ASSUME PlainIds, Typed, JobInv, SweepSees, [MediaNext]_storeVars PROVE JobInv'
<1>1. ASSUME NEW r \in Request, NEW q \in AnyForm, NEW skip \in BOOLEAN, BeginRequest(r, q, skip)
      PROVE  JobInv'
  <2>1. /\ UNCHANGED <<pageObjects, alive, shown, job, clash>> /\ trouble \subseteq trouble'
        /\ sweep' = [sweep EXCEPT !.alone = FALSE]
      BY <1>1 DEF BeginRequest, Begin, jobVars, comicRows, Typed, FanartType
  <2>2. sweep'.step = sweep.step /\ sweep'.doomed = sweep.doomed
      BY <2>1 DEF Typed, JobType, SweepRec
  <2>. QED
      BY <2>1, <2>2, ComicsStay DEF Sweeping
<1>2. ASSUME NEW r \in Request, Step(r), UNCHANGED <<mix, jobVars, sweepVars, clash>> PROVE JobInv'
  <2>1. trouble \subseteq trouble'
      BY <1>2, StepShape DEF Typed
  <2>. QED
      BY <1>2, <2>1, ComicsStay DEF jobVars, comicRows, sweepVars, Sweeping
<1>3. ASSUME NEW j \in Job, NEW w \in Work, Begins(j, w) PROVE JobInv'
    BY <1>3, BeginJobInv DEF Typed
<1>4. ASSUME NEW j \in Job, JobStep(j) PROVE JobInv'
    BY <1>4, JobStepInv DEF Typed
<1>5. CASE SweepStep
    BY <1>5, SweepJobInv DEF Typed
<1>6. CASE UNCHANGED storeVars
    BY <1>6, ComicsStay DEF storeVars, vars, history, jobVars, comicRows, sweepVars, Sweeping
<1>. QED
    BY <1>1, <1>2, <1>3, <1>4, <1>5, <1>6, Steps

LEMMA InitInv == MediaInit => IInv
<1>. SUFFICES ASSUME MediaInit PROVE IInv
    OBVIOUS
<1>1. Typed
    BY InitTyped
<1>2. Live = {} /\ Used = {} /\ AllIdle /\ ~Sweeping /\ Busy = {} /\ sweep.step = "idle"
    BY DEF MediaInit, Init, Live, Used, AllIdle, Sweeping, Busy, NoSweep, NoJob
<1>3. FanartInv
    BY <1>2
    DEF MediaInit, Init, FanartInv, NothingDangles, OneAtATime, AllIdle, RequestsKnow, Knows, SoloRuns,
        UploadStores, NothingLost, NoFanartLitter, SparesItems, NoReq, Req
<1>4. JobInv
    BY <1>2
    DEF MediaInit, JobInv, ClashesAreMarked, Meet, Busy, PoolsFollow, PoolFollows, UploadsStay,
        RowsGoFirst, PagesStay, SparesPages, RowsHaveWork, ListsAll, NoPageLitter, NoJob
<1>5. SweepInv
  <2>1. 0 <= mix.ops /\ 0 <= mix.jobs
      BY <1>1, FanartAssumption DEF Typed, JobType, Mix
  <2>. QED
      BY <1>2, <2>1 DEF MediaInit, Init, SweepInv, AreasCover, SweepSees, AllIdle
<1>. QED
    BY <1>1, <1>3, <1>4, <1>5 DEF IInv, Typed

\* The inductive invariant.
LEMMA Invariance == ASSUME PlainIds PROVE MediaSpec => []IInv
<1>1. ASSUME IInv, [MediaNext]_storeVars PROVE IInv'
    BY <1>1, NextTyped, NextFanart, NextJobs, NextAreas, NextSees DEF IInv, Typed, SweepInv
<1>. QED
    BY <1>1, InitInv, PTL DEF MediaSpec

-----------------------------------------------------------------------------
(* Files that are not whole.                                               *)

\* A file of the local backend that is not filled is being filled by the
\* request that truncated it, or by the job, or was left so.
Fills(r, p) == at[r] = "write" /\ loc[r].req.pic = p

FilesFilled ==
    /\ half \subseteq Picture \X Request
    /\ \A h \in half : h[1] \in cut \/ Fills(h[2], h[1])

Opens(j, key) == \E k \in DOMAIN job[j].pool : job[j].pool[k] = "open" /\ UploadKey(j, k) = key

PageFilesFilled ==
    /\ pageHalf \subseteq (Work \X Picture) \X Job
    /\ \A h \in pageHalf : h[1] \in pageCut \/ Opens(h[2], h[1])

\* Nothing happens to a page before it is submitted.
NotYet == \A j \in Job : \A k \in DOMAIN job[j].pool : k >= job[j].next => job[j].pool[k] = "none"

FilesInv == FilesFilled /\ PageFilesFilled /\ NotYet

LEMMA StepFills ==
    ASSUME FanartType, FilesFilled, NEW r \in Request, Step(r) PROVE FilesFilled'
<1>1. \A x \in Request \ {r} : \A p : Fills(x, p)' <=> Fills(x, p)
    BY StepShape DEF Fills, To, FanartType
<1>2. loc[r] \in LocRec /\ Fits(at[r], loc[r])
    BY DEF FanartType
<1>3. CASE Put(r)
  <2>1. PICK p : p = loc[r].req.pic
      OBVIOUS
  <2>2. p \in Picture /\ at[r] = "put" /\ cut' = cut
      BY <1>2, <1>3, <2>1 DEF Put, Fits, UploadsPicture
  <2>3. half' = half \/ (half' = Settled(p) \cup {<<p, r>>} /\ Fills(r, p)')
      BY <1>3, <2>1 DEF Put, Fills, To, FanartType
  <2>4. \A h \in half : h[1] \in cut' \/ Fills(h[2], h[1])'
      BY <1>1, <2>2 DEF FilesFilled, Fills
  <2>. QED
      BY <2>2, <2>3, <2>4 DEF FilesFilled, Settled
<1>4. CASE Write(r)
  <2>1. PICK p : p = loc[r].req.pic
      OBVIOUS
  <2>2. cut' = cut /\ (half' = Settled(p) \/ (half' = half /\ <<p, r>> \notin half))
      BY <1>4, <2>1 DEF Write
  <2>3. half' \subseteq half /\ <<p, r>> \notin half'
      BY <2>2 DEF Settled
  <2>4. ASSUME NEW h \in half' PROVE h[1] \in cut' \/ Fills(h[2], h[1])'
    <3>1. h \in Picture \X Request /\ (h[1] \in cut \/ Fills(h[2], h[1]))
        BY <2>3 DEF FilesFilled
    <3>2. CASE h[2] = r
      <4>1. h[1] # p
          BY <2>3, <3>1, <3>2
      <4>. QED
          BY <2>1, <2>2, <3>1, <3>2, <4>1 DEF Fills
    <3>3. CASE h[2] # r
        BY <1>1, <2>2, <3>1, <3>3
    <3>. QED
        BY <3>2, <3>3
  <2>. QED
      BY <2>3, <2>4 DEF FilesFilled
<1>5. CASE Remove(r)
  <2>1. half' = Settled(loc[r].doomed) /\ cut' = cut \ {loc[r].doomed} /\ at[r] = "remove"
      BY <1>5 DEF Remove
  <2>. QED
      BY <1>1, <2>1 DEF FilesFilled, Settled, Fills
<1>6. CASE Fail(r)
  <2>1. half' = half /\ cut \subseteq cut' /\ \A p : Fills(r, p) => p \in cut'
      BY <1>6 DEF Fail, Fills
  <2>. QED
      BY <1>1, <2>1 DEF FilesFilled
<1>7. CASE at[r] # "write" /\ UNCHANGED <<half, cut>>
    BY <1>1, <1>7 DEF FilesFilled, Fills
<1>. QED
    BY <1>3, <1>4, <1>5, <1>6, <1>7
    DEF Step, Check, Insert, InsertBound, Tag, TagFails, Find, Erase, CreateGallery, FindGallery,
        FillGallery, DropGallery

\* Of the fanart files, the rest leaves what it finds.
LEMMA OthersFill ==
    ASSUME FanartType, FilesFilled, UNCHANGED <<half, cut>>,
           \A r \in Request : at[r] = "write" => at'[r] = at[r] /\ loc'[r] = loc[r]
    PROVE  FilesFilled'
BY DEF FilesFilled, Fills

\* The pool of a job that goes on, and what it means for the files.
LEMMA PoolGoesOn ==
    ASSUME JobType, PageFilesFilled, NEW j \in Job, \A i \in Job \ {j} : job'[i] = job[i],
           pageHalf' \subseteq (Work \X Picture) \X Job,
           \A h \in pageHalf' \ pageHalf : h[1] \in pageCut' \/ Opens(h[2], h[1])',
           \A h \in pageHalf' \cap pageHalf : h[1] \in pageCut => h[1] \in pageCut',
           \A h \in pageHalf' \cap pageHalf :
               h[2] = j /\ Opens(j, h[1]) => h[1] \in pageCut' \/ Opens(j, h[1])'
    PROVE  PageFilesFilled'
<1>1. \A i \in Job \ {j} : \A key : Opens(i, key)' <=> Opens(i, key)
    BY DEF Opens, UploadKey
<1>. QED
    BY <1>1 DEF PageFilesFilled

LEMMA JobFills ==
    ASSUME JobType, PoolsFollow, PageFilesFilled, NotYet, NEW j \in Job, JobStep(j)
    PROVE  PageFilesFilled' /\ NotYet'
<1>1. /\ \A i \in Job \ {j} : job'[i] = job[i]
      /\ job[j] \in JobRec /\ JobFits(job[j]) /\ PoolFollows(job[j]) /\ NoJob.pool = <<>>
      /\ job[j].work \in Work /\ DOMAIN <<>> = {}
      /\ pageHalf \subseteq (Work \X Picture) \X Job
    BY JobMoves, JobFields DEF PoolsFollow, NoJob, PageFilesFilled
<1>2. ASSUME \/ DOMAIN job'[j].pool = {}
             \/ job'[j].next = job[j].next /\ job'[j].pool = job[j].pool
      PROVE  NotYet'
    BY <1>1, <1>2 DEF NotYet
<1>3. ASSUME UNCHANGED pageStore, \A key : Opens(j, key) => Opens(j, key)' PROVE PageFilesFilled'
  <2>1. pageHalf' = pageHalf /\ pageCut' = pageCut
      BY <1>3
  <2>. QED
      BY <1>1, <1>3, <2>1, PoolGoesOn
<1>4. CASE job[j].kind = "delete"
  <2>1. job[j].pool = <<>>
      BY <1>1, <1>4, JobMoves DEF JobFits, JobRec
  <2>2. \A key : ~Opens(j, key)
      BY <1>1, <2>1 DEF Opens
  <2>3. job'[j].pool = <<>>
    <3>1. job'[j] # NoJob => job'[j].kind = "delete" /\ JobFits(job'[j]) /\ job'[j] \in JobRec
        BY <1>4, JobMoves
    <3>. QED
        BY <1>1, <3>1 DEF JobFits, JobRec
  <2>4. pageHalf' \subseteq pageHalf /\ \A h \in pageHalf' : h[1] \in pageCut => h[1] \in pageCut'
      BY <1>1, <2>1
      DEF JobStep, Submit, NextPage, Drain, WaitAll, Spoil, ShutDown, UpsertRow, ReplaceRows,
          ReplaceRowsFails, ListPages, DropRow, DropKey, EndDelete, Die, LeaveFiles, DeleteKey,
          PageSettled
  <2>5. PageFilesFilled'
      BY <1>1, <2>2, <2>4, PoolGoesOn
  <2>6. NotYet'
      BY <1>1, <1>2, <2>3
  <2>. QED
      BY <2>5, <2>6
<1>5. CASE Submit(j)
  <2>1. PICK n : n = job[j].next
      OBVIOUS
  <2>2. job'[j] = [job[j] EXCEPT !.pool[n] = "queued", !.next = @ + 1]
      BY <1>5, <2>1 DEF Submit, Become, JobType
  <2>3. /\ job'[j].pool = [job[j].pool EXCEPT ![n] = "queued"] /\ job'[j].next = n + 1
        /\ job'[j].work = job[j].work /\ job'[j].pics = job[j].pics
        /\ n \in DOMAIN job[j].pool /\ n \in Nat /\ DOMAIN job[j].pool \subseteq Nat
      BY <1>1, <1>5, <2>1, <2>2 DEF JobRec, JobFits, Submit, NextPage
  <2>4. job[j].pool[n] = "none"
      BY <2>1, <2>3 DEF NotYet
  <2>5. \A key : Opens(j, key) => Opens(j, key)'
      BY <2>3, <2>4 DEF Opens, UploadKey
  <2>6. PageFilesFilled'
      BY <1>3, <1>5, <2>5 DEF Submit
  <2>7. NotYet'
    <3>1. \A k \in DOMAIN job'[j].pool : k >= job'[j].next => job'[j].pool[k] = "none"
        BY <2>1, <2>3 DEF NotYet
    <3>. QED
        BY <1>1, <3>1 DEF NotYet
  <2>. QED
      BY <2>6, <2>7
<1>6. CASE Drain(j)
  <2>1. job'[j] = Taken(j) /\ UNCHANGED pageStore
      BY <1>6 DEF Drain, Become, JobType
  <2>2. /\ job'[j].next = job[j].next /\ job'[j].work = job[j].work /\ job'[j].pics = job[j].pics
        /\ job'[j].pool = [k \in DOMAIN job[j].pool |->
                              IF job[j].pool[k] \in {"ok", "bad"} THEN "taken" ELSE job[j].pool[k]]
      BY <1>1, <2>1 DEF Taken, JobRec
  <2>3. \A key : Opens(j, key) => Opens(j, key)'
      BY <2>2 DEF Opens, UploadKey
  <2>4. PageFilesFilled'
      BY <1>3, <2>1, <2>3
  <2>5. NotYet'
      BY <1>1, <2>2 DEF NotYet
  <2>. QED
      BY <2>4, <2>5
<1>7. CASE WaitAll(j) \/ Spoil(j) \/ (ShutDown(j) /\ ~StopJob(j)) \/ UpsertRow(j)
  <2>1. \/ \E step, broken : job'[j] = [job[j] EXCEPT !.step = step, !.broken = broken]
        \/ \E step : job'[j] = [job[j] EXCEPT !.step = step]
    <3>1. CASE WaitAll(j)
        BY <3>1 DEF WaitAll, Become, JobType
    <3>2. CASE Spoil(j)
        BY <3>2 DEF Spoil, Become, JobType
    <3>3. CASE (ShutDown(j) /\ ~StopJob(j)) \/ UpsertRow(j)
        BY <3>3 DEF ShutDown, UpsertRow, Become, JobType
    <3>. QED
        BY <1>7, <3>1, <3>2, <3>3
  <2>2. /\ job'[j].pool = job[j].pool /\ job'[j].next = job[j].next
        /\ job'[j].work = job[j].work /\ job'[j].pics = job[j].pics
      BY <1>1, <2>1 DEF JobRec
  <2>3. \A key : Opens(j, key) => Opens(j, key)'
      BY <2>2 DEF Opens, UploadKey
  <2>4. UNCHANGED pageStore
      BY <1>7 DEF WaitAll, Spoil, ShutDown, UpsertRow
  <2>5. PageFilesFilled'
      BY <1>3, <2>3, <2>4
  <2>6. NotYet'
      BY <1>2, <2>2
  <2>. QED
      BY <2>5, <2>6
<1>8. CASE ShutDown(j) /\ StopJob(j)
  <2>1. job'[j] = NoJob /\ UNCHANGED pageStore
      BY <1>8 DEF StopJob, Become, JobType, ShutDown
  <2>2. \A key : ~Opens(j, key)
      BY <1>8 DEF ShutDown, Pages, Unfinished, Opens
  <2>3. PageFilesFilled'
      BY <1>3, <2>1, <2>2
  <2>4. NotYet'
      BY <1>1, <1>2, <2>1
  <2>. QED
      BY <2>3, <2>4
<1>9. CASE ReplaceRows(j) \/ ReplaceRowsFails(j)
  <2>1. job'[j] = NoJob /\ UNCHANGED pageStore /\ job[j].step = "rows" /\ job[j].kind = "import"
      BY <1>1, <1>9 DEF ReplaceRows, ReplaceRowsFails, StopJob, Become, JobType, JobFits
  <2>2. \A key : ~Opens(j, key)
      BY <1>1, <2>1 DEF PoolFollows, Opens
  <2>3. PageFilesFilled'
      BY <1>3, <2>1, <2>2
  <2>4. NotYet'
      BY <1>1, <1>2, <2>1
  <2>. QED
      BY <2>3, <2>4
<1>10. CASE Die(j)
  <2>1. job'[j] = NoJob /\ pageHalf' = pageHalf /\ pageCut' = pageCut \cup OpenKeys(j)
      BY <1>10 DEF Die, StopJob, Become, JobType, LeaveFiles
  <2>2. \A key : Opens(j, key) => key \in OpenKeys(j)
      BY DEF Opens, OpenKeys, Pages
  <2>3. PageFilesFilled'
      BY <1>1, <2>1, <2>2, PoolGoesOn
  <2>4. NotYet'
      BY <1>1, <1>2, <2>1
  <2>. QED
      BY <2>3, <2>4
<1>11. CASE \E k \in DOMAIN job[j].pool : \/ StartUpload(j, k) \/ OpenUpload(j, k)
                                          \/ FinishUpload(j, k) \/ FailUpload(j, k)
  <2>1. PICK k \in DOMAIN job[j].pool : \/ StartUpload(j, k) \/ OpenUpload(j, k)
                                        \/ FinishUpload(j, k) \/ FailUpload(j, k)
      BY <1>11
  <2>2. PICK key : key = UploadKey(j, k)
      OBVIOUS
  <2>3. key \in Work \X Picture
      BY <1>1, <2>1, <2>2 DEF UploadKey, JobFits, JobRec
  <2>4. PICK result \in {"ok", "running", "open", "bad"} :
            /\ Uploaded(j, k, result)
            /\ job[j].pool[k] \in {"queued", "running", "open"}
            /\ \/ result \in {"ok", "running", "bad"} /\ job[j].pool[k] # "open"
                  /\ UNCHANGED <<pageHalf, pageCut>>
               \/ result = "open" /\ job[j].pool[k] = "running" /\ pageCut' = pageCut
                  /\ pageHalf' = PageSettled(key) \cup {<<key, j>>}
               \/ result = "ok" /\ FillFile(key, j)
               \/ result = "bad" /\ LeaveFiles({key})
    <3>1. CASE StartUpload(j, k)
      <4>1. PICK result \in {"ok", "running"} : Uploaded(j, k, result)
          BY <3>1 DEF StartUpload
      <4>2. job[j].pool[k] = "queued" /\ UNCHANGED <<pageHalf, pageCut>>
          BY <3>1 DEF Pages, StartUpload
      <4>. QED
          BY <4>1, <4>2
    <3>2. CASE OpenUpload(j, k)
        BY <2>2, <3>2 DEF OpenUpload, OpenFile, Pages
    <3>3. CASE FinishUpload(j, k)
      <4>1. /\ Uploaded(j, k, "ok") /\ job[j].pool[k] \in {"running", "open"}
            /\ \/ FillFile(key, j)
               \/ job[j].pool[k] = "running" /\ UNCHANGED <<pageHalf, pageCut>>
          BY <2>2, <3>3 DEF FinishUpload, PutBytes, Pages
      <4>. QED
          BY <4>1
    <3>4. CASE FailUpload(j, k)
      <4>1. /\ Uploaded(j, k, "bad") /\ job[j].pool[k] \in {"running", "open"}
            /\ \/ LeaveFiles({key})
               \/ job[j].pool[k] = "running" /\ UNCHANGED <<pageHalf, pageCut>>
          BY <2>2, <3>4 DEF FailUpload, PutBytes, Pages
      <4>. QED
          BY <4>1
    <3>. QED
        BY <2>1, <3>1, <3>2, <3>3, <3>4
  <2>5. job'[j] = [job[j] EXCEPT !.pool[k] = result]
      BY <2>4 DEF Uploaded, Become, JobType
  <2>6. /\ job'[j].pool = [job[j].pool EXCEPT ![k] = result] /\ job'[j].next = job[j].next
        /\ job'[j].work = job[j].work /\ job'[j].pics = job[j].pics
      BY <1>1, <2>5 DEF JobRec
  <2>7. NotYet'
    <3>1. \A n \in DOMAIN job'[j].pool : n >= job'[j].next => job'[j].pool[n] = "none"
        BY <2>4, <2>6 DEF NotYet
    <3>. QED
        BY <1>1, <3>1 DEF NotYet
  <2>8. \A x : Opens(j, x) => Opens(j, x)' \/ (x = key /\ job[j].pool[k] = "open")
      BY <2>2, <2>6 DEF Opens, UploadKey
  <2>9. result = "open" => Opens(j, key)'
      BY <2>2, <2>6 DEF Opens, UploadKey
  <2>10. CASE result \in {"ok", "running", "bad"} /\ job[j].pool[k] # "open" /\ UNCHANGED <<pageHalf, pageCut>>
      BY <1>1, <2>7, <2>8, <2>10, PoolGoesOn
  <2>11. CASE /\ result = "open" /\ job[j].pool[k] = "running" /\ pageCut' = pageCut
              /\ pageHalf' = PageSettled(key) \cup {<<key, j>>}
    <3>1. pageHalf' \subseteq (Work \X Picture) \X Job
        BY <1>1, <2>3, <2>11 DEF PageSettled
    <3>2. \A h \in pageHalf' \ pageHalf : Opens(h[2], h[1])'
        BY <2>9, <2>11 DEF PageSettled
    <3>3. pageCut' = pageCut /\ \A x : Opens(j, x) => Opens(j, x)'
        BY <2>8, <2>11
    <3>4. PageFilesFilled'
        BY <1>1, <3>1, <3>2, <3>3, PoolGoesOn
    <3>. QED
        BY <2>7, <3>4
  <2>12. CASE result = "ok" /\ FillFile(key, j)
    <3>1. pageCut' = pageCut /\ pageHalf' \subseteq pageHalf /\ <<key, j>> \notin pageHalf'
        BY <2>12 DEF FillFile, PageSettled
    <3>2. ASSUME NEW h \in pageHalf, h \in pageHalf', h[2] = j, Opens(j, h[1]) PROVE Opens(j, h[1])'
      <4>1. h = <<h[1], h[2]>>
          BY <1>1, <3>2
      <4>. QED
          BY <2>8, <3>1, <3>2, <4>1
    <3>3. PageFilesFilled'
        BY <1>1, <3>1, <3>2, PoolGoesOn
    <3>. QED
        BY <2>7, <3>3
  <2>13. CASE result = "bad" /\ LeaveFiles({key})
    <3>1. pageHalf' = pageHalf /\ pageCut' = pageCut \cup {key}
        BY <2>13 DEF LeaveFiles
    <3>2. PageFilesFilled'
        BY <1>1, <2>8, <3>1, PoolGoesOn
    <3>. QED
        BY <2>7, <3>2
  <2>. QED
      BY <2>4, <2>10, <2>11, <2>12, <2>13
<1>12. ListPages(j) \/ DropRow(j) \/ EndDelete(j) \/ (\E p \in job[j].keys : DropKey(j, p))
           => job[j].kind = "delete"
    BY <1>1 DEF ListPages, DropRow, EndDelete, DropKey, JobFits
<1>. QED
    BY <1>4, <1>5, <1>6, <1>7, <1>8, <1>9, <1>10, <1>11, <1>12 DEF JobStep

\* The files through every step.
LEMMA NextFills ==
    ASSUME Typed, PoolsFollow, FilesInv, [MediaNext]_storeVars PROVE FilesInv'
<1>1. ASSUME UNCHANGED <<half, cut>>,
             \A r \in Request : at[r] = "write" => at'[r] = at[r] /\ loc'[r] = loc[r]
      PROVE  FilesFilled'
    BY <1>1, OthersFill DEF FilesInv, Typed
<1>2. ASSUME /\ pageHalf' \subseteq pageHalf /\ \A h \in pageHalf' : h[1] \in pageCut => h[1] \in pageCut'
             /\ \A j \in Job : /\ job'[j].pool = job[j].pool /\ job'[j].next = job[j].next
                               /\ job'[j].work = job[j].work /\ job'[j].pics = job[j].pics
      PROVE  PageFilesFilled' /\ NotYet'
  <2>1. \A j \in Job : \A key : Opens(j, key)' <=> Opens(j, key)
      BY <1>2 DEF Opens, UploadKey
  <2>2. PageFilesFilled'
      BY <1>2, <2>1 DEF FilesInv, PageFilesFilled
  <2>3. NotYet'
      BY <1>2 DEF FilesInv, NotYet
  <2>. QED
      BY <2>2, <2>3
<1>3. ASSUME NEW r \in Request, Step(r), UNCHANGED <<pageStore, job>> PROVE FilesInv'
    BY <1>2, <1>3, StepFills DEF FilesInv, Typed
<1>4. ASSUME NEW r \in Request, NEW q \in AnyForm, NEW skip \in BOOLEAN, BeginRequest(r, q, skip)
      PROVE  FilesInv'
  <2>1. UNCHANGED <<half, cut, pageStore, job>> /\ at[r] = "idle"
      BY <1>4 DEF BeginRequest, Begin, jobVars
  <2>2. \A x \in Request \ {r} : at'[x] = at[x] /\ loc'[x] = loc[x]
      BY <1>4 DEF BeginRequest, Begin, To, Typed, FanartType
  <2>. QED
      BY <1>1, <1>2, <2>1, <2>2 DEF FilesInv
<1>5. ASSUME NEW j \in Job, NEW w \in Work, Begins(j, w) PROVE FilesInv'
  <2>1. UNCHANGED <<half, cut, pageStore, at, loc>>
      BY <1>5 DEF Begins, BeginImport, BeginDelete, BeginJob
  <2>2. PICK x : job[j] = NoJob /\ x = job'[j]
      BY <1>5, BeginShape DEF Typed, JobType, JobFits
  <2>3. \A key : ~Opens(j, key)
      BY <2>2 DEF Opens, NoJob
  <2>4. \A i \in Job \ {j} : /\ job'[i].pool = job[i].pool /\ job'[i].next = job[i].next
                              /\ job'[i].work = job[i].work /\ job'[i].pics = job[i].pics
    <3>1. TAKE i \in Job \ {j}
    <3>2. job[i] \in JobRec /\ job'[i] = [job[i] EXCEPT !.alone = job'[i].alone]
        BY <1>5, BeginShape, JobFields DEF Typed
    <3>3. PICK b : job'[i] = [job[i] EXCEPT !.alone = b]
        BY <3>2
    <3>. QED
        BY <3>2, <3>3 DEF JobRec
  <2>5. \A i \in Job \ {j} : \A key : Opens(i, key)' <=> Opens(i, key)
      BY <2>4 DEF Opens, UploadKey
  <2>6. PageFilesFilled'
      BY <2>1, <2>3, <2>5 DEF FilesInv, PageFilesFilled
  <2>7. NotYet'
    <3>1. \A k \in DOMAIN job'[j].pool : job'[j].pool[k] = "none"
      <4>1. NewImport(job'[j]) \/ NewDelete(job'[j])
          BY <1>5, BeginShape DEF Typed
      <4>2. DOMAIN <<>> = {}
          OBVIOUS
      <4>. QED
          BY <4>1, <4>2 DEF NewImport, NewDelete
    <3>. QED
        BY <2>4, <3>1 DEF FilesInv, NotYet
  <2>. QED
      BY <1>1, <2>1, <2>6, <2>7 DEF FilesInv
<1>6. ASSUME NEW j \in Job, JobStep(j) PROVE FilesInv'
  <2>1. UNCHANGED <<half, cut, at, loc>>
      BY <1>6, JobStepShape DEF Typed, OnlyJobs
  <2>. QED
      BY <1>1, <1>6, <2>1, JobFills DEF FilesInv, Typed
<1>7. CASE SweepStep
  <2>1. /\ UNCHANGED <<half, cut, at, loc>>
        /\ pageHalf' \subseteq pageHalf /\ \A h \in pageHalf' : h[1] \in pageCut => h[1] \in pageCut'
      BY <1>7
      DEF SweepStep, BeginSweep, ListDirectory, FindOrphans, DeleteOrphan, EndSweep, SweepDies,
          OnlySweep, DeleteKey, PageSettled
  <2>2. \A j \in Job : /\ job'[j].pool = job[j].pool /\ job'[j].next = job[j].next
                       /\ job'[j].work = job[j].work /\ job'[j].pics = job[j].pics
    <3>1. CASE BeginSweep
        BY <3>1 DEF BeginSweep, Typed, JobType, JobRec
    <3>2. CASE ~BeginSweep
        BY <1>7, <3>2, SweepShape DEF Typed
    <3>. QED
        BY <3>1, <3>2
  <2>. QED
      BY <1>1, <1>2, <2>1, <2>2 DEF FilesInv
<1>8. CASE UNCHANGED storeVars
    BY <1>1, <1>2, <1>8 DEF FilesInv, storeVars, vars, jobVars
<1>. QED
    BY <1>3, <1>4, <1>5, <1>6, <1>7, <1>8, Steps DEF jobVars

LEMMA FilesInvariance == ASSUME PlainIds PROVE MediaSpec => [](IInv /\ FilesInv)
<1>1. MediaInit => FilesInv
    BY DEF MediaInit, Init, FilesInv, FilesFilled, PageFilesFilled, NotYet, NoJob
<1>2. IInv /\ FilesInv /\ [MediaNext]_storeVars => FilesInv'
    BY NextFills DEF IInv, Typed, JobInv
<1>. QED
    BY <1>1, <1>2, Invariance, PTL DEF MediaSpec

-----------------------------------------------------------------------------
(* Theorems.                                                               *)

\* Whatever uploads fail, processes die or imports of one work race, the key of
\* every page row is in the media store, unless a deletion of the work or a
\* sweep ran together with another job on it (ingest.py stores the pages before
\* it writes the rows, works.py drops the rows before it deletes the objects);
\* and the object is whole, unless it is just being filled in the local backend,
\* or a put was cut short there and left a file that exists() is content with.
THEOREM PagesAreStored == ASSUME PlainIds PROVE MediaSpec => []PublishedIsStored
<1>1. ASSUME IInv, FilesInv PROVE PublishedIsStored
  <2>1. ASSUME NEW w \in Work \ clash, NEW p \in shown[w]
        PROVE  <<w, p>> \in pageObjects /\ <<w, p>> \in WholePages \cup Filling \cup pageCut
    <3>1. <<w, p>> \in pageObjects
        BY <1>1, <2>1 DEF IInv, JobInv, PagesStay
    <3>2. CASE \E h \in pageHalf : h[1] = <<w, p>>
      <4>1. PICK h \in pageHalf : h[1] = <<w, p>>
          BY <3>2
      <4>2. h[2] \in Job /\ (<<w, p>> \in pageCut \/ Opens(h[2], <<w, p>>))
          BY <1>1, <4>1 DEF FilesInv, PageFilesFilled
      <4>3. Opens(h[2], <<w, p>>) => <<w, p>> \in OpenKeys(h[2])
          BY DEF Opens, OpenKeys, Pages
      <4>. QED
          BY <3>1, <4>2, <4>3 DEF Filling
    <3>. QED
        BY <3>1, <3>2 DEF WholePages
  <2>. QED
      BY <2>1 DEF PublishedIsStored
<1>. QED
    BY <1>1, FilesInvariance, PTL

\* When nothing runs and nothing failed or raced since the last complete sweep,
\* the media store holds only what rows name: deletions of items and works take
\* their objects along, and the sweep takes the rest.
THEOREM NoOrphans == ASSUME PlainIds PROVE MediaSpec => []NothingOrphaned
<1>1. ASSUME IInv, Quiet, "litter" \notin trouble PROVE Store \subseteq Expected
  <2>1. ASSUME NEW p \in objects PROVE <<"fanart", p>> \in Expected
    <3>1. p \in Used
        BY <1>1 DEF IInv, FanartInv, NoFanartLitter, Claimed, Quiet, AllIdle
    <3>. QED
        BY <3>1 DEF Expected
  <2>2. ASSUME NEW k \in pageObjects PROVE k \in Expected
    <3>1. PICK w \in Work, p \in Picture : k = <<w, p>>
        BY <1>1 DEF IInv, JobType
    <3>2. \A j \in Job : ~Holds(job[j], w, p)
        BY <1>1 DEF Quiet, Busy, Holds
    <3>3. p \in shown[w]
        BY <1>1, <2>2, <3>1, <3>2 DEF IInv, JobInv, NoPageLitter
    <3>4. k = ComicPageKey(w, p)
        BY <3>1 DEF ComicPageKey, PlainIds
    <3>. QED
        BY <3>3, <3>4 DEF Expected
  <2>. QED
      BY <2>1, <2>2 DEF Store
<1>2. IInv => NothingOrphaned
    BY <1>1 DEF NothingOrphaned
<1>. QED
    BY <1>2, Invariance, PTL

\* As long as fanart requests and sweeps did not overlap, the key of every
\* fanart item's picture is in the media store, also when another item of the
\* same picture was deleted; and the object is whole, unless a put of it to the
\* local backend was cut short.
THEOREM ItemsKeepMedia == ASSUME PlainIds PROVE MediaSpec => []ItemsHaveMedia
<1>1. ASSUME IInv, FilesInv, AllIdle PROVE \A h \in half : h[1] \in cut
    BY <1>1 DEF FilesInv, FilesFilled, Fills, AllIdle
<1>2. IInv /\ FilesInv => ItemsHaveMedia
    BY <1>1 DEF IInv, FanartInv, NothingLost, ItemsHaveMedia, Whole
<1>. QED
    BY <1>2, FilesInvariance, PTL

\* An upload of a picture that runs alone to its end leaves the key of the
\* picture in the store, whatever requests, jobs and sweeps did to it before;
\* and the picture whole, unless a put of it to the local backend was cut short.
THEOREM UploadsHeal == ASSUME PlainIds PROVE MediaSpec => []UploadHeals
<1>1. ASSUME IInv, FilesInv, AllIdle PROVE \A h \in half : h[1] \in cut
    BY <1>1 DEF FilesInv, FilesFilled, Fills, AllIdle
<1>2. IInv /\ FilesInv => UploadHeals
    BY <1>1 DEF IInv, FanartInv, UploadStores, UploadHeals, Whole
<1>. QED
    BY <1>2, FilesInvariance, PTL

\* However uploads, deletions and gallery forms with stale selections overlap
\* and fail, tags and gallery places belong to items that are there; for any
\* work ids.
THEOREM NoDanglingRows == MediaSpec => []NothingDangles
<1>. DEFINE Inv == Typed /\ NothingDangles
<1>1. MediaInit => Inv
    BY InitTyped DEF MediaInit, Init, NothingDangles
<1>2. ASSUME Inv, [MediaNext]_storeVars PROVE Inv'
  <2>. SUFFICES NothingDangles'
      BY <1>2, NextTyped
  <2>1. ASSUME UNCHANGED <<items, tagged, gallery>> PROVE NothingDangles'
      BY <1>2, <2>1 DEF NothingDangles, Live
  <2>2. ASSUME NEW r \in Request, Step(r) PROVE NothingDangles'
      BY <1>2, <2>2, StepDangles DEF Typed
  <2>3. ASSUME NEW r \in Request, NEW q \in AnyForm, NEW skip \in BOOLEAN, BeginRequest(r, q, skip)
        PROVE  NothingDangles'
      BY <2>1, <2>3 DEF BeginRequest, Begin, dbVars
  <2>4. ASSUME NEW j \in Job, NEW w \in Work, Begins(j, w) PROVE NothingDangles'
      BY <1>2, <2>1, <2>4, BeginShape DEF Typed, dbVars
  <2>5. ASSUME NEW j \in Job, JobStep(j) PROVE NothingDangles'
      BY <1>2, <2>1, <2>5, JobStepShape DEF Typed, OnlyJobs, dbVars
  <2>6. CASE SweepStep
      BY <1>2, <2>1, <2>6, SweepShape DEF Typed, dbVars
  <2>7. CASE UNCHANGED storeVars
      BY <2>1, <2>7 DEF storeVars, vars, dbVars
  <2>. QED
      BY <1>2, <2>2, <2>3, <2>4, <2>5, <2>6, <2>7, Steps
<1>3. Inv => NothingDangles
    OBVIOUS
<1>. QED
    BY <1>1, <1>2, <1>3, PTL DEF MediaSpec
==============================================================================
