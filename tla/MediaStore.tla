------------------------------ MODULE MediaStore ------------------------------
(***************************************************************************)
(* The media store with all that writes and deletes in it: the fanart      *)
(* requests of FanartMedia, comic imports, deletions of comics, and the    *)
(* script that sweeps up objects nobody refers to.                         *)
(*                                                                         *)
(* An import hands its pages to a pool of upload threads, waits when too   *)
(* many are pending, and writes the rows once all are stored.  An object   *)
(* of a comic is named by the work and the hash of its bytes.  The sweep   *)
(* lists the store directory by directory, then reads the database, then   *)
(* deletes what it saw and did not find.                                   *)
(*                                                                         *)
(* The page editor, versions and downloads of a comic are in ComicPages    *)
(* and ComicDownloads; thumbnails go the way of the images.                *)
(***************************************************************************)
EXTENDS FanartMedia, Sequences, Functions, FiniteSetsExt

CONSTANTS Job,         \* threads of requests about comics
          Work,        \* work ids, chosen by the archives
          Quote,       \* Quote[w]: urllib's quote of w, w itself for a plain id
          Mixes,       \* what runs together, see Mix
          MaxPending   \* max(8, 4 * workers) in the code

\* What may run: fanart requests, jobs and sweeps started at most, the lengths
\* of the archives, media_bunny_upload_workers and media_bunny_skip_exists_check
\* (1 and FALSE for the local backend), whether a sweep may have a limit, and
\* the backends, by whether they are local.
Mix == [ops : 0..MaxOps, jobs : Nat, sweeps : Nat, lengths : SUBSET Nat,
        workers : 1..MaxPending, skips : SUBSET BOOLEAN, limit : BOOLEAN,
        locals : SUBSET BOOLEAN]

ASSUME MediaAssumption ==
    /\ NoPicture \notin Work /\ "fanart" \notin Work
    /\ DOMAIN Quote = Work
    /\ Mixes \subseteq Mix
    /\ MaxPending \in Nat \ {0}

VARIABLES
    mix,      \* the mix of this behaviour
    pageObjects, \* the keys of comics that exist, as <<work, picture>>
    pageHalf, \* <<k, j>>: the file of k was last truncated by j, and not filled since
    pageCut,  \* history: the keys of which a put was cut short
    alive,    \* the works that have a row
    shown,    \* shown[w]: the pictures the page rows of w name
    job,      \* job[j]: see NoJob
    jobs,     \* jobs started
    sweep,    \* the sweep, see NoSweep
    sweeps,   \* sweeps started
    clash     \* history: works whose media a deletion or a sweep may have
              \* taken from under another job

comicRows == <<alive, shown>>
pageStore == <<pageObjects, pageHalf, pageCut>>
jobVars   == <<pageStore, comicRows, job, jobs>>
sweepVars == <<sweep, sweeps>>
storeVars == <<vars, mix, jobVars, sweepVars, clash>>

\* skip is media_bunny_skip_exists_check, next the next page to submit,
\* pool[k] where the upload of page k is, keys the pictures to delete; alone
\* (history) tells whether nothing ran that could disturb the job.
NoJob == [step |-> "idle", kind |-> "none", work |-> NoPicture, pics |-> <<>>, skip |-> FALSE,
          next |-> 1, pool |-> <<>>, broken |-> FALSE, keys |-> {}, alone |-> FALSE]

\* todo: directories to list; seen: keys listed; doomed: keys to delete; whole
\* and alone (history): nothing was left out or failed, nothing ran meanwhile.
NoSweep == [step |-> "idle", todo |-> {}, seen |-> {}, doomed |-> {},
            whole |-> FALSE, alone |-> FALSE]

MediaInit ==
    /\ Init
    /\ mix \in Mixes /\ local \in mix.locals
    /\ pageObjects = {} /\ pageHalf = {} /\ pageCut = {}
    /\ alive = {} /\ shown = [w \in Work |-> {}]
    /\ job = [j \in Job |-> NoJob] /\ jobs = 0
    /\ sweep = NoSweep /\ sweeps = 0
    /\ clash = {}

Archives == UNION {[1..n -> Picture] : n \in mix.lengths}

Busy     == {j \in Job : job[j].step # "idle"}
Sweeping == sweep.step # "idle"
On(w)    == {j \in Busy : job[j].work = w}

-----------------------------------------------------------------------------
(* The store: MediaService over either backend.                            *)

Exists(k) == k \in pageObjects

PageSettled(k) == {h \in pageHalf : h[1] # k}

\* The object store: a key and all its bytes at once.
PutBytes(k) == pageObjects' = pageObjects \cup {k} /\ UNCHANGED <<pageHalf, pageCut>>

\* The local backend opens the file of that name, empty ...
OpenFile(k, j) ==
    /\ pageObjects' = pageObjects \cup {k}
    /\ pageHalf' = PageSettled(k) \cup {<<k, j>>}
    /\ UNCHANGED pageCut

\* ... and fills it, as Write does ...
FillFile(k, j) ==
    /\ \/ pageHalf' = PageSettled(k)
       \/ <<k, j>> \notin pageHalf /\ UNCHANGED pageHalf
    /\ UNCHANGED <<pageObjects, pageCut>>

\* ... or does not get to it.
LeaveFiles(keys) == pageCut' = pageCut \cup keys /\ UNCHANGED <<pageObjects, pageHalf>>

\* The object store answers a missing key with an error, the file system
\* ignores it; both leave the rest alone.
DeleteKey(k) ==
    /\ pageObjects' = pageObjects \ {k}
    /\ pageHalf' = PageSettled(k)
    /\ pageCut' = pageCut \ {k}

\* comic_page_key quotes the work id, which an import does not when it stores.
ComicPageKey(w, p) == <<Quote[w], p>>

-----------------------------------------------------------------------------
(* Comic jobs.                                                             *)

Become(j, r) == job' = [job EXCEPT ![j] = r]
StopJob(j)   == Become(j, NoJob)

Littered == trouble' = trouble \cup {"litter"}

OnlyJobs == UNCHANGED <<fanartStore, dbVars, at, loc, ops, solo, mix, jobs, sweeps>>

\* A job on w arrives.  A deletion clashes with every other job on the work,
\* and a sweep that runs with everything.
BeginJob(j, w, r) ==
    LET deletes == r.kind = "delete" \/ \E i \in On(w) : job[i].kind = "delete"
        clashes == Sweeping \/ (deletes /\ On(w) # {})
    IN  /\ job[j].step = "idle"
        /\ jobs < mix.jobs
        /\ jobs' = jobs + 1
        /\ job' = [i \in Job |->
              IF i = j THEN [r EXCEPT !.work = w, !.alone = ~clashes]
              ELSE [job[i] EXCEPT !.alone = @ /\ ~(i \in On(w) /\ deletes)]]
        /\ clash' = IF clashes THEN clash \cup {w} ELSE clash
        /\ trouble' = IF clashes THEN trouble \cup {"litter"} ELSE trouble
        /\ sweep' = [sweep EXCEPT !.alone = FALSE]
        /\ UNCHANGED <<fanartStore, dbVars, at, loc, ops, solo, mix, pageStore, comicRows, sweeps>>

BeginImport(j, w, pics, skip) ==
    /\ skip => ~local
    /\ BeginJob(j, w, [NoJob EXCEPT !.step = "store", !.kind = "import", !.pics = pics,
                                    !.skip = skip, !.pool = [k \in DOMAIN pics |-> "none"]])

\* delete_work begins with get_work.
BeginDelete(j, w) ==
    /\ w \in alive
    /\ BeginJob(j, w, [NoJob EXCEPT !.step = "list", !.kind = "delete"])

-----------------------------------------------------------------------------
(* ingest_cbz and its pool.                                                *)

Pages(j, states) == {k \in DOMAIN job[j].pool : job[j].pool[k] \in states}
Unfinished == {"queued", "running", "open"}
Pending(j) == Pages(j, Unfinished \cup {"ok", "bad"})

\* With one worker there is no pool: a page is stored before the next is read.
Workers == IF local THEN 1 ELSE mix.workers
PendingLimit == IF Workers = 1 THEN 1 ELSE MaxPending

\* The loop over the members of the archive.
NextPage(j) == job[j].step = "store" /\ job[j].next \in DOMAIN job[j].pics

\* _store_content_addressed_media: the encoded page is handed to the pool.
Submit(j) ==
    /\ NextPage(j)
    /\ Cardinality(Pending(j)) < PendingLimit
    /\ Become(j, [job[j] EXCEPT !.pool[job[j].next] = "queued", !.next = @ + 1])
    /\ OnlyJobs /\ UNCHANGED <<pageStore, comicRows, trouble, sweep, clash>>

\* Seeded fault for Taken: the result of an upload that is done is not asked for.
FaultTaken(j) ==
    [job[j] EXCEPT !.pool = [k \in DOMAIN @ |-> IF @[k] \in {"ok", "bad"} THEN "taken" ELSE @[k]]]

\* The uploads that are done leave the pending ones; result() raises what one
\* of them raised.
Taken(j) ==
    LET bad == Pages(j, {"bad"}) # {} IN
    [job[j] EXCEPT !.pool = [k \in DOMAIN @ |-> IF @[k] \in {"ok", "bad"} THEN "taken" ELSE @[k]],
                   !.broken = bad,
                   !.step = IF bad THEN "shutdown" ELSE @]

\* _drain_pending_uploads.
Drain(j) ==
    /\ job[j].step = "store"
    /\ Cardinality(Pending(j)) >= PendingLimit
    /\ Pages(j, {"ok", "bad"}) # {}
    /\ Become(j, Taken(j))
    /\ OnlyJobs /\ UNCHANGED <<pageStore, comicRows, trouble, sweep, clash>>

\* Of the uploads not taken yet, none has failed.
AllStored(j) == Pages(j, {"bad"}) = {}

\* _wait_for_pending_uploads after the last page.
WaitAll(j) ==
    /\ job[j].step = "store"
    /\ job[j].next > Len(job[j].pics)
    /\ Pages(j, Unfinished) = {}
    /\ Become(j, [job[j] EXCEPT !.step = "shutdown", !.broken = ~AllStored(j)])
    /\ OnlyJobs /\ UNCHANGED <<pageStore, comicRows, trouble, sweep, clash>>

\* A page is blocked or cannot be decoded: the pages behind it are not read.
Spoil(j) ==
    /\ NextPage(j)
    /\ Become(j, [job[j] EXCEPT !.step = "shutdown", !.broken = TRUE])
    /\ OnlyJobs /\ UNCHANGED <<pageStore, comicRows, trouble, sweep, clash>>

\* The executor is shut down in any case, and finishes what it was handed.
ShutDown(j) ==
    /\ job[j].step = "shutdown"
    /\ Pages(j, Unfinished) = {}
    /\ IF job[j].broken
       THEN StopJob(j) /\ Littered
       ELSE Become(j, [job[j] EXCEPT !.step = "upsert"]) /\ UNCHANGED trouble
    /\ OnlyJobs /\ UNCHANGED <<pageStore, comicRows, sweep, clash>>

\* upsert_work.
UpsertRow(j) ==
    /\ job[j].step = "upsert"
    /\ alive' = alive \cup {job[j].work}
    /\ Become(j, [job[j] EXCEPT !.step = "rows"])
    /\ OnlyJobs /\ UNCHANGED <<pageStore, shown, trouble, sweep, clash>>

\* replace_work_pages.  The objects of pages that are replaced stay.
ReplaceRows(j) ==
    LET w == job[j].work
        new == Range(job[j].pics)
    IN  /\ job[j].step = "rows"
        /\ w \in alive
        /\ shown' = [shown EXCEPT ![w] = new]
        /\ IF shown[w] \subseteq new THEN UNCHANGED trouble ELSE Littered
        /\ clash' = IF job[j].alone /\ On(w) = {j} THEN clash \ {w} ELSE clash
        /\ StopJob(j)
        /\ OnlyJobs /\ UNCHANGED <<pageStore, alive, sweep>>

\* IntegrityError: the work was deleted since it was upserted.
ReplaceRowsFails(j) ==
    /\ job[j].step = "rows"
    /\ job[j].work \notin alive
    /\ StopJob(j) /\ Littered
    /\ OnlyJobs /\ UNCHANGED <<pageStore, comicRows, sweep, clash>>

-----------------------------------------------------------------------------
(* The threads of the pool: _upload_media_key.                             *)

UploadKey(j, k) == <<job[j].work, job[j].pics[k]>>

Uploaded(j, k, result) == Become(j, [job[j] EXCEPT !.pool[k] = result])

\* A thread takes the upload that has waited longest and asks whether the
\* object is there, unless the check is switched off.
StartUpload(j, k) ==
    LET there == ~job[j].skip /\ Exists(UploadKey(j, k)) IN
    /\ k \in Pages(j, {"queued"}) /\ \A i \in Pages(j, {"queued"}) : k <= i
    /\ Cardinality(Pages(j, {"running", "open"})) < Workers
    /\ Uploaded(j, k, IF there THEN "ok" ELSE "running")
    /\ OnlyJobs /\ UNCHANGED <<pageStore, comicRows, trouble, sweep, clash>>

OpenUpload(j, k) ==
    /\ local
    /\ k \in Pages(j, {"running"})
    /\ OpenFile(UploadKey(j, k), j)
    /\ Uploaded(j, k, "open")
    /\ OnlyJobs /\ UNCHANGED <<comicRows, trouble, sweep, clash>>

FinishUpload(j, k) ==
    /\ IF local THEN k \in Pages(j, {"open"}) /\ FillFile(UploadKey(j, k), j)
       ELSE k \in Pages(j, {"running"}) /\ PutBytes(UploadKey(j, k))
    /\ Uploaded(j, k, "ok")
    /\ OnlyJobs /\ UNCHANGED <<comicRows, trouble, sweep, clash>>

\* Time-out or error status, when the object may have arrived all the same; the
\* file cannot be opened, or the disk is full before it is filled.
FailUpload(j, k) ==
    /\ \/ ~local /\ k \in Pages(j, {"running"}) /\ PutBytes(UploadKey(j, k))
       \/ k \in Pages(j, {"running"}) /\ UNCHANGED pageStore
       \/ k \in Pages(j, {"open"}) /\ LeaveFiles({UploadKey(j, k)})
    /\ Uploaded(j, k, "bad")
    /\ OnlyJobs /\ UNCHANGED <<comicRows, trouble, sweep, clash>>

-----------------------------------------------------------------------------
(* delete_work.                                                            *)

\* Seeded fault for ListPages: the page rows are read when they are gone.
FaultListPages(j) ==
    /\ job[j].step = "list"
    /\ Become(j, [job[j] EXCEPT !.step = "drop"])
    /\ OnlyJobs /\ UNCHANGED <<pageStore, comicRows, trouble, sweep, clash>>

\* list_work_page_rows, in a transaction of its own.
ListPages(j) ==
    /\ job[j].step = "list"
    /\ Become(j, [job[j] EXCEPT !.step = "drop", !.keys = shown[job[j].work]])
    /\ OnlyJobs /\ UNCHANGED <<pageStore, comicRows, trouble, sweep, clash>>

\* The row goes and the rows of the pages cascade; a work that is gone by now
\* leaves its media to whoever deleted it.
DropRow(j) ==
    LET w == job[j].work IN
    /\ job[j].step = "drop"
    /\ alive' = alive \ {w}
    /\ shown' = [shown EXCEPT ![w] = {}]
    /\ IF w \in alive THEN Become(j, [job[j] EXCEPT !.step = "keys"]) ELSE StopJob(j)
    /\ OnlyJobs /\ UNCHANGED <<pageStore, trouble, sweep, clash>>

\* One object after the other; a failure is swallowed.
DropKey(j, p) ==
    /\ job[j].step = "keys"
    /\ p \in job[j].keys
    /\ Become(j, [job[j] EXCEPT !.keys = @ \ {p}])
    /\ \/ DeleteKey(ComicPageKey(job[j].work, p)) /\ UNCHANGED trouble
       \/ UNCHANGED pageStore /\ Littered
    /\ OnlyJobs /\ UNCHANGED <<comicRows, sweep, clash>>

EndDelete(j) ==
    /\ job[j].step = "keys"
    /\ job[j].keys = {}
    /\ StopJob(j)
    /\ OnlyJobs /\ UNCHANGED <<pageStore, comicRows, trouble, sweep, clash>>

\* The keys whose files j has open.
OpenKeys(j) == {UploadKey(j, k) : k \in Pages(j, {"open"})}

\* The process of the job dies, or the database is locked.
Die(j) ==
    /\ j \in Busy
    /\ StopJob(j) /\ Littered
    /\ LeaveFiles(OpenKeys(j))
    /\ OnlyJobs /\ UNCHANGED <<comicRows, sweep, clash>>

JobStep(j) ==
    \/ Submit(j) \/ Drain(j) \/ WaitAll(j) \/ Spoil(j) \/ ShutDown(j)
    \/ UpsertRow(j) \/ ReplaceRows(j) \/ ReplaceRowsFails(j)
    \/ \E k \in DOMAIN job[j].pool : StartUpload(j, k) \/ OpenUpload(j, k)
                                   \/ FinishUpload(j, k) \/ FailUpload(j, k)
    \/ ListPages(j) \/ DropRow(j) \/ EndDelete(j)
    \/ \E p \in job[j].keys : DropKey(j, p)
    \/ Die(j)

-----------------------------------------------------------------------------
(* cleanup_orphaned_bunny_media.py.                                        *)

Areas == (IF mix.ops > 0 THEN {"fanart"} ELSE {}) \cup (IF mix.jobs > 0 THEN Work ELSE {})

Store == {<<"fanart", p>> : p \in objects} \cup pageObjects

\* _expected_media_keys_from_db: what rows of pages and of fanart items name.
\* Each of its queries decides about keys of one area only.
Expected == {<<"fanart", p>> : p \in Used} \cup UNION {{ComicPageKey(w, p) : p \in shown[w]} : w \in Work}

OnlySweep == UNCHANGED <<dbVars, at, loc, ops, comicRows, jobs, mix, sweeps>>

\* The script is started; everything that runs is disturbed by it.
BeginSweep ==
    LET alone == AllIdle /\ Busy = {} IN
    /\ ~Sweeping /\ ~local
    /\ sweeps < mix.sweeps
    /\ sweeps' = sweeps + 1
    /\ sweep' = [NoSweep EXCEPT !.step = "list", !.todo = Areas \X Picture,
                                !.whole = TRUE, !.alone = alone]
    /\ job' = [j \in Job |-> [job[j] EXCEPT !.alone = FALSE]]
    /\ clash' = clash \cup {job[j].work : j \in Busy}
    /\ IF AllIdle THEN UNCHANGED <<solo, trouble>>
       ELSE solo' = NoReq /\ trouble' = {"lost", "litter"}
    /\ UNCHANGED <<fanartStore, dbVars, at, loc, ops, pageStore, comicRows, jobs, mix>>

\* _list_directory for the directory of one hash, which holds one object or
\* none; a directory that cannot be listed is passed over.
ListDirectory(k) ==
    /\ sweep.step = "list"
    /\ k \in sweep.todo
    /\ \/ sweep' = [sweep EXCEPT !.todo = @ \ {k}, !.seen = @ \cup ({k} \cap Store)]
       \/ sweep' = [sweep EXCEPT !.todo = @ \ {k}, !.whole = FALSE]
    /\ OnlySweep /\ UNCHANGED <<fanartStore, pageStore, job, solo, trouble, clash>>

\* The orphans are what was listed and is not expected now; with a limit, a
\* part of them.
FindOrphans ==
    LET orphans == sweep.seen \ Expected IN
    /\ sweep.step = "list"
    /\ sweep.todo = {}
    /\ \E part \in IF mix.limit THEN SUBSET orphans ELSE {orphans} :
          sweep' = [sweep EXCEPT !.step = "delete", !.seen = {}, !.doomed = part,
                                 !.whole = @ /\ part = orphans]
    /\ OnlySweep /\ UNCHANGED <<fanartStore, pageStore, job, solo, trouble, clash>>

\* _delete_key; an object that is gone already counts as deleted.
DeleteOrphan(k) ==
    /\ sweep.step = "delete"
    /\ k \in sweep.doomed
    /\ \/ /\ sweep' = [sweep EXCEPT !.doomed = @ \ {k}]
          /\ objects' = IF k[1] = "fanart" THEN objects \ {k[2]} ELSE objects
          /\ DeleteKey(k)
          /\ UNCHANGED <<local, half, cut>>
       \/ /\ sweep' = [sweep EXCEPT !.doomed = @ \ {k}, !.whole = FALSE]
          /\ UNCHANGED <<fanartStore, pageStore>>
    /\ OnlySweep /\ UNCHANGED <<job, solo, trouble, clash>>

\* When it ran alone and nothing was left out, no litter is left.
EndSweep ==
    /\ sweep.step = "delete"
    /\ sweep.doomed = {}
    /\ sweep' = NoSweep
    /\ trouble' = IF sweep.alone /\ sweep.whole THEN trouble \ {"litter"} ELSE trouble
    /\ OnlySweep /\ UNCHANGED <<fanartStore, pageStore, job, solo, clash>>

SweepDies ==
    /\ Sweeping
    /\ sweep' = NoSweep
    /\ OnlySweep /\ UNCHANGED <<fanartStore, pageStore, job, solo, trouble, clash>>

SweepStep ==
    \/ BeginSweep \/ FindOrphans \/ EndSweep \/ SweepDies
    \/ \E k \in sweep.todo : ListDirectory(k)
    \/ \E k \in sweep.doomed : DeleteOrphan(k)

-----------------------------------------------------------------------------
\* A fanart request arrives.
BeginRequest(r, q, skip) ==
    /\ ops < mix.ops
    /\ Begin(r, q, skip, AllIdle /\ ~Sweeping)
    /\ sweep' = [sweep EXCEPT !.alone = FALSE]
    /\ UNCHANGED <<mix, jobVars, sweeps, clash>>

Quiet == AllIdle /\ Busy = {} /\ ~Sweeping

AllDone == Quiet /\ ops = mix.ops /\ jobs = mix.jobs /\ sweeps = mix.sweeps /\ UNCHANGED storeVars

MediaNext ==
    \/ \E r \in Request : \E q \in Uploads : \E skip \in SkipChecks : BeginRequest(r, q, skip)
    \/ \E r \in Request : \E q \in Deletions \cup GalleryForms : BeginRequest(r, q, FALSE)
    \/ \E r \in Request : Step(r) /\ UNCHANGED <<mix, jobVars, sweepVars, clash>>
    \/ \E j \in Job, w \in Work, pics \in Archives, skip \in mix.skips : BeginImport(j, w, pics, skip)
    \/ \E j \in Job, w \in Work : BeginDelete(j, w)
    \/ \E j \in Job : JobStep(j)
    \/ SweepStep
    \/ AllDone

MediaSpec == MediaInit /\ [][MediaNext]_storeVars

-----------------------------------------------------------------------------
(* Properties; FanartMedia has those about fanart alone.                   *)

\* The comic objects that are all there, and those being filled.
WholePages == pageObjects \ {h[1] : h \in pageHalf}
Filling    == UNION {OpenKeys(j) : j \in Job}

\* Whatever fails and however imports of one work race: the key of every page
\* that has a row exists in the store, at every moment, unless a deletion of
\* the work or a sweep ran together with another job on it.  An import that
\* ran alone repairs even that.  In particular a sweep that runs alone deletes
\* only what is no longer referenced.
\* And the object is the whole page, unless another import is just filling the
\* file in the local backend, or a put of it was cut short there: an import
\* that finds such a file publishes it.
PublishedIsStored ==
    \A w \in Work \ clash : \A p \in shown[w] :
        /\ <<w, p>> \in pageObjects
        /\ <<w, p>> \in WholePages \cup Filling \cup pageCut

\* When nothing runs and nothing has failed, raced or been replaced since the
\* last sweep that was alone and complete: the store holds nothing that no row
\* names.  Such a sweep removes all litter.
NothingOrphaned == Quiet /\ "litter" \notin trouble => Store \subseteq Expected
=============================================================================
