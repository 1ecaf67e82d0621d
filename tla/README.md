# FANIC in TLA+

FANIC is a self-hosted archive for comics and fanart: a Python web application
(file-routed handlers on gunicorn's synchronous workers), one SQLite database, a
media store, image moderation in the process or in a sidecar, a command line for
backups, and a little TypeScript in the browser.  This directory holds models of
its stateful parts, the TLC runs that check them, and proofs of their safety properties.
Paths below are relative to `src/fanic/` in the repository unless they say
otherwise.

1. [Inventory](#1-inventory)
2. [Modules](#2-modules)
3. [Runs](#3-runs)
4. [What the code does differently from what it says](#4-what-the-code-does-differently-from-what-it-says)
5. [Proofs](#5-proofs)
6. [Assumptions and abstractions](#6-assumptions-and-abstractions)
7. [Plan](#7-plan)

## 1. Inventory

The program has no state machine of its own: its state lives in module-level
dictionaries of each worker process, in the database, in the media store and in
files.  What makes it hard is that handlers are sequences of short transactions
on that state, run by several workers and background threads at once.

| Component | State | Operations | Hard behaviour | Correct when | Module |
|---|---|---|---|---|---|
| Comic ingest queue (`cylinder_sites/common/rate_limit.py`) | `active`, `waiting`, a condition variable | begin (with deadline and callback), end | wake-ups, time-outs and newcomers in any order | the limit holds, counters are exact, no wake-up is lost, everybody is answered | `IngestQueue` |
| Upload admission (same file; `api/comic-ingest`, `comic/upload`, `comic` POST handlers) | sessions in flight and attempt times per user | begin and end a session, prune | early returns between two acquisitions, hand-over to a thread, pruning of live entries | each session and slot belongs to a request in progress | `UploadAdmission` |
| Comic pages, chapters, versions (`ingest.py`, `ingest_editor_service.py`, `repository/works.py`) | rows of `works`, `pages`, `work_chapters`, `work_chapter_pages`; version manifests | import; add, replace, delete, move, reorder pages; chapters; delete work | up to ten transactions per operation, nothing locks the work between them | chapters and counts follow the pages; a mess is repaired by the next operation | `ComicPages` |
| Downloads (`api/comic.ex.get.py`) | cached archives with metadata files, copies in the media store | export, look up, publish | a cache keyed by version, files written in place | a download gives the comic as it is, whole | `ComicDownloads` |
| Ratings, review queue, reports (`comic.ex.post.py`, `moderation_queue.py`, `repository/social.py`, `admin/`) | `works.rating`, `moderation_review_queue`, `dmca_reports` | metadata form, page uploads with auto-elevation, reviews, reports and promotions | stale copies written back, two admins on one item | the explicit lock and the moderation floor hold, an item is reviewed once | `WorkReview` |
| Ingest progress (`ingest_progress.py`, `frontend/comic-upload-progress.ts`) | per worker memory, one shared file per token, what the page shows | set, get, prune, poll | cache against file, unlinking what was just replaced, overtaking answers | answers are current, the page never goes back | `IngestProgress` |
| Fanart (`fanart.py`, `repository/fanart.py`) | `fanart_items` with tags, galleries; media objects | upload, delete, fill and drop galleries | objects shared by content and counted only by the table | every item has its object, an upload restores a lost one, no orphan when nothing fails | `FanartMedia` |
| Media store (`media.py`, import pool in `ingest.py`, `scripts/cleanup_orphaned_bunny_media.py`) | a set of keys; local files that may be broken off | put, delete, list | a pool of upload threads, local files written in place, deletion after the row, a sweep that reads two worlds in turn | the keys that rows name exist, whole unless a local put was cut short, and in the end nothing else | `MediaStore` |
| Accounts (`repository/users.py`, sign-in callback, onboarding, `admin/users`) | `users`, `auth_identities`, cookies | first and later sign-in, onboarding, profile, create, role, (de)activate, delete | whole rows written back that were read transactions earlier | nobody is promoted unmade, a demotion is undone only by sign-ins it overtook, an identity returns to its account | `Accounts` |
| Search index, tags, metadata files (`db.py`, `repository/works.py`, `repository/tags.py`) | two FTS tables, use counts, `metadata.toml` | SQL triggers, rebuild, replace tags, rewrite the file | triggers on some tables and not on others, counts that only grow | derived data agree with the rows | `Catalogue` |
| Kudos, comments, notifications, bookmarks, reading progress (`repository/works.py`, `users.py`, `fanart.py`) | one table each | insert, mark, delete | several transactions per click, a deletion between any two | told once, gone with the work | `Catalogue`, `Community` |
| Image moderation (`moderation.py`, `moderation_sidecar.py`, `style_classifier.py`) | models loaded per worker, cool-downs | classify, score, add up | time-outs, late answers, failed loads, recycled workers | what is published was judged by the thresholds if its probabilities were read; a failed load is not for good | `Moderation` |
| Database file, backup, restore (`db.py`, `main.py`) | file and write-ahead log, data directory, archives | connect, checkpoint, back up, restore | copies while a writer runs, deletion before validation | a restore leaves the old data or the new | `Storage` |
| Sign-in lockout, POST rate limit; sessions, CSRF; settings; parsing and rendering; views; migrations | | | | | not modelled, section 6 |

How they interact: `UploadAdmission` guards every upload; an accepted archive
becomes a `ComicPages` import whose pages go through the pool of `MediaStore`, a
page upload a `ComicPages` operation; both take the verdict of `Moderation`, which
`WorkReview` turns into a rating and review items, and publish their steps through
`IngestProgress`.  Every writer of a work ends in the triggers and the metadata
file of `Catalogue`.  Deleting a work touches `ComicPages` (rows), `MediaStore`
(objects), `Catalogue` (index, file) and `Community` (what readers left).  `Storage`
is below all of them.

`PROJECT.json` lists every component with its status, and the hazards with the
line at which each bites.

## 2. Modules

| Module | Models | Correspondence |
|---|---|---|
| `AdmissionGate` | what the ingest queue promises, without lock, counter or condition variable | `where[t]` is outside, asked or in; someone is turned away only while the gate is full |
| `IngestQueue` | `begin_comic_ingest_session`, `end_comic_ingest_session` | `active`, `waiting` as in the code; `waitSet` the threads inside `condition.wait`; `expired` those whose deadline has passed.  One action per path through the loop (`BeginFree`, `BeginQueue`, `TakeSlot`, `GiveUp`, `WaitAgain`), since the lock makes each atomic; `End` contains the notify |
| `UploadAdmission` | the upload limiter and the three kinds of handlers, extending `IngestQueue`, with a thread for every request | `inFlight`, `attempts`, `tracked` are the limiter's dictionaries; `stage[r]` is where a handler or its thread stands, each stage between two calls that take or give back something |
| `ComicPages` | the twelve operations on one comic | the tables as sequences and functions; `at[e]` names the next transaction of editor `e`, `loc[e]` what it has read; `After` gives the order of transactions per operation; one action per transaction |
| `ComicDownloads` | extends `ComicPages` with readers | `archive`, `meta`, `published` by export key; `dl[d]` a download with the parts of the comic it has read; a file that is written in place takes two actions, one that truncates and one that fills, the published object of the local backend too (`PutArchive`, `FillPublished`) |
| `WorkReview` | one comic's rating, its review items and its reports | `Begin` is the read at the top of a handler, `loc[u].seen` the copy of the rating it goes on with, each write an action of its own |
| `IngestProgress` | one token | `memory[w]` is `_PROGRESS`, `file` the JSON file; `at[w]` the call that holds worker `w`'s lock; `Scan` and `Unlink` are separate because other workers are not kept out; `poll`, `shown` the browser |
| `FanartMedia` | fanart rows, their objects, one gallery | one action per transaction or call to the media store; a put to the local backend is two, `Put` and `Write`, with the file in `half` between them and after a death there |
| `MediaStore` | extends `FanartMedia` with comic imports, deletions and the sweep | `job[j].pool[k]` is the upload of page `k`, in the local backend by `OpenFile` and `FillFile` with the file in `pageHalf`; `sweep` goes from listing (a directory at a time) over reading the database to deleting (a key at a time) |
| `Accounts` | accounts and identities | `loc[r].seen` is the row a sign-in writes back, re-creating an account that is gone; the admin form creates active and inactive ones; one action per transaction; `cookies` outlive accounts |
| `Catalogue` | works, items, tags, names and what is derived from them | the triggers are operators (`WorksRenamed`, `Reindexed`, ...) applied inside the action whose statement fires them; `Rebuild` is the connection that finds an index with another number of rows; sync of the file in steps of its own |
| `Community` | extends `Catalogue` with the tables of readers, and has the next-state relation of both | the foreign keys are part of `DropWork` and `DropItem`; `notes` keeps deleted notifications with their state, for the history |
| `Moderation` | uploads and workers of the sidecar | `side[w].phase` is where a worker is with its connection, `cool` and `backendCool` the two cool-downs after a failed load; `Read`, `Best`, `StyleOf`, `Judged` and `RatingOf` are the gates as pure operators over percentages; a worker may read any part of its probabilities, since the helpers of `torch_helpers.py` turn exceptions into `None` and the classifier goes on with confidences of zero |
| `Storage` | database file, log, directories, archives, the two commands | versions stand for contents; the file has two parts, so that a copy can be torn; one action per file copied, removed or replaced; `inside` says whether the database is below `DATA_ROOT`, as by default, or elsewhere, as in `settings.toml` |
| `UploadProofs` (queue, admission, moderation), `ComicDownloadsProofs` (pages, chapters, downloads), `WorkReviewProofs`, `IngestProgressProofs`, `StorageProofs`, `AccountsProofs`, `MediaStoreProofs`, `CommunityProofs` | section 5 | |
| `MC*` | model values, sets and symmetry of the runs | |

Operators named `Fault...` are not part of a specification: each is a plausible
mistake in the operator it is written next to, used to see that the properties
would notice it.

`IngestQueue` refines `AdmissionGate`; `UploadAdmission` refines `IngestQueue`, with the
queue's actions inside its own; `ComicDownloads` refines `ComicPages`, since downloads
only read what editors write.  `MediaStore` and `Community` extend the module below them and
interleave its actions with theirs.  The rest are separate on purpose: they share
only inputs (a verdict, a page list), and their product would be out of reach.

## 3. Runs

Each run finishes within about three minutes on two workers.

| Run | Module, instance | Shows |
|---|---|---|
| `IngestQueue` | `IngestQueue`: 6 threads, 2 slots, fairness | counters exact, limit kept, no lost wake-up; everybody is answered; the queue implements the gate, liveness included |
| `UploadAdmission` | `UploadAdmission`: 3 requests of 2 users in every mix of the api, browser and page routes, 1 slot, 1 upload per user, 2 attempts per window, 1 tracked key, fairness | limits hold although live entries are candidates for pruning; every session and slot is accounted for, except on the two early returns of section 4, which the model keeps apart as stage `dropped`; every handler and thread ends, with slots dropped for ever |
| `ComicPages` | `ComicDownloads`, seven scales | after an operation that ran alone, count, chapters and version agree with the pages, whatever raced or failed before (`SelfRepair`; an operation on chapters alone needs pages that agree and repeat no image); membership follows the pages; lists stay free of repetitions; nothing is left of a deleted comic; a download gives the comic as it is, whole, except where downloads of one version overlapped or a local put of the published archive was cut short |
| `WorkReview` | `WorkReview`: 2 owner threads, 2 admins, 2 sources; 4 requests on pages and reviews, or 3 with reports | one pending item per flag and one verdict per item under every interleaving; the explicit lock, the floor and that an approval or promotion marks Explicit for requests that are not overlapped, whatever raced before |
| `IngestProgress` | `IngestProgress`: 2 workers, 2 polls, 3 steps, time to live 2, clock to 6 | home and cold workers are current, nothing expired is told, the page never goes back |
| `MediaStore` | `MediaStore`, six mixes: fanart alone in the object store and in local files, fanart with sweeps, one import through the pool, comics in local files, comics with a sweep | no item loses its picture before requests overlap, an upload that runs alone restores a lost one, nothing dangles; published pages are stored; all these are whole unless a local put was cut short; a sweep that ran alone and complete leaves no orphan |
| `Accounts` | `Accounts`: 2 requests at a time, 3 in all, 2 subjects | a superadmin has been made one and not demoted or removed since, or was written back by a sign-in that the demotion or removal overtook; answers stand; a subject returns to its own account |
| `Catalogue` | `Community`, three mixes: one work and item with tags and users; two works sharing a tag; two readers on a work | the indexes, counts and metadata files follow the rows; uploaders are told of each kudos and comment once; nothing readers left outlives its work |
| `Moderation` | `Moderation`: 2 uploads, 1 sidecar worker, the thresholds of `settings.toml`, fairness | what is published was judged by the thresholds or queued for review, as far as the classifier read its probabilities; a failed load is not for good |
| `Storage` | `Storage`: 2 uploads, the database below `DATA_ROOT` or elsewhere | a restore with a snapshot loses nothing wherever it stops; one that ends well leaves the files of the backup, with no log beside them if the database is inside or the application had been stopped in order |

The runs `UploadAdmissionQueueFull` and `WorkReviewDraft` end in a counterexample:
section 4.

**History variables.**  Much of what the code promises, it keeps only while requests
do not overlap.  The models explore all interleavings all the same, and say in a
variable that no action reads what has happened so far: `solo` and `trouble` (a
request has run alone; what has gone wrong), `clash` (works whose media a deletion or
a sweep may have taken from under another job), `current` and `crowded` (a comic that
has come to rest; export keys that downloads overlapped on), `racy` (subjects with two
sign-ins at once), `overtaken` and `regained` (sign-ins that a demotion or removal overtook; the
accounts they wrote after it), `cut` and `pageCut` (keys of which a local put was cut short),
`orderly` (the application has been stopped in order, not killed), `astray` (works deleted under a request; requests that ended before
they notified), `restored` and `kept` (what the last command owes).  A property then
speaks of what ran alone after anything may have happened before.

**Scales and mixes.**  One large instance would be out of reach and several small runs
would repeat each other, so a constant holds a set of bounds, of which the initial state
picks one.  In `ComicPages`: `Wide` (three pages) and `Chapters` (two chapters) take
three operations one after the other; in `Deep` two overlap on a comic that exists and a
fourth meets what they left; in `Failing` any transaction may fail; `Read` and `Race` have
one and two downloads; in `Twice` an image may be uploaded again, as the form allows.  In `MediaStore`, `UploadAdmission`, `WorkReview` and `Community` the
mix says which kinds of requests there are.

**Why the bounds are enough.**  The queue's interesting cases need two sleepers, one
timed-out thread, one newcomer and two that end: six threads.  The limiter's pruning
needs more users than tracked keys (two and one).  A chapter distinguishes pages
before, in and after it: three images; two chapters overlap or exchange a page.  With
two editors the dangerous schedules are a read, a foreign write and a write, and an
operation to repair: an import and three more.  A review needs a flag, its resolution, and the
flag again: two items.  Progress needs one silent worker, one publishing and a token
that expires in between: time to live 2 within a clock of 6.  Sharing an object needs
two items of one picture; a third item and a second picture show that it is not the
only one.  The pool needs more pages than may be pending and more than two uploads in
flight: four pages, three pending.  A sign-in that writes back a stale row needs one
other request in between; the third is the one that misuses it.  An index goes stale by
a change of the row, of its tags or of a name in one of two orders: three requests or
transactions.  A kudos request that another one and a deletion cross is three, and the
import that brings the work back a fourth.  A restore needs a state before the backup
and one after it: two uploads.

**Bounds.**  `MaxPages`, `MaxChapter`, `MaxOps`, `MaxItems`, `MaxPending`, `MaxSuffix`,
`MaxTime`, `LastStep`, `MaxVersion` and the fields of scales and mixes cut off growth;
they appear as guards and are marked as bounds where they are declared.

**Fairness.**  Three specifications assume any.  In `IngestQueue` the clock advances
(`DeadlinePasses`) and the operating system runs a runnable thread (`Recheck`);
nothing is assumed of `End`, so an ingest may take for ever and waiting threads are
still answered, because `condition.wait` has a time-out.  In `UploadAdmission` every
handler's steps are fair: threads are scheduled and an ingest ends, its sidecar calls
having time-outs.  In `Moderation` a worker goes on with the connection it has and the
clock ticks (weak fairness); that a load succeeds if it is tried again and again is
strong fairness of that outcome, since a cool-down or a recycled worker disables it in
between: the property is about the code's retrying, not about the model file.
Nothing makes a client come.  Everything else is safety and needs none.

**Symmetry** is used only where properties are invariants or action properties that
do not name an element of the symmetric set, over sets that every scale treats alike.

## 4. What the code does differently from what it says

Two of these are runs with one property taken from a message or a comment;
`PROJECT.json` quotes it.

* `UploadAdmissionQueueFull`: a request refused by the per-user limiter returns before the
  `try` whose `finally` gives its ingest slot back.  After as many refusals as there are
  slots the queue is full for good.
* `WorkReviewDraft`: the owner lowers a work from Explicit without touching the locked
  form: the upload editor sends the rating of its form with each page.

The models show, without a run of their own; most are hazards in `PROJECT.json`:

* a restore replaces the database file and not what is beside it.  With the database outside
  `DATA_ROOT`, as `settings.toml` has it, the write-ahead log of an application that was killed
  stays, and SQLite reads the old log with the new file: without the last conjunct's
  condition `RoundTrip` fails;
* moderation fails open: the helpers of `torch_helpers.py` turn an exception into `None`, and a
  classifier without probabilities goes on with confidences of zero, finds the style
  uncertain and takes the picture for a comic (`style_classifier.py`, lines 312-343).  Without
  `k \in j.seen`, `PublishedAsJudged` fails;
* the local backend writes an object in place (`media.py`, line 185).  A process killed there or a
  full disk leaves a truncated file under its final name, and `exists()` takes it for the object
  ever after: a fanart upload or an import of the same picture names it and does not write it
  again, and a published archive that was cut short is served to all who ask for that version,
  with no two downloads overlapping.  Without `cut` or `pageCut`, `ItemsHaveMedia`,
  `UploadHeals`, `PublishedIsStored` and `DownloadsAreCurrent` fail;
* a sign-in that has read a superadmin's account writes it back after a demotion or a removal, and the
  account is a superadmin's again; without `regained`, `SuperadminsAreMade` fails;

* a comic with the same picture on two pages (the scale `Twice`) passes the check
  that a reorder lists every page, and loses one: `PagesAreDistinct` is about uploads
  without repetition.  In such a comic a chapter's range means pages by place and its members
  mean them by image, so that making or changing a chapter can leave a range that does not fit
  its members: `SelfRepair` says of which operations it holds;
* the index meant for pending items has the status in it, so that the same flag raised
  again cannot be resolved the same way twice: the approval fails after it has set the rating;
* a browser upload that fails after its temporary directory exists keeps the user's upload
  session (the second early return behind stage `dropped`);
* every page operation writes the row back as it was when it began, and so undoes a rating
  that an admin sets meanwhile: without `solo`, `ExplicitLock` fails;
* approving an item that was resolved meanwhile sets the rating and then says that the item
  was not found;
* a change of rating by an admin or a promotion drops all tags of the work
  (`repository/works.py:659`);
* a worker that once answered from the shared progress file does not look at it again
  before the time to live ends; with `Prompt = FALSE`, a job that is silent for longer can
  have its next progress file removed by another worker's prune;
* an upload that finds its object in the store while the last other item of the picture is
  being deleted ends without an object;
* two downloads of one version write the same archive file; the torn one can be published
  under a key that is never written again;
* an import of a work that is being deleted loses its pages, a sweep that overlaps an import
  can delete them, and with an id that quoting changes (`Quote`) a sweep that runs alone does;
* a sign-in with two overlapping first visits makes two accounts, and every sign-in makes a
  deactivated account active again;
* kudos whose notification failed are never announced: the next click inserts nothing;
* a backup with the application running misses what is only in the write-ahead log; a
  restore deletes before it opens the archive, so that without a snapshot a bad archive
  costs everything.

The repository's `README.md` says otherwise than the code in these places: line 158, "Photorealistic
images are rejected outright", but those between the two thresholds are published and
queued for review, and those that cannot be classified are published; line 161, images above the explicit threshold are blocked, but they raise
the rating; line 35, "full ZIP export", but of the database file without its log; line 185,
"deactivate users", but see sign-ins above; line 216, "Download original CBZ", but the archive is
exported again from the pages.

## 5. Proofs

Each module of proofs extends the module it is about.  Where a theorem has an
assumption besides those of that module, it is named here and at the theorem.
The longer proofs have the same form: a type invariant that says which data a request holds at
which step, an invariant that says what it *knows* there, one lemma per action or
group of actions, and frame lemmas for what a step leaves alone.

`UploadProofs` has three parts.  About the queue it proves, from `QueueAssumption` alone (the set of threads is
finite, the limit is an integer), for `SafeSpec`:

* `QueueTypeCorrect`: the type invariant;
* `QueueWithinLimit`, `QueueCountersExact`: the limit, and both counters exact;
* `QueueNoLostWakeup`: while threads sleep, free slots never outnumber the awake ones;
* `QueueImplementsGate`: `SafeSpec => Gate!SafeSpec`, the safety half of the refinement.

The inductive invariant `QueueInv` is the conjunction of the type invariant, the limit, the two
halves of `CountersExact` (`ActiveIsRunning`, `WaitingIsQueued`), `NoLostWakeup` and
`NoQueueWithoutLimit`: without a limit nobody queues.  None of them is inductive alone.  The limit needs
`ActiveIsRunning`, because the code compares its counter and not the threads.
`ActiveIsRunning` needs the type invariant for `waitSet` and `expired`, which
places every thread that moves in `Queued`.  `NoLostWakeup` needs `WaitingIsQueued`
and the limit to know what the difference between slots and `active` can be when a
newcomer takes a slot that a notified thread had been meant for: then both sides
drop by one.  There is one lemma per action; each first says how `Queued` and
`Running` change, which the counting lemmas (`ThreadsAdd`, `ThreadsRemove`) turn into
arithmetic, and `MoveThread` says once how a program counter's change moves a
thread between the two sets.

About `UploadAdmission` it proves, for any finite sets of requests and
users, any mix of routes and any limits:

* `AdmissionUsesQueue`: `AdmissionSafeSpec => SafeSpec /\ Gate!SafeSpec`: the handlers refine the queue,
  and through it the gate.  No step of theirs does anything to the queue that the queue
  would not do for a thread by itself;
* `AdmissionKeepsQueue`: so what is proved of the queue holds under them, the slots that the
  early returns of section 4 keep included: the queue is as exact as before, and full;
* `AdmissionAccountsBalance`: `AdmissionSafeSpec => []AccountsBalance`;
* `AdmissionSessionsWithinLimit`: `AdmissionSafeSpec => []SessionsWithinLimit`.

The invariant counts `Owed` and `Occupied`, the requests in progress and the dropped ones
together, because a slot or session that was dropped is never told apart by the code's
counters.  `OnRoute` says which stages a route can reach and that the queue's threads are the
requests in `Occupied`; without it a release could find its counter at zero, where the code
does not count down.  `PruningKeepsSessions` is the argument that a table at its
limit never forgets a session in flight.  A step is described by what it does to the session
(`SessionEffect`), the slot (`SlotEffect`) and the queue (`PcEffect`); `RequestStep` turns that into the
invariant, and `LimiterStep` and `QueueStep` only say which effects a handler's step has.

About `Moderation` it proves, for any number of uploads, sidecar workers and pages and any
thresholds that `ModerationAssumption` allows:

* `PublishedIsJudged`: `ModerationSafeSpec => []PublishedAsJudged`.

`PublishedAsJudged` speaks of the end of an upload, so `ModerationInv` says what an upload has to show for the
pages it has passed (`Clear`: not one to refuse, and flagged if it is one to review), at
every step before.  What an answer is worth depends on the worker, which knows nothing of what became of its
client; `WorkerInv` says that a worker with a client is at work on the very page that this
upload waits for, and the last conjunct that no two workers have one client.  That is what makes a late
answer harmless: whoever hung up is nobody's client any more.  `LeadingStyle` relates the property's words to
the classifier's: a page that leads by the margins is found to be photorealistic whatever the order in
which the code looks for the best style and whatever it could not read of the others, if it read how
photorealistic the page is (`Found`); of pages where it did not, the theorem promises nothing, and there is nothing to promise; `JudgedPage` says what the gates make of it, with an unknown
style, a failed score or both; `Heard` puts an answer on the upload's record.

`ComicDownloadsProofs` proves about `ComicPages`, for any number of editors, pages and chapters, for images
of any kind and for operations that overlap and fail anywhere:

* `TablesAreTyped`: `Spec => []TypeOK`;
* `NoPageTwice`: `Spec => []PagesAreDistinct`;
* `NothingIsLeftBehind`: `Spec => []DeletedIsEmpty`;
* `OneOperationRepairs`: `Spec => []SelfRepair`;
* `ChaptersKeepTheirPages`: `Spec => []MembershipFollows`;

and about `ComicDownloads`, with any number of readers:

* `DownloadsLeaveEditorsAlone`: `DownloadSpec => Spec`, so that the five hold of it too;
* `DownloadsGiveTheComic`: `DownloadSpec => []DownloadsAreCurrent`.

The first three follow from `Shape`: at each step of each operation an editor holds page lists, chapters and
plans of the right kind (`Fits`), however old they are, and the tables repeat no image and hold
nothing of a deleted work.  An editor's data may be stale in any way, so nothing more can be
said while operations overlap.  `SoloInv` says what an operation that has run alone from its start knows
(`Knows`): which of the row, the page list and the chapters it has already put right, and that those it
has still to go through are the ones in its `todo`.  Its base case is any state at all that has the right
shape, which is what makes the repair one.  `FollowInv` says the same of the members of chapters, against
the members before the operation: those still in `todo` have the images of before or, after a replacement,
the new one in the place of the old (`Renamed`), the others what is due of them (`Reconciled`).  For downloads,
`FilesFit` says that every key in use is the number of a snapshot and that two downloads of one key are
recorded in `crowded`; `CurrentInv` that, while the comic is at rest, what a download has read of it so far is
right (`Builds`) and every finished file of its version is whole (`CurrentFiles`), a published one unless a
download is filling it or has been cut short there.

Page lists are edited by inserting, removing and filtering, and what filtering returns (`Filter`) is a
fact about lists of every length.  The lemmas about it need induction, which is not to be had from
the library's induction theorems (they take an operator as a parameter); it is made here by the least
element of a set of natural numbers (`LeastNatural`), which well-foundedness gives.  `Filter` is defined by
counting for the same reason, and not by recursion.

`IngestProgressProofs` proves about `IngestProgress`, for any number of workers, polls and steps
and any time to live:

* `PageNeverGoesBack`: `Spec => ShownNeverGoesBack`;
* `NothingExpired`: `Spec => []NothingExpiredIsTold`;
* `LatestIsTold`: `Prompt => (Spec => []HomeAndColdAreCurrent)`; `Prompt` says that the job publishes at
  least once per time to live, and without it the steps do expire.

For the first, what
makes the page's comparison of times sufficient is that times order steps among everything
that is held anywhere: in memories, in the file, in answers under way and on the page
(`TimesOrderSteps` over `Held`).  A publication keeps that because its call read the clock after
the last one (`CallIsLater`), and every other step only copies or drops.  The second rests on
`Told`: a call that holds a worker's lock answers its own poll (`CallsAnswer`), and what the
worker remembers had not expired when that call read its clock, which is not later
than now (`CallsArePast`).  The third adds `Current`: until the job's last step expires it is in the file and in its own
worker's memory, and a worker that is about to unlink the file does so only after that step has expired,
that is when no other is to follow.

`StorageProofs` proves about `Storage`, for any number of uploads:

* `StorageNothingLost`: `Spec => []NothingLost`, wherever the database file is;
* `StorageRoundTrip`: `Spec => []RoundTrip`, with what it says of the log wherever the file is.

Both rest on `TypeInv`, which says besides shapes which command can be at which step on
which archive, and that the application is down during a restore.  `LossInv` strengthens
`NothingLost` by how far the snapshot has got: until it is complete what was there is in
place, and only then does anything get deleted.  `TripInv` has five parts; one (`LogInv`) says that an application stopped in order has left no log, the
others are each about one
stage of a round trip: `BackupInv` (a backup of a calm application: which parts are
copied, and that a complete one is right; a start or an interruption ends the promise),
`BareInv` (an empty data directory has no database and no log, which is what makes the
deletion enough), `PutInv` (which parts are put back) and `DoneInv` (after the end nothing moves without
ending the promise).  The actions are grouped (`AppStep`, `BeginStep`, `MakeStep`, `ReplaceStep`), with one
frame lemma per group, so that each part is argued only for the groups that touch it.

`WorkReviewProofs` proves about `WorkReview`, for any number of uploaders, admins and flagged
uploads and for both values of `DraftForm` and `DeleteWorks`:

* `FlagPendingOnce`: `Spec => []OnePendingPerFlag`;
* `ItemReviewedOnce`: `Spec => ReviewedOnce`;
* `OwnersAreLocked`: `~DraftForm => (Spec => ExplicitLock)`.  The assumption is needed: with the form
  that creates a draft the run `WorkReviewDraft` violates the lock (section 4);
* `SuggestionsAreFloors`: `Spec => SuggestionIsFloor`;
* `ApprovalsMark`: `Spec => ApprovalMarksExplicit`.

`OnePendingPerFlag` is not inductive: a verdict must not be "pending" itself and an item
must exist when its verdict is written, which a request knows only because of what it
was when it started.  `RequestsCarry` says that for every request at every step (`Fits`),
beside the shapes in `TypeInv`; the lemmas `Moves` and `Stops` keep it whenever one request
takes a step, so that the other lemmas argue about the two steps that write the queue.  The last
three concern requests that run alone while any number of racing ones may have come
before them.  They rest on `SoloInv`: nobody else is under way (`Alone`); at each step the request knows
how the rating relates to what it has read and to what it is about to write
(`RunsFresh`); and it does what its form asked for (`Asks`).

`AccountsProofs` proves about `Accounts`, for any number of requests, subjects, addresses
and accounts and any `MaxSuffix` of at least 1:

* `TypeCorrect`: `Spec => []TypeOK`, of which the part that says something is that a
  bound identity has an account that exists;
* `SuperadminsMade`: `Spec => []SuperadminsAreMade`;
* `ReturnsHome`: `Spec => ReturnsToOwnAccount`;
* `AnswersKept`: `Spec => AnswersStand`.

The code writes whole rows back, so the invariant has to say what a row in flight may
contain.  `RequestsCarry` says it: the row keeps answers, a settled name and the role of
the row it was made from, whatever the table says by then (`Carries`), and it says superadmin only
of an account that is entitled to it still, for the configured address, or because the demotion or
removal has overtaken this sign-in (`Entitled`).  `StillEntitled` is what a step must keep of that for the requests
other than its own: whoever takes the role away marks the sign-ins that are about to write it.  `OneAtATime` and
`Homeward` are about identities whose sign-ins did not overlap: such an identity has one request, which is
going to bind it to the account it has already, if it has one.

`MediaStoreProofs` proves about `MediaStore`, for any number of requests, jobs, works,
pictures, sweeps and galleries:

* `PagesAreStored`: `MediaSpec => []PublishedIsStored`;
* `NoOrphans`: `MediaSpec => []NothingOrphaned`;
* `ItemsKeepMedia`: `MediaSpec => []ItemsHaveMedia`;
* `UploadsHeal`: `MediaSpec => []UploadHeals`;
* `NoDanglingRows`: `MediaSpec => []NothingDangles`.

The first four assume `PlainIds`, that quoting leaves the ids of works alone: an import stores under the
id as it is, the sweep looks it up quoted (`media.py`, line 328), so a page of a work whose id needs quoting is
swept away as an orphan.  The invariant has three layers.  `FanartType` and `JobType` say what the
state is made of and what a request, a job and its pool are doing together.  `OneAtATime` and
`ClashesAreMarked` say who may run beside whom without leaving a mark in the history.  The rest says
where objects are while there is no mark: the keys that rows name exist (`NothingLost`, `PublishedIsStored`, by way of
`UploadsStay`: what an import has put stays until its rows are written), and what is broken off is being filled or was cut short (`FilesFilled`); what is stored is named, or some
request or job has just put it or is about to delete it (`NoFanartLitter`, `NoPageLitter`, with
`ListsAll` and `RowsGoFirst` for deletions); and a sweep that is alone has seen every object and dooms every
orphan and no picture in use (`SweepSees`, `SparesItems`, `SparesPages`).

`CommunityProofs` proves about `Community` with all of `Catalogue` in it, for any number of works,
items, users, readers, tags and requests:

* `IndexFresh`: `Spec => []IndexIsFresh`;
* `Derived`: `Spec => []DerivedFollows`;
* `TellsOnce`: `Spec => []ToldOnce`;
* `LeftGoes`: `Spec => []GoneWithWork`.

The assumptions are those of the two modules; the ones that matter are that works and requests are finitely
many, since the theorems count them.  `Indexed` is the argument for the triggers: each transaction leaves
each full-text row as a rebuild would write it, and before the index is ready nothing
else runs.  `Popular` bounds the use counts from below.  `Alone` says what a request that was
not overlapped knows of the rows at each step, so that the file it writes at the end is right
(`Undisturbed`, `FileFollows`).  `Gone` is what the foreign keys achieve.  `ToldOnce` is inductive together with
`RequestsKnow`, by which a reader's request knows that its work exists and who uploaded it unless
a deletion crossed it: of kudos and comments on the one hand and notifications and requests about to notify on
the other, every step changes both sums alike or marks the work (`CountsAreNumbers`, `ComingMoves`,
`NotifyTells`).

Every invariant and action property that a run checks is one of these theorems.  Only model-checked, and
for good, are the liveness properties `Answered`, `EveryRequestEnds`, `Recovers` and the fairness half of
`ImplementsGate`, because the provers do not reason about `ENABLED`; and, in the two runs that expect
it, that `QueueFullIsTrue` and (with `DraftForm`) `ExplicitLock` do not hold.

## 6. Assumptions and abstractions

* **A with-block is a transaction.**  `db.get_connection` runs the schema check, which
  writes, before it returns, so a connection holds the write lock from its start, and
  `_ManagedConnection.__exit__` commits or rolls back.  The modules of handlers have one action per
  with-block; reads of rows that cannot change in between are taken together.
* **One process** in `IngestQueue` and `UploadAdmission`: the code keeps their state per
  worker, so with several workers each limit holds per worker.
* **Failures** are steps that end an operation wherever it stands: what was committed
  stays.  A lost HTTP answer has no effect on any state modelled.
* **Names are atoms.**  An image is its content-addressed name; the same picture twice is
  the same atom.  Ratings below Mature are one value.  Titles matter in `Catalogue` only.
  Thumbnails, the cover index, page numbers of bookmarks and layout are left out.
* **Moderation** is any verdict outside `Moderation`; there, scores are any of a handful of
  representatives on both sides of every threshold.  The remote service is external.
* **One comic, one token, one gallery slug** in the modules about them.  Nothing in the code
  relates two comics there; where it does (tags, media), two are modelled.
* **Puts.**  A put to the object store is one step: the service keeps an object whole or not at
  all.  A put to the local backend is two steps, between which the file is there and not whole, and a
  death or a failure may come; so is the copy of an archive into it.  Deleting a file is one step.
* **Probabilities not read** (`Moderation`): those of any set of styles; a softmax that fails is the
  set of all.  Logits whose scaling fails have probabilities too flat for any style, which the code
  treats like those it could not read, so they are not a case of their own.
* **Storage**: a restore is run with the application stopped, which nothing in the code checks; the
  promise of a round trip is for backups made while it was stopped without a log left.
* **MediaStore**: ids of works are such that quoting leaves them alone.

Not modelled, and why:

* sign-in lockout and POST rate limit: the lockout's functions are called by nothing; the POST
  window is one counter per client and minute;
* sessions, CSRF, HTTPS and policies: functions of one request and the settings;
* migrations: run once per schema change, one transaction each;
* ComicInfo and CBZ parsing, image conversion, HTML views, the reader page, settings, start-up:
  pure functions or I/O without state that outlives a call;
* gallery order and slugs, fanart tags and ratings, the upload history in the browser's local
  storage, two jobs under one progress token, several workers' limits taken together, version
  directories that collide within a clock tick;
* marking all notifications as read when one arrives that the page did not show, progress saves
  that overtake each other, and what `delete_user` leaves to the next user of a name: the
  code makes no attempt at these, so a property would only restate that.

## 7. Plan

Done, each with proofs: the queue, upload admission, pages, chapters and downloads, moderation, ratings,
review and reports, ingest progress, backup and restore, accounts, the media store with fanart,
imports and the sweep, the index with tags and metadata files, and what readers leave.

Left, in this order:

1. The cover index in `ComicPages` and gallery order in `FanartMedia`.
2. The exits of the upload handlers in `IngestProgress`, with two jobs under one token.
3. Review items and ratings of fanart in `WorkReview`, fanart tags in `Catalogue`.
4. The sliding windows of `rate_limit.py` against a reference definition.
