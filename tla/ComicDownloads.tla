--------------------------- MODULE ComicDownloads ---------------------------
(***************************************************************************)
(* Downloads of one comic while its pages are edited.  A download exports  *)
(* the comic to a CBZ archive in a local directory, once per version, and  *)
(* puts a copy in the media store, where it redirects the reader to.  The  *)
(* archive is cached under an export key, the newest version snapshot; the *)
(* file is written in place, a metadata file next to it afterwards.        *)
(*                                                                         *)
(* The media backend is the local one: an export reads the page images     *)
(* from disk.  ComicInfo.xml and file names are left out.                  *)
(***************************************************************************)
EXTENDS ComicPages

CONSTANT Reader  \* request threads that download the comic

VARIABLES
    versions,   \* the version snapshots that have a manifest, by number
    last,       \* snapshots ever made: their names are times
    archive,    \* archive[k]: the archive file of export key k, if there is one
    meta,       \* the keys with a metadata file
    published,  \* published[k]: the archive of key k in the media store, if any
    dl,         \* dl[d]: the download of reader d
    asked,      \* downloads started so far
    current,    \* history: the snapshot of the latest operation, if that ran
                \* alone to its end and nothing has begun since, else 0
    crowded,    \* history: the keys that downloads have overlapped on
    cut         \* history: the keys whose put into the store was cut short

fileVars == <<versions, last, archive, meta, published>>
downloadVars == <<fileVars, dl, asked, current, crowded, cut>>

\* Export keys: the version's number.  A work without snapshots has the legacy
\* key 0, its time of change and page count: changes within one second may
\* share it.

\* In an archive the n-th page is in the folder of a chapter, by chapter index;
\* index 0 is the folder of the other pages.
Whole(ps, n, f) == [whole |-> TRUE, pages |-> ps, chapters |-> n, folder |-> f]
Torn == [whole |-> FALSE, pages |-> <<>>, chapters |-> 0, folder |-> <<>>]

NoDownload == [step |-> "idle", key |-> 0, pages |-> <<>>, chapters |-> <<>>,
               k |-> 0, folder |-> <<>>]

DownloadInit ==
    /\ Init
    /\ versions = {} /\ last = 0
    /\ archive = <<>>
    /\ meta = {}
    /\ published = <<>>
    /\ dl = [d \in Reader |-> NoDownload]
    /\ asked = 0
    /\ current = 0 /\ crowded = {} /\ cut = {}

-----------------------------------------------------------------------------
(* The editors' steps, and what they mean for the files.                   *)

BeginEdit(part) ==
    /\ BeginOps(part)
    /\ current' = 0
    /\ UNCHANGED <<fileVars, dl, asked, crowded, cut>>

Edit(e) == EditStep(e) /\ UNCHANGED downloadVars

TakeSnapshot(e) ==
    /\ Snapshot(e)
    /\ IF row.alive
       THEN /\ versions' = versions \cup {last + 1} /\ last' = last + 1
            /\ current' = IF Repairs(solo) THEN last + 1 ELSE 0
       ELSE UNCHANGED <<versions, last, current>>
    /\ UNCHANGED <<archive, meta, published, dl, asked, crowded, cut>>

\* The work's directory holds its versions and, in the local media store, its
\* published archives.  The archive file is deleted if cbz_path, as read when
\* the deletion began, names it; its metadata file stays.
RemoveFiles(e) ==
    /\ DropFiles(e)
    /\ versions' = {}
    /\ published' = <<>>
    /\ \E kept \in {DOMAIN archive} \cup {DOMAIN archive \ {k} : k \in DOMAIN archive} :
          archive' = Restrict(archive, kept)
    /\ UNCHANGED <<last, meta, dl, asked, current, crowded, cut>>

-----------------------------------------------------------------------------
(* A download.                                                             *)

Go(d, step, l) == dl' = [dl EXCEPT ![d] = [l EXCEPT !.step = step]]
Leave(d)       == dl' = [dl EXCEPT ![d] = NoDownload]

\* Files by name, with one written.
With(files, key, file) ==
    [k \in DOMAIN files \cup {key} |-> IF k = key THEN file ELSE files[k]]

OnlyDownload == UNCHANGED <<vars, versions, last, asked, current>>

\* list_work_versions: the newest first, the rest is not asked for.  A directory
\* without a manifest is skipped.
Newest == Max(versions)

\* _current_export_key.
CurrentKey == IF versions = {} THEN 0 ELSE Newest

Others(d, k) == {r \in Reader \ {d} : dl[r].step # "idle" /\ dl[r].key = k}

\* GET /api/comic/{id}/download.
Ask(d) ==
    /\ dl[d].step = "idle"
    /\ asked < scale.downloads
    /\ row.alive
    /\ asked' = asked + 1
    /\ crowded' = IF Others(d, CurrentKey) = {} THEN crowded ELSE crowded \cup {CurrentKey}
    /\ Go(d, "lookup", [NoDownload EXCEPT !.key = CurrentKey])
    /\ UNCHANGED <<vars, fileVars, current, cut>>

\* Seeded fault for CacheHit: an archive file is enough.
FaultCacheHit(k) == k \in DOMAIN archive

\* The archive is there and its metadata file says it was finished.
CacheHit(k) == k \in DOMAIN archive /\ k \in meta

\* _ensure_download_archive looks in the cache.
Lookup(d) ==
    /\ dl[d].step = "lookup"
    /\ Go(d, IF CacheHit(dl[d].key) THEN "publish" ELSE "pages", dl[d])
    /\ OnlyDownload /\ UNCHANGED <<archive, meta, published, crowded, cut>>

\* _build_cbz_export: the pages; a work without pages is an error ...
ExportPages(d) ==
    /\ dl[d].step = "pages"
    /\ IF pages = <<>> THEN Leave(d) ELSE Go(d, "chapters", [dl[d] EXCEPT !.pages = pages,
                                                                         !.folder = [n \in DOMAIN pages |-> 0]])
    /\ OnlyDownload /\ UNCHANGED <<archive, meta, published, crowded, cut>>

\* ... the chapters ...
ExportChapters(d) ==
    /\ dl[d].step = "chapters"
    /\ Go(d, IF chapters = <<>> THEN "open" ELSE "folder",
          [dl[d] EXCEPT !.chapters = chapters, !.k = 1])
    /\ OnlyDownload /\ UNCHANGED <<archive, meta, published, crowded, cut>>

\* _chapter_members_with_fallback: a chapter without members takes its range.
FolderPages(ps, c) ==
    IF members[c.id] # <<>> THEN ToSet(members[c.id]) \cap ToSet(ps) ELSE ToSet(Seed(ps, c))

\* ... and the members of one chapter after the other; the first to have a
\* page keeps it.
ExportFolder(d) ==
    LET l    == dl[d]
        mine == FolderPages(l.pages, l.chapters[l.k])
        now  == [n \in DOMAIN l.pages |->
                   IF l.folder[n] = 0 /\ l.pages[n] \in mine THEN l.k ELSE l.folder[n]]
    IN  /\ l.step = "folder"
        /\ Go(d, IF l.k = Len(l.chapters) THEN "open" ELSE "folder",
              [l EXCEPT !.folder = now, !.k = @ + 1])
        /\ OnlyDownload /\ UNCHANGED <<archive, meta, published, crowded, cut>>

\* ZipFile(archive_path, "w") truncates the file that is there.
OpenArchive(d) ==
    /\ dl[d].step = "open"
    /\ archive' = With(archive, dl[d].key, Torn)
    /\ Go(d, "close", dl[d])
    /\ OnlyDownload /\ UNCHANGED <<meta, published, crowded, cut>>

\* The archive is complete, unless another download wrote the file meanwhile.
CloseArchive(d) ==
    LET l    == dl[d]
        made == Whole(l.pages, Len(l.chapters), l.folder)
    IN  /\ l.step = "close"
        /\ \E result \in IF l.key \in crowded THEN {made, Torn} ELSE {made} :
              archive' = With(archive, l.key, result)
        /\ Go(d, "meta", l)
        /\ OnlyDownload /\ UNCHANGED <<meta, published, crowded, cut>>

\* set_work_cbz_path, then the metadata file.
WriteMeta(d) ==
    /\ dl[d].step = "meta"
    /\ meta' = meta \cup {dl[d].key}
    /\ Go(d, "publish", dl[d])
    /\ OnlyDownload /\ UNCHANGED <<archive, published, crowded, cut>>

\* _publish_download_archive asks whether the store has the archive ...
CheckPublished(d) ==
    /\ dl[d].step = "publish"
    /\ IF dl[d].key \in DOMAIN published THEN Leave(d) ELSE Go(d, "put", dl[d])
    /\ OnlyDownload /\ UNCHANGED <<archive, meta, published, crowded, cut>>

\* ... and if not, reads the archive file and puts what it holds: the local
\* backend truncates the file of that name ...
PutArchive(d) ==
    /\ dl[d].step = "put"
    /\ dl[d].key \in DOMAIN archive
    /\ published' = With(published, dl[d].key, Torn)
    /\ Go(d, "fill", dl[d])
    /\ OnlyDownload /\ UNCHANGED <<archive, meta, crowded, cut>>

\* ... and fills it, unless it went with the work's directory meanwhile; only
\* another download of the version can have changed the archive since.
FillPublished(d) ==
    LET key == dl[d].key IN
    /\ dl[d].step = "fill"
    /\ IF key \notin DOMAIN published THEN UNCHANGED published
       ELSE \E file \in IF key \in crowded THEN {archive[key], Torn} ELSE {archive[key]} :
               published' = With(published, key, file)
    /\ Leave(d)
    /\ OnlyDownload /\ UNCHANGED <<archive, meta, crowded, cut>>

\* A page image or the archive is missing, the database is locked, the disk is
\* full, the process dies: what the download wrote stays.
FailDownload(d) ==
    /\ dl[d].step # "idle"
    /\ cut' = IF dl[d].step = "fill" THEN cut \cup {dl[d].key} ELSE cut
    /\ Leave(d)
    /\ OnlyDownload /\ UNCHANGED <<archive, meta, published, crowded>>

Download(d) ==
    \/ Ask(d) \/ Lookup(d)
    \/ ExportPages(d) \/ ExportChapters(d) \/ ExportFolder(d)
    \/ OpenArchive(d) \/ CloseArchive(d) \/ WriteMeta(d)
    \/ CheckPublished(d) \/ PutArchive(d) \/ FillPublished(d) \/ FailDownload(d)

NoneDownloads == \A d \in Reader : dl[d].step = "idle"

AllDone == NoneDownloads /\ Done /\ UNCHANGED downloadVars

DownloadNext ==
    \/ BeginEdit("page") \/ BeginEdit("chapter") \/ BeginEdit("work")
    \/ \E e \in Editor : Edit(e) \/ TakeSnapshot(e) \/ RemoveFiles(e)
    \/ \E d \in Reader : Download(d)
    \/ AllDone

DownloadSpec == DownloadInit /\ [][DownloadNext]_<<vars, downloadVars>>

-----------------------------------------------------------------------------
(* Properties.                                                             *)

\* The archive a download of this moment ought to give.
Exported ==
    Whole(pages, Len(chapters),
          [n \in DOMAIN pages |->
             LET having == {k \in DOMAIN chapters : pages[n] \in ToSet(members[chapters[k].id])}
             IN  IF having = {} THEN 0 ELSE Min(having)])

\* Some download is just filling the published archive of this key.
Filled(key) == \E d \in Reader : dl[d].step = "fill" /\ dl[d].key = key

\* When an operation has run alone to its end, whatever failed before, in
\* editors and in downloads: a download gives the comic as it is now and
\* whole, from the store or from the cache, as long as no two downloads of
\* this version overlapped.  What a download wrote that began before the
\* operation is never taken for it, nor is an archive file in the cache whose
\* download died half way.  The published archive has no such mark: until the
\* download that puts it has filled it, and for good if it dies or the disk is
\* full by then, the store has a file that exists() takes for the archive.
DownloadsAreCurrent ==
    current # 0 /\ current \notin crowded =>
        /\ current \in DOMAIN published =>
              \/ published[current] = Exported
              \/ published[current] = Torn /\ (current \in cut \/ Filled(current))
        /\ CacheHit(current) => archive[current] = Exported
=============================================================================
