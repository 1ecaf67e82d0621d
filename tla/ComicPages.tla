----------------------------- MODULE ComicPages -----------------------------
(***************************************************************************)
(* The pages and chapters of one comic, and the editor operations of       *)
(* ingest.py on them.  Each operation is a sequence of short database      *)
(* transactions (repository/works.py); nothing locks the work between two  *)
(* of them.  db.get_connection takes the write lock when it opens, so one  *)
(* with-block is one atomic step here, and an editor's operation is a walk *)
(* through such steps that other editors interleave with.                  *)
(*                                                                         *)
(* A page is its content-addressed image name; thumbnails, sizes, titles   *)
(* and the rating are left out.                                            *)
(***************************************************************************)
EXTENDS Integers, FiniteSets, SequencesExt

CONSTANTS Editor,      \* request threads editing this comic
          Image,       \* page image names
          NoImage,     \* stands for a missing argument
          MaxPages,    \* bound: pages an add may grow the comic to
          MaxChapter,  \* bound: chapters ever created
          Scales       \* bounds, one of which a behaviour keeps to: images
                       \* uploaded, chapters made, operations started (ops),
                       \* those of them that may start while another runs
                       \* (overlap), whether a transaction or the process may
                       \* fail, whether an upload may repeat an image,
                       \* downloads asked for

ASSUME ComicAssumption ==
    /\ NoImage \notin Image
    /\ {MaxPages, MaxChapter} \subseteq Nat
    /\ Scales \subseteq [images : SUBSET Image, chapters : 0..MaxChapter, ops : Nat, overlap : SUBSET Nat,
                         fails : BOOLEAN, repeats : BOOLEAN, downloads : Nat]
    /\ \A s \in Scales : IsFiniteSet(s.images) /\ Cardinality(s.images) <= MaxPages

VARIABLES
    scale,      \* the bounds of this behaviour
    row,        \* the works row: [alive, count], count being page_count
    pages,      \* the pages rows by page_index: a sequence of images
    chapters,   \* the work_chapters rows by chapter_index: [id, first, last]
    members,    \* members[c]: the work_chapter_pages of chapter c by position
    lastId,     \* AUTOINCREMENT of work_chapters
    version,    \* the manifest of the latest version snapshot
    at,         \* at[e]: the next step of editor e's operation
    loc,        \* loc[e]: what the operation has read and computed
    ops,        \* operations started so far
    solo        \* history: the operation that has run alone, and what it began from

dbVars == <<row, pages, chapters, members, lastId>>
vars   == <<scale, dbVars, version, at, loc, ops, solo>>

ChapterId == 1..MaxChapter
Ids       == {chapters[k].id : k \in DOMAIN chapters}

\* The elements of a sequence that are in S, in their order: a comprehension
\* [x for x in seq if x in S].  (SelectSeq, said without an operator argument.)
Filter(seq, S) ==
    LET kept   == {i \in DOMAIN seq : seq[i] \in S}
        nth(k) == CHOOSE i \in kept : Cardinality({j \in kept : j <= i}) = k
    IN  [k \in 1..Cardinality(kept) |-> seq[nth(k)]]

\* Seeded fault for PosOf: list.index() without the + 1.
FaultPosOf(order, x) == SelectInSeq(order, LAMBDA y : y = x) - 1

\* Position of the first page with this image, list.index() + 1.
PosOf(order, x) == SelectInSeq(order, LAMBDA y : y = x)

-----------------------------------------------------------------------------
(* Requests.  i and j are page numbers, ch a chapter, seq an order of      *)
(* images.  sel is, for a reorder, the members asked for chapter ch        *)
(* (chapter 0: the request mentions none); for an import, the images in    *)
(* the archive's one directory, which becomes a chapter.                   *)

Op(k, a, n, m, c, s, w) ==
    [kind |-> k, img |-> a, i |-> n, j |-> m, ch |-> c, seq |-> s, sel |-> w]

NoOp      == Op("none", NoImage, 0, 0, 0, <<>>, {})
Positions == 1..MaxPages

\* The page numbers, images and chapters that requests of one scale name.
Numbers(s) == 1..(IF s.repeats THEN MaxPages ELSE Cardinality(s.images))

AddOps(s)     == {Op("add", a, n, 0, 0, <<>>, {}) : a \in s.images, n \in {0} \cup Numbers(s)}
ReplaceOps(s) == {Op("replace", a, n, 0, 0, <<>>, {}) : a \in s.images, n \in Numbers(s)}
DeleteOps(s)  == {Op("delete", NoImage, n, 0, 0, <<>>, {}) : n \in Numbers(s)}
MoveOps(s)    == {Op("move", NoImage, n, m, 0, <<>>, {}) : n \in Numbers(s), m \in Numbers(s)}

\* A gallery order, with or without the members of one chapter.
ReorderOps(s) ==
    {Op("reorder", NoImage, 0, 0, 0, x, {NoImage}) : x \in SetToSeqs(s.images)}
    \cup UNION {{Op("reorder", NoImage, 0, 0, c, x, w) : c \in 1..s.chapters, w \in SUBSET ToSet(x)}
                   : x \in SetToSeqs(s.images)}

AddChapterOps(s) ==
    {Op("addChapter", NoImage, n, m, 0, <<>>, {}) : n \in Numbers(s), m \in Numbers(s)}
UpdateChapterOps(s) ==
    {Op("updateChapter", NoImage, n, m, c, <<>>, {}) :
         n \in Numbers(s), m \in Numbers(s), c \in 1..s.chapters}
DeleteChapterOps(s) ==
    {Op("deleteChapter", NoImage, 0, 0, c, <<>>, {}) : c \in 1..s.chapters}

\* Both editors offer them: the edit page of a comic, and the draft editor of
\* the upload page.
PageOps(s) ==
    AddOps(s) \cup ReplaceOps(s) \cup DeleteOps(s) \cup MoveOps(s) \cup ReorderOps(s)

ChapterOps(s) == AddChapterOps(s) \cup UpdateChapterOps(s) \cup DeleteChapterOps(s)

WorkOps(s) ==
    {Op("deleteWork", NoImage, 0, 0, 0, <<>>, {})}
    \cup UNION {{Op("import", NoImage, 0, 0, 0, x, w) : w \in SUBSET ToSet(x)} :
                   x \in SetToAllKPermutations(s.images) \ {<<>>}}

Requests == [s \in Scales |-> [page    |-> PageOps(s),
                               chapter |-> ChapterOps(s),
                               work    |-> WorkOps(s)]]

\* The operations that write the page list of a work that exists.
IsPageOp(o) == o.kind \in {"add", "replace", "delete", "move", "reorder"}

\* The bounds of this model on an operation that is about to compute its plan.
WithinBounds(o) ==
    /\ o.kind = "add" => Len(pages) < MaxPages
    /\ o.kind = "addChapter" \/ (o.kind = "import" /\ o.sel # {}) => lastId < scale.chapters
    /\ o.kind \in {"add", "replace"} /\ ~scale.repeats => o.img \notin ToSet(pages)

\* What the operation checks against the pages it read.
Accepts(o, ps) ==
    CASE o.kind \in {"replace", "delete"} -> o.i \in DOMAIN ps
      [] o.kind = "move"    -> {o.i, o.j} \subseteq DOMAIN ps
      [] o.kind = "reorder" -> ps # <<>> /\ ToSet(ps) \subseteq ToSet(o.seq)
      [] o.kind \in {"addChapter", "updateChapter"} -> o.i <= o.j /\ o.j <= Len(ps)
      [] OTHER -> TRUE

\* The page list the operation will write, from the page list it read.
Plan(o, ps) ==
    CASE o.kind = "import"  -> o.seq
      [] o.kind = "add"     -> IF o.i \in DOMAIN ps THEN InsertAt(ps, o.i + 1, o.img)
                                                    ELSE Append(ps, o.img)
      [] o.kind = "replace" -> ReplaceAt(ps, o.i, o.img)
      [] o.kind = "delete"  -> RemoveAt(ps, o.i)
      [] o.kind = "move"    -> InsertAt(RemoveAt(ps, o.i), o.j, ps[o.i])
      [] o.kind = "reorder" -> Filter(o.seq, ToSet(ps))
      [] OTHER -> <<>>

\* Seeded fault for AfterList: the row is never written back.
FaultAfterList(o) == "snapshot"

\* After the chapters: an add has written the row before, the others do it now.
AfterList(o) == IF o.kind = "add" THEN "snapshot" ELSE "upsert"

\* The first transaction that writes.
FirstWrite(o) ==
    CASE o.kind \in {"import", "add"} -> "upsert"
      [] o.kind = "addChapter"        -> "insertChapter"
      [] o.kind = "updateChapter"     -> "range"
      [] o.kind = "deleteChapter"     -> "dropChapter"
      [] o.kind = "deleteWork"        -> "dropWork"
      [] OTHER                        -> "write"

\* What follows the new page rows.
AfterPages(o) ==
    CASE o.kind = "import"  -> "clear"
      [] o.kind = "replace" -> "remap"
      [] OTHER              -> "order"

\* The order of the transactions: what follows when one part is done.
After(o, done) ==
    CASE done = "read"    -> FirstWrite(o)
      [] done = "upsert"  -> IF o.kind \in {"import", "add"} THEN "write" ELSE "snapshot"
      [] done = "write"   -> AfterPages(o)
      [] done = "remap"   -> "order"
      [] done = "clear"   -> IF o.sel = {} THEN "snapshot" ELSE "insertChapter"
      [] done = "list"    -> AfterList(o)
      [] done = "members" -> IF o.kind = "import" THEN "exact" ELSE "snapshot"
      [] OTHER            -> "snapshot"

\* The loops over the chapters listed before, and their first step.
LoopStep == [remap |-> "remapRead", list |-> "chapter", clear |-> "dropChapter"]

LoopOf(o, step) == IF step \in {"remapRead", "remapWrite"} THEN "remap"
                   ELSE IF o.kind = "import" THEN "clear" ELSE "list"

-----------------------------------------------------------------------------
(* Steps of one editor.                                                    *)

NoLoc     == [op |-> NoOp, old |-> NoImage, plan |-> <<>>, order |-> <<>>,
              todo |-> <<>>, mem |-> <<>>]
NoSolo    == [op |-> NoOp, pages |-> <<>>, members |-> <<>>, clean |-> FALSE]
NoVersion == [count |-> 0, pages |-> <<>>, chapters |-> <<>>, members |-> <<>>]

Init ==
    /\ scale \in Scales
    /\ row = [alive |-> FALSE, count |-> 0]
    /\ pages = <<>>
    /\ chapters = <<>>
    /\ members = [c \in ChapterId |-> <<>>]
    /\ lastId = 0
    /\ version = NoVersion
    /\ at = [e \in Editor |-> "idle"]
    /\ loc = [e \in Editor |-> NoLoc]
    /\ ops = 0
    /\ solo = NoSolo

AllIdle == \A e \in Editor : at[e] = "idle"

\* The snapshot at the end reads everything afresh.
To(e, step, l) ==
    /\ at' = [at EXCEPT ![e] = step]
    /\ loc' = [loc EXCEPT ![e] = IF step = "snapshot" THEN NoLoc ELSE l]

\* The operation ends, with a result or an exception; what it committed stays.
Stop(e) == To(e, "idle", NoLoc)

Quiet == UNCHANGED <<scale, version, ops, solo>>
Reads == UNCHANGED dbVars /\ Quiet

\* The operation ends early: nothing may be concluded from its having run.
Abandon(e) ==
    /\ Stop(e)
    /\ solo' = NoSolo
    /\ UNCHANGED <<scale, dbVars, version, ops>>

(* What the tables and the version history of one work must agree on.      *)

\* page_count is the number of page rows.
CountMatches == row.alive => row.count = Len(pages)

\* Every chapter has members, they are pages of the work in page order, and
\* the stored range goes from the first of them to the last.
ChaptersFollowPages ==
    \A k \in DOMAIN chapters :
        LET c == chapters[k]
            m == members[c.id]
        IN  /\ m # <<>>
            /\ m = Filter(pages, ToSet(m))
            /\ c.first = PosOf(pages, Head(m))
            /\ c.last  = PosOf(pages, Last(m))

\* The latest version manifest is the state of the work.
VersionIsCurrent ==
    row.alive => version = [count |-> row.count, pages |-> pages,
                            chapters |-> chapters, members |-> members]

Consistent == CountMatches /\ ChaptersFollowPages /\ VersionIsCurrent

\* Does the operation whose history this is, having run alone, leave a work
\* that agrees with itself?  One on the page list repairs what it finds.  The
\* others disturb nothing, but that a chapter's range names pages by place and
\* its members by image, which differ where an image is there twice.
Repairs(s) == \/ IsPageOp(s.op) \/ s.op.kind = "import"
              \/ s.clean /\ IsInjective(s.pages)

NextChapter(e) ==
    LET l    == loc[e]
        loop == LoopOf(l.op, at[e])
    IN  To(e, IF Len(l.todo) > 1 THEN LoopStep[loop] ELSE After(l.op, loop),
           [l EXCEPT !.todo = Tail(@), !.mem = <<>>])

\* The request arrives.  An edit needs the work, which get_work looks up; an
\* import makes it, or takes it over when the archive carries its id.
Begin(e, o) ==
    /\ at[e] = "idle"
    /\ ops < scale.ops
    /\ AllIdle \/ ops + 1 \in scale.overlap
    /\ row.alive \/ o.kind = "import"
    /\ ops' = ops + 1
    /\ solo' = IF AllIdle
               THEN [op |-> o, pages |-> pages, members |-> members, clean |-> Consistent]
               ELSE NoSolo
    /\ To(e, "read", [NoLoc EXCEPT !.op = o])
    /\ UNCHANGED <<scale, dbVars, version>>

\* list_work_page_rows, the checks and the computation of the new page list.
ReadPages(e) ==
    LET o == loc[e].op IN
    /\ at[e] = "read"
    /\ WithinBounds(o)
    /\ Accepts(o, pages)
    /\ To(e, After(o, "read"),
          [loc[e] EXCEPT !.plan = Plan(o, pages),
                         !.old = IF o.kind \in {"replace", "delete"} THEN pages[o.i] ELSE NoImage])
    /\ Reads

Rejected(e) ==
    /\ at[e] = "read"
    /\ ~(WithinBounds(loc[e].op) /\ Accepts(loc[e].op, pages))
    /\ Abandon(e)

\* upsert_work: writes page_count from the list in hand, and creates the row
\* again if it is gone.
Upsert(e) ==
    /\ at[e] = "upsert"
    /\ row' = [alive |-> TRUE, count |-> Len(loc[e].plan)]
    /\ To(e, After(loc[e].op, "upsert"), loc[e])
    /\ UNCHANGED <<pages, chapters, members, lastId>>
    /\ Quiet

\* Seeded fault for WritePages: rows are replaced by page number and the
\* surplus ones of the former list stay.
FaultWritePages(e) ==
    /\ at[e] = "write"
    /\ row.alive \/ loc[e].plan = <<>>
    /\ pages' = loc[e].plan \o SubSeq(pages, Len(loc[e].plan) + 1, Len(pages))
    /\ To(e, After(loc[e].op, "write"), loc[e])
    /\ UNCHANGED <<row, chapters, members, lastId>>
    /\ Quiet

\* replace_work_pages: every row of the work is replaced.
WritePages(e) ==
    /\ at[e] = "write"
    /\ row.alive \/ loc[e].plan = <<>>
    /\ pages' = loc[e].plan
    /\ To(e, After(loc[e].op, "write"), loc[e])
    /\ UNCHANGED <<row, chapters, members, lastId>>
    /\ Quiet

\* The foreign key of pages: the work was deleted meanwhile.
WritePagesFails(e) ==
    /\ at[e] = "write"
    /\ ~row.alive /\ loc[e].plan # <<>>
    /\ Abandon(e)

\* list_work_chapters at the head of a loop.
ListChapters(e, loop) ==
    /\ at[e] = loop
    /\ IF chapters = <<>> THEN To(e, After(loc[e].op, loop), loc[e])
                          ELSE To(e, LoopStep[loop], [loc[e] EXCEPT !.todo = chapters])
    /\ Reads

\* Seeded fault for Remapped: the chapters are not told of the new image.
FaultRemapped(l, was) == was

\* editor_replace_page_image renames the image in a chapter that has it.
Remapped(l, was) == [k \in DOMAIN was |-> IF was[k] = l.old THEN l.op.img ELSE was[k]]

RemapRead(e) ==
    LET l   == loc[e]
        was == members[Head(l.todo).id]
        now == Remapped(l, was)
    IN  /\ at[e] = "remapRead"
        /\ IF now = was THEN NextChapter(e) ELSE To(e, "remapWrite", [l EXCEPT !.mem = now])
        /\ Reads

\* list_work_page_image_names: the page order to reconcile the chapters with,
\* or to take the members of one chapter from.
ReadOrder(e) ==
    LET l    == loc[e]
        last == IF l.op.j < Len(pages) THEN l.op.j ELSE Len(pages)
    IN  /\ at[e] = "order"
        /\ IF IsPageOp(l.op)
           THEN To(e, "list", [l EXCEPT !.order = pages])
           ELSE To(e, "members", [l EXCEPT !.mem = SubSeq(pages, l.op.i, last)])
        /\ Reads

Clamp(lo, x, hi) == IF x > hi THEN hi ELSE IF x < lo THEN lo ELSE x

\* _chapter_seed_members_from_range: the members of a chapter that has none.
Seed(order, c) ==
    LET n     == Len(order)
        first == Clamp(1, c.first, IF n > 0 THEN n ELSE 1)
        last  == Clamp(first, c.last, IF n > 0 THEN n ELSE first)
    IN  SubSeq(order, first, IF last < n THEN last ELSE n)

\* Seeded fault for Kept: the stored order is kept where the pages moved.
FaultKept(l, was) == Filter(was, ToSet(l.order))

\* The members a chapter keeps: in page order, without the deleted image.
Kept(l, was) ==
    LET own  == IF was = <<>> THEN Seed(l.order, Head(l.todo)) ELSE was
        want == IF l.op.kind = "reorder" /\ l.op.ch = Head(l.todo).id
                THEN l.op.sel
                ELSE ToSet(own) \ (IF l.op.kind = "delete" THEN {l.old} ELSE {})
    IN  Filter(l.order, want)

\* list_work_chapter_members of the next chapter, and what to do with it.
ReadMembers(e) ==
    LET l    == loc[e]
        keep == Kept(l, members[Head(l.todo).id])
    IN  /\ at[e] = "chapter"
        /\ To(e, IF keep = <<>> THEN "dropChapter" ELSE "range", [l EXCEPT !.mem = keep])
        /\ Reads

\* The chapter a step works on: the next of the loop, or the operation's own.
Target(l) == IF l.todo = <<>> THEN l.op.ch ELSE Head(l.todo).id

\* update_work_chapter.  Reconciling ignores a missing chapter, the chapter
\* editor stops there.
UpdateRange(e) ==
    LET l     == loc[e]
        c     == Target(l)
        first == IF IsPageOp(l.op) THEN PosOf(l.order, Head(l.mem)) ELSE l.op.i
        last  == IF IsPageOp(l.op) THEN PosOf(l.order, Last(l.mem)) ELSE l.op.j
    IN  /\ at[e] = "range"
        /\ chapters' = [k \in DOMAIN chapters |->
                          IF chapters[k].id = c
                          THEN [chapters[k] EXCEPT !.first = first, !.last = last]
                          ELSE chapters[k]]
        /\ IF IsPageOp(l.op) THEN To(e, "members", l)
           ELSE IF c \in Ids THEN To(e, "order", l) ELSE Stop(e)
        /\ UNCHANGED <<row, pages, members, lastId>>
        /\ Quiet

\* Seeded fault for MembersFit: no foreign key.
FaultMembersFit(c, m) == IsInjective(m)

\* _group_cbz_pages_by_directory: the images of the directory in page order.
FolderImages(l) == Filter(l.plan, l.op.sel)

\* replace_work_chapter_members; an import calls it a second time, with the
\* images of the directory instead of those of the page range.
MembersFit(c, m) == m = <<>> \/ (c \in Ids /\ IsInjective(m))

WritingMembers == {"members", "remapWrite", "exact"}

WriteMembers(e) ==
    LET l == loc[e]
        c == Target(l)
    IN  /\ at[e] \in WritingMembers
        /\ MembersFit(c, l.mem)
        /\ members' = [members EXCEPT ![c] = l.mem]
        /\ IF l.todo # <<>> THEN NextChapter(e)
           ELSE To(e, After(l.op, at[e]), [l EXCEPT !.mem = FolderImages(l)])
        /\ UNCHANGED <<row, pages, chapters, lastId>>
        /\ Quiet

\* The chapter is gone, or an image is in it twice: IntegrityError.
WriteMembersFails(e) ==
    /\ at[e] \in WritingMembers
    /\ ~MembersFit(Target(loc[e]), loc[e].mem)
    /\ Abandon(e)

\* delete_work_chapter: the later chapters move up, the members cascade.
DropChapter(e) ==
    LET l == loc[e]
        c == Target(l)
    IN  /\ at[e] = "dropChapter"
        /\ chapters' = Filter(chapters, {x \in ToSet(chapters) : x.id # c})
        /\ members' = [members EXCEPT ![c] = <<>>]
        /\ IF l.todo # <<>> THEN NextChapter(e)
           ELSE IF c \in Ids THEN To(e, "snapshot", l) ELSE Stop(e)
        /\ UNCHANGED <<row, pages, lastId>>
        /\ Quiet

\* The first and the last page of the archive's directory.
FolderRange(l) ==
    LET places == {PosOf(l.plan, x) : x \in l.op.sel} IN <<Min(places), Max(places)>>

\* add_work_chapter inserts the row first, its members come later.
InsertChapter(e) ==
    LET l     == loc[e]
        range == IF l.op.kind = "import" THEN FolderRange(l) ELSE <<l.op.i, l.op.j>>
        first == range[1]
        last  == range[2]
        c     == lastId + 1
    IN  /\ at[e] = "insertChapter"
        /\ c \in 1..scale.chapters
        /\ row.alive
        /\ chapters' = Append(chapters, [id |-> c, first |-> first, last |-> last])
        /\ lastId' = c
        /\ To(e, "order", [l EXCEPT !.op.ch = c, !.op.i = first, !.op.j = last])
        /\ UNCHANGED <<row, pages, members>>
        /\ Quiet

\* The work was deleted meanwhile (or, a bound, no chapter number is left by
\* now).
InsertChapterFails(e) ==
    /\ at[e] = "insertChapter"
    /\ ~row.alive \/ lastId >= scale.chapters
    /\ Abandon(e)

\* delete_work: pages, chapters and their members go with the row.
DropWork(e) ==
    /\ at[e] = "dropWork"
    /\ row' = [alive |-> FALSE, count |-> 0]
    /\ pages' = <<>>
    /\ chapters' = <<>>
    /\ members' = [c \in ChapterId |-> <<>>]
    /\ IF row.alive THEN To(e, "dropFiles", loc[e]) ELSE Stop(e)
    /\ UNCHANGED lastId
    /\ Quiet

\* Then, outside any transaction, the files: the version manifests are in the
\* work's directory.  An import that has taken the id over meanwhile loses its
\* own.
DropFiles(e) ==
    /\ at[e] = "dropFiles"
    /\ version' = NoVersion
    /\ Stop(e)
    /\ UNCHANGED <<scale, dbVars, ops, solo>>

\* Seeded fault for Manifest: the members are taken from the chapter's range.
FaultManifest ==
    [count |-> row.count, pages |-> pages, chapters |-> chapters,
     members |-> [c \in ChapterId |-> SelectSeq(pages, LAMBDA x :
                    \E k \in DOMAIN chapters :
                        /\ chapters[k].id = c
                        /\ PosOf(pages, x) \in chapters[k].first..chapters[k].last)]]

Manifest == [count |-> row.count, pages |-> pages, chapters |-> chapters, members |-> members]

\* create_work_version_snapshot, the last step of every operation.  Its reads
\* are taken together: the manifest is compared only after a solo operation.
Snapshot(e) ==
    /\ at[e] = "snapshot"
    /\ version' = IF row.alive THEN Manifest ELSE version
    /\ Stop(e)
    /\ UNCHANGED <<scale, dbVars, ops, solo>>

\* A transaction gives up ("database is locked") or the process dies.  (A
\* bound: not in the last operation, nothing would follow to see the damage.)
Fail(e) ==
    /\ scale.fails
    /\ ops < scale.ops
    /\ at[e] # "idle"
    /\ Abandon(e)

\* The steps of an operation up to its snapshot.
EditStep(e) ==
    \/ ReadPages(e) \/ Rejected(e) \/ Upsert(e)
    \/ WritePages(e) \/ WritePagesFails(e)
    \/ ListChapters(e, "remap") \/ ListChapters(e, "list") \/ ListChapters(e, "clear")
    \/ RemapRead(e) \/ ReadOrder(e) \/ ReadMembers(e) \/ UpdateRange(e)
    \/ WriteMembers(e) \/ WriteMembersFails(e)
    \/ DropChapter(e) \/ InsertChapter(e) \/ InsertChapterFails(e)
    \/ DropWork(e) \/ Fail(e)

Step(e) == EditStep(e) \/ DropFiles(e) \/ Snapshot(e)

BeginOps(part) == \E e \in Editor : \E o \in Requests[scale][part] : Begin(e, o)

Done == AllIdle /\ ops = scale.ops /\ UNCHANGED vars

Next ==
    \/ BeginOps("page") \/ BeginOps("chapter") \/ BeginOps("work")
    \/ \E e \in Editor : Step(e)
    \/ Done

Spec == Init /\ [][Next]_vars

-----------------------------------------------------------------------------
(* Properties.                                                             *)

\* Every variable keeps the shape the tables have; chapter ranges are page
\* numbers, never the zero-based positions they are computed from.
TypeOK ==
    /\ row \in [alive : BOOLEAN, count : 0..MaxPages]
    /\ Len(pages) <= MaxPages /\ ToSet(pages) \subseteq Image
    /\ \A k \in DOMAIN chapters :
          chapters[k] \in [id : 1..lastId, first : Positions, last : Positions]
    /\ \A c \in ChapterId : ToSet(members[c]) \subseteq Image
    /\ lastId \in 0..MaxChapter
    /\ ops \in 0..scale.ops

\* What a page operation that ran alone must have made of a chapter's members.
Expected(was, o, ps) ==
    CASE o.kind = "delete"  -> was \ {ps[o.i]}
      [] o.kind = "replace" -> IF ps[o.i] \in was THEN (was \ {ps[o.i]}) \cup {o.img} ELSE was
      [] OTHER              -> was

\* The pages of a chapter stay in it wherever they move, whatever is inserted
\* or deleted around them, and when one is replaced its replacement takes its
\* place: the chapter the editor sees is the one that was made.
MembershipFollows ==
    AllIdle /\ IsPageOp(solo.op) /\ (solo.op.kind = "reorder" => solo.op.sel = {NoImage}) =>
        \A c \in ChapterId :
            solo.members[c] # <<>> =>
                ToSet(members[c]) =
                    Expected(ToSet(solo.members[c]), solo.op, solo.pages) \cap ToSet(pages)

\* Whatever crashes, failures and concurrent edits left behind, one page
\* operation or import that then runs alone to its end puts it right: the row,
\* the chapters and the version history agree with the pages.  No operation
\* that runs alone disturbs a work that agrees with itself and has no image
\* twice.
SelfRepair == AllIdle /\ Repairs(solo) => Consistent

\* Uploads that add no image twice never make a page list that has one twice,
\* however the operations overlap: every list written comes from one read.
PagesAreDistinct == ~scale.repeats => IsInjective(pages)

\* A deleted work leaves no page, chapter or chapter member behind, though
\* editors were in the middle of an operation on it.
DeletedIsEmpty ==
    /\ ~row.alive => pages = <<>> /\ chapters = <<>>
    /\ \A c \in ChapterId \ Ids : members[c] = <<>>
=============================================================================
