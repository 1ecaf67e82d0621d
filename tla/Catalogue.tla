------------------------------ MODULE Catalogue ------------------------------
(***************************************************************************)
(* What is derived from the rows of works, fanart items, tags and users:   *)
(* the two full-text tables that SQL triggers maintain (db.py), the use    *)
(* counts of tags, and the metadata.toml that every writer of a work, its  *)
(* kudos or its comments rewrites after its transaction                    *)
(* (sync_work_metadata_toml).                                              *)
(*                                                                         *)
(* A trigger runs inside the transaction that fires it; a rewrite of the   *)
(* file is steps of its own, a read and a write.  Of the                   *)
(* indexed text a work has its title and its fandoms, an item its title;   *)
(* chapters are left out.  The next-state relation is that of Community.   *)
(***************************************************************************)
EXTENDS Integers, Sequences, FiniteSets

CONSTANTS Request,   \* request threads that write works
          Work, Item, NoWork,
          User,      \* uploaders
          Reader,    \* who leaves kudos and comments, an uploader perhaps
          Name,      \* display names
          Title,
          Slug,      \* tags by slug
          Mixes      \* what happens together, see Mix

Type == {"fandom", "freeform"}

\* What a form asks for: the type of each slug, or "none".
Wants  == [Slug -> Type \cup {"none"}]
NoTags == [s \in Slug |-> "none"]

\* Bounds: requests and other transactions started, the kinds of requests, the
\* other transactions, the works, titles and tags they are about, and whether
\* the database may be older than the indexes.
Mix == [ops : Nat, kinds : SUBSET {"import", "edit", "rate", "page", "delete", "kudos", "comment"},
        singles : SUBSET {"users", "items", "readers"}, works : SUBSET Work,
        titles : SUBSET Title, wants : SUBSET Wants, legacy : BOOLEAN]

ASSUME CatalogueAssumption ==
    /\ NoWork \notin Work /\ IsFiniteSet(Work) /\ IsFiniteSet(Request)
    /\ User # {}
    /\ \A m \in Mixes :
          /\ m.ops \in Nat /\ m.legacy \in BOOLEAN
          /\ m.works \subseteq Work /\ m.titles \subseteq Title /\ m.wants \subseteq Wants

VARIABLES
    mix,        \* the mix of this behaviour
    users,      \* display names of the users that exist
    works,      \* the works that exist: [title, by]
    items,      \* the fanart items that exist: [title, by]
    tags,       \* the type of each tag that exists: that of its first use
    tagged,     \* work_tags: the slugs of each work
    workIndex,  \* works_search by work: [title, fandoms, by, name]
    itemIndex,  \* fanart_search by item: [title, by, name]
    count,      \* usage_count of tag_popularity
    kudos,      \* work_kudos: the readers who left some, by work
    comments,   \* work_comments: the authors, by work
    file,       \* metadata.toml of each work that has one, see Content
    at, loc,    \* where each request stands and what it has read
    ops,
    solo        \* history: the work of a request that has run alone so far

tables == <<mix, users, works, items, tags, tagged, workIndex, itemIndex, count, kudos, comments>>
vars   == <<tables, file, at, loc, ops, solo>>

\* f with x mapped to y, and f without x.
With(f, x, y)  == [z \in DOMAIN f \cup {x} |-> IF z = x THEN y ELSE f[z]]
Without(f, x)  == [z \in DOMAIN f \ {x} |-> f[z]]
Empty          == [x \in {} |-> 0]

-----------------------------------------------------------------------------
(* Index rows as the triggers and the rebuild write them.                  *)

\* COALESCE(NULLIF(u.display_name, ''), uploader_username).
Shown(us, u) == IF u \in DOMAIN us THEN us[u] ELSE u

Fandoms(ts, slugs) == {s \in slugs : ts[s] = "fandom"}

WorkRow(us, ts, w, slugs) ==
    [title |-> w.title, fandoms |-> Fandoms(ts, slugs), by |-> w.by, name |-> Shown(us, w.by)]

ItemRow(us, i) == [title |-> i.title, by |-> i.by, name |-> Shown(us, i.by)]

\* Seeded fault for WorksRenamed: the trigger sees updates, not new users.
FaultWorksRenamed(u, us) ==
    workIndex' = [w \in DOMAIN workIndex |->
        IF works[w].by = u /\ u \in DOMAIN users THEN WorkRow(us, tags, works[w], tagged[w])
                                                 ELSE workIndex[w]]

\* The triggers on users (insert, and update of the display name): the rows of
\* this user's works and items are written again.
WorksRenamed(u, us) ==
    workIndex' = [w \in DOMAIN workIndex |->
        IF works[w].by = u THEN WorkRow(us, tags, works[w], tagged[w]) ELSE workIndex[w]]

ItemsRenamed(u, us) ==
    itemIndex' = [i \in DOMAIN itemIndex |->
        IF items[i].by = u THEN ItemRow(us, items[i]) ELSE itemIndex[i]]

\* _ensure_runtime_schema at the head of every connection rebuilds an index
\* that has not as many rows as its table.
Ready == DOMAIN workIndex = DOMAIN works /\ DOMAIN itemIndex = DOMAIN items

-----------------------------------------------------------------------------
Requests ==
    [kind : {"import"} \cap mix.kinds, work : mix.works, title : mix.titles, by : User, want : mix.wants]
    \cup [kind : {"edit"} \cap mix.kinds, work : mix.works, title : mix.titles, want : mix.wants]
    \cup [kind : {"rate", "page", "delete"} \cap mix.kinds, work : mix.works]
    \cup [kind : {"kudos", "comment"} \cap mix.kinds, work : mix.works, by : Reader]

\* by is the uploader the request has read, new whether its kudos were.
NoLoc == [q |-> [kind |-> "none"], title |-> "none", by |-> "none", new |-> FALSE,
          syncs |-> 0, read |-> Empty]

Init ==
    /\ mix \in Mixes
    /\ users \in [User -> Name]
    /\ works \in {Empty} \cup (IF mix.legacy THEN [mix.works -> [title : mix.titles, by : User]] ELSE {})
    /\ items \in {Empty} \cup (IF mix.legacy THEN [Item -> [title : mix.titles, by : User]] ELSE {})
    /\ tags = Empty
    /\ tagged = [w \in Work |-> {}]
    /\ workIndex = Empty
    /\ itemIndex = Empty
    /\ count = [s \in Slug |-> 0]
    /\ kudos = [w \in Work |-> {}]
    /\ comments = [w \in Work |-> <<>>]
    /\ file = Empty
    /\ at = [r \in Request |-> "idle"]
    /\ loc = [r \in Request |-> NoLoc]
    /\ ops = 0
    /\ solo = NoWork

AllIdle == \A r \in Request : at[r] = "idle"

\* The first connection of a process to an older database.
Rebuild ==
    /\ ~Ready
    /\ workIndex' = [w \in DOMAIN works |-> WorkRow(users, tags, works[w], tagged[w])]
    /\ itemIndex' = [i \in DOMAIN items |-> ItemRow(users, items[i])]
    /\ UNCHANGED <<mix, users, works, items, tags, tagged, count, kudos, comments, file, at, loc, ops, solo>>

-----------------------------------------------------------------------------
(* Users and fanart items: one transaction each.                           *)

Single(part) ==
    /\ Ready
    /\ part \in mix.singles
    /\ ops < mix.ops
    /\ ops' = ops + 1
    /\ UNCHANGED <<mix, kudos, comments, file, at, loc, solo>>

\* create_user, upsert_user, update_user_profile_details: the name is unique.
SetName(u, n) ==
    /\ Single("users")
    /\ \A x \in DOMAIN users \ {u} : users[x] # n
    /\ users' = With(users, u, n)
    /\ WorksRenamed(u, users')
    /\ ItemsRenamed(u, users')
    /\ UNCHANGED <<works, items, tags, tagged, count>>

\* delete_user: no trigger, and works and items stay.
RemoveUser(u) ==
    /\ Single("users")
    /\ u \in DOMAIN users
    /\ users' = Without(users, u)
    /\ UNCHANGED <<works, items, tags, tagged, workIndex, itemIndex, count>>

AddItem(i, t, u) ==
    /\ Single("items")
    /\ i \notin DOMAIN items
    /\ items' = With(items, i, [title |-> t, by |-> u])
    /\ itemIndex' = With(itemIndex, i, ItemRow(users, items'[i]))
    /\ UNCHANGED <<users, works, tags, tagged, workIndex, count>>

RemoveItem(i) ==
    /\ Single("items")
    /\ i \in DOMAIN items
    /\ items' = Without(items, i)
    /\ itemIndex' = Without(itemIndex, i)
    /\ UNCHANGED <<users, works, tags, tagged, workIndex, count>>

\* The command that counts the uses of all tags afresh, in works only.
Backfill ==
    /\ Single("items")
    /\ count' = [s \in Slug |-> Cardinality({w \in Work : s \in tagged[w]})]
    /\ UNCHANGED <<users, works, items, tags, tagged, workIndex, itemIndex>>

-----------------------------------------------------------------------------
(* Requests on a work.                                                     *)

To(r, step, l) ==
    /\ at' = [at EXCEPT ![r] = step]
    /\ loc' = [loc EXCEPT ![r] = l]

Stop(r) == To(r, "idle", NoLoc)

\* Ends early: nothing may be concluded from the request's having run.
Abandon(r) == Stop(r) /\ solo' = NoWork

Begin(r, q) ==
    /\ Ready
    /\ at[r] = "idle"
    /\ ops < mix.ops
    /\ ops' = ops + 1
    /\ q.kind # "import" => q.work \in DOMAIN works
    /\ solo' = IF AllIdle THEN q.work ELSE NoWork
    /\ To(r, IF q.kind \in {"import", "edit"} THEN "row" ELSE "read",
          [NoLoc EXCEPT !.q = q, !.title = IF q.kind \in {"import", "edit"} THEN q.title ELSE @])
    /\ UNCHANGED <<tables, file>>

AfterRead == [rate |-> "row", page |-> "row", delete |-> "dropRow",
              kudos |-> "kudos", comment |-> "comment"]

\* get_work: a page operation and set_work_rating go on with the title they
\* find, a deletion with the files to delete, a reader with the uploader.
ReadWork(r) ==
    LET w == loc[r].q.work IN
    /\ at[r] = "read"
    /\ IF w \in DOMAIN works
       THEN /\ To(r, AfterRead[loc[r].q.kind],
                  [loc[r] EXCEPT !.title = works[w].title, !.by = works[w].by])
            /\ UNCHANGED solo
       ELSE Abandon(r)
    /\ UNCHANGED <<tables, file, ops>>

\* The statement on works: an import and a page operation upsert the row, and
\* keep the uploader of one that is there; the metadata form and
\* set_work_rating update it.
Stored(l) ==
    LET w == l.q.work IN
    IF w \in DOMAIN works
    THEN [works EXCEPT ![w].title = l.title]
    ELSE IF l.q.kind \in {"edit", "rate"} THEN works
    ELSE With(works, w, [title |-> l.title,
                         by |-> IF l.q.kind = "import" THEN l.q.by ELSE CHOOSE u \in User : TRUE])

\* Seeded fault for Reindexed: an update trigger on the row keeps the fandoms
\* it finds in the index.
FaultReindexed(w, ws, ts, slugs) ==
    IF w \notin DOMAIN ws THEN workIndex
    ELSE With(workIndex, w, [WorkRow(users, ts, ws[w], slugs) EXCEPT !.fandoms =
            IF w \in DOMAIN workIndex THEN workIndex[w].fandoms ELSE @])

\* The triggers on works and work_tags write the row of one work again.
Reindexed(w, ws, ts, slugs) ==
    IF w \notin DOMAIN ws THEN workIndex
                          ELSE With(workIndex, w, WorkRow(users, ts, ws[w], slugs))

\* After the row and after the tags comes a sync; an import sets the tags after
\* the first one, the metadata form syncs twice at the end.
WriteRow(r) ==
    LET l == loc[r]
        w == l.q.work
    IN  /\ at[r] = "row"
        /\ works' = Stored(l)
        /\ workIndex' = Reindexed(w, works', tags, tagged[w])
        /\ To(r, IF l.q.kind \in {"edit", "rate"} THEN "tags" ELSE "sync", l)
        /\ UNCHANGED <<mix, users, items, tags, tagged, itemIndex, count, kudos, comments, file, ops, solo>>

\* The tags a request sets: set_work_rating hands on metadata that has none.
Wanted(l) == IF l.q.kind = "rate" THEN NoTags ELSE l.q.want

\* Seeded fault for Counted: a tag that is set again is not a new use.
FaultCounted(old, new) == [s \in Slug |-> IF s \in new /\ count[s] = 0 THEN 1 ELSE count[s]]

\* Every tag the work did not have before is one more use.
Counted(old, new) == [s \in Slug |-> IF s \in new \ old THEN count[s] + 1 ELSE count[s]]

\* replace_work_tags: a tag that exists keeps its type.
WriteTags(r) ==
    LET l    == loc[r]
        w    == l.q.work
        want == Wanted(l)
        new  == {s \in Slug : want[s] # "none"}
    IN  /\ at[r] = "tags"
        /\ w \in DOMAIN works \/ new = {}
        /\ tags' = [s \in DOMAIN tags \cup new |-> IF s \in DOMAIN tags THEN tags[s] ELSE want[s]]
        /\ tagged' = [tagged EXCEPT ![w] = new]
        /\ workIndex' = Reindexed(w, works, tags', new)
        /\ count' = Counted(tagged[w], new)
        /\ To(r, "sync", l)
        /\ UNCHANGED <<mix, users, works, items, itemIndex, kudos, comments, file, ops, solo>>

\* The foreign key of work_tags: the work is gone.
WriteTagsFails(r) ==
    /\ at[r] = "tags"
    /\ loc[r].q.work \notin DOMAIN works
    /\ \E s \in Slug : Wanted(loc[r])[s] # "none"
    /\ Abandon(r)
    /\ UNCHANGED <<tables, file, ops>>

\* add_work_kudo: a second one of the same reader is ignored.  The foreign key
\* refuses one of a work that is gone.
AddKudo(r) ==
    LET w == loc[r].q.work
        u == loc[r].q.by
    IN  /\ at[r] = "kudos"
        /\ IF w \in DOMAIN works
           THEN /\ kudos' = [kudos EXCEPT ![w] = @ \cup {u}]
                /\ To(r, "sync", [loc[r] EXCEPT !.new = u \notin kudos[w]])
                /\ UNCHANGED solo
           ELSE Abandon(r) /\ UNCHANGED kudos
        /\ UNCHANGED <<mix, users, works, items, tags, tagged, workIndex, itemIndex, count, comments, file, ops>>

\* add_work_comment.
AddComment(r) ==
    LET w == loc[r].q.work IN
    /\ at[r] = "comment"
    /\ IF w \in DOMAIN works
       THEN /\ comments' = [comments EXCEPT ![w] = Append(@, loc[r].q.by)]
            /\ To(r, "sync", [loc[r] EXCEPT !.new = TRUE])
            /\ UNCHANGED solo
       ELSE Abandon(r) /\ UNCHANGED comments
    /\ UNCHANGED <<mix, users, works, items, tags, tagged, workIndex, itemIndex, count, kudos, file, ops>>

\* Seeded fault for Tells: a second kudos tells the uploader again.
FaultTells(l) == l.q.kind \in {"kudos", "comment"} /\ l.by # l.q.by

\* After new kudos and comments the uploader of somebody else's work is told.
Tells(l) == l.q.kind \in {"kudos", "comment"} /\ l.new /\ l.by # l.q.by

\* What follows the n-th sync of a request.
AfterSync(l, n) ==
    IF l.q.kind = "import" /\ n = 1 THEN "tags"
    ELSE IF l.q.kind \in {"edit", "rate"} /\ n = 1 THEN "sync"
    ELSE IF Tells(l) THEN "notify" ELSE "idle"

Synced(r) ==
    LET n == loc[r].syncs + 1
        s == AfterSync(loc[r], n)
    IN  IF s = "idle" THEN Stop(r) ELSE To(r, s, [loc[r] EXCEPT !.syncs = n, !.read = Empty])

\* work_kudos_count.
KudosCount(w) == Cardinality(kudos[w])

Content(w) == [title |-> works[w].title, tags |-> tagged[w],
               kudos |-> KudosCount(w), comments |-> comments[w]]

\* sync_work_metadata_toml reads the work, and does nothing if it is gone, and
\* its tags, kudos and comments: one step here, for nothing is claimed of the
\* file after requests that overlapped ...
SyncRead(r) ==
    LET w == loc[r].q.work IN
    /\ at[r] = "sync"
    /\ IF w \in DOMAIN works THEN To(r, "write", [loc[r] EXCEPT !.read = Content(w)])
                             ELSE Synced(r)
    /\ UNCHANGED <<tables, file, ops, solo>>

\* ... and writes the file, making its directory if need be.
SyncWrite(r) ==
    /\ at[r] = "write"
    /\ file' = With(file, loc[r].q.work, loc[r].read)
    /\ Synced(r)
    /\ UNCHANGED <<tables, ops, solo>>

\* delete_work: tags, kudos and comments go with the row, the files later.
DropRow(r) ==
    LET w == loc[r].q.work IN
    /\ at[r] = "dropRow"
    /\ IF w \in DOMAIN works
       THEN /\ works' = Without(works, w)
            /\ tagged' = [tagged EXCEPT ![w] = {}]
            /\ workIndex' = Without(workIndex, w)
            /\ kudos' = [kudos EXCEPT ![w] = {}]
            /\ comments' = [comments EXCEPT ![w] = <<>>]
            /\ To(r, "dropFiles", loc[r])
            /\ UNCHANGED solo
       ELSE Abandon(r) /\ UNCHANGED <<works, tagged, workIndex, kudos, comments>>
    /\ UNCHANGED <<mix, users, items, tags, itemIndex, count, file, ops>>

DropFiles(r) ==
    /\ at[r] = "dropFiles"
    /\ file' = Without(file, loc[r].q.work)
    /\ Stop(r)
    /\ UNCHANGED <<tables, ops, solo>>

\* A transaction gives up or the process dies.
Fail(r) ==
    /\ at[r] # "idle"
    /\ Abandon(r)
    /\ UNCHANGED <<tables, file, ops>>

\* The steps of a request that touch no table of the module Community.
Step(r) ==
    \/ ReadWork(r) \/ WriteRow(r) \/ WriteTags(r) \/ WriteTagsFails(r)
    \/ AddKudo(r) \/ AddComment(r)
    \/ SyncRead(r) \/ SyncWrite(r)
    \/ DropFiles(r)

-----------------------------------------------------------------------------
(* Properties.                                                             *)

\* What a search finds is what a rebuild would find: whenever the index has a
\* row for everything, so that no connection would rebuild it, every row tells
\* the work's title, fandoms and uploader as they are.  Only the name of a user
\* who was removed may be an old one.
IndexIsFresh ==
    Ready =>
        /\ \A w \in DOMAIN works :
              LET fresh == WorkRow(users, tags, works[w], tagged[w])
              IN  workIndex[w] = IF works[w].by \in DOMAIN users THEN fresh
                                 ELSE [fresh EXCEPT !.name = workIndex[w].name]
        /\ \A i \in DOMAIN items :
              items[i].by \in DOMAIN users => itemIndex[i] = ItemRow(users, items[i])

\* Derived data other than the index.  However tags are set, dropped and set
\* again and works deleted, a tag counts at least the works that have it, so
\* that nothing in use ranks below what nobody uses.  And after a request that
\* no other request on works overlapped, metadata.toml is the work as the
\* database has it, or gone with the work.
DerivedFollows ==
    /\ \A s \in Slug : Cardinality({w \in Work : s \in tagged[w]}) <= count[s]
    /\ AllIdle /\ solo # NoWork =>
          IF solo \in DOMAIN works
          THEN solo \in DOMAIN file /\ file[solo] = Content(solo)
          ELSE solo \notin DOMAIN file
=============================================================================
