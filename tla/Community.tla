----------------------------- MODULE Community -----------------------------
(***************************************************************************)
(* What readers leave on works and fanart besides kudos and comments on    *)
(* works: notifications to the uploader, bookmarks, reading progress and   *)
(* comments on items, each bound to its work or item by a foreign key.     *)
(* Composed with the requests of Catalogue that write and delete works.    *)
(*                                                                         *)
(* A kudos or comment request reads the work, inserts its row, syncs       *)
(* metadata.toml and then inserts the notification, in transactions of     *)
(* their own; whatever else happens in between is the subject.  Pages,     *)
(* messages and texts are left out.                                        *)
(***************************************************************************)
EXTENDS Catalogue

VARIABLES
    notes,     \* the notifications ever made, those deleted as well
    marks,     \* user_bookmarks: the readers, by work
    progress,  \* reading_progress: the readers, by work
    remarks,   \* fanart_comments: the authors, by item
    astray     \* history: <<w, "crossed">>: w was deleted while another request
               \* on it was under way; <<w, "failed">>: one ended before its notification

community == <<notes, marks, progress, remarks, astray>>
allVars   == <<vars, community>>

CommunityInit ==
    /\ Init
    /\ notes = <<>>
    /\ marks = [w \in Work |-> {}]
    /\ progress = [w \in Work |-> {}]
    /\ remarks = [i \in Item |-> <<>>]
    /\ astray = {}

-----------------------------------------------------------------------------
(* Requests on a work.                                                     *)

\* create_notification.  Its foreign key refuses a work that is gone.
Notify(r) ==
    LET l == loc[r] IN
    /\ at[r] = "notify"
    /\ IF l.q.work \in DOMAIN works
       THEN /\ notes' = Append(notes, [to |-> l.by, by |-> l.q.by, kind |-> l.q.kind,
                                       work |-> l.q.work, state |-> "unread"])
            /\ Stop(r)
            /\ UNCHANGED solo
       ELSE Abandon(r) /\ UNCHANGED notes
    /\ UNCHANGED <<tables, file, ops, marks, progress, remarks, astray>>

\* Seeded fault for NotesUnlinked: ON DELETE does nothing.
FaultNotesUnlinked(w) == notes

\* ON DELETE SET NULL.
NotesUnlinked(w) == [n \in DOMAIN notes |->
    IF notes[n].work = w THEN [notes[n] EXCEPT !.work = NoWork] ELSE notes[n]]

Crossed(r, w) == \E s \in Request \ {r} : at[s] # "idle" /\ loc[s].q.work = w

\* The DELETE of delete_work with what the foreign keys make of it.
DropWork(r) ==
    LET w == loc[r].q.work IN
    /\ DropRow(r)
    /\ notes' = NotesUnlinked(w)
    /\ marks' = [marks EXCEPT ![w] = {}]
    /\ progress' = [progress EXCEPT ![w] = {}]
    /\ astray' = astray \cup (IF Crossed(r, w) THEN {<<w, "crossed">>} ELSE {})
    /\ UNCHANGED remarks

FailRequest(r) ==
    /\ Fail(r)
    /\ astray' = astray \cup (IF loc[r].new THEN {<<loc[r].q.work, "failed">>} ELSE {})
    /\ UNCHANGED <<notes, marks, progress, remarks>>

-----------------------------------------------------------------------------
(* One transaction each.                                                   *)

OfReader == Single("readers") /\ UNCHANGED <<users, works, items, tags, tagged, workIndex, itemIndex, count, astray>>

\* upsert_user_bookmark.
Bookmark(u, w) ==
    /\ OfReader
    /\ w \in DOMAIN works
    /\ marks' = [marks EXCEPT ![w] = @ \cup {u}]
    /\ UNCHANGED <<notes, progress, remarks>>

\* save_progress: whoever the request names.
SaveProgress(u, w) ==
    /\ OfReader
    /\ w \in DOMAIN works
    /\ progress' = [progress EXCEPT ![w] = @ \cup {u}]
    /\ UNCHANGED <<notes, marks, remarks>>

\* run_reader_comment_use_case: not on an item that is gone.
MayRemark(i) == i \in DOMAIN items

\* add_fanart_comment.
CommentItem(u, i) ==
    /\ OfReader
    /\ MayRemark(i)
    /\ remarks' = [remarks EXCEPT ![i] = Append(@, u)]
    /\ UNCHANGED <<notes, marks, progress>>

\* The notification page: one notification read, all of a user read, one deleted.
MarkRead(n) ==
    /\ OfReader
    /\ notes[n].state = "unread"
    /\ notes' = [notes EXCEPT ![n].state = "read"]
    /\ UNCHANGED <<marks, progress, remarks>>

MarkAllRead(u) ==
    /\ OfReader
    /\ notes' = [n \in DOMAIN notes |->
          IF notes[n].to = u /\ notes[n].state = "unread" THEN [notes[n] EXCEPT !.state = "read"]
                                                          ELSE notes[n]]
    /\ UNCHANGED <<marks, progress, remarks>>

DeleteNote(n) ==
    /\ OfReader
    /\ notes[n].state # "deleted"
    /\ notes' = [notes EXCEPT ![n].state = "deleted"]
    /\ UNCHANGED <<marks, progress, remarks>>

\* delete_fanart_item: its comments go with it.
DropItem(i) ==
    /\ RemoveItem(i)
    /\ remarks' = [remarks EXCEPT ![i] = <<>>]
    /\ UNCHANGED <<notes, marks, progress, astray>>

-----------------------------------------------------------------------------
(* What a reader's pages list: bookmarks and history join works, the       *)
(* notification page takes its links from the rows.                        *)

BookmarksOf(u) == {w \in DOMAIN works : u \in marks[w]}
HistoryOf(u)   == {w \in DOMAIN works : u \in progress[w]}
NotesOf(u)     == {n \in DOMAIN notes : notes[n].to = u /\ notes[n].state # "deleted"}

-----------------------------------------------------------------------------
Done == ops = mix.ops /\ AllIdle /\ Ready /\ UNCHANGED allVars

OnRows ==
    \/ Rebuild
    \/ \E u \in User, n \in Name : SetName(u, n)
    \/ \E u \in User : RemoveUser(u)
    \/ \E i \in Item, t \in mix.titles, u \in DOMAIN users : AddItem(i, t, u)
    \/ Backfill
    \/ \E r \in Request, q \in Requests : Begin(r, q)
    \/ \E r \in Request : Step(r)

OfReaders ==
    \/ \E u \in Reader, w \in Work : Bookmark(u, w) \/ SaveProgress(u, w)
    \/ \E u \in Reader, i \in Item : CommentItem(u, i)
    \/ \E n \in DOMAIN notes : MarkRead(n) \/ DeleteNote(n)
    \/ \E u \in User : MarkAllRead(u)

Next ==
    \/ OnRows /\ UNCHANGED community
    \/ \E r \in Request : Notify(r) \/ DropWork(r) \/ FailRequest(r)
    \/ \E i \in Item : DropItem(i)
    \/ OfReaders
    \/ Done

Spec == CommunityInit /\ [][Next]_allVars

-----------------------------------------------------------------------------
(* Properties.                                                             *)

\* What u has given w by now, what its uploader was told of it, and what is on
\* the way.
Given(w, u, k) ==
    IF k = "kudos" THEN Cardinality({u} \cap kudos[w])
                   ELSE Cardinality({n \in DOMAIN comments[w] : comments[w][n] = u})

Told(w, u, k) ==
    Cardinality({n \in DOMAIN notes :
        notes[n] = [to |-> works[w].by, by |-> u, kind |-> k, work |-> w, state |-> notes[n].state]})

Coming(w, u, k) ==
    Cardinality({r \in Request : loc[r].new /\ loc[r].q.kind = k /\ loc[r].q.work = w /\ loc[r].q.by = u})

\* However often kudos are clicked, in one request or in two at the same time,
\* and however comments interleave with them, the uploader is told of each of
\* somebody else's kudos and comments once, and never of one that was not
\* stored; of his own he is not.  A request that ends in between loses the
\* notification for good: what it stored makes a second click count for nothing.
\* A work that was deleted under a request and imported again is left out.
ToldOnce ==
    \A w \in DOMAIN works, u \in Reader, k \in {"kudos", "comment"} :
        <<w, "crossed">> \notin astray =>
            IF u = works[w].by THEN Told(w, u, k) = 0
            ELSE /\ Told(w, u, k) + Coming(w, u, k) <= Given(w, u, k)
                 /\ <<w, "failed">> \notin astray => Told(w, u, k) + Coming(w, u, k) = Given(w, u, k)

\* Nothing readers left outlives what it was left on, whenever the deletion
\* comes: no kudos or comments of a work that is gone, no bookmark or progress
\* that its owner's pages, which join works, would hide, no notification that
\* names a work that is gone, no comment on an item that is gone.
GoneWithWork ==
    /\ \A w \in Work \ DOMAIN works : kudos[w] = {} /\ comments[w] = <<>>
    /\ \A u \in Reader :
          /\ BookmarksOf(u) = {w \in Work : u \in marks[w]}
          /\ HistoryOf(u) = {w \in Work : u \in progress[w]}
          /\ \A n \in NotesOf(u) : notes[n].work \in DOMAIN works \cup {NoWork}
    /\ \A i \in Item \ DOMAIN items : remarks[i] = <<>>
=============================================================================
