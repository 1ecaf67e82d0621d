---------------------------- MODULE CommunityProofs ----------------------------
(***************************************************************************)
(* What is derived from the rows of works, and what readers leave on them: *)
(* proofs about Catalogue and Community for any number of requests, works, *)
(* items, users, readers and tags.                                         *)
(*                                                                         *)
(* Four arguments over one type invariant: every transaction leaves the    *)
(* full-text rows fresh; a deletion takes along all that hangs on the      *)
(* work; a request that runs alone leaves the file as the rows are; and    *)
(* what a reader gave is what the uploader was told of and what is still   *)
(* on its way.                                                             *)
(***************************************************************************)
EXTENDS Community, FiniteSetTheorems, TLAPS

-----------------------------------------------------------------------------
(* What the state is made of.                                              *)

WorkRec == [title : Title, by : User]

\* Every request on a work, by what its form asks for.
Writes  == [kind : {"import"}, work : Work, title : Title, by : User, want : Wants]
Edits   == [kind : {"edit"}, work : Work, title : Title, want : Wants]
Changes == [kind : {"rate", "page", "delete"}, work : Work]
Gives   == [kind : {"kudos", "comment"}, work : Work, by : Reader]
Forms   == Writes \cup Edits \cup Changes \cup Gives

StepName == {"idle", "read", "row", "tags", "sync", "write", "kudos", "comment", "notify",
             "dropRow", "dropFiles"}

\* What a sync reads of a work.
Snapshot == [title : Title, tags : SUBSET Slug, kudos : {Cardinality(s) : s \in SUBSET Reader},
             comments : Seq(Reader)]

LocRec == [q : Forms \cup {[kind |-> "none"]}, title : Title \cup {"none"}, by : User \cup {"none"},
           new : BOOLEAN, syncs : Nat, read : Snapshot \cup {Empty}]

\* A request and its next step belong together.
StepsOf == [import  |-> {"row", "tags", "sync", "write"},
            edit    |-> {"row", "tags", "sync", "write"},
            rate    |-> {"read", "row", "tags", "sync", "write"},
            page    |-> {"read", "row", "sync", "write"},
            delete  |-> {"read", "dropRow", "dropFiles"},
            kudos   |-> {"read", "kudos", "sync", "write", "notify"},
            comment |-> {"read", "comment", "sync", "write", "notify"},
            none    |-> {}]

ByReader(l) == l.q.kind \in {"kudos", "comment"}

Fits(step, l) ==
    /\ step = "idle" => l = NoLoc
    /\ step # "idle" => l.q \in Forms /\ step \in StepsOf[l.q.kind]
    /\ step = "row" => l.title \in Title
    /\ step = "write" => l.read \in Snapshot
    /\ step = "notify" => Tells(l)
    /\ l.new => ByReader(l) /\ step \in {"sync", "write", "notify"}
    /\ ByReader(l) /\ step # "read" => l.by \in User

TablesType ==
    /\ mix \in Mixes
    /\ DOMAIN works \subseteq Work /\ works \in [DOMAIN works -> WorkRec]
    /\ tagged \in [Work -> SUBSET Slug]
    /\ \A w \in Work : tagged[w] \subseteq DOMAIN tags
    /\ count \in [Slug -> Nat]
    /\ kudos \in [Work -> SUBSET Reader]
    /\ comments \in [Work -> Seq(Reader)]
    /\ ops \in Nat

RequestsType ==
    /\ at \in [Request -> StepName]
    /\ loc \in [Request -> LocRec]
    /\ \A r \in Request : Fits(at[r], loc[r])
    /\ solo \in Work \cup {NoWork}

Note == [to : User, by : Reader, kind : {"kudos", "comment"}, work : Work \cup {NoWork},
         state : {"unread", "read", "deleted"}]

ReadersType ==
    /\ notes \in Seq(Note)
    /\ marks \in [Work -> SUBSET Reader]
    /\ progress \in [Work -> SUBSET Reader]
    /\ remarks \in [Item -> Seq(Reader)]

Typed == TablesType /\ RequestsType /\ ReadersType

-----------------------------------------------------------------------------
(* The arguments.                                                          *)

\* Before the indexes are ready nothing runs but their rebuild.
Indexed == (Ready \/ AllIdle) /\ IndexIsFresh

\* Nothing hangs on a work or an item that is gone.
Gone ==
    /\ \A w \in Work \ DOMAIN works :
          kudos[w] = {} /\ comments[w] = <<>> /\ marks[w] = {} /\ progress[w] = {}
    /\ \A n \in DOMAIN notes : notes[n].work \in DOMAIN works \cup {NoWork}
    /\ \A i \in Item \ DOMAIN items : remarks[i] = <<>>

Popular == \A s \in Slug : Cardinality({w \in Work : s \in tagged[w]}) <= count[s]

\* The file of w is w, or gone with it.
FileFollows(w) ==
    IF w \in DOMAIN works THEN w \in DOMAIN file /\ file[w] = Content(w) ELSE w \notin DOMAIN file

\* A request that has run alone so far finds the work as it has left it.
Undisturbed(step, l) ==
    /\ l.q.work = solo
    /\ step = "row" => l.q.kind = "import" \/ solo \in DOMAIN works
    /\ step \notin {"row", "dropFiles"} => solo \in DOMAIN works
    /\ step = "dropFiles" => solo \notin DOMAIN works
    /\ step = "write" => l.read = Content(solo)
    /\ step = "notify" => FileFollows(solo)

Alone ==
    solo # NoWork =>
        /\ \A r, s \in Request : at[r] # "idle" /\ at[s] # "idle" => r = s
        /\ \A r \in Request : at[r] # "idle" => Undisturbed(at[r], loc[r])
        /\ AllIdle => FileFollows(solo)

\* A reader's request knows the work and its uploader, unless they were crossed.
Knows(step, l) ==
    ByReader(l) /\ <<l.q.work, "crossed">> \notin astray =>
        /\ l.q.work \in DOMAIN works
        /\ step # "read" => l.by = works[l.q.work].by

RequestsKnow == \A r \in Request : Knows(at[r], loc[r])

IInv == Typed /\ Indexed /\ Gone /\ Popular /\ Alone /\ RequestsKnow /\ ToldOnce

-----------------------------------------------------------------------------
(* Types: requests.                                                        *)

LEMMA FormFields ==
    ASSUME NEW q \in Forms
    PROVE  /\ q.kind \in {"import", "edit", "rate", "page", "delete", "kudos", "comment"}
           /\ q.work \in Work
           /\ q.kind \in {"import", "edit"} => q.title \in Title /\ q.want \in Wants
           /\ q.kind = "import" => q.by \in User
           /\ q.kind \in {"kudos", "comment"} => q.by \in Reader
BY DEF Forms, Writes, Edits, Changes, Gives

LEMMA NoneTyped == NoLoc \in LocRec /\ Fits("idle", NoLoc) /\ NoLoc.new = FALSE /\ ~ByReader(NoLoc)
<1>1. NoLoc \in LocRec /\ NoLoc.new = FALSE /\ NoLoc.q.kind = "none"
    BY DEF NoLoc, LocRec
<1>. QED
    BY <1>1 DEF Fits, ByReader

LEMMA LocFields ==
    ASSUME RequestsType, NEW r \in Request
    PROVE  /\ at[r] \in StepName /\ loc[r] \in LocRec /\ Fits(at[r], loc[r])
           /\ loc[r].title \in Title \cup {"none"} /\ loc[r].by \in User \cup {"none"}
           /\ loc[r].new \in BOOLEAN /\ loc[r].syncs \in Nat /\ loc[r].read \in Snapshot \cup {Empty}
           /\ at[r] # "idle" => /\ loc[r].q \in Forms /\ loc[r].q.work \in Work
                                /\ at[r] \in StepsOf[loc[r].q.kind]
BY FormFields DEF RequestsType, LocRec, Fits

\* A request moves on.
LEMMA MovesTyped ==
    ASSUME RequestsType, NEW r \in Request, NEW step \in StepName, NEW l \in LocRec,
           Fits(step, l), To(r, step, l), solo' \in {solo, NoWork}
    PROVE  RequestsType'
<1>1. at' \in [Request -> StepName] /\ loc' \in [Request -> LocRec]
    BY DEF RequestsType, To
<1>2. \A x \in Request : IF x = r THEN at'[x] = step /\ loc'[x] = l
                         ELSE at'[x] = at[x] /\ loc'[x] = loc[x]
    BY DEF RequestsType, To
<1>. QED
    BY <1>1, <1>2 DEF RequestsType

\* The steps of a request and what they make of it.
Walks(r) == (Step(r) /\ UNCHANGED community) \/ Notify(r) \/ DropWork(r) \/ FailRequest(r)

Kept(m, l) == m.q = l.q /\ m.title = l.title /\ m.by = l.by /\ m.new = l.new

LEMMA SyncedShape ==
    ASSUME RequestsType, NEW r \in Request, at[r] \in {"sync", "write"}, Synced(r)
    PROVE  \/ Stop(r) /\ ~(ByReader(loc[r]) /\ Tells(loc[r]))
           \/ \E step \in {"tags", "sync", "notify"}, l \in LocRec :
                 /\ To(r, step, l) /\ Fits(step, l) /\ Kept(l, loc[r])
                 /\ step = "notify" <=> ByReader(loc[r])
<1>1. PICK n : n = loc[r].syncs + 1
    OBVIOUS
<1>2. PICK s : s = AfterSync(loc[r], n)
    OBVIOUS
<1>3. s \in {"tags", "sync", "notify", "idle"}
    BY <1>2 DEF AfterSync
<1>4. CASE s = "idle"
  <2>1. ~Tells(loc[r]) /\ Stop(r)
    <3>1. Stop(r) /\ (Tells(loc[r]) => loc[r].q.kind \in {"edit", "rate", "import"})
        BY <1>1, <1>2, <1>4 DEF Synced, AfterSync
    <3>. QED
        BY <1>2, <1>4, <3>1 DEF AfterSync, Tells
  <2>. QED
      BY <2>1
<1>5. CASE s # "idle"
  <2>1. PICK l : l = [loc[r] EXCEPT !.syncs = n, !.read = Empty]
      OBVIOUS
  <2>2. l \in LocRec /\ Kept(l, loc[r])
    <3>1. loc[r] \in LocRec /\ n \in Nat
        BY <1>1, LocFields
    <3>2. l \in LocRec
        BY <2>1, <3>1 DEF LocRec
    <3>3. Kept(l, loc[r])
        BY <2>1, <3>1 DEF LocRec, Kept
    <3>. QED
        BY <3>2, <3>3
  <2>3. To(r, s, l)
      BY <1>1, <1>2, <1>5, <2>1 DEF Synced
  <2>4. loc[r].q.kind \in {"import", "edit", "rate", "page", "kudos", "comment"} /\ loc[r].q \in Forms
      BY LocFields, FormFields DEF StepsOf
  <2>5. s = "notify" <=> ByReader(loc[r])
      BY <1>2, <1>3, <1>5, <2>4 DEF AfterSync, Tells, ByReader
  <2>6. s = "notify" => Tells(l)
      BY <1>2, <2>2, <2>4, <2>5 DEF AfterSync, Tells, Kept, ByReader
  <2>7. s \in StepsOf[l.q.kind]
      BY <1>2, <1>3, <1>5, <2>2, <2>4 DEF AfterSync, StepsOf, Tells, Kept
  <2>8. (l.new => ByReader(l)) /\ (l.new => s \in {"sync", "notify"}) /\ (ByReader(l) => l.by \in User)
      BY <1>3, <1>5, <2>2, <2>4, <2>5, LocFields DEF Fits, Kept, ByReader
  <2>9. Fits(s, l)
      BY <1>3, <1>5, <2>2, <2>4, <2>6, <2>7, <2>8 DEF Fits, Kept
  <2>. QED
      BY <1>3, <1>5, <2>2, <2>3, <2>5, <2>9
<1>. QED
    BY <1>4, <1>5

LEMMA WorkFields ==
    ASSUME TablesType, NEW w \in DOMAIN works
    PROVE  w \in Work /\ works[w] \in WorkRec /\ works[w].title \in Title /\ works[w].by \in User
BY DEF TablesType, WorkRec

LEMMA ContentTyped == ASSUME TablesType, NEW w \in DOMAIN works PROVE Content(w) \in Snapshot
<1>1. works[w].title \in Title /\ w \in Work
    BY WorkFields
<1>2. tagged[w] \in SUBSET Slug /\ kudos[w] \in SUBSET Reader /\ comments[w] \in Seq(Reader)
    BY <1>1 DEF TablesType
<1>3. KudosCount(w) \in {Cardinality(s) : s \in SUBSET Reader}
    BY <1>2 DEF KudosCount
<1>. QED
    BY <1>1, <1>2, <1>3 DEF Content, Snapshot

\* A request that is under way moves on to a step it can take, or ends.
LEMMA WalkShape ==
    ASSUME Typed, NEW r \in Request, Walks(r)
    PROVE  /\ at[r] # "idle" /\ solo' \in {solo, NoWork}
           /\ \E step \in StepName, l \in LocRec :
                 To(r, step, l) /\ Fits(step, l) /\ (step # "idle" => l.q = loc[r].q)
<1>0. TablesType /\ RequestsType
    BY DEF Typed
<1>. DEFINE q == loc[r].q
            Shape == \E step \in StepName, l \in LocRec :
                        To(r, step, l) /\ Fits(step, l) /\ (step # "idle" => l.q = q)
<1>1. /\ loc[r] \in LocRec /\ Fits(at[r], loc[r]) /\ at[r] \in StepName
      /\ at[r] # "idle" => q \in Forms /\ q.work \in Work /\ at[r] \in StepsOf[q.kind]
    BY <1>0, LocFields
<1>2. Stop(r) => Shape
    BY NoneTyped DEF Stop, StepName
<1>3. CASE ReadWork(r)
  <2>1. at[r] = "read" /\ solo' \in {solo, NoWork}
      BY <1>3 DEF ReadWork, Abandon
  <2>2. CASE q.work \in DOMAIN works
    <3>1. PICK l : l = [loc[r] EXCEPT !.title = works[q.work].title, !.by = works[q.work].by]
        OBVIOUS
    <3>2. PICK step : step = AfterRead[q.kind]
        OBVIOUS
    <3>3. works[q.work].title \in Title /\ works[q.work].by \in User
        BY <1>0, <2>2, WorkFields
    <3>4. l \in LocRec
        BY <1>1, <3>1, <3>3 DEF LocRec
    <3>5. l.q = q /\ l.new = loc[r].new /\ l.title \in Title /\ l.by \in User
        BY <1>1, <3>1, <3>3 DEF LocRec
    <3>6. q.kind \in {"rate", "page", "delete", "kudos", "comment"} /\ q \in Forms
        BY <1>1, <2>1, FormFields DEF StepsOf
    <3>7. step \in StepName /\ step \in StepsOf[q.kind] /\ step \in {"row", "dropRow", "kudos", "comment"}
        BY <3>2, <3>6 DEF AfterRead, StepsOf, StepName
    <3>8. ~loc[r].new
        BY <1>1, <2>1, <1>0, LocFields DEF Fits
    <3>9. Fits(step, l)
        BY <3>5, <3>6, <3>7, <3>8 DEF Fits
    <3>10. To(r, step, l)
        BY <1>3, <2>2, <3>1, <3>2 DEF ReadWork
    <3>. QED
        BY <2>1, <3>4, <3>5, <3>7, <3>9, <3>10
  <2>3. CASE q.work \notin DOMAIN works
      BY <1>2, <1>3, <2>1, <2>3 DEF ReadWork, Abandon
  <2>. QED
      BY <2>2, <2>3
<1>4. CASE WriteRow(r) \/ WriteTags(r)
  <2>1. PICK step \in {"tags", "sync"} : To(r, step, loc[r]) /\ (step = "tags" => q.kind \in {"edit", "rate"})
      BY <1>4 DEF WriteRow, WriteTags
  <2>2. q \in Forms /\ at[r] \in StepsOf[q.kind] /\ at[r] \in {"row", "tags"} /\ solo' = solo
      BY <1>1, <1>4 DEF WriteRow, WriteTags
  <2>3. q.kind \in {"import", "edit", "rate", "page"} /\ step \in StepsOf[q.kind]
      BY <2>1, <2>2, FormFields DEF StepsOf
  <2>4. Fits(step, loc[r]) /\ step \in StepName
      BY <1>1, <2>1, <2>2, <2>3 DEF Fits, ByReader, StepName
  <2>. QED
      BY <1>1, <2>1, <2>2, <2>4
<1>5. CASE WriteTagsFails(r) \/ FailRequest(r) \/ DropFiles(r)
    BY <1>2, <1>5 DEF WriteTagsFails, FailRequest, Fail, DropFiles, Abandon
<1>6. CASE AddKudo(r) \/ AddComment(r)
  <2>1. at[r] \in {"kudos", "comment"} /\ solo' \in {solo, NoWork}
      BY <1>6 DEF AddKudo, AddComment, Abandon
  <2>2. CASE Abandon(r)
      BY <1>2, <2>1, <2>2 DEF Abandon
  <2>3. CASE ~Abandon(r)
    <3>1. PICK new \in BOOLEAN : To(r, "sync", [loc[r] EXCEPT !.new = new])
      <4>1. CASE AddKudo(r)
        <5>1. PICK new \in BOOLEAN : new = (q.by \notin kudos[q.work])
            OBVIOUS
        <5>. QED
            BY <2>3, <4>1, <5>1 DEF AddKudo
      <4>2. CASE AddComment(r)
          BY <2>3, <4>2 DEF AddComment
      <4>. QED
          BY <1>6, <4>1, <4>2
    <3>2. PICK l : l = [loc[r] EXCEPT !.new = new]
        OBVIOUS
    <3>3. l \in LocRec /\ l.q = q /\ l.by = loc[r].by
        BY <1>1, <3>2 DEF LocRec
    <3>4. q.kind \in {"kudos", "comment"} /\ q \in Forms /\ loc[r].by \in User
        BY <1>1, <2>1, FormFields DEF StepsOf, Fits, ByReader
    <3>5. Fits("sync", l)
        BY <3>3, <3>4 DEF Fits, ByReader, StepsOf
    <3>. QED
        BY <2>1, <3>1, <3>2, <3>3, <3>5 DEF StepName
  <2>. QED
      BY <2>2, <2>3
<1>7. CASE SyncRead(r) \/ SyncWrite(r)
  <2>1. at[r] \in {"sync", "write"} /\ solo' = solo
      BY <1>7 DEF SyncRead, SyncWrite
  <2>2. CASE Synced(r)
      BY <1>0, <1>2, <2>1, <2>2, SyncedShape DEF Kept, StepName
  <2>3. CASE ~Synced(r)
    <3>1. SyncRead(r) /\ q.work \in DOMAIN works /\ at[r] = "sync"
        BY <1>7, <2>3 DEF SyncRead, SyncWrite
    <3>2. PICK c \in Snapshot : c = Content(q.work)
        BY <1>0, <3>1, ContentTyped
    <3>3. PICK l : l = [loc[r] EXCEPT !.read = c]
        OBVIOUS
    <3>4. l \in LocRec /\ l.read = c /\ Kept(l, loc[r])
        BY <1>1, <3>3 DEF LocRec, Kept
    <3>5. q \in Forms /\ "write" \in StepsOf[q.kind]
        BY <1>1, <3>1, FormFields DEF StepsOf
    <3>6. Fits("write", l)
        BY <1>1, <3>1, <3>4, <3>5 DEF Fits, Kept, ByReader
    <3>7. To(r, "write", l)
        BY <3>1, <3>2, <3>3 DEF SyncRead
    <3>. QED
        BY <2>1, <3>4, <3>6, <3>7 DEF Kept, StepName
  <2>. QED
      BY <2>2, <2>3
<1>8. CASE Notify(r)
    BY <1>2, <1>8 DEF Notify, Abandon
<1>9. CASE DropWork(r)
  <2>1. at[r] = "dropRow" /\ solo' \in {solo, NoWork} /\ (Stop(r) \/ To(r, "dropFiles", loc[r]))
      BY <1>9 DEF DropWork, DropRow, Abandon
  <2>2. Fits("dropFiles", loc[r])
      BY <1>1, <2>1, FormFields DEF Fits, StepsOf, ByReader
  <2>. QED
      BY <1>1, <1>2, <2>1, <2>2 DEF StepName
<1>. QED
    BY <1>3, <1>4, <1>5, <1>6, <1>7, <1>8, <1>9 DEF Walks, Step

-----------------------------------------------------------------------------
(* Types: the tables.                                                      *)

\* The steps of the system, one kind to a line.
LEMMA Steps ==
    ASSUME [Next]_allVars
    PROVE  \/ Rebuild /\ UNCHANGED community
           \/ \E u \in User, n \in Name : SetName(u, n) /\ UNCHANGED community
           \/ \E u \in User : RemoveUser(u) /\ UNCHANGED community
           \/ \E i \in Item : \E t, u : AddItem(i, t, u) /\ UNCHANGED community
           \/ Backfill /\ UNCHANGED community
           \/ \E r \in Request, q \in Requests : Begin(r, q) /\ UNCHANGED community
           \/ \E r \in Request : Walks(r)
           \/ \E i \in Item : DropItem(i)
           \/ OfReaders
           \/ UNCHANGED allVars
BY DEF Next, OnRows, Walks, Done

LEMMA StoredTyped ==
    ASSUME TablesType, NEW l \in LocRec, l.q \in Forms, l.title \in Title,
           l.q.kind \in {"import", "edit", "rate", "page"}
    PROVE  /\ DOMAIN Stored(l) \subseteq Work /\ Stored(l) \in [DOMAIN Stored(l) -> WorkRec]
           /\ DOMAIN works \subseteq DOMAIN Stored(l) /\ DOMAIN Stored(l) \subseteq DOMAIN works \cup {l.q.work}
           /\ \A w \in DOMAIN works : Stored(l)[w].by = works[w].by
           /\ \A w \in DOMAIN works \ {l.q.work} : Stored(l)[w] = works[w]
           /\ l.q.kind \in {"import", "page"} => l.q.work \in DOMAIN Stored(l)
<1>. DEFINE w == l.q.work
<1>1. /\ w \in Work /\ (l.q.kind = "import" => l.q.by \in User)
      /\ DOMAIN works \subseteq Work /\ works \in [DOMAIN works -> WorkRec]
    BY FormFields DEF TablesType
<1>2. CASE w \in DOMAIN works
  <2>1. Stored(l) = [works EXCEPT ![w].title = l.title]
      BY <1>2 DEF Stored
  <2>2. works[w] \in WorkRec
      BY <1>1, <1>2
  <2>3. PICK x : x = [works[w] EXCEPT !.title = l.title]
      OBVIOUS
  <2>4. x \in WorkRec /\ x.by = works[w].by
      BY <2>2, <2>3 DEF WorkRec
  <2>5. Stored(l) = [works EXCEPT ![w] = x]
      BY <2>1, <2>3
  <2>. QED
      BY <1>1, <1>2, <2>4, <2>5
<1>3. CASE w \notin DOMAIN works /\ l.q.kind \in {"edit", "rate"}
    BY <1>1, <1>3 DEF Stored
<1>4. CASE w \notin DOMAIN works /\ l.q.kind \notin {"edit", "rate"}
  <2>1. PICK by : by = IF l.q.kind = "import" THEN l.q.by ELSE CHOOSE u \in User : TRUE
      OBVIOUS
  <2>2. by \in User
    <3>1. (CHOOSE u \in User : TRUE) \in User
        BY CatalogueAssumption
    <3>. QED
        BY <1>1, <2>1, <3>1
  <2>3. Stored(l) = With(works, w, [title |-> l.title, by |-> by])
      BY <1>4, <2>1 DEF Stored
  <2>4. PICK x : x = [title |-> l.title, by |-> by]
      OBVIOUS
  <2>5. x \in WorkRec
      BY <2>2, <2>4 DEF WorkRec
  <2>6. Stored(l) = [z \in DOMAIN works \cup {w} |-> IF z = w THEN x ELSE works[z]]
      BY <2>3, <2>4 DEF With
  <2>. QED
      BY <1>1, <1>4, <2>5, <2>6
<1>. QED
    BY <1>2, <1>3, <1>4

\* What a request that is under way does to the rows.
LEMMA WalkTables ==
    ASSUME Typed, NEW r \in Request, Walks(r)
    PROVE  TablesType' /\ ReadersType' /\ UNCHANGED <<mix, users, items, itemIndex, ops, remarks>>
<1>. DEFINE q == loc[r].q
<1>1. /\ loc[r] \in LocRec /\ Fits(at[r], loc[r]) /\ at[r] \in StepsOf[q.kind]
      /\ q \in Forms /\ q.work \in Work /\ q.kind # "none"
    BY LocFields, WalkShape, FormFields DEF Typed
<1>2. CASE WriteRow(r) /\ UNCHANGED community
  <2>1. q.kind \in {"import", "edit", "rate", "page"} /\ loc[r].title \in Title
      BY <1>1, <1>2, FormFields DEF WriteRow, Fits, StepsOf
  <2>2. DOMAIN works' \subseteq Work /\ works' \in [DOMAIN works' -> WorkRec]
      BY <1>1, <1>2, <2>1, StoredTyped DEF WriteRow, Typed
  <2>. QED
      BY <1>2, <2>2 DEF WriteRow, Typed, TablesType, ReadersType, community
<1>3. CASE WriteTags(r) /\ UNCHANGED community
  <2>1. PICK new : new = {s \in Slug : Wanted(loc[r])[s] # "none"}
      OBVIOUS
  <2>2. /\ DOMAIN tags' = DOMAIN tags \cup new /\ tagged' = [tagged EXCEPT ![q.work] = new]
        /\ count' = Counted(tagged[q.work], new) /\ UNCHANGED <<mix, works, kudos, comments, ops>>
      BY <1>3, <2>1 DEF WriteTags
  <2>3. count' \in [Slug -> Nat]
      BY <2>2 DEF Counted, Typed, TablesType
  <2>4. new \subseteq Slug /\ tagged' \in [Work -> SUBSET Slug]
      BY <1>1, <2>1, <2>2 DEF Typed, TablesType
  <2>5. \A w \in Work : tagged'[w] \subseteq DOMAIN tags'
      BY <1>1, <2>2 DEF Typed, TablesType
  <2>6. TablesType'
      BY <2>2, <2>3, <2>4, <2>5 DEF Typed, TablesType
  <2>7. UNCHANGED <<mix, users, items, itemIndex, ops>>
      BY <1>3 DEF WriteTags
  <2>. QED
      BY <1>3, <2>6, <2>7 DEF Typed, ReadersType, community
<1>4. CASE AddKudo(r) /\ UNCHANGED community
  <2>1. q.by \in Reader
      BY <1>1, <1>4, FormFields DEF AddKudo, StepsOf
  <2>2. /\ kudos' = kudos \/ kudos' = [kudos EXCEPT ![q.work] = @ \cup {q.by}]
        /\ UNCHANGED <<mix, users, works, items, tags, tagged, itemIndex, count, comments, ops>>
      BY <1>4 DEF AddKudo
  <2>3. kudos' \in [Work -> SUBSET Reader]
    <3>1. PICK all \in SUBSET Reader : all = kudos[q.work] \cup {q.by}
        BY <1>1, <2>1 DEF Typed, TablesType
    <3>2. kudos' = kudos \/ kudos' = [kudos EXCEPT ![q.work] = all]
        BY <2>2, <3>1
    <3>. QED
        BY <3>2 DEF Typed, TablesType
  <2>. QED
      BY <1>4, <2>2, <2>3 DEF Typed, TablesType, ReadersType, community
<1>5. CASE AddComment(r) /\ UNCHANGED community
  <2>1. q.by \in Reader
      BY <1>1, <1>5, FormFields DEF AddComment, StepsOf
  <2>2. Append(comments[q.work], q.by) \in Seq(Reader)
      BY <1>1, <2>1 DEF Typed, TablesType
  <2>3. comments' \in [Work -> Seq(Reader)]
      BY <1>1, <1>5, <2>2 DEF AddComment, Typed, TablesType
  <2>. QED
      BY <1>5, <2>3 DEF AddComment, Typed, TablesType, ReadersType, community
<1>6. ASSUME UNCHANGED <<tables, ops>>, ReadersType' PROVE TablesType' /\ UNCHANGED <<mix, users, items, itemIndex, ops>>
    BY <1>6 DEF Typed, TablesType, tables
<1>7. CASE (ReadWork(r) \/ WriteTagsFails(r) \/ SyncRead(r) \/ SyncWrite(r) \/ DropFiles(r)) /\ UNCHANGED community
    BY <1>6, <1>7 DEF ReadWork, WriteTagsFails, SyncRead, SyncWrite, DropFiles, Typed, ReadersType, community
<1>8. CASE FailRequest(r)
    BY <1>6, <1>8 DEF FailRequest, Fail, Typed, ReadersType
<1>9. CASE Notify(r)
  <2>1. q.kind \in {"kudos", "comment"} /\ q.by \in Reader /\ loc[r].by \in User
      BY <1>1, <1>9, FormFields DEF Notify, StepsOf, Fits, ByReader
  <2>2. PICK n : n = [to |-> loc[r].by, by |-> q.by, kind |-> q.kind, work |-> q.work, state |-> "unread"]
      OBVIOUS
  <2>3. n \in Note
      BY <1>1, <2>1, <2>2 DEF Note
  <2>4. notes' = Append(notes, n) \/ notes' = notes
      BY <1>9, <2>2 DEF Notify
  <2>5. notes' \in Seq(Note)
      BY <2>3, <2>4 DEF Typed, ReadersType
  <2>6. UNCHANGED <<tables, ops, marks, progress, remarks>>
      BY <1>9 DEF Notify
  <2>. QED
      BY <1>6, <2>5, <2>6 DEF Typed, ReadersType
<1>10. CASE DropWork(r)
  <2>1. notes' \in Seq(Note)
    <3>1. PICK n \in Nat : notes \in [1..n -> Note] /\ DOMAIN notes = 1..n
        BY DEF Typed, ReadersType
    <3>2. ASSUME NEW k \in 1..n PROVE notes'[k] \in Note
      <4>1. notes[k] \in Note /\ [notes[k] EXCEPT !.work = NoWork] \in Note
          BY <3>1 DEF Note
      <4>. QED
          BY <1>10, <3>1, <4>1 DEF DropWork, NotesUnlinked
    <3>3. notes' = [k \in 1..n |-> notes'[k]]
        BY <1>10, <3>1 DEF DropWork, NotesUnlinked
    <3>. QED
        BY <3>2, <3>3
  <2>2. marks' \in [Work -> SUBSET Reader] /\ progress' \in [Work -> SUBSET Reader] /\ remarks' = remarks
      BY <1>10 DEF DropWork, Typed, ReadersType
  <2>3. CASE q.work \in DOMAIN works
    <3>1. /\ works' = [z \in DOMAIN works \ {q.work} |-> works[z]]
          /\ tagged' = [tagged EXCEPT ![q.work] = {}] /\ kudos' = [kudos EXCEPT ![q.work] = {}]
          /\ comments' = [comments EXCEPT ![q.work] = <<>>]
          /\ UNCHANGED <<mix, users, items, tags, itemIndex, count, ops>>
        BY <1>10, <2>3 DEF DropWork, DropRow, Without
    <3>2. DOMAIN works' \subseteq Work /\ works' \in [DOMAIN works' -> WorkRec]
        BY <3>1 DEF Typed, TablesType
    <3>3. <<>> \in Seq(Reader)
        OBVIOUS
    <3>4. comments' \in [Work -> Seq(Reader)]
        BY <3>1, <3>3 DEF Typed, TablesType
    <3>. QED
        BY <2>1, <2>2, <3>1, <3>2, <3>4 DEF Typed, TablesType, ReadersType
  <2>4. CASE q.work \notin DOMAIN works
      BY <1>10, <2>1, <2>2, <2>4 DEF DropWork, DropRow, Typed, TablesType, ReadersType
  <2>. QED
      BY <2>3, <2>4
<1>. QED
    BY <1>2, <1>3, <1>4, <1>5, <1>7, <1>8, <1>9, <1>10 DEF Walks, Step

-----------------------------------------------------------------------------
(* Types: everything else.                                                 *)

LEMMA RequestForms == ASSUME TablesType PROVE Requests \subseteq Forms
<1>1. mix.works \subseteq Work /\ mix.titles \subseteq Title /\ mix.wants \subseteq Wants
    BY CatalogueAssumption DEF TablesType
<1>2. \A k \in {"import"} \cap mix.kinds : k \in {"import"}
    OBVIOUS
<1>. QED
    BY <1>1 DEF Requests, Forms, Writes, Edits, Changes, Gives

\* A request begins.
LEMMA BeginShape ==
    ASSUME Typed, NEW r \in Request, NEW q \in Requests, Begin(r, q)
    PROVE  /\ q \in Forms /\ at[r] = "idle" /\ Ready
           /\ q.kind # "import" => q.work \in DOMAIN works
           /\ solo' = IF AllIdle THEN q.work ELSE NoWork
           /\ UNCHANGED <<tables, file>> /\ ops' = ops + 1
           /\ \E step \in {"row", "read"}, l \in LocRec :
                 /\ To(r, step, l) /\ Fits(step, l) /\ l.q = q /\ ~l.new
                 /\ q.kind \in {"import", "edit"} => step = "row"
<1>1. q \in Forms
    BY RequestForms DEF Typed
<1>2. PICK step : step = IF q.kind \in {"import", "edit"} THEN "row" ELSE "read"
    OBVIOUS
<1>3. PICK t : t = IF q.kind \in {"import", "edit"} THEN q.title ELSE NoLoc.title
    OBVIOUS
<1>4. t \in Title \cup {"none"} /\ (step = "row" => t \in Title)
    BY <1>1, <1>2, <1>3, FormFields DEF NoLoc
<1>5. PICK l : l = [NoLoc EXCEPT !.q = q, !.title = t]
    OBVIOUS
<1>6. l \in LocRec /\ l.q = q /\ ~l.new /\ l.title = t
    BY <1>1, <1>4, <1>5, NoneTyped DEF LocRec
<1>7. q.kind \in {"import", "edit", "rate", "page", "delete", "kudos", "comment"}
    BY <1>1, FormFields
<1>8. step \in {"row", "read"} /\ step \in StepsOf[q.kind]
    BY <1>2, <1>7 DEF StepsOf
<1>9. Fits(step, l)
    BY <1>1, <1>2, <1>4, <1>6, <1>7, <1>8 DEF Fits, ByReader
<1>10. To(r, step, l)
    BY <1>2, <1>3, <1>5 DEF Begin
<1>11. /\ at[r] = "idle" /\ Ready /\ (q.kind # "import" => q.work \in DOMAIN works)
       /\ solo' = (IF AllIdle THEN q.work ELSE NoWork) /\ UNCHANGED <<tables, file>> /\ ops' = ops + 1
    BY DEF Begin
<1>. QED
    BY <1>1, <1>2, <1>6, <1>8, <1>9, <1>10, <1>11

LEMMA BeginTyped ==
    ASSUME Typed, NEW r \in Request, NEW q \in Requests, Begin(r, q), UNCHANGED community
    PROVE  Typed'
<1>1. PICK step \in {"row", "read"}, l \in LocRec : To(r, step, l) /\ Fits(step, l)
    BY BeginShape
<1>2. at' \in [Request -> StepName] /\ loc' \in [Request -> LocRec]
    BY <1>1 DEF Typed, RequestsType, To, StepName
<1>3. \A x \in Request : IF x = r THEN at'[x] = step /\ loc'[x] = l
                         ELSE at'[x] = at[x] /\ loc'[x] = loc[x]
    BY <1>1 DEF Typed, RequestsType, To
<1>4. \A x \in Request : Fits(at'[x], loc'[x])
    BY <1>1, <1>3 DEF Typed, RequestsType
<1>5. solo' \in Work \cup {NoWork}
    BY BeginShape, FormFields
<1>6. UNCHANGED tables /\ ops' = ops + 1
    BY BeginShape
<1>7. TablesType' /\ ReadersType'
    BY <1>6 DEF Typed, TablesType, ReadersType, tables, community
<1>. QED
    BY <1>2, <1>4, <1>5, <1>7 DEF Typed, RequestsType

\* What readers do in one transaction.
LEMMA ReadersShape ==
    ASSUME Typed, OfReaders
    PROVE  /\ ReadersType' /\ UNCHANGED <<tables, file, at, loc, solo, astray>> /\ ops' = ops + 1
           /\ \A w \in Work \ DOMAIN works : marks'[w] = marks[w] /\ progress'[w] = progress[w]
           /\ \A i \in Item \ DOMAIN items : remarks'[i] = remarks[i]
           /\ DOMAIN notes' = DOMAIN notes
           /\ \A n \in DOMAIN notes : notes'[n] = [notes[n] EXCEPT !.state = notes'[n].state]
<1>0. /\ UNCHANGED <<tables, file, at, loc, solo, astray>> /\ ops' = ops + 1
    BY DEF OfReaders, Bookmark, SaveProgress, CommentItem, MarkRead, DeleteNote, MarkAllRead, OfReader,
           Single, tables
<1>1. ASSUME NEW u \in Reader, NEW w \in Work, Bookmark(u, w) \/ SaveProgress(u, w)
      PROVE  /\ marks' \in [Work -> SUBSET Reader] /\ progress' \in [Work -> SUBSET Reader]
             /\ \A v \in Work \ DOMAIN works : marks'[v] = marks[v] /\ progress'[v] = progress[v]
             /\ UNCHANGED <<notes, remarks>>
  <2>1. PICK m \in SUBSET Reader : m = marks[w] \cup {u}
      BY DEF Typed, ReadersType
  <2>2. PICK p \in SUBSET Reader : p = progress[w] \cup {u}
      BY DEF Typed, ReadersType
  <2>3. /\ marks' = marks \/ marks' = [marks EXCEPT ![w] = m]
        /\ progress' = progress \/ progress' = [progress EXCEPT ![w] = p]
        /\ w \in DOMAIN works /\ UNCHANGED <<notes, remarks>>
      BY <1>1, <2>1, <2>2 DEF Bookmark, SaveProgress
  <2>. QED
      BY <2>3 DEF Typed, ReadersType
<1>2. ASSUME NEW u \in Reader, NEW i \in Item, CommentItem(u, i)
      PROVE  /\ remarks' \in [Item -> Seq(Reader)]
             /\ \A k \in Item \ DOMAIN items : remarks'[k] = remarks[k]
             /\ UNCHANGED <<notes, marks, progress>>
  <2>1. remarks[i] \in Seq(Reader)
      BY DEF Typed, ReadersType
  <2>2. Append(remarks[i], u) \in Seq(Reader)
      BY <2>1
  <2>3. PICK s \in Seq(Reader) : s = Append(remarks[i], u)
      BY <2>2
  <2>4. remarks' = [remarks EXCEPT ![i] = s] /\ i \in DOMAIN items /\ UNCHANGED <<notes, marks, progress>>
      BY <1>2, <2>3 DEF CommentItem, MayRemark
  <2>. QED
      BY <2>4 DEF Typed, ReadersType
<1>3. ASSUME (\E n \in DOMAIN notes : MarkRead(n) \/ DeleteNote(n)) \/ (\E u \in User : MarkAllRead(u))
      PROVE  /\ notes' \in Seq(Note) /\ DOMAIN notes' = DOMAIN notes
             /\ \A n \in DOMAIN notes : notes'[n] = [notes[n] EXCEPT !.state = notes'[n].state]
             /\ UNCHANGED <<marks, progress, remarks>>
  <2>1. PICK len \in Nat : notes \in [1..len -> Note] /\ DOMAIN notes = 1..len
      BY DEF Typed, ReadersType
  <2>2. /\ DOMAIN notes' = 1..len /\ notes' = [n \in 1..len |-> notes'[n]]
        /\ UNCHANGED <<marks, progress, remarks>>
        /\ \A n \in 1..len :
              \/ notes'[n] = notes[n]
              \/ \E s \in {"read", "deleted"} : notes'[n] = [notes[n] EXCEPT !.state = s]
      BY <1>3, <2>1 DEF MarkRead, DeleteNote, MarkAllRead
  <2>3. ASSUME NEW n \in 1..len
        PROVE  notes'[n] \in Note /\ notes'[n] = [notes[n] EXCEPT !.state = notes'[n].state]
    <3>1. notes[n] \in Note
        BY <2>1
    <3>2. CASE notes'[n] = notes[n]
      <4>1. notes[n] = [notes[n] EXCEPT !.state = notes[n].state]
          BY <3>1 DEF Note
      <4>. QED
          BY <3>1, <3>2, <4>1
    <3>3. ASSUME NEW s \in {"read", "deleted"}, notes'[n] = [notes[n] EXCEPT !.state = s]
          PROVE  notes'[n] \in Note /\ notes'[n].state = s
        BY <3>1, <3>3 DEF Note
    <3>. QED
        BY <2>2, <3>2, <3>3
  <2>4. notes' \in Seq(Note)
      BY <2>2, <2>3
  <2>. QED
      BY <2>1, <2>2, <2>3, <2>4
<1>4. notes \in Seq(Note) /\ \A n \in DOMAIN notes : notes[n] = [notes[n] EXCEPT !.state = notes[n].state]
  <2>1. \A n \in DOMAIN notes : notes[n] \in Note
      BY DEF Typed, ReadersType
  <2>. QED
      BY <2>1 DEF Typed, ReadersType, Note
<1>. QED
    BY <1>0, <1>1, <1>2, <1>3, <1>4 DEF OfReaders, Typed, ReadersType

\* The transactions on users and items.
OnUsersAndItems ==
    \/ Rebuild /\ UNCHANGED community
    \/ \E u \in User, n \in Name : SetName(u, n) /\ UNCHANGED community
    \/ \E u \in User : RemoveUser(u) /\ UNCHANGED community
    \/ \E i \in Item : \E t, u : AddItem(i, t, u) /\ UNCHANGED community
    \/ Backfill /\ UNCHANGED community
    \/ \E i \in Item : DropItem(i)

LEMMA CountsTyped == \A S \in SUBSET Work : IsFiniteSet(S) /\ Cardinality(S) \in Nat
BY CatalogueAssumption, FS_Subset, FS_CardinalityType

LEMMA SinglesShape ==
    ASSUME Typed, OnUsersAndItems
    PROVE  /\ UNCHANGED <<mix, works, tags, tagged, kudos, comments, file, at, loc, solo>>
           /\ UNCHANGED <<notes, marks, progress, astray>> /\ ops' \in {ops, ops + 1}
           /\ count' = count \/ count' = [s \in Slug |-> Cardinality({w \in Work : s \in tagged[w]})]
           /\ remarks' \in [Item -> Seq(Reader)]
           /\ \A i \in Item : i \notin DOMAIN items' /\ i \in DOMAIN items => remarks'[i] = <<>>
           /\ \A i \in Item : i \notin DOMAIN items' /\ i \notin DOMAIN items => remarks'[i] = remarks[i]
<1>1. ASSUME Rebuild \/ (\E u \in User, n \in Name : SetName(u, n)) \/ (\E u \in User : RemoveUser(u))
             \/ Backfill,
             UNCHANGED community
      PROVE  /\ UNCHANGED <<mix, works, tags, tagged, kudos, comments, file, at, loc, solo, items>>
             /\ UNCHANGED <<notes, marks, progress, astray, remarks>> /\ ops' \in {ops, ops + 1}
             /\ count' = count \/ count' = [s \in Slug |-> Cardinality({w \in Work : s \in tagged[w]})]
    BY <1>1 DEF Rebuild, SetName, RemoveUser, Backfill, Single, community
<1>2. ASSUME NEW i \in Item, NEW t, NEW u, AddItem(i, t, u), UNCHANGED community
      PROVE  /\ UNCHANGED <<mix, works, tags, tagged, kudos, comments, file, at, loc, solo, count>>
             /\ UNCHANGED <<notes, marks, progress, astray, remarks>> /\ ops' \in {ops, ops + 1}
             /\ DOMAIN items \subseteq DOMAIN items'
    BY <1>2 DEF AddItem, Single, With, community
<1>3. ASSUME NEW i \in Item, DropItem(i)
      PROVE  /\ UNCHANGED <<mix, works, tags, tagged, kudos, comments, file, at, loc, solo, count>>
             /\ UNCHANGED <<notes, marks, progress, astray>> /\ ops' \in {ops, ops + 1}
             /\ i \in DOMAIN items /\ DOMAIN items' = DOMAIN items \ {i}
             /\ remarks' = [remarks EXCEPT ![i] = <<>>]
    BY <1>3 DEF DropItem, RemoveItem, Single, Without
<1>4. remarks \in [Item -> Seq(Reader)] /\ <<>> \in Seq(Reader)
    BY DEF Typed, ReadersType
<1>5. CASE (Rebuild \/ (\E u \in User, n \in Name : SetName(u, n)) \/ (\E u \in User : RemoveUser(u)) \/ Backfill)
           /\ UNCHANGED community
    BY <1>1, <1>4, <1>5
<1>6. CASE \E i \in Item : \E t, u : AddItem(i, t, u) /\ UNCHANGED community
    BY <1>2, <1>4, <1>6
<1>7. ASSUME NEW i \in Item, DropItem(i)
      PROVE  /\ remarks' \in [Item -> Seq(Reader)]
             /\ \A k \in Item : k \notin DOMAIN items' /\ k \in DOMAIN items => remarks'[k] = <<>>
             /\ \A k \in Item : k \notin DOMAIN items' /\ k \notin DOMAIN items => remarks'[k] = remarks[k]
  <2>1. PICK none \in Seq(Reader) : none = <<>>
      BY <1>4
  <2>2. i \in DOMAIN items /\ DOMAIN items' = DOMAIN items \ {i} /\ remarks' = [remarks EXCEPT ![i] = none]
      BY <1>3, <1>7, <2>1
  <2>3. remarks' \in [Item -> Seq(Reader)]
      BY <1>4, <2>2
  <2>4. \A k \in Item : remarks'[k] = IF k = i THEN none ELSE remarks[k]
      BY <1>4, <2>2
  <2>. QED
      BY <2>1, <2>2, <2>3, <2>4
<1>8. CASE \E i \in Item : DropItem(i)
  <2>1. PICK i \in Item : DropItem(i)
      BY <1>8
  <2>. QED
      BY <1>3, <1>7, <2>1
<1>. QED
    BY <1>5, <1>6, <1>8 DEF OnUsersAndItems

LEMMA SinglesTyped == ASSUME Typed, OnUsersAndItems PROVE Typed'
<1>1. count' \in [Slug -> Nat]
  <2>1. \A s \in Slug : Cardinality({w \in Work : s \in tagged[w]}) \in Nat
      BY CountsTyped
  <2>. QED
      BY <2>1, SinglesShape DEF Typed, TablesType
<1>2. UNCHANGED <<mix, works, tags, tagged, kudos, comments, at, loc, solo, notes, marks, progress>>
    BY SinglesShape
<1>3. remarks' \in [Item -> Seq(Reader)] /\ ops' \in Nat
    BY SinglesShape DEF Typed, TablesType
<1>. QED
    BY <1>1, <1>2, <1>3 DEF Typed, TablesType, RequestsType, ReadersType

LEMMA WalkTyped == ASSUME Typed, NEW r \in Request, Walks(r) PROVE Typed'
<1>1. PICK step \in StepName, l \in LocRec : To(r, step, l) /\ Fits(step, l)
    BY WalkShape
<1>. QED
    BY <1>1, WalkShape, WalkTables, MovesTyped DEF Typed

LEMMA InitTyped == CommunityInit => Typed
<1>. SUFFICES ASSUME CommunityInit PROVE Typed
    OBVIOUS
<1>1. DOMAIN works \subseteq Work /\ works \in [DOMAIN works -> WorkRec]
  <2>1. mix.works \subseteq Work /\ mix.titles \subseteq Title
      BY CatalogueAssumption DEF CommunityInit, Init
  <2>2. CASE works = Empty
      BY <2>2 DEF Empty
  <2>3. CASE works \in [mix.works -> [title : mix.titles, by : User]]
      BY <2>1, <2>3 DEF WorkRec
  <2>. QED
      BY <2>2, <2>3 DEF CommunityInit, Init
<1>2. <<>> \in Seq(Reader) /\ <<>> \in Seq(Note)
    OBVIOUS
<1>. QED
    BY <1>1, <1>2, NoneTyped
    DEF CommunityInit, Init, Typed, TablesType, RequestsType, ReadersType, StepName

\* The steps of the system, by how the proofs treat them.
LEMMA Kinds ==
    ASSUME [Next]_allVars
    PROVE  \/ OnUsersAndItems
           \/ \E r \in Request, q \in Requests : Begin(r, q) /\ UNCHANGED community
           \/ \E r \in Request : Walks(r)
           \/ OfReaders
           \/ UNCHANGED allVars
BY Steps DEF OnUsersAndItems

LEMMA NextTyped == ASSUME Typed, [Next]_allVars PROVE Typed'
<1>1. CASE OfReaders
    BY <1>1, ReadersShape DEF Typed, TablesType, RequestsType, tables
<1>2. CASE UNCHANGED allVars
    BY <1>2
    DEF Typed, TablesType, RequestsType, ReadersType, allVars, vars, tables, community
<1>. QED
    BY <1>1, <1>2, Kinds, SinglesTyped, BeginTyped, WalkTyped

-----------------------------------------------------------------------------
(* What is left on a work goes with it.                                    *)

\* The notification that is made is the last one.
LEMMA NotifyShape ==
    ASSUME Typed, NEW r \in Request, Notify(r), loc[r].q.work \in DOMAIN works
    PROVE  /\ notes' \in Seq(Note) /\ Len(notes') = Len(notes) + 1
           /\ \A n \in DOMAIN notes : n \in DOMAIN notes' /\ notes'[n] = notes[n]
           /\ DOMAIN notes' = DOMAIN notes \cup {Len(notes) + 1} /\ Len(notes) + 1 \notin DOMAIN notes
           /\ notes'[Len(notes) + 1] = [to |-> loc[r].by, by |-> loc[r].q.by, kind |-> loc[r].q.kind,
                                        work |-> loc[r].q.work, state |-> "unread"]
           /\ notes'[Len(notes) + 1].work = loc[r].q.work
<1>1. PICK n : n = [to |-> loc[r].by, by |-> loc[r].q.by, kind |-> loc[r].q.kind,
                    work |-> loc[r].q.work, state |-> "unread"]
    OBVIOUS
<1>2. notes' = Append(notes, n)
    BY <1>1 DEF Notify
<1>3. loc[r].q \in Forms /\ at[r] \in StepsOf[loc[r].q.kind] /\ at[r] = "notify" /\ Fits(at[r], loc[r])
    BY LocFields DEF Typed, Notify
<1>4. loc[r].q.kind \in {"kudos", "comment"}
    BY <1>3, FormFields DEF StepsOf
<1>5. n \in Note
    BY <1>1, <1>3, <1>4, FormFields DEF Note, Fits, ByReader
<1>6. notes \in Seq(Note)
    BY DEF Typed, ReadersType
<1>7. /\ Append(notes, n) \in Seq(Note) /\ Len(Append(notes, n)) = Len(notes) + 1
      /\ \A k \in 1..Len(notes) : Append(notes, n)[k] = notes[k]
      /\ Append(notes, n)[Len(notes) + 1] = n
      /\ DOMAIN Append(notes, n) = 1..(Len(notes) + 1) /\ DOMAIN notes = 1..Len(notes) /\ Len(notes) \in Nat
    BY <1>5, <1>6
<1>8. n.work = loc[r].q.work
    BY <1>1
<1>. QED
    BY <1>1, <1>2, <1>7, <1>8

LEMMA WalkGone == ASSUME Typed, Gone, NEW r \in Request, Walks(r) PROVE Gone'
<1>. DEFINE v == loc[r].q.work
<1>0. UNCHANGED <<items, remarks>> /\ v \in Work
    BY WalkTables, WalkShape, LocFields DEF Typed
<1>1. ASSUME DOMAIN works \subseteq DOMAIN works', UNCHANGED <<marks, progress, notes>>,
             \A w \in Work \ DOMAIN works : kudos'[w] = kudos[w] /\ comments'[w] = comments[w]
      PROVE  Gone'
    BY <1>0, <1>1 DEF Gone
<1>2. CASE WriteRow(r) /\ UNCHANGED community
  <2>1. loc[r] \in LocRec /\ loc[r].q \in Forms /\ loc[r].title \in Title
      BY <1>2, LocFields DEF Typed, WriteRow, Fits
  <2>2. loc[r].q.kind \in {"import", "edit", "rate", "page"}
      BY <1>2, <2>1, LocFields, FormFields DEF Typed, WriteRow, StepsOf
  <2>3. DOMAIN works \subseteq DOMAIN works'
      BY <1>2, <2>1, <2>2, StoredTyped DEF Typed, WriteRow
  <2>. QED
      BY <1>1, <1>2, <2>3 DEF WriteRow, community
<1>3. CASE (AddKudo(r) \/ AddComment(r)) /\ UNCHANGED community
  <2>1. \A w \in Work \ DOMAIN works : kudos'[w] = kudos[w] /\ comments'[w] = comments[w]
      BY <1>3 DEF AddKudo, AddComment, Typed, TablesType
  <2>. QED
      BY <1>1, <1>3, <2>1 DEF AddKudo, AddComment, community
<1>4. CASE /\ ReadWork(r) \/ WriteTags(r) \/ WriteTagsFails(r) \/ SyncRead(r) \/ SyncWrite(r) \/ DropFiles(r)
           /\ UNCHANGED community
    BY <1>1, <1>4
    DEF ReadWork, WriteTags, WriteTagsFails, SyncRead, SyncWrite, DropFiles, tables, community
<1>5. CASE FailRequest(r)
    BY <1>1, <1>5 DEF FailRequest, Fail, tables
<1>6. CASE Notify(r)
  <2>1. UNCHANGED <<works, kudos, comments, marks, progress>>
      BY <1>6 DEF Notify, tables
  <2>2. \A n \in DOMAIN notes' : notes'[n].work \in DOMAIN works \cup {NoWork}
    <3>1. CASE v \in DOMAIN works
      <4>1. /\ notes'[Len(notes) + 1].work = v /\ DOMAIN notes' = DOMAIN notes \cup {Len(notes) + 1}
            /\ \A n \in DOMAIN notes : notes'[n] = notes[n]
          BY <1>6, <3>1, NotifyShape
      <4>. QED
          BY <3>1, <4>1 DEF Gone
    <3>2. CASE v \notin DOMAIN works
        BY <1>6, <3>2 DEF Notify, Gone
    <3>. QED
        BY <3>1, <3>2
  <2>. QED
      BY <1>0, <2>1, <2>2 DEF Gone
<1>7. CASE DropWork(r)
  <2>1. /\ marks' = [marks EXCEPT ![v] = {}] /\ progress' = [progress EXCEPT ![v] = {}]
        /\ notes' = NotesUnlinked(v)
      BY <1>7 DEF DropWork
  <2>2. DOMAIN works' = DOMAIN works \ {v}
      BY <1>7 DEF DropWork, DropRow, Without
  <2>3. PICK none \in Seq(Reader) : none = <<>>
    <3>1. <<>> \in Seq(Reader)
        OBVIOUS
    <3>. QED
        BY <3>1
  <2>4. \A w \in Work \ DOMAIN works' : kudos'[w] = {} /\ comments'[w] = <<>>
    <3>1. CASE v \in DOMAIN works
      <4>1. kudos' = [kudos EXCEPT ![v] = {}] /\ comments' = [comments EXCEPT ![v] = none]
          BY <1>7, <2>3, <3>1 DEF DropWork, DropRow
      <4>. QED
          BY <2>2, <2>3, <4>1 DEF Gone, Typed, TablesType
    <3>2. CASE v \notin DOMAIN works
        BY <1>7, <2>2, <3>2 DEF DropWork, DropRow, Gone
    <3>. QED
        BY <3>1, <3>2
  <2>5. \A w \in Work \ DOMAIN works' : marks'[w] = {} /\ progress'[w] = {}
      BY <2>1, <2>2 DEF Gone, Typed, ReadersType
  <2>6. \A n \in DOMAIN notes : notes[n] \in Note
      BY DEF Typed, ReadersType
  <2>7. \A n \in DOMAIN notes' : notes'[n].work \in DOMAIN works' \cup {NoWork}
    <3>1. ASSUME NEW n \in DOMAIN notes' PROVE notes'[n].work \in DOMAIN works' \cup {NoWork}
      <4>1. n \in DOMAIN notes /\ notes[n] \in Note /\ notes[n].work \in DOMAIN works \cup {NoWork}
          BY <2>1, <2>6, <3>1 DEF NotesUnlinked, Gone
      <4>2. [notes[n] EXCEPT !.work = NoWork].work = NoWork
          BY <4>1 DEF Note
      <4>. QED
          BY <2>1, <2>2, <4>1, <4>2 DEF NotesUnlinked
    <3>. QED
        BY <3>1
  <2>. QED
      BY <1>0, <2>4, <2>5, <2>7 DEF Gone
<1>. QED
    BY <1>2, <1>3, <1>4, <1>5, <1>6, <1>7 DEF Walks, Step

LEMMA GoneKept == ASSUME Typed, Gone, [Next]_allVars PROVE Gone'
<1>1. CASE OnUsersAndItems
    BY <1>1, SinglesShape DEF Gone
<1>2. ASSUME NEW r \in Request, NEW q \in Requests, Begin(r, q), UNCHANGED community PROVE Gone'
    BY <1>2, BeginShape DEF Gone, tables, community
<1>3. CASE OfReaders
  <2>1. UNCHANGED <<works, items, kudos, comments>> /\ DOMAIN notes' = DOMAIN notes
      BY <1>3, ReadersShape DEF tables
  <2>2. \A n \in DOMAIN notes : notes'[n].work = notes[n].work
    <3>1. \A n \in DOMAIN notes : notes[n] \in Note
        BY DEF Typed, ReadersType
    <3>2. \A n \in DOMAIN notes : notes'[n] = [notes[n] EXCEPT !.state = notes'[n].state]
        BY <1>3, ReadersShape
    <3>. QED
        BY <3>1, <3>2 DEF Note
  <2>. QED
      BY <1>3, <2>1, <2>2, ReadersShape DEF Gone
<1>4. CASE UNCHANGED allVars
    BY <1>4 DEF Gone, allVars, vars, tables, community
<1>. QED
    BY <1>1, <1>2, <1>3, <1>4, Kinds, WalkGone

LEMMA GoneSafe == ASSUME Typed, Gone PROVE GoneWithWork
<1>1. DOMAIN works \subseteq Work
    BY DEF Typed, TablesType
<1>. QED
    BY <1>1 DEF Gone, GoneWithWork, BookmarksOf, HistoryOf, NotesOf

-----------------------------------------------------------------------------
(* Use counts.                                                             *)

Uses(s) == {w \in Work : s \in tagged[w]}

LEMMA WalkPopular == ASSUME Typed, Popular, NEW r \in Request, Walks(r) PROVE Popular'
<1>. DEFINE v == loc[r].q.work
<1>0. /\ v \in Work /\ tagged \in [Work -> SUBSET Slug] /\ count \in [Slug -> Nat]
      /\ \A s \in Slug : IsFiniteSet(Uses(s)) /\ Cardinality(Uses(s)) \in Nat /\ Cardinality(Uses(s)) <= count[s]
    BY WalkShape, LocFields, CountsTyped DEF Typed, TablesType, Uses, Popular
<1>1. CASE tagged' = tagged /\ count' = count
    BY <1>1 DEF Popular
<1>2. CASE WriteTags(r)
  <2>1. PICK new \in SUBSET Slug : /\ tagged' = [tagged EXCEPT ![v] = new]
                                   /\ count' = Counted(tagged[v], new)
      BY <1>2 DEF WriteTags
  <2>2. ASSUME NEW s \in Slug PROVE Cardinality(Uses(s)') <= count'[s]
    <3>1. count'[s] = IF s \in new \ tagged[v] THEN count[s] + 1 ELSE count[s]
        BY <2>1 DEF Counted
    <3>2. CASE s \in new
      <4>1. Uses(s)' = Uses(s) \cup {v} /\ (v \in Uses(s) <=> s \in tagged[v])
          BY <1>0, <2>1, <3>2 DEF Uses
      <4>2. Cardinality(Uses(s) \cup {v}) = IF v \in Uses(s) THEN Cardinality(Uses(s)) ELSE Cardinality(Uses(s)) + 1
          BY <1>0, FS_AddElement
      <4>. QED
          BY <1>0, <3>1, <3>2, <4>1, <4>2
    <3>3. CASE s \notin new
      <4>1. Uses(s)' \subseteq Uses(s)
          BY <1>0, <2>1, <3>3 DEF Uses
      <4>2. Cardinality(Uses(s)') <= Cardinality(Uses(s)) /\ Cardinality(Uses(s)') \in Nat
          BY <1>0, <4>1, FS_Subset, FS_CardinalityType
      <4>. QED
          BY <1>0, <3>1, <3>3, <4>2
    <3>. QED
        BY <3>2, <3>3
  <2>. QED
      BY <2>2 DEF Popular, Uses
<1>3. CASE DropWork(r) /\ v \in DOMAIN works
  <2>1. tagged' = [tagged EXCEPT ![v] = {}] /\ count' = count
      BY <1>3 DEF DropWork, DropRow
  <2>2. ASSUME NEW s \in Slug PROVE Cardinality(Uses(s)') <= count'[s]
    <3>1. Uses(s)' \subseteq Uses(s)
        BY <1>0, <2>1 DEF Uses
    <3>2. Cardinality(Uses(s)') <= Cardinality(Uses(s)) /\ Cardinality(Uses(s)') \in Nat
        BY <1>0, <3>1, FS_Subset, FS_CardinalityType
    <3>. QED
        BY <1>0, <2>1, <3>2
  <2>. QED
      BY <2>2 DEF Popular, Uses
<1>4. WriteTags(r) \/ (DropWork(r) /\ v \in DOMAIN works) \/ (tagged' = tagged /\ count' = count)
    BY DEF Walks, Step, ReadWork, WriteRow, WriteTagsFails, AddKudo, AddComment, SyncRead, SyncWrite,
           DropFiles, Notify, DropWork, DropRow, FailRequest, Fail, tables
<1>. QED
    BY <1>1, <1>2, <1>3, <1>4

LEMMA PopularKept == ASSUME Typed, Popular, [Next]_allVars PROVE Popular'
<1>1. CASE OnUsersAndItems
  <2>1. \A s \in Slug : Cardinality({w \in Work : s \in tagged[w]}) \in Nat
      BY CountsTyped
  <2>2. tagged' = tagged
      BY <1>1, SinglesShape
  <2>3. CASE count' = count
      BY <2>2, <2>3 DEF Popular
  <2>4. CASE count' = [s \in Slug |-> Cardinality({w \in Work : s \in tagged[w]})]
      BY <2>1, <2>2, <2>4 DEF Popular
  <2>. QED
      BY <1>1, <2>3, <2>4, SinglesShape
<1>2. CASE tagged' = tagged /\ count' = count
    BY <1>2 DEF Popular
<1>3. ASSUME NEW r \in Request, NEW q \in Requests, Begin(r, q) PROVE tagged' = tagged /\ count' = count
    BY <1>3 DEF Begin, tables
<1>4. OfReaders \/ UNCHANGED allVars => tagged' = tagged /\ count' = count
    BY ReadersShape DEF allVars, vars, tables
<1>. QED
    BY <1>1, <1>2, <1>3, <1>4, Kinds, WalkPopular

-----------------------------------------------------------------------------
(* The indexes.                                                            *)

\* The row of w as the triggers write it, but for the name it shows.
RowNamed(w, name) ==
    [title |-> works[w].title, fandoms |-> Fandoms(tags, tagged[w]), by |-> works[w].by, name |-> name]

WorkFresh(w) == \E name : /\ workIndex[w] = RowNamed(w, name)
                          /\ works[w].by \in DOMAIN users => name = users[works[w].by]

ItemFresh(i) == items[i].by \in DOMAIN users => itemIndex[i] = ItemRow(users, items[i])

Fresh == (\A w \in DOMAIN works : WorkFresh(w)) /\ (\A i \in DOMAIN items : ItemFresh(i))

\* A row that is written is fresh.
LEMMA RowWritten ==
    ASSUME NEW w, workIndex'[w] = WorkRow(users', tags', works'[w], tagged'[w])
    PROVE  WorkFresh(w)'
<1>1. WorkRow(users', tags', works'[w], tagged'[w]) = RowNamed(w, Shown(users, works[w].by))'
    BY DEF WorkRow, RowNamed, Shown
<1>2. works'[w].by \in DOMAIN users' => Shown(users', works'[w].by) = users'[works'[w].by]
    BY DEF Shown
<1>. QED
    BY <1>1, <1>2 DEF WorkFresh, Shown

LEMMA FreshMeans == IndexIsFresh <=> (Ready => Fresh)
<1>1. ASSUME NEW w
      PROVE  WorkFresh(w) <=>
                workIndex[w] = IF works[w].by \in DOMAIN users THEN WorkRow(users, tags, works[w], tagged[w])
                               ELSE [WorkRow(users, tags, works[w], tagged[w]) EXCEPT !.name = workIndex[w].name]
  <2>. DEFINE by == works[w].by
  <2>1. WorkRow(users, tags, works[w], tagged[w]) = RowNamed(w, Shown(users, by))
      BY DEF WorkRow, RowNamed
  <2>2. \A n, m : [RowNamed(w, n) EXCEPT !.name = m] = RowNamed(w, m)
      BY DEF RowNamed
  <2>3. \A m : RowNamed(w, m).name = m
      BY DEF RowNamed
  <2>4. CASE by \in DOMAIN users
      BY <2>1, <2>4 DEF WorkFresh, Shown
  <2>5. CASE by \notin DOMAIN users
      BY <2>1, <2>2, <2>3, <2>5 DEF WorkFresh
  <2>. QED
      BY <2>4, <2>5
<1>. QED
    BY <1>1 DEF IndexIsFresh, Fresh, ItemFresh

\* Rows that nothing touches stay fresh.
LEMMA RowKept ==
    ASSUME NEW w, WorkFresh(w), workIndex'[w] = workIndex[w], works'[w] = works[w], tagged'[w] = tagged[w],
           Fandoms(tags', tagged[w]) = Fandoms(tags, tagged[w]),
           works[w].by \in DOMAIN users' =>
              works[w].by \in DOMAIN users /\ users'[works[w].by] = users[works[w].by]
    PROVE  WorkFresh(w)'
BY DEF WorkFresh, RowNamed

LEMMA RowsKept ==
    ASSUME Ready, Fresh, UNCHANGED <<users, works, items, tags, tagged, workIndex, itemIndex>>
    PROVE  Ready' /\ Fresh'
BY DEF Ready, Fresh, WorkFresh, ItemFresh, RowNamed

LEMMA WalkIndexed == ASSUME Typed, Ready, Fresh, NEW r \in Request, Walks(r) PROVE Ready' /\ Fresh'
<1>. DEFINE v == loc[r].q.work
<1>0. v \in Work /\ UNCHANGED <<users, items, itemIndex>>
    BY WalkShape, WalkTables, LocFields DEF Typed
<1>2. ASSUME DOMAIN works' = DOMAIN workIndex', \A w \in DOMAIN works' : WorkFresh(w)'
      PROVE  Ready' /\ Fresh'
    BY <1>0, <1>2 DEF Ready, Fresh, ItemFresh
<1>3. ASSUME NEW ws, DOMAIN works \subseteq DOMAIN ws, DOMAIN ws \subseteq DOMAIN works \cup {v},
             NEW ts, NEW slugs, workIndex' = Reindexed(v, ws, ts, slugs)
      PROVE  /\ DOMAIN workIndex' = DOMAIN ws
             /\ v \in DOMAIN ws => workIndex'[v] = WorkRow(users, ts, ws[v], slugs)
             /\ \A w \in DOMAIN ws : w # v => workIndex'[w] = workIndex[w]
    BY <1>3 DEF Reindexed, With, Ready
<1>4. CASE WriteRow(r) /\ UNCHANGED community
  <2>1. loc[r] \in LocRec /\ loc[r].q \in Forms /\ loc[r].title \in Title
      BY <1>4, LocFields DEF Typed, WriteRow, Fits
  <2>2. loc[r].q.kind \in {"import", "edit", "rate", "page"}
      BY <1>4, <2>1, LocFields, FormFields DEF Typed, WriteRow, StepsOf
  <2>3. /\ DOMAIN works \subseteq DOMAIN works' /\ DOMAIN works' \subseteq DOMAIN works \cup {v}
        /\ \A w \in DOMAIN works \ {v} : works'[w] = works[w]
      BY <1>4, <2>1, <2>2, StoredTyped DEF Typed, WriteRow
  <2>4. workIndex' = Reindexed(v, works', tags, tagged[v]) /\ UNCHANGED <<tags, tagged>>
      BY <1>4 DEF WriteRow
  <2>5. /\ DOMAIN workIndex' = DOMAIN works'
        /\ v \in DOMAIN works' => workIndex'[v] = WorkRow(users, tags, works'[v], tagged[v])
        /\ \A w \in DOMAIN works' : w # v => workIndex'[w] = workIndex[w]
      BY <1>3, <2>3, <2>4
  <2>6. ASSUME NEW w \in DOMAIN works' PROVE WorkFresh(w)'
    <3>1. CASE w = v
        BY <1>0, <2>4, <2>5, <3>1, RowWritten
    <3>2. CASE w # v
        BY <1>0, <2>3, <2>4, <2>5, <3>2, RowKept DEF Fresh
    <3>. QED
        BY <3>1, <3>2
  <2>. QED
      BY <1>2, <2>5, <2>6
<1>5. CASE WriteTags(r) /\ UNCHANGED community
  <2>1. PICK new : /\ tagged' = [tagged EXCEPT ![v] = new] /\ workIndex' = Reindexed(v, works, tags', new)
                   /\ works' = works
                   /\ \A s \in DOMAIN tags : s \in DOMAIN tags' /\ tags'[s] = tags[s]
      BY <1>5 DEF WriteTags
  <2>2. /\ DOMAIN workIndex' = DOMAIN works
        /\ v \in DOMAIN works => workIndex'[v] = WorkRow(users, tags', works[v], new)
        /\ \A w \in DOMAIN works : w # v => workIndex'[w] = workIndex[w]
      BY <1>3, <2>1
  <2>3. ASSUME NEW w \in DOMAIN works' PROVE WorkFresh(w)'
    <3>1. w \in Work /\ tagged[w] \subseteq DOMAIN tags
        BY <2>1, <2>3 DEF Typed, TablesType
    <3>2. CASE w = v
      <4>1. tagged'[v] = new
          BY <1>0, <2>1 DEF Typed, TablesType
      <4>. QED
          BY <1>0, <2>1, <2>2, <2>3, <3>2, <4>1, RowWritten
    <3>3. CASE w # v
      <4>1. tagged'[w] = tagged[w] /\ Fandoms(tags', tagged[w]) = Fandoms(tags, tagged[w])
          BY <2>1, <3>1, <3>3 DEF Fandoms, Typed, TablesType
      <4>. QED
          BY <1>0, <2>1, <2>2, <2>3, <3>3, <4>1, RowKept DEF Fresh
    <3>. QED
        BY <3>2, <3>3
  <2>. QED
      BY <1>2, <2>1, <2>2, <2>3
<1>6. CASE DropWork(r) /\ v \in DOMAIN works
  <2>1. /\ works' = [z \in DOMAIN works \ {v} |-> works[z]] /\ tagged' = [tagged EXCEPT ![v] = {}]
        /\ workIndex' = [z \in DOMAIN workIndex \ {v} |-> workIndex[z]] /\ tags' = tags
      BY <1>6 DEF DropWork, DropRow, Without
  <2>2. ASSUME NEW w \in DOMAIN works' PROVE WorkFresh(w)'
    <3>1. w \in DOMAIN works /\ w # v /\ w \in Work
        BY <2>1, <2>2 DEF Typed, TablesType
    <3>2. workIndex'[w] = workIndex[w] /\ works'[w] = works[w] /\ tagged'[w] = tagged[w]
        BY <2>1, <3>1 DEF Typed, TablesType, Ready
    <3>. QED
        BY <1>0, <2>1, <3>1, <3>2, RowKept DEF Fresh
  <2>. QED
      BY <1>2, <2>1, <2>2 DEF Ready
<1>7. CASE UNCHANGED <<works, tags, tagged, workIndex>>
    BY <1>0, <1>7, RowsKept
<1>8. \/ WriteRow(r) /\ UNCHANGED community
      \/ WriteTags(r) /\ UNCHANGED community
      \/ DropWork(r) /\ v \in DOMAIN works
      \/ UNCHANGED <<works, tags, tagged, workIndex>>
    BY DEF Walks, Step, ReadWork, WriteTagsFails, AddKudo, AddComment, SyncRead, SyncWrite,
           DropFiles, Notify, DropWork, DropRow, FailRequest, Fail, tables
<1>. QED
    BY <1>4, <1>5, <1>6, <1>7, <1>8

LEMMA SinglesIndexed == ASSUME Typed, Ready, Fresh, OnUsersAndItems PROVE Ready' /\ Fresh'
<1>0. UNCHANGED <<works, tags, tagged>>
    BY SinglesShape
<1>1. ASSUME NEW u \in User, NEW n \in Name, SetName(u, n) PROVE Ready' /\ Fresh'
  <2>1. /\ users' = [z \in DOMAIN users \cup {u} |-> IF z = u THEN n ELSE users[z]]
        /\ workIndex' = [w \in DOMAIN workIndex |-> IF works[w].by = u
                            THEN WorkRow(users', tags, works[w], tagged[w]) ELSE workIndex[w]]
        /\ itemIndex' = [i \in DOMAIN itemIndex |-> IF items[i].by = u
                            THEN ItemRow(users', items[i]) ELSE itemIndex[i]]
        /\ items' = items
      BY <1>1 DEF SetName, With, WorksRenamed, ItemsRenamed
  <2>2. ASSUME NEW w \in DOMAIN works PROVE WorkFresh(w)'
    <3>1. CASE works[w].by = u
      <4>1. workIndex'[w] = WorkRow(users', tags', works'[w], tagged'[w])
          BY <1>0, <2>1, <3>1 DEF Ready
      <4>. QED
          BY <4>1, RowWritten
    <3>2. CASE works[w].by # u
      <4>1. workIndex'[w] = workIndex[w] /\ WorkFresh(w)
          BY <2>1, <3>2 DEF Ready, Fresh
      <4>2. works[w].by \in DOMAIN users' =>
               works[w].by \in DOMAIN users /\ users'[works[w].by] = users[works[w].by]
          BY <2>1, <3>2
      <4>. QED
          BY <1>0, <4>1, <4>2, RowKept
    <3>. QED
        BY <3>1, <3>2
  <2>3. ASSUME NEW i \in DOMAIN items PROVE ItemFresh(i)'
      BY <2>1, <2>3 DEF Ready, Fresh, ItemFresh, ItemRow, Shown
  <2>. QED
      BY <1>0, <2>1, <2>2, <2>3 DEF Ready, Fresh
<1>2. ASSUME NEW u \in User, RemoveUser(u) PROVE Ready' /\ Fresh'
  <2>1. users' = [z \in DOMAIN users \ {u} |-> users[z]] /\ UNCHANGED <<items, workIndex, itemIndex>>
      BY <1>2 DEF RemoveUser, Without
  <2>2. ASSUME NEW w \in DOMAIN works PROVE WorkFresh(w)'
      BY <1>0, <2>1, RowKept DEF Fresh
  <2>3. ASSUME NEW i \in DOMAIN items PROVE ItemFresh(i)'
      BY <2>1 DEF Fresh, ItemFresh, ItemRow, Shown
  <2>. QED
      BY <1>0, <2>1, <2>2, <2>3 DEF Ready, Fresh
<1>3. ASSUME NEW i \in Item, NEW t, NEW u, AddItem(i, t, u) PROVE Ready' /\ Fresh'
  <2>1. /\ i \notin DOMAIN items /\ UNCHANGED <<users, workIndex>>
        /\ items' = [z \in DOMAIN items \cup {i} |-> IF z = i THEN [title |-> t, by |-> u] ELSE items[z]]
        /\ itemIndex' = [z \in DOMAIN itemIndex \cup {i} |-> IF z = i THEN ItemRow(users, items'[i])
                                                                      ELSE itemIndex[z]]
      BY <1>3 DEF AddItem, With
  <2>2. ASSUME NEW k \in DOMAIN items' PROVE ItemFresh(k)'
    <3>1. itemIndex'[k] = ItemRow(users', items'[k]) \/ (k \in DOMAIN items /\ items'[k] = items[k] /\ itemIndex'[k] = itemIndex[k])
        BY <2>1 DEF Ready
    <3>. QED
        BY <2>1, <3>1 DEF Fresh, ItemFresh, ItemRow, Shown
  <2>3. ASSUME NEW w \in DOMAIN works PROVE WorkFresh(w)'
      BY <1>0, <2>1, RowKept DEF Fresh
  <2>. QED
      BY <1>0, <2>1, <2>2, <2>3 DEF Ready, Fresh
<1>4. ASSUME NEW i \in Item, DropItem(i) PROVE Ready' /\ Fresh'
  <2>1. /\ UNCHANGED <<users, workIndex>>
        /\ items' = [z \in DOMAIN items \ {i} |-> items[z]]
        /\ itemIndex' = [z \in DOMAIN itemIndex \ {i} |-> itemIndex[z]]
      BY <1>4 DEF DropItem, RemoveItem, Without
  <2>2. ASSUME NEW k \in DOMAIN items' PROVE ItemFresh(k)'
      BY <2>1 DEF Ready, Fresh, ItemFresh, ItemRow, Shown
  <2>3. ASSUME NEW w \in DOMAIN works PROVE WorkFresh(w)'
      BY <1>0, <2>1, RowKept DEF Fresh
  <2>. QED
      BY <1>0, <2>1, <2>2, <2>3 DEF Ready, Fresh
<1>5. CASE Backfill
    BY <1>5, RowsKept DEF Backfill
<1>6. ~Rebuild
    BY DEF Rebuild
<1>. QED
    BY <1>1, <1>2, <1>3, <1>4, <1>5, <1>6 DEF OnUsersAndItems

LEMMA RebuildIndexed == ASSUME Rebuild PROVE Ready' /\ Fresh' /\ UNCHANGED <<at, loc>>
<1>1. /\ workIndex' = [w \in DOMAIN works |-> WorkRow(users, tags, works[w], tagged[w])]
      /\ itemIndex' = [i \in DOMAIN items |-> ItemRow(users, items[i])]
      /\ UNCHANGED <<users, works, items, tags, tagged, at, loc>>
    BY DEF Rebuild
<1>2. \A w \in DOMAIN works : WorkFresh(w)'
    BY <1>1, RowWritten
<1>. QED
    BY <1>1, <1>2 DEF Ready, Fresh, ItemFresh

LEMMA IndexedKept == ASSUME Typed, Indexed, [Next]_allVars PROVE Indexed'
<1>1. Ready => Fresh
    BY FreshMeans DEF Indexed
<1>2. (IndexIsFresh <=> (Ready => Fresh))'
    BY FreshMeans, PTL
<1>3. Ready' /\ Fresh' => Indexed'
    BY <1>2 DEF Indexed
<1>4. CASE OnUsersAndItems
  <2>1. CASE Rebuild
      BY <1>3, <2>1, RebuildIndexed
  <2>2. CASE ~Rebuild
      BY <1>1, <1>3, <1>4, <2>2, SinglesIndexed DEF OnUsersAndItems, SetName, RemoveUser, AddItem,
         RemoveItem, DropItem, Backfill, Single
  <2>. QED
      BY <2>1, <2>2
<1>5. ASSUME NEW r \in Request, NEW q \in Requests, Begin(r, q) PROVE Indexed'
    BY <1>1, <1>3, <1>5, RowsKept DEF Begin, tables
<1>6. ASSUME NEW r \in Request, Walks(r) PROVE Indexed'
  <2>1. at[r] # "idle"
      BY <1>6, WalkShape
  <2>2. Ready
      BY <2>1 DEF Indexed, AllIdle
  <2>. QED
      BY <1>1, <1>3, <1>6, <2>2, WalkIndexed
<1>7. CASE OfReaders
  <2>1. Ready
      BY <1>7 DEF OfReaders, Bookmark, SaveProgress, CommentItem, MarkRead, DeleteNote, MarkAllRead,
                  OfReader, Single
  <2>2. UNCHANGED <<users, works, items, tags, tagged, workIndex, itemIndex>>
      BY <1>7, ReadersShape DEF tables
  <2>. QED
      BY <1>1, <1>3, <2>1, <2>2, RowsKept
<1>8. CASE UNCHANGED allVars
  <2>1. UNCHANGED <<users, works, items, tags, tagged, workIndex, itemIndex, at>>
      BY <1>8 DEF allVars, vars, tables
  <2>2. CASE Ready
      BY <1>1, <1>3, <2>1, <2>2, RowsKept
  <2>3. CASE ~Ready
    <3>1. AllIdle' /\ ~Ready'
        BY <2>1, <2>3 DEF Indexed, AllIdle, Ready
    <3>. QED
        BY <1>2, <3>1 DEF Indexed
  <2>. QED
      BY <2>2, <2>3
<1>. QED
    BY <1>4, <1>5, <1>6, <1>7, <1>8, Kinds

-----------------------------------------------------------------------------
(* The file after a request that ran alone.                                *)

LEMMA AloneUnmoved ==
    ASSUME Alone, UNCHANGED <<works, tagged, kudos, comments, file, at, loc, solo>>
    PROVE  Alone'
BY DEF Alone, AllIdle, FileFollows, Undisturbed, Content, KudosCount

\* The one request under way moves on.
LEMMA AloneMoves ==
    ASSUME RequestsType, Alone, solo # NoWork, NEW r \in Request, at[r] # "idle",
           NEW step, NEW l, To(r, step, l), solo' = solo,
           step # "idle" => Undisturbed(step, l)', step = "idle" => FileFollows(solo)'
    PROVE  Alone'
<1>1. \A s \in Request : at'[s] = IF s = r THEN step ELSE "idle"
    BY DEF RequestsType, To, Alone
<1>2. loc'[r] = l
    BY DEF RequestsType, To
<1>3. AllIdle' => FileFollows(solo)'
    BY <1>1 DEF AllIdle
<1>4. \A s \in Request : at'[s] # "idle" => s = r /\ Undisturbed(at[s], loc[s])'
    BY <1>1, <1>2 DEF Undisturbed, FileFollows, Content, KudosCount
<1>. QED
    BY <1>3, <1>4 DEF Alone

LEMMA WalkAlone == ASSUME Typed, Alone, NEW r \in Request, Walks(r) PROVE Alone'
<1>0. PICK v : v = loc[r].q.work
    OBVIOUS
<1>1. CASE solo' = NoWork
    BY <1>1 DEF Alone
<1>2. CASE solo' # NoWork
  <2>0. /\ TablesType /\ RequestsType /\ at[r] # "idle" /\ solo' = solo /\ solo # NoWork
        /\ loc[r] \in LocRec /\ Fits(at[r], loc[r]) /\ loc[r].q \in Forms /\ at[r] \in StepsOf[loc[r].q.kind]
        /\ Undisturbed(at[r], loc[r]) /\ v = solo /\ v \in Work
      BY <1>0, <1>2, WalkShape, LocFields DEF Typed, Alone, Undisturbed
  <2>1. ~Abandon(r)
      BY <1>2 DEF Abandon
  <2>2. ASSUME NEW step, NEW l, To(r, step, l),
               step # "idle" => Undisturbed(step, l)', step = "idle" => FileFollows(v)'
        PROVE  Alone'
      BY <2>0, <2>2, AloneMoves DEF FileFollows, Content, KudosCount
  <2>3. ASSUME NEW step \in {"sync", "tags", "kudos", "comment", "dropRow", "row"}, NEW l, To(r, step, l),
               l.q = loc[r].q, v \in DOMAIN works'
        PROVE  Alone'
    <3>1. Undisturbed(step, l)'
        BY <2>0, <2>3 DEF Undisturbed
    <3>. QED
        BY <2>2, <2>3, <3>1
  <2>4. CASE ReadWork(r)
    <3>1. /\ v \in DOMAIN works /\ at[r] = "read" /\ works' = works
          /\ To(r, AfterRead[loc[r].q.kind], [loc[r] EXCEPT !.title = works[v].title, !.by = works[v].by])
        BY <1>0, <2>0, <2>1, <2>4 DEF ReadWork, Undisturbed, tables
    <3>2. loc[r].q.kind \in {"rate", "page", "delete", "kudos", "comment"}
        BY <2>0, <3>1, FormFields DEF StepsOf
    <3>3. PICK step \in {"row", "dropRow", "kudos", "comment"} : step = AfterRead[loc[r].q.kind]
        BY <3>2 DEF AfterRead
    <3>4. PICK l : l = [loc[r] EXCEPT !.title = works[v].title, !.by = works[v].by]
        OBVIOUS
    <3>5. l.q = loc[r].q
        BY <2>0, <3>4 DEF LocRec
    <3>. QED
        BY <2>3, <3>1, <3>3, <3>4, <3>5
  <2>5. CASE WriteRow(r)
    <3>1. loc[r].title \in Title /\ loc[r].q.kind \in {"import", "edit", "rate", "page"}
        BY <2>0, <2>5, FormFields DEF WriteRow, Fits, StepsOf
    <3>2. v \in DOMAIN works'
        BY <1>0, <2>0, <2>5, <3>1, StoredTyped DEF WriteRow, Undisturbed
    <3>3. PICK step \in {"tags", "sync"} : To(r, step, loc[r])
        BY <2>5 DEF WriteRow
    <3>. QED
        BY <2>3, <3>2, <3>3
  <2>6. CASE WriteTags(r)
    <3>1. v \in DOMAIN works' /\ To(r, "sync", loc[r])
        BY <1>0, <2>0, <2>6 DEF WriteTags, Undisturbed
    <3>. QED
        BY <2>3, <3>1
  <2>7. CASE AddKudo(r) \/ AddComment(r)
    <3>1. v \in DOMAIN works'
        BY <1>0, <2>0, <2>7 DEF AddKudo, AddComment, Undisturbed
    <3>2. PICK new \in BOOLEAN : To(r, "sync", [loc[r] EXCEPT !.new = new])
      <4>1. CASE AddKudo(r)
        <5>1. PICK new \in BOOLEAN : new = (loc[r].q.by \notin kudos[v])
            OBVIOUS
        <5>. QED
            BY <1>0, <2>1, <4>1, <5>1 DEF AddKudo
      <4>2. CASE AddComment(r)
          BY <1>0, <2>1, <4>2 DEF AddComment
      <4>. QED
          BY <2>7, <4>1, <4>2
    <3>3. PICK l : l = [loc[r] EXCEPT !.new = new]
        OBVIOUS
    <3>4. l.q = loc[r].q
        BY <2>0, <3>3 DEF LocRec
    <3>. QED
        BY <2>3, <3>1, <3>2, <3>3, <3>4
  <2>8. CASE SyncRead(r)
    <3>1. /\ v \in DOMAIN works /\ UNCHANGED <<works, tagged, kudos, comments>>
          /\ To(r, "write", [loc[r] EXCEPT !.read = Content(v)])
        BY <1>0, <2>0, <2>8 DEF SyncRead, Undisturbed, tables
    <3>2. PICK c : c = Content(v)
        OBVIOUS
    <3>3. PICK l : l = [loc[r] EXCEPT !.read = c]
        OBVIOUS
    <3>4. l.q = loc[r].q /\ l.read = c
        BY <2>0, <3>3 DEF LocRec
    <3>5. Content(v)' = c
        BY <3>1, <3>2 DEF Content, KudosCount
    <3>6. Undisturbed("write", l)'
      <4>1. l.q.work = solo' /\ solo' \in DOMAIN works' /\ Content(solo)' = c
          BY <1>0, <2>0, <3>1, <3>4, <3>5 DEF Content, KudosCount
      <4>. QED
          BY <3>4, <4>1 DEF Undisturbed
    <3>. QED
        BY <2>2, <3>1, <3>2, <3>3, <3>6
  <2>9. CASE SyncWrite(r)
    <3>1. /\ v \in DOMAIN works /\ UNCHANGED <<works, tagged, kudos, comments>> /\ Synced(r)
          /\ file' = With(file, v, loc[r].read) /\ at[r] = "write" /\ loc[r].read = Content(v)
        BY <1>0, <2>0, <2>9 DEF SyncWrite, Undisturbed, tables
    <3>2. FileFollows(v)'
        BY <3>1 DEF FileFollows, Content, KudosCount, With
    <3>3. CASE Stop(r)
        BY <2>2, <3>2, <3>3 DEF Stop
    <3>4. ASSUME NEW step \in {"tags", "sync", "notify"}, NEW l \in LocRec,
                 To(r, step, l), Kept(l, loc[r])
          PROVE  Alone'
      <4>1. Undisturbed(step, l)'
        <5>1. l.q.work = solo' /\ solo' \in DOMAIN works' /\ FileFollows(solo)'
            BY <1>0, <2>0, <3>1, <3>2, <3>4 DEF Kept, FileFollows, Content, KudosCount
        <5>. QED
            BY <3>4, <5>1 DEF Undisturbed
      <4>. QED
          BY <2>2, <3>4, <4>1
    <3>. QED
        BY <2>0, <3>1, <3>3, <3>4, SyncedShape
  <2>10. CASE DropFiles(r)
    <3>1. /\ v \notin DOMAIN works /\ works' = works /\ Stop(r) /\ file' = Without(file, v)
        BY <1>0, <2>0, <2>10 DEF DropFiles, Undisturbed, tables
    <3>2. FileFollows(v)'
        BY <3>1 DEF FileFollows, Without
    <3>. QED
        BY <2>2, <3>1, <3>2 DEF Stop
  <2>11. CASE Notify(r)
    <3>1. /\ FileFollows(solo) /\ Stop(r) /\ UNCHANGED <<works, tagged, kudos, comments, file>>
        BY <2>0, <2>1, <2>11 DEF Notify, Undisturbed, tables
    <3>2. FileFollows(v)'
        BY <2>0, <3>1 DEF FileFollows, Content, KudosCount
    <3>. QED
        BY <2>2, <3>1, <3>2 DEF Stop
  <2>12. CASE DropWork(r)
    <3>1. v \notin DOMAIN works' /\ To(r, "dropFiles", loc[r])
        BY <1>0, <2>0, <2>1, <2>12 DEF DropWork, DropRow, Without
    <3>2. PICK l : l = loc[r]
        OBVIOUS
    <3>3. Undisturbed("dropFiles", l)'
        BY <2>0, <3>1, <3>2 DEF Undisturbed
    <3>. QED
        BY <2>2, <3>1, <3>2, <3>3
  <2>13. ~WriteTagsFails(r) /\ ~FailRequest(r)
      BY <2>1 DEF WriteTagsFails, FailRequest, Fail
  <2>. QED
      BY <2>4, <2>5, <2>6, <2>7, <2>8, <2>9, <2>10, <2>11, <2>12, <2>13 DEF Walks, Step
<1>. QED
    BY <1>1, <1>2

LEMMA BeginAlone ==
    ASSUME Typed, NEW r \in Request, NEW q \in Requests, Begin(r, q)
    PROVE  Alone'
<1>1. CASE ~AllIdle
    BY <1>1, BeginShape DEF Alone
<1>2. CASE AllIdle
  <2>1. PICK step \in {"row", "read"}, l \in LocRec :
           /\ To(r, step, l) /\ l.q = q /\ (q.kind \in {"import", "edit"} => step = "row")
      BY BeginShape
  <2>2. /\ solo' = q.work /\ works' = works /\ (q.kind # "import" => q.work \in DOMAIN works)
      BY <1>2, BeginShape DEF tables
  <2>3. \A s \in Request : at'[s] = (IF s = r THEN step ELSE "idle") /\ loc'[r] = l
      BY <1>2, <2>1 DEF To, Typed, RequestsType, AllIdle
  <2>4. Undisturbed(at[r], loc[r])'
      BY <2>1, <2>2, <2>3 DEF Undisturbed
  <2>5. ~AllIdle'
      BY <2>1, <2>3 DEF AllIdle
  <2>. QED
      BY <2>3, <2>4, <2>5 DEF Alone
<1>. QED
    BY <1>1, <1>2

LEMMA AloneKept == ASSUME Typed, Alone, [Next]_allVars PROVE Alone'
<1>1. OnUsersAndItems \/ OfReaders \/ UNCHANGED allVars =>
         UNCHANGED <<works, tagged, kudos, comments, file, at, loc, solo>>
    BY SinglesShape, ReadersShape DEF allVars, vars, tables
<1>. QED
    BY <1>1, Kinds, AloneUnmoved, BeginAlone, WalkAlone

LEMMA AloneSafe == ASSUME Popular, Alone PROVE DerivedFollows
BY DEF Popular, Alone, DerivedFollows, FileFollows

-----------------------------------------------------------------------------
(* What readers' requests know.                                            *)

LEMMA OwnersKept ==
    ASSUME Typed, NEW r \in Request, Walks(r)
    PROVE  /\ \A w \in DOMAIN works : w \in DOMAIN works' => works'[w].by = works[w].by
           /\ DOMAIN works' \subseteq DOMAIN works \/ (WriteRow(r) /\ UNCHANGED community)
           /\ DOMAIN works \subseteq DOMAIN works' \/ (DropWork(r) /\ DOMAIN works' = DOMAIN works \ {loc[r].q.work})
           /\ astray \subseteq astray'
<1>1. CASE WriteRow(r) /\ UNCHANGED community
  <2>1. loc[r] \in LocRec /\ loc[r].q \in Forms /\ loc[r].title \in Title
      BY <1>1, LocFields DEF Typed, WriteRow, Fits
  <2>2. loc[r].q.kind \in {"import", "edit", "rate", "page"}
      BY <1>1, <2>1, LocFields, FormFields DEF Typed, WriteRow, StepsOf
  <2>. QED
      BY <1>1, <2>1, <2>2, StoredTyped DEF Typed, WriteRow, community
<1>2. CASE DropWork(r)
    BY <1>2 DEF DropWork, DropRow, Without
<1>3. CASE works' = works /\ astray \subseteq astray'
    BY <1>3
<1>. QED
    BY <1>1, <1>2, <1>3 DEF Walks, Step, ReadWork, WriteTags, WriteTagsFails, AddKudo, AddComment, SyncRead,
       SyncWrite, DropFiles, Notify, FailRequest, Fail, tables, community

\* A reader's request goes on with the uploader it has read, or reads him.
LEMMA ReaderMoves ==
    ASSUME Typed, NEW r \in Request, Walks(r), ByReader(loc[r])
    PROVE  \E step \in StepName, l \in LocRec :
              /\ To(r, step, l) /\ (step # "idle" => l.q = loc[r].q /\ step # "read")
              /\ step # "idle" => IF at[r] = "read" THEN l.q.work \in DOMAIN works /\ l.by = works[l.q.work].by
                                  ELSE l.by = loc[r].by
<1>1. /\ loc[r] \in LocRec /\ Fits(at[r], loc[r]) /\ at[r] \in StepsOf[loc[r].q.kind]
      /\ loc[r].q \in Forms /\ loc[r].q.kind \in {"kudos", "comment"} /\ RequestsType
    BY LocFields, WalkShape DEF Typed, ByReader
<1>2. at[r] \in {"read", "kudos", "comment", "sync", "write", "notify"}
    BY <1>1 DEF StepsOf
<1>3. CASE Stop(r)
    BY <1>3, NoneTyped DEF Stop, StepName
<1>4. CASE ReadWork(r) /\ ~Stop(r)
  <2>1. PICK l : l = [loc[r] EXCEPT !.title = works[loc[r].q.work].title, !.by = works[loc[r].q.work].by]
      OBVIOUS
  <2>2. /\ l.q = loc[r].q /\ l.by = works[l.q.work].by /\ loc[r].q.work \in DOMAIN works /\ at[r] = "read"
        /\ To(r, AfterRead[loc[r].q.kind], l)
      BY <1>1, <1>4, <2>1 DEF ReadWork, Abandon, LocRec
  <2>3. PICK step \in {"kudos", "comment"} : step = AfterRead[loc[r].q.kind]
      BY <1>1 DEF AfterRead
  <2>4. l \in LocRec
    <3>1. works[loc[r].q.work].title \in Title /\ works[loc[r].q.work].by \in User
        BY <2>2, WorkFields DEF Typed
    <3>. QED
        BY <1>1, <2>1, <3>1 DEF LocRec
  <2>. QED
      BY <2>2, <2>3, <2>4 DEF StepName
<1>5. CASE (AddKudo(r) \/ AddComment(r)) /\ ~Stop(r)
  <2>1. PICK new \in BOOLEAN : To(r, "sync", [loc[r] EXCEPT !.new = new])
    <3>1. CASE AddKudo(r)
      <4>1. PICK new \in BOOLEAN : new = (loc[r].q.by \notin kudos[loc[r].q.work])
          OBVIOUS
      <4>. QED
          BY <1>5, <3>1, <4>1 DEF AddKudo, Abandon
    <3>2. CASE AddComment(r)
        BY <1>5, <3>2 DEF AddComment, Abandon
    <3>. QED
        BY <1>5, <3>1, <3>2
  <2>2. PICK l : l = [loc[r] EXCEPT !.new = new]
      OBVIOUS
  <2>3. l \in LocRec /\ l.q = loc[r].q /\ l.by = loc[r].by
      BY <1>1, <2>2 DEF LocRec
  <2>4. at[r] # "read"
      BY <1>5 DEF AddKudo, AddComment
  <2>. QED
      BY <2>1, <2>2, <2>3, <2>4 DEF StepName
<1>6. CASE SyncRead(r) /\ ~Synced(r)
  <2>1. at[r] = "sync" /\ loc[r].q.work \in DOMAIN works
      BY <1>6 DEF SyncRead
  <2>2. PICK c \in Snapshot : c = Content(loc[r].q.work)
      BY <2>1, ContentTyped DEF Typed
  <2>3. PICK l : l = [loc[r] EXCEPT !.read = c]
      OBVIOUS
  <2>4. l \in LocRec /\ l.q = loc[r].q /\ l.by = loc[r].by
      BY <1>1, <2>3 DEF LocRec
  <2>5. To(r, "write", l)
      BY <1>6, <2>2, <2>3 DEF SyncRead
  <2>. QED
      BY <2>1, <2>4, <2>5 DEF StepName
<1>7. CASE at[r] \in {"sync", "write"} /\ Synced(r)
  <2>1. \/ Stop(r)
        \/ \E step \in {"tags", "sync", "notify"}, l \in LocRec : To(r, step, l) /\ Kept(l, loc[r])
      BY <1>1, <1>7, SyncedShape
  <2>2. ASSUME NEW step \in {"tags", "sync", "notify"}, NEW l \in LocRec, To(r, step, l), Kept(l, loc[r])
        PROVE  /\ To(r, step, l) /\ step \in StepName /\ l.q = loc[r].q /\ step # "read" /\ l.by = loc[r].by
      BY <2>2 DEF Kept, StepName
  <2>. QED
      BY <1>3, <1>7, <2>1, <2>2
<1>. QED
  <2>1. \/ Stop(r) \/ (ReadWork(r) /\ ~Stop(r)) \/ ((AddKudo(r) \/ AddComment(r)) /\ ~Stop(r))
        \/ (SyncRead(r) /\ ~Synced(r)) \/ (at[r] \in {"sync", "write"} /\ Synced(r))
      BY <1>2 DEF Walks, Step, WriteRow, WriteTags, WriteTagsFails, SyncRead, SyncWrite, DropFiles,
         Notify, DropWork, DropRow, FailRequest, Fail, Abandon
  <2>. QED
      BY <1>3, <1>4, <1>5, <1>6, <1>7, <2>1

LEMMA KnowsKept == ASSUME Typed, RequestsKnow, [Next]_allVars PROVE RequestsKnow'
<1>1. CASE OnUsersAndItems \/ OfReaders \/ UNCHANGED allVars
  <2>1. UNCHANGED <<works, at, loc, astray>>
      BY <1>1, SinglesShape, ReadersShape DEF allVars, vars, tables, community
  <2>. QED
      BY <2>1 DEF RequestsKnow, Knows, ByReader
<1>2. ASSUME NEW r \in Request, NEW q \in Requests, Begin(r, q), UNCHANGED community
      PROVE  RequestsKnow'
  <2>1. PICK step \in {"row", "read"}, l \in LocRec :
           /\ To(r, step, l) /\ l.q = q /\ Fits(step, l) /\ (q.kind # "import" => q.work \in DOMAIN works)
           /\ UNCHANGED <<works, astray>>
      BY <1>2, BeginShape DEF tables, community
  <2>2. \A s \in Request : IF s = r THEN at'[s] = step /\ loc'[s] = l ELSE at'[s] = at[s] /\ loc'[s] = loc[s]
      BY <2>1 DEF To, Typed, RequestsType
  <2>3. Knows(step, l)
      BY <2>1 DEF Knows, ByReader, Fits, StepsOf
  <2>. QED
      BY <2>1, <2>2, <2>3 DEF RequestsKnow, Knows, ByReader
<1>3. ASSUME NEW r \in Request, Walks(r) PROVE RequestsKnow'
  <2>0. /\ at[r] # "idle" /\ astray \subseteq astray'
        /\ \A w \in DOMAIN works : w \in DOMAIN works' => works'[w].by = works[w].by
      BY <1>3, WalkShape, OwnersKept
  <2>1. PICK step \in StepName, l \in LocRec :
           To(r, step, l) /\ Fits(step, l) /\ (step # "idle" => l.q = loc[r].q)
      BY <1>3, WalkShape
  <2>2. \A s \in Request : IF s = r THEN at'[s] = step /\ loc'[s] = l ELSE at'[s] = at[s] /\ loc'[s] = loc[s]
      BY <2>1 DEF To, Typed, RequestsType
  <2>3. ASSUME NEW s \in Request, ByReader(loc[s]), <<loc[s].q.work, "crossed">> \notin astray'
        PROVE  loc[s].q.work \in DOMAIN works /\ loc[s].q.work \in DOMAIN works'
    <3>1. loc[s].q.work \in DOMAIN works /\ at[s] # "idle"
        BY <2>0, <2>3, NoneTyped DEF RequestsKnow, Knows, Typed, RequestsType, Fits
    <3>2. CASE DropWork(r) /\ loc[s].q.work = loc[r].q.work
      <4>1. at[r] = "dropRow" /\ loc[r].q \in Forms /\ at[r] \in StepsOf[loc[r].q.kind]
          BY <2>0, <3>2, LocFields DEF Typed, DropWork, DropRow
      <4>2. loc[r].q.kind = "delete"
          BY <4>1, FormFields DEF StepsOf
      <4>3. s # r
          BY <2>3, <4>2 DEF ByReader
      <4>4. <<loc[r].q.work, "crossed">> \in astray'
          BY <3>1, <3>2, <4>3 DEF DropWork, Crossed
      <4>. QED
          BY <2>3, <3>2, <4>4
    <3>3. CASE ~(DropWork(r) /\ loc[s].q.work = loc[r].q.work)
        BY <1>3, <3>1, <3>3, OwnersKept
    <3>. QED
        BY <3>2, <3>3
  <2>4. ASSUME NEW s \in Request, s # r PROVE Knows(at[s], loc[s])'
    <3>1. at'[s] = at[s] /\ loc'[s] = loc[s]
        BY <2>2, <2>4
    <3>. QED
        BY <2>0, <2>3, <3>1 DEF RequestsKnow, Knows, ByReader
  <2>5. Knows(at[r], loc[r])'
    <3>1. CASE step = "idle" \/ ~ByReader(loc[r])
      <4>1. ~ByReader(l)
          BY <2>1, <3>1, NoneTyped DEF Fits, ByReader
      <4>. QED
          BY <2>2, <4>1 DEF Knows, ByReader
    <3>2. CASE step # "idle" /\ ByReader(loc[r])
      <4>1. PICK step2 \in StepName, m \in LocRec :
              /\ To(r, step2, m) /\ (step2 # "idle" => m.q = loc[r].q /\ step2 # "read")
              /\ step2 # "idle" => IF at[r] = "read" THEN m.q.work \in DOMAIN works /\ m.by = works[m.q.work].by
                                  ELSE m.by = loc[r].by
          BY <1>3, <3>2, ReaderMoves
      <4>2. at'[r] = step2 /\ loc'[r] = m
          BY <4>1 DEF To, Typed, RequestsType
      <4>3. at'[r] = step /\ loc'[r] = l
          BY <2>2
      <4>4. /\ l.q = loc[r].q
            /\ IF at[r] = "read" THEN l.q.work \in DOMAIN works /\ l.by = works[l.q.work].by
               ELSE l.by = loc[r].by
          BY <3>2, <4>1, <4>2, <4>3
      <4>5. ASSUME <<l.q.work, "crossed">> \notin astray'
            PROVE  l.q.work \in DOMAIN works' /\ l.by = works'[l.q.work].by
          BY <2>0, <2>3, <3>2, <4>4, <4>5 DEF RequestsKnow, Knows
      <4>. QED
          BY <4>3, <4>5 DEF Knows
    <3>. QED
        BY <3>1, <3>2
  <2>. QED
      BY <2>4, <2>5 DEF RequestsKnow
<1>. QED
    BY <1>1, <1>2, <1>3, Kinds

-----------------------------------------------------------------------------
(* Given, told, coming.                                                    *)

Kind == {"kudos", "comment"}

Asks(l, w, u, k)  == l.new /\ l.q.kind = k /\ l.q.work = w /\ l.q.by = u
Askers(w, u, k)   == {r \in Request : loc[r].new /\ loc[r].q.kind = k /\ loc[r].q.work = w /\ loc[r].q.by = u}
Notices(w, u, k)  == {n \in DOMAIN notes :
    notes[n] = [to |-> works[w].by, by |-> u, kind |-> k, work |-> w, state |-> notes[n].state]}
Left(w, u)        == {n \in DOMAIN comments[w] : comments[w][n] = u}

\* What ToldOnce says of one reader and one work.
Balanced(w, u, k) ==
    IF u = works[w].by THEN Told(w, u, k) = 0
    ELSE /\ Told(w, u, k) + Coming(w, u, k) <= Given(w, u, k)
         /\ <<w, "failed">> \notin astray => Told(w, u, k) + Coming(w, u, k) = Given(w, u, k)

LEMMA CountsAreNumbers ==
    ASSUME Typed, NEW w \in Work, NEW u, NEW k
    PROVE  /\ IsFiniteSet(Askers(w, u, k)) /\ IsFiniteSet(Notices(w, u, k)) /\ IsFiniteSet(Left(w, u))
           /\ Coming(w, u, k) = Cardinality(Askers(w, u, k)) /\ Coming(w, u, k) \in Nat
           /\ Told(w, u, k) = Cardinality(Notices(w, u, k)) /\ Told(w, u, k) \in Nat
           /\ Given(w, u, k) \in Nat
<1>1. IsFiniteSet(Askers(w, u, k))
    BY CatalogueAssumption, FS_Subset DEF Askers
<1>2. ASSUME NEW S, NEW s \in Seq(S) PROVE IsFiniteSet(DOMAIN s)
  <2>1. DOMAIN s = 1..Len(s) /\ Len(s) \in Nat
      BY <1>2
  <2>. QED
      BY <2>1, FS_Interval
<1>3. IsFiniteSet(Notices(w, u, k))
  <2>1. IsFiniteSet(DOMAIN notes)
      BY <1>2 DEF Typed, ReadersType
  <2>. QED
      BY <2>1, FS_Subset DEF Notices
<1>4. IsFiniteSet(Left(w, u))
  <2>1. comments[w] \in Seq(Reader)
      BY DEF Typed, TablesType
  <2>2. IsFiniteSet(DOMAIN comments[w])
      BY <1>2, <2>1
  <2>. QED
      BY <2>2, FS_Subset DEF Left
<1>5. IsFiniteSet({u} \cap kudos[w])
  <2>1. IsFiniteSet({u}) /\ {u} \cap kudos[w] \subseteq {u}
      BY FS_Singleton
  <2>. QED
      BY <2>1, FS_Subset
<1>6. Given(w, u, k) \in Nat
  <2>1. Cardinality({u} \cap kudos[w]) \in Nat /\ Cardinality(Left(w, u)) \in Nat
      BY <1>4, <1>5, FS_CardinalityType
  <2>. QED
      BY <2>1 DEF Given, Left
<1>. QED
    BY <1>1, <1>3, <1>4, <1>6, FS_CardinalityType DEF Coming, Askers, Told, Notices

\* A request moves: one that asks more, or one less.
LEMMA ComingMoves ==
    ASSUME Typed, Typed', NEW r \in Request, NEW step, NEW l \in LocRec, To(r, step, l),
           NEW w \in Work, NEW u, NEW k
    PROVE  /\ (Asks(l, w, u, k) <=> Asks(loc[r], w, u, k)) => Coming(w, u, k)' = Coming(w, u, k)
           /\ Asks(l, w, u, k) /\ ~Asks(loc[r], w, u, k) => Coming(w, u, k)' = Coming(w, u, k) + 1
           /\ ~Asks(l, w, u, k) /\ Asks(loc[r], w, u, k) => Coming(w, u, k)' = Coming(w, u, k) - 1
<1>1. \A s \in Request : loc'[s] = IF s = r THEN l ELSE loc[s]
    BY DEF To, Typed, RequestsType
<1>2. /\ IsFiniteSet(Askers(w, u, k)) /\ Coming(w, u, k) = Cardinality(Askers(w, u, k))
      /\ Coming(w, u, k) \in Nat
    BY CountsAreNumbers
<1>3. Coming(w, u, k)' = Cardinality(Askers(w, u, k)')
    BY DEF Coming, Askers
<1>4. Asks(l, w, u, k) => Askers(w, u, k)' = Askers(w, u, k) \cup {r}
    BY <1>1 DEF Askers, Asks
<1>5. ~Asks(l, w, u, k) => Askers(w, u, k)' = Askers(w, u, k) \ {r}
    BY <1>1 DEF Askers, Asks
<1>6. r \in Askers(w, u, k) <=> Asks(loc[r], w, u, k)
    BY DEF Askers, Asks
<1>7. /\ Cardinality(Askers(w, u, k) \cup {r}) = IF r \in Askers(w, u, k) THEN Cardinality(Askers(w, u, k))
                                                 ELSE Cardinality(Askers(w, u, k)) + 1
      /\ Cardinality(Askers(w, u, k) \ {r}) = IF r \in Askers(w, u, k) THEN Cardinality(Askers(w, u, k)) - 1
                                              ELSE Cardinality(Askers(w, u, k))
    BY <1>2, FS_AddElement, FS_RemoveElement
<1>. QED
    BY <1>2, <1>3, <1>4, <1>5, <1>6, <1>7

LEMMA BalanceKept ==
    ASSUME NEW w, NEW u, NEW k, Balanced(w, u, k), works'[w].by = works[w].by, astray \subseteq astray',
           Told(w, u, k)' = Told(w, u, k), Given(w, u, k)' = Given(w, u, k),
           u # works[w].by => Coming(w, u, k)' = Coming(w, u, k)
    PROVE  Balanced(w, u, k)'
BY DEF Balanced

\* The same notifications, read, deleted or unlinked from another work.
LEMMA ToldSame ==
    ASSUME NEW w, NEW u, NEW k, Notices(w, u, k)' = Notices(w, u, k)
    PROVE  Told(w, u, k)' = Told(w, u, k)
<1>1. Told(w, u, k) = Cardinality(Notices(w, u, k)) /\ Told(w, u, k)' = Cardinality(Notices(w, u, k)')
    BY DEF Told, Notices
<1>. QED
    BY <1>1

LEMMA ToldOnceMeans ==
    ToldOnce <=> \A w \in DOMAIN works, u \in Reader, k \in Kind :
                    <<w, "crossed">> \notin astray => Balanced(w, u, k)
BY DEF ToldOnce, Balanced, Kind

Quiet(r) == ReadWork(r) \/ WriteRow(r) \/ WriteTags(r) \/ WriteTagsFails(r) \/ SyncRead(r) \/ SyncWrite(r)
            \/ DropFiles(r)

\* A quiet step leaves what a request has stored as it is, or ends the request
\* of a reader on his own work.
LEMMA QuietMoves ==
    ASSUME Typed, NEW r \in Request, Quiet(r)
    PROVE  /\ UNCHANGED <<kudos, comments>>
           /\ \E step : \E l \in LocRec :
                 /\ To(r, step, l)
                 /\ \/ l.q = loc[r].q /\ l.new = loc[r].new
                    \/ ~l.new /\ (loc[r].new => loc[r].by = loc[r].q.by)
<1>1. loc[r] \in LocRec /\ Fits(at[r], loc[r]) /\ RequestsType /\ loc[r].new \in BOOLEAN
    BY LocFields DEF Typed
<1>2. at[r] \notin {"sync", "write", "notify"} => ~loc[r].new
    BY <1>1 DEF Fits
<1>3. UNCHANGED <<kudos, comments>>
    BY DEF Quiet, ReadWork, WriteRow, WriteTags, WriteTagsFails, SyncRead, SyncWrite, DropFiles, tables
<1>4. CASE Stop(r) /\ (loc[r].new => loc[r].by = loc[r].q.by)
    BY <1>3, <1>4, NoneTyped DEF Stop
<1>5. CASE ReadWork(r) /\ ~Stop(r)
  <2>1. PICK l : l = [loc[r] EXCEPT !.title = works[loc[r].q.work].title, !.by = works[loc[r].q.work].by]
      OBVIOUS
  <2>2. loc[r].q.work \in DOMAIN works
      BY <1>5 DEF ReadWork, Abandon
  <2>3. works[loc[r].q.work].title \in Title /\ works[loc[r].q.work].by \in User
      BY <2>2, WorkFields DEF Typed
  <2>4. l \in LocRec /\ l.q = loc[r].q /\ l.new = loc[r].new
      BY <1>1, <2>1, <2>3 DEF LocRec
  <2>5. To(r, AfterRead[loc[r].q.kind], l)
      BY <1>5, <2>1, <2>2 DEF ReadWork
  <2>. QED
      BY <1>3, <2>4, <2>5
<1>6. CASE WriteRow(r) \/ WriteTags(r)
    BY <1>1, <1>3, <1>6 DEF WriteRow, WriteTags
<1>7. CASE SyncRead(r) /\ ~Synced(r)
  <2>1. loc[r].q.work \in DOMAIN works
      BY <1>7 DEF SyncRead
  <2>2. PICK c \in Snapshot : c = Content(loc[r].q.work)
      BY <2>1, ContentTyped DEF Typed
  <2>3. PICK l : l = [loc[r] EXCEPT !.read = c]
      OBVIOUS
  <2>4. l \in LocRec /\ l.q = loc[r].q /\ l.new = loc[r].new
      BY <1>1, <2>3 DEF LocRec
  <2>5. To(r, "write", l)
      BY <1>7, <2>2, <2>3 DEF SyncRead
  <2>. QED
      BY <1>3, <2>4, <2>5
<1>8. CASE at[r] \in {"sync", "write"} /\ Synced(r)
  <2>1. \/ Stop(r) /\ ~(ByReader(loc[r]) /\ Tells(loc[r]))
        \/ \E step \in {"tags", "sync", "notify"}, l \in LocRec : To(r, step, l) /\ Kept(l, loc[r])
      BY <1>1, <1>8, SyncedShape
  <2>2. CASE Stop(r) /\ ~(ByReader(loc[r]) /\ Tells(loc[r]))
    <3>1. loc[r].new => loc[r].by = loc[r].q.by
        BY <1>1, <2>2 DEF Fits, ByReader, Tells
    <3>. QED
        BY <1>4, <2>2, <3>1
  <2>. QED
      BY <1>3, <2>1, <2>2 DEF Kept
<1>9. \/ Stop(r) /\ ~loc[r].new
      \/ ReadWork(r) /\ ~Stop(r)
      \/ WriteRow(r) \/ WriteTags(r)
      \/ SyncRead(r) /\ ~Synced(r)
      \/ at[r] \in {"sync", "write"} /\ Synced(r)
    BY <1>2 DEF Quiet, ReadWork, WriteTagsFails, SyncRead, SyncWrite, DropFiles, Abandon
<1>. QED
    BY <1>4, <1>5, <1>6, <1>7, <1>8, <1>9

LEMMA GivenSame ==
    ASSUME NEW w, NEW u, NEW k, kudos'[w] = kudos[w], comments'[w] = comments[w]
    PROVE  Given(w, u, k)' = Given(w, u, k)
BY DEF Given

\* The notification that is made tells the uploader of w what u left, if the
\* request that makes it was to do so, and else nobody of this.
LEMMA NotifyTells ==
    ASSUME Typed, NEW r \in Request, Notify(r), loc[r].q.work \in DOMAIN works,
           NEW w \in Work, NEW u, NEW k, UNCHANGED works,
           loc[r].q.work = w => loc[r].by = works[w].by
    PROVE  Told(w, u, k)' = IF loc[r].q.work = w /\ loc[r].q.by = u /\ loc[r].q.kind = k
                            THEN Told(w, u, k) + 1 ELSE Told(w, u, k)
<1>1. PICK last \in Nat : last = Len(notes) + 1
    BY DEF Typed, ReadersType
<1>2. PICK n : n = [to |-> loc[r].by, by |-> loc[r].q.by, kind |-> loc[r].q.kind,
                    work |-> loc[r].q.work, state |-> "unread"]
    OBVIOUS
<1>3. /\ DOMAIN notes' = DOMAIN notes \cup {last} /\ last \notin DOMAIN notes /\ notes'[last] = n
      /\ \A i \in DOMAIN notes : notes'[i] = notes[i]
    BY <1>1, <1>2, NotifyShape
<1>4. /\ IsFiniteSet(Notices(w, u, k)) /\ Told(w, u, k) = Cardinality(Notices(w, u, k))
      /\ Told(w, u, k)' = Cardinality(Notices(w, u, k)')
    BY CountsAreNumbers, ZenonT(60) DEF Told, Notices
<1>5. last \notin Notices(w, u, k)
    BY <1>3 DEF Notices
<1>6. CASE loc[r].q.work = w /\ loc[r].q.by = u /\ loc[r].q.kind = k
  <2>1. n = [to |-> works[w].by, by |-> u, kind |-> k, work |-> w, state |-> n.state]
      BY <1>2, <1>6
  <2>2. Notices(w, u, k)' = Notices(w, u, k) \cup {last}
      BY <1>3, <2>1 DEF Notices
  <2>. QED
      BY <1>4, <1>5, <1>6, <2>2, FS_AddElement, ZenonT(60)
<1>7. CASE ~(loc[r].q.work = w /\ loc[r].q.by = u /\ loc[r].q.kind = k)
  <2>1. n # [to |-> works[w].by, by |-> u, kind |-> k, work |-> w, state |-> n.state]
      BY <1>2, <1>7
  <2>2. Notices(w, u, k)' = Notices(w, u, k)
      BY <1>3, <2>1 DEF Notices
  <2>. QED
      BY <1>4, <1>7, <2>2
<1>. QED
    BY <1>6, <1>7

\* The deletion of another work takes nothing from what was told of w.
LEMMA ToldOfOthers ==
    ASSUME Typed, NEW v \in Work, notes' = NotesUnlinked(v), NEW w \in Work \ {v}, NEW u, NEW k,
           works'[w].by = works[w].by
    PROVE  Told(w, u, k)' = Told(w, u, k)
<1>1. DOMAIN notes' = DOMAIN notes /\ \A n \in DOMAIN notes : notes[n] \in Note
    BY DEF NotesUnlinked, Typed, ReadersType
<1>2. w # NoWork
    BY CatalogueAssumption
<1>3. ASSUME NEW n \in DOMAIN notes PROVE n \in Notices(w, u, k)' <=> n \in Notices(w, u, k)
  <2>1. CASE notes[n].work # v
    <3>1. notes'[n] = notes[n]
        BY <1>1, <2>1 DEF NotesUnlinked
    <3>. QED
        BY <1>1, <1>3, <3>1 DEF Notices
  <2>2. CASE notes[n].work = v
    <3>1. notes'[n].work = NoWork
      <4>1. notes'[n] = [notes[n] EXCEPT !.work = NoWork] /\ notes[n] \in Note
          BY <1>1, <2>2 DEF NotesUnlinked
      <4>. QED
          BY <4>1 DEF Note
    <3>2. notes'[n] # [to |-> works[w].by, by |-> u, kind |-> k, work |-> w, state |-> notes'[n].state]
        BY <1>2, <3>1
    <3>3. notes[n] # [to |-> works[w].by, by |-> u, kind |-> k, work |-> w, state |-> notes[n].state]
        BY <2>2
    <3>. QED
        BY <1>3, <3>2, <3>3 DEF Notices
  <2>. QED
      BY <2>1, <2>2
<1>4. Notices(w, u, k)' = Notices(w, u, k)
    BY <1>1, <1>3 DEF Notices
<1>. QED
    BY <1>4, ToldSame

\* A work that was imported anew has nothing yet.
LEMMA NewWorkBalanced ==
    ASSUME Typed, Typed', Gone, RequestsKnow, NEW r \in Request, WriteRow(r), UNCHANGED community,
           NEW w \in Work \ DOMAIN works, NEW u, NEW k, <<w, "crossed">> \notin astray
    PROVE  Balanced(w, u, k)'
<1>1. UNCHANGED <<kudos, comments, notes>> /\ kudos[w] = {} /\ comments[w] = <<>> /\ w # NoWork
    BY CatalogueAssumption DEF WriteRow, community, Gone
<1>2. Given(w, u, k)' = 0
  <2>1. {u} \cap kudos'[w] = {} /\ {n \in DOMAIN comments'[w] : comments'[w][n] = u} = {}
      BY <1>1
  <2>. QED
      BY <2>1, FS_EmptySet DEF Given
<1>3. Told(w, u, k)' = 0
  <2>1. ASSUME NEW n \in DOMAIN notes
        PROVE  notes[n] # [to |-> works'[w].by, by |-> u, kind |-> k, work |-> w, state |-> notes[n].state]
    <3>1. notes[n].work # w
        BY <1>1 DEF Gone
    <3>. QED
        BY <3>1
  <2>2. Notices(w, u, k)' = {}
      BY <1>1, <2>1 DEF Notices
  <2>3. Told(w, u, k)' = Cardinality(Notices(w, u, k)')
      BY DEF Told, Notices
  <2>. QED
      BY <2>2, <2>3, FS_EmptySet
<1>4. Coming(w, u, k)' = 0
  <2>1. loc' = loc
    <3>1. PICK step : To(r, step, loc[r])
        BY DEF WriteRow
    <3>. QED
        BY <3>1 DEF To, Typed, RequestsType
  <2>2. ASSUME NEW s \in Request PROVE ~(loc[s].new /\ loc[s].q.work = w)
      BY LocFields DEF Typed, RequestsType, RequestsKnow, Knows, Fits
  <2>3. Askers(w, u, k)' = {}
      BY <2>1, <2>2 DEF Askers
  <2>4. Coming(w, u, k)' = Cardinality(Askers(w, u, k)')
      BY DEF Coming, Askers
  <2>. QED
      BY <2>3, <2>4, FS_EmptySet
<1>. QED
    BY <1>2, <1>3, <1>4 DEF Balanced

LEMMA QuietBalanced ==
    ASSUME Typed, Typed', RequestsKnow, NEW r \in Request, Walks(r), Quiet(r), UNCHANGED community,
           NEW w \in DOMAIN works, w \in DOMAIN works', NEW u, NEW k, Balanced(w, u, k),
           <<w, "crossed">> \notin astray
    PROVE  Balanced(w, u, k)'
<1>1. w \in Work /\ works'[w].by = works[w].by
    BY OwnersKept, WorkFields DEF Typed
<1>2. PICK step : \E l \in LocRec :
         /\ To(r, step, l)
         /\ \/ l.q = loc[r].q /\ l.new = loc[r].new
            \/ ~l.new /\ (loc[r].new => loc[r].by = loc[r].q.by)
    BY QuietMoves
<1>3. PICK l \in LocRec :
         /\ To(r, step, l)
         /\ \/ l.q = loc[r].q /\ l.new = loc[r].new
            \/ ~l.new /\ (loc[r].new => loc[r].by = loc[r].q.by)
    BY <1>2
<1>4. Given(w, u, k)' = Given(w, u, k)
    BY QuietMoves, GivenSame
<1>5. Told(w, u, k)' = Told(w, u, k)
    BY <1>1, ToldSame DEF Notices, community
<1>6. ASSUME u # works[w].by PROVE Coming(w, u, k)' = Coming(w, u, k)
  <2>1. Asks(l, w, u, k) <=> Asks(loc[r], w, u, k)
    <3>1. CASE l.q = loc[r].q /\ l.new = loc[r].new
        BY <3>1 DEF Asks
    <3>2. CASE ~l.new /\ (loc[r].new => loc[r].by = loc[r].q.by)
      <4>1. ASSUME Asks(loc[r], w, u, k) PROVE FALSE
        <5>1. /\ ByReader(loc[r]) /\ at[r] # "read" /\ loc[r].q.work = w /\ loc[r].by = u
            BY <3>2, <4>1, LocFields DEF Typed, Asks, Fits
        <5>2. loc[r].by = works[w].by
            BY <5>1 DEF RequestsKnow, Knows
        <5>. QED
            BY <1>6, <5>1, <5>2
      <4>. QED
          BY <3>2, <4>1 DEF Asks
    <3>. QED
        BY <1>3, <3>1, <3>2
  <2>. QED
      BY <1>1, <1>3, <2>1, ComingMoves
<1>. QED
    BY <1>1, <1>4, <1>5, <1>6, BalanceKept DEF community

\* What a request stores is on its way.
LEMMA GiftBalanced ==
    ASSUME Typed, Typed', NEW r \in Request, AddKudo(r) \/ AddComment(r), UNCHANGED community,
           NEW w \in DOMAIN works, NEW u, NEW k \in Kind, Balanced(w, u, k)
    PROVE  Balanced(w, u, k)'
<1>0. /\ w \in Work /\ UNCHANGED <<works, notes, astray>> /\ at[r] \in {"kudos", "comment"}
      /\ loc[r] \in LocRec /\ ~loc[r].new /\ loc[r].q \in Forms /\ at[r] \in StepsOf[loc[r].q.kind]
    BY LocFields, WorkFields DEF Typed, AddKudo, AddComment, community, Fits
<1>1. loc[r].q.kind = at[r] /\ loc[r].q.work \in Work
    BY <1>0, FormFields DEF StepsOf
<1>2. Told(w, u, k)' = Told(w, u, k)
    BY <1>0, ToldSame DEF Notices
<1>3. /\ Told(w, u, k) \in Nat /\ Coming(w, u, k) \in Nat /\ Given(w, u, k) \in Nat
      /\ IsFiniteSet(Left(w, u))
    BY <1>0, CountsAreNumbers
<1>4. CASE Abandon(r)
  <2>1. loc[r].q.work \notin DOMAIN works => UNCHANGED <<kudos, comments>>
      BY DEF AddKudo, AddComment
  <2>2. CASE loc[r].q.work \notin DOMAIN works
    <3>1. Coming(w, u, k)' = Coming(w, u, k)
        BY <1>0, <1>4, NoneTyped, ComingMoves DEF Abandon, Stop, Asks
    <3>. QED
        BY <1>0, <1>2, <2>1, <2>2, <3>1, GivenSame, BalanceKept
  <2>3. CASE loc[r].q.work \in DOMAIN works
    <3>1. at'[r] = "idle" /\ at'[r] = "sync"
        BY <1>4, <2>3 DEF Abandon, Stop, To, AddKudo, AddComment, Typed, RequestsType
    <3>. QED
        BY <3>1
  <2>. QED
      BY <2>2, <2>3
<1>5. CASE AddKudo(r) /\ ~Abandon(r)
  <2>1. PICK q : q = loc[r].q
      OBVIOUS
  <2>2. PICK new \in BOOLEAN : new = (q.by \notin kudos[q.work])
      OBVIOUS
  <2>3. PICK l : l = [loc[r] EXCEPT !.new = new]
      OBVIOUS
  <2>4. l \in LocRec /\ l.q = q /\ l.new = new /\ q.kind = "kudos" /\ q.work \in Work
      BY <1>0, <1>1, <1>5, <2>1, <2>3 DEF LocRec, AddKudo
  <2>5. PICK all : all = kudos[q.work] \cup {q.by}
      OBVIOUS
  <2>6. To(r, "sync", l) /\ kudos' = [kudos EXCEPT ![q.work] = all] /\ comments' = comments
      BY <1>5, <2>1, <2>2, <2>3, <2>5 DEF AddKudo
  <2>7. kudos'[w] = IF w = q.work THEN all ELSE kudos[w]
      BY <1>0, <2>6 DEF Typed, TablesType
  <2>8. CASE Asks(l, w, u, k)
    <3>1. w = q.work /\ u = q.by /\ k = "kudos" /\ u \notin kudos[w]
        BY <2>2, <2>4, <2>8 DEF Asks
    <3>2. {u} \cap kudos[w] = {} /\ {u} \cap kudos'[w] = {u}
        BY <2>5, <2>7, <3>1
    <3>3. Given(w, u, k) = 0 /\ Given(w, u, k)' = 1
        BY <3>1, <3>2, FS_EmptySet, FS_Singleton DEF Given
    <3>4. Coming(w, u, k)' = Coming(w, u, k) + 1
        BY <1>0, <2>4, <2>6, <2>8, ComingMoves DEF Asks
    <3>. QED
        BY <1>0, <1>2, <1>3, <3>3, <3>4 DEF Balanced
  <2>9. CASE ~Asks(l, w, u, k)
    <3>1. Coming(w, u, k)' = Coming(w, u, k)
        BY <1>0, <2>4, <2>6, <2>9, ComingMoves DEF Asks
    <3>2. k = "kudos" => {u} \cap kudos'[w] = {u} \cap kudos[w]
        BY <2>2, <2>4, <2>5, <2>7, <2>9 DEF Asks
    <3>3. Given(w, u, k)' = Given(w, u, k)
        BY <2>6, <3>2 DEF Given
    <3>. QED
        BY <1>0, <1>2, <3>1, <3>3, BalanceKept
  <2>. QED
      BY <2>8, <2>9
<1>6. CASE AddComment(r) /\ ~Abandon(r)
  <2>1. PICK q : q = loc[r].q
      OBVIOUS
  <2>2. PICK l : l = [loc[r] EXCEPT !.new = TRUE]
      OBVIOUS
  <2>3. l \in LocRec /\ l.q = q /\ l.new = TRUE /\ q.kind = "comment" /\ q.work \in Work /\ q.by \in Reader
      BY <1>0, <1>1, <1>6, <2>1, <2>2, FormFields DEF LocRec, AddComment
  <2>4. comments[q.work] \in Seq(Reader) /\ comments[w] \in Seq(Reader)
      BY <1>0, <2>3 DEF Typed, TablesType
  <2>5. PICK more \in Seq(Reader) : more = Append(comments[q.work], q.by)
    <3>1. Append(comments[q.work], q.by) \in Seq(Reader)
        BY <2>3, <2>4
    <3>. QED
        BY <3>1
  <2>6. To(r, "sync", l) /\ comments' = [comments EXCEPT ![q.work] = more] /\ kudos' = kudos
      BY <1>6, <2>1, <2>2, <2>5 DEF AddComment
  <2>7. comments'[w] = IF w = q.work THEN more ELSE comments[w]
      BY <1>0, <2>6 DEF Typed, TablesType
  <2>8. PICK n \in Nat : n = Len(comments[q.work]) + 1
      BY <2>4
  <2>9. /\ DOMAIN more = DOMAIN comments[q.work] \cup {n} /\ n \notin DOMAIN comments[q.work] /\ more[n] = q.by
        /\ \A i \in DOMAIN comments[q.work] : more[i] = comments[q.work][i]
      BY <2>3, <2>4, <2>5, <2>8
  <2>10. Given(w, u, "comment") = Cardinality(Left(w, u)) /\ Given(w, u, "comment")' = Cardinality(Left(w, u)')
      BY DEF Given, Left
  <2>11. CASE Asks(l, w, u, k)
    <3>1. w = q.work /\ u = q.by /\ k = "comment"
        BY <2>3, <2>11 DEF Asks
    <3>2. Left(w, u)' = Left(w, u) \cup {n} /\ n \notin Left(w, u)
        BY <2>7, <2>9, <3>1 DEF Left
    <3>3. Given(w, u, k)' = Given(w, u, k) + 1
      <4>1. Cardinality(Left(w, u) \cup {n}) = Cardinality(Left(w, u)) + 1
          BY <1>3, <3>2, FS_AddElement
      <4>. QED
          BY <2>10, <3>1, <3>2, <4>1
    <3>4. Coming(w, u, k)' = Coming(w, u, k) + 1
        BY <1>0, <2>3, <2>6, <2>11, ComingMoves DEF Asks
    <3>5. PICK t \in Nat, c \in Nat, g \in Nat :
             t = Told(w, u, k) /\ c = Coming(w, u, k) /\ g = Given(w, u, k)
        BY <1>3
    <3>6. Told(w, u, k)' = t /\ Coming(w, u, k)' = c + 1 /\ Given(w, u, k)' = g + 1
        BY <1>2, <3>3, <3>4, <3>5
    <3>. QED
        BY <1>0, <3>5, <3>6 DEF Balanced
  <2>12. CASE ~Asks(l, w, u, k)
    <3>1. Coming(w, u, k)' = Coming(w, u, k)
        BY <1>0, <2>3, <2>6, <2>12, ComingMoves DEF Asks
    <3>2. Given(w, u, k)' = Given(w, u, k)
      <4>1. CASE k = "comment"
        <5>1. w # q.work \/ u # q.by
            BY <2>3, <2>12, <4>1 DEF Asks
        <5>2. Left(w, u)' = Left(w, u)
            BY <2>7, <2>9, <5>1 DEF Left
        <5>. QED
            BY <2>10, <4>1, <5>2
      <4>2. CASE k = "kudos"
          BY <2>6, <4>2 DEF Given
      <4>. QED
          BY <4>1, <4>2 DEF Kind
    <3>. QED
        BY <1>0, <1>2, <3>1, <3>2, BalanceKept
  <2>. QED
      BY <2>11, <2>12
<1>. QED
    BY <1>4, <1>5, <1>6

\* What was on its way has arrived.
LEMMA NotifyBalanced ==
    ASSUME Typed, Typed', RequestsKnow, NEW r \in Request, Notify(r),
           NEW w \in DOMAIN works, NEW u, NEW k, Balanced(w, u, k), <<w, "crossed">> \notin astray
    PROVE  Balanced(w, u, k)'
<1>0. /\ w \in Work /\ UNCHANGED <<works, kudos, comments, astray>> /\ at[r] = "notify"
      /\ loc[r] \in LocRec /\ loc[r].q \in Forms /\ at[r] \in StepsOf[loc[r].q.kind] /\ Tells(loc[r])
    BY LocFields, WorkFields DEF Typed, Notify, Fits, tables
<1>1. ByReader(loc[r]) /\ loc[r].new /\ loc[r].by # loc[r].q.by
    BY <1>0 DEF Tells, ByReader
<1>2. loc[r].q.work = w => loc[r].by = works[w].by
    BY <1>0, <1>1 DEF RequestsKnow, Knows
<1>3. Given(w, u, k)' = Given(w, u, k)
    BY <1>0, GivenSame
<1>4. PICK t \in Nat, c \in Nat, g \in Nat : t = Told(w, u, k) /\ c = Coming(w, u, k) /\ g = Given(w, u, k)
    BY <1>0, CountsAreNumbers
<1>5. To(r, "idle", NoLoc) /\ NoLoc \in LocRec /\ ~Asks(NoLoc, w, u, k)
    BY NoneTyped DEF Notify, Abandon, Stop, Asks
<1>6. CASE loc[r].q.work \in DOMAIN works /\ Asks(loc[r], w, u, k)
  <2>1. Told(w, u, k)' = t + 1
      BY <1>0, <1>2, <1>4, <1>6, NotifyTells DEF Asks
  <2>2. Coming(w, u, k)' = c - 1
      BY <1>0, <1>4, <1>5, <1>6, ComingMoves
  <2>3. u # works[w].by
      BY <1>1, <1>2, <1>6 DEF Asks
  <2>. QED
      BY <1>0, <1>3, <1>4, <2>1, <2>2, <2>3 DEF Balanced
<1>7. CASE loc[r].q.work \in DOMAIN works /\ ~Asks(loc[r], w, u, k)
  <2>1. Told(w, u, k)' = t
      BY <1>0, <1>1, <1>2, <1>4, <1>7, NotifyTells DEF Asks
  <2>2. Coming(w, u, k)' = c
      BY <1>0, <1>4, <1>5, <1>7, ComingMoves
  <2>. QED
      BY <1>0, <1>3, <1>4, <2>1, <2>2, BalanceKept
<1>8. CASE loc[r].q.work \notin DOMAIN works
  <2>1. notes' = notes /\ ~Asks(loc[r], w, u, k)
      BY <1>8 DEF Notify, Asks
  <2>2. Told(w, u, k)' = Told(w, u, k)
      BY <1>0, <2>1, ToldSame DEF Notices
  <2>3. Coming(w, u, k)' = Coming(w, u, k)
      BY <1>0, <1>5, <2>1, ComingMoves
  <2>. QED
      BY <1>0, <1>3, <2>2, <2>3, BalanceKept
<1>. QED
    BY <1>6, <1>7, <1>8

\* A deletion is of another work.
LEMMA DropBalanced ==
    ASSUME Typed, Typed', NEW r \in Request, DropWork(r),
           NEW w \in DOMAIN works, w \in DOMAIN works', NEW u, NEW k, Balanced(w, u, k)
    PROVE  Balanced(w, u, k)'
<1>0. /\ w \in Work /\ at[r] = "dropRow" /\ loc[r] \in LocRec /\ ~loc[r].new /\ RequestsType
      /\ loc[r].q.work \in Work /\ works'[w].by = works[w].by /\ astray \subseteq astray'
    BY LocFields, WorkFields, OwnersKept DEF Typed, DropWork, DropRow, Fits, Walks
<1>1. w # loc[r].q.work
    BY DEF DropWork, DropRow, Without
<1>2. kudos'[w] = kudos[w] /\ comments'[w] = comments[w]
    BY <1>0, <1>1 DEF DropWork, DropRow, Typed, TablesType
<1>3. Given(w, u, k)' = Given(w, u, k)
    BY <1>2, GivenSame
<1>4. Told(w, u, k)' = Told(w, u, k)
  <2>1. PICK v \in Work : v = loc[r].q.work
      BY <1>0
  <2>2. notes' = NotesUnlinked(v)
      BY <2>1 DEF DropWork
  <2>. QED
      BY <1>0, <1>1, <2>1, <2>2, ToldOfOthers
<1>5. Coming(w, u, k)' = Coming(w, u, k)
  <2>1. To(r, "dropFiles", loc[r]) \/ To(r, "idle", NoLoc)
      BY DEF DropWork, DropRow, Abandon, Stop
  <2>2. PICK step, l : To(r, step, l) /\ l \in LocRec /\ ~l.new
      BY <1>0, <2>1, NoneTyped
  <2>. QED
      BY <1>0, <2>2, ComingMoves DEF Asks
<1>. QED
    BY <1>0, <1>3, <1>4, <1>5, BalanceKept

\* What a request that fails had on its way is lost, and known to be.
LEMMA FailBalanced ==
    ASSUME Typed, Typed', NEW r \in Request, FailRequest(r),
           NEW w \in DOMAIN works, NEW u, NEW k, Balanced(w, u, k)
    PROVE  Balanced(w, u, k)'
<1>0. /\ w \in Work /\ UNCHANGED <<works, kudos, comments, notes>> /\ loc[r] \in LocRec
      /\ astray' = astray \cup (IF loc[r].new THEN {<<loc[r].q.work, "failed">>} ELSE {})
    BY LocFields, WorkFields DEF Typed, FailRequest, Fail, tables
<1>1. Given(w, u, k)' = Given(w, u, k)
    BY <1>0, GivenSame
<1>2. Told(w, u, k)' = Told(w, u, k)
    BY <1>0, ToldSame DEF Notices
<1>3. To(r, "idle", NoLoc) /\ NoLoc \in LocRec /\ ~Asks(NoLoc, w, u, k)
    BY NoneTyped DEF FailRequest, Fail, Abandon, Stop, Asks
<1>4. CASE Asks(loc[r], w, u, k)
  <2>1. PICK t \in Nat, c \in Nat, g \in Nat : t = Told(w, u, k) /\ c = Coming(w, u, k) /\ g = Given(w, u, k)
      BY <1>0, CountsAreNumbers
  <2>2. Coming(w, u, k)' = c - 1
      BY <1>0, <1>3, <1>4, <2>1, ComingMoves
  <2>3. <<w, "failed">> \in astray'
      BY <1>0, <1>4 DEF Asks
  <2>4. u # works[w].by => t + c <= g
      BY <2>1 DEF Balanced
  <2>5. u = works[w].by => t = 0
      BY <2>1 DEF Balanced
  <2>. QED
      BY <1>0, <1>1, <1>2, <2>1, <2>2, <2>3, <2>4, <2>5 DEF Balanced
<1>5. CASE ~Asks(loc[r], w, u, k)
  <2>1. Coming(w, u, k)' = Coming(w, u, k)
      BY <1>0, <1>3, <1>5, ComingMoves
  <2>. QED
      BY <1>0, <1>1, <1>2, <2>1, BalanceKept
<1>. QED
    BY <1>4, <1>5

LEMMA WalkBalanced ==
    ASSUME Typed, Typed', Gone, RequestsKnow, ToldOnce, NEW r \in Request, Walks(r),
           NEW w \in DOMAIN works', NEW u \in Reader, NEW k \in Kind, <<w, "crossed">> \notin astray'
    PROVE  Balanced(w, u, k)'
<1>1. w \in Work /\ <<w, "crossed">> \notin astray
    BY OwnersKept DEF Typed, TablesType
<1>2. CASE w \notin DOMAIN works
    BY <1>1, <1>2, OwnersKept, NewWorkBalanced
<1>3. CASE w \in DOMAIN works
  <2>1. Balanced(w, u, k)
      BY <1>1, <1>3, ToldOnceMeans
  <2>2. CASE Quiet(r) /\ UNCHANGED community
      BY <1>1, <1>3, <2>1, <2>2, QuietBalanced
  <2>3. CASE (AddKudo(r) \/ AddComment(r)) /\ UNCHANGED community
      BY <1>3, <2>1, <2>3, GiftBalanced
  <2>4. CASE Notify(r)
      BY <1>1, <1>3, <2>1, <2>4, NotifyBalanced
  <2>5. CASE DropWork(r)
      BY <1>3, <2>1, <2>5, DropBalanced
  <2>6. CASE FailRequest(r)
      BY <1>3, <2>1, <2>6, FailBalanced
  <2>. QED
      BY <2>2, <2>3, <2>4, <2>5, <2>6 DEF Walks, Step, Quiet
<1>. QED
    BY <1>2, <1>3

LEMMA ToldKept == ASSUME Typed, Gone, RequestsKnow, ToldOnce, [Next]_allVars PROVE ToldOnce'
<1>0. Typed'
    BY NextTyped
<1>1. (ToldOnce <=> \A w \in DOMAIN works, u \in Reader, k \in Kind :
                       <<w, "crossed">> \notin astray => Balanced(w, u, k))'
    BY ToldOnceMeans, PTL
<1>2. ASSUME NEW r \in Request, Walks(r) PROVE ToldOnce'
    BY <1>0, <1>1, <1>2, WalkBalanced
<1>3. ASSUME UNCHANGED <<works, kudos, comments, astray>>,
             \A w \in DOMAIN works, u \in Reader, k \in Kind :
                Told(w, u, k)' = Told(w, u, k) /\ Coming(w, u, k)' = Coming(w, u, k)
      PROVE  ToldOnce'
  <2>1. ASSUME NEW w \in DOMAIN works, NEW u \in Reader, NEW k \in Kind, <<w, "crossed">> \notin astray
        PROVE  Balanced(w, u, k)'
      BY <1>3, <2>1, GivenSame, BalanceKept, ToldOnceMeans
  <2>. QED
      BY <1>1, <1>3, <2>1
<1>4. CASE OnUsersAndItems \/ UNCHANGED allVars
  <2>1. UNCHANGED <<works, kudos, comments, astray, notes, loc>>
      BY <1>4, SinglesShape DEF allVars, vars, tables, community
  <2>. QED
      BY <1>3, <2>1 DEF Told, Coming
<1>5. ASSUME NEW r \in Request, NEW q \in Requests, Begin(r, q), UNCHANGED community
      PROVE  ToldOnce'
  <2>1. UNCHANGED <<works, kudos, comments, astray, notes>> /\ at[r] = "idle"
      BY <1>5, BeginShape DEF tables, community
  <2>2. PICK step \in {"row", "read"}, l \in LocRec : To(r, step, l) /\ ~l.new
      BY <1>5, BeginShape
  <2>3. loc[r] = NoLoc /\ ~loc[r].new
      BY <2>1, NoneTyped DEF Typed, RequestsType, Fits
  <2>4. ASSUME NEW w \in DOMAIN works, NEW u \in Reader, NEW k \in Kind
        PROVE  Told(w, u, k)' = Told(w, u, k) /\ Coming(w, u, k)' = Coming(w, u, k)
    <3>1. w \in Work
        BY WorkFields DEF Typed
    <3>2. Coming(w, u, k)' = Coming(w, u, k)
        BY <1>0, <2>2, <2>3, <3>1, ComingMoves DEF Asks
    <3>. QED
        BY <2>1, <3>2 DEF Told
  <2>. QED
      BY <1>3, <2>1, <2>4
<1>6. CASE OfReaders
  <2>1. /\ UNCHANGED <<works, kudos, comments, astray, loc>> /\ DOMAIN notes' = DOMAIN notes
        /\ \A n \in DOMAIN notes : notes'[n] = [notes[n] EXCEPT !.state = notes'[n].state]
        /\ \A n \in DOMAIN notes : notes[n] \in Note
      BY <1>6, ReadersShape DEF tables, Typed, ReadersType
  <2>2. ASSUME NEW w \in DOMAIN works, NEW u \in Reader, NEW k \in Kind
        PROVE  Told(w, u, k)' = Told(w, u, k) /\ Coming(w, u, k)' = Coming(w, u, k)
    <3>1. ASSUME NEW n \in DOMAIN notes PROVE n \in Notices(w, u, k)' <=> n \in Notices(w, u, k)
      <4>1. notes[n] \in Note
          BY <2>1
      <4>2. PICK s : s = notes'[n].state
          OBVIOUS
      <4>3. notes'[n] = [notes[n] EXCEPT !.state = s]
          BY <2>1, <4>2
      <4>4. /\ notes'[n].to = notes[n].to /\ notes'[n].by = notes[n].by /\ notes'[n].kind = notes[n].kind
            /\ notes'[n].work = notes[n].work
          BY <4>1, <4>3 DEF Note
      <4>5. notes[n] = [to |-> notes[n].to, by |-> notes[n].by, kind |-> notes[n].kind, work |-> notes[n].work,
                        state |-> notes[n].state]
          BY <4>1 DEF Note
      <4>6. notes'[n] = [to |-> notes[n].to, by |-> notes[n].by, kind |-> notes[n].kind, work |-> notes[n].work,
                         state |-> notes'[n].state]
          BY <4>2, <4>3, <4>5
      <4>7. n \in Notices(w, u, k) <=> /\ notes[n].to = works[w].by /\ notes[n].by = u
                                       /\ notes[n].kind = k /\ notes[n].work = w
          BY <4>5 DEF Notices
      <4>8. n \in Notices(w, u, k)' <=> /\ notes[n].to = works[w].by /\ notes[n].by = u
                                        /\ notes[n].kind = k /\ notes[n].work = w
          BY <2>1, <4>4, <4>6 DEF Notices
      <4>. QED
          BY <4>7, <4>8
    <3>2. Notices(w, u, k)' = Notices(w, u, k)
        BY <2>1, <3>1 DEF Notices
    <3>. QED
        BY <2>1, <3>2, ToldSame DEF Coming
  <2>. QED
      BY <1>3, <2>1, <2>2
<1>. QED
    BY <1>2, <1>4, <1>5, <1>6, Kinds

-----------------------------------------------------------------------------
(* All together.                                                           *)

LEMMA InitInv == CommunityInit => IInv
<1>. SUFFICES ASSUME CommunityInit PROVE IInv
    OBVIOUS
<1>1. Typed
    BY InitTyped
<1>2. /\ workIndex = Empty /\ itemIndex = Empty /\ \A r \in Request : at[r] = "idle" /\ loc[r] = NoLoc
      /\ \A w \in Work : tagged[w] = {} /\ kudos[w] = {} /\ comments[w] = <<>>
      /\ \A s \in Slug : count[s] = 0
      /\ solo = NoWork /\ notes = <<>> /\ \A w \in Work : marks[w] = {} /\ progress[w] = {}
      /\ \A i \in Item : remarks[i] = <<>>
    BY DEF CommunityInit, Init
<1>3. Indexed
  <2>1. Ready => DOMAIN works = {} /\ DOMAIN items = {}
      BY <1>2 DEF Ready, Empty
  <2>2. IndexIsFresh
      BY <2>1 DEF IndexIsFresh
  <2>. QED
      BY <1>2, <2>2 DEF Indexed, AllIdle
<1>4. Gone
    BY <1>2 DEF Gone
<1>5. Popular
  <2>1. \A s \in Slug : {w \in Work : s \in tagged[w]} = {} /\ count[s] = 0
      BY <1>2
  <2>. QED
      BY <2>1, FS_EmptySet DEF Popular
<1>6. Alone
    BY <1>2 DEF Alone
<1>7. RequestsKnow
    BY <1>2, NoneTyped DEF RequestsKnow, Knows
<1>8. ToldOnce
  <2>1. ASSUME NEW w \in DOMAIN works, NEW u, NEW k \in Kind PROVE Balanced(w, u, k)
    <3>1. w \in Work
        BY <1>1, WorkFields DEF Typed
    <3>2. Askers(w, u, k) = {} /\ Notices(w, u, k) = {}
        BY <1>2, NoneTyped DEF Askers, Notices
    <3>3. {u} \cap kudos[w] = {} /\ {n \in DOMAIN comments[w] : comments[w][n] = u} = {}
        BY <1>2, <3>1
    <3>4. Coming(w, u, k) = 0 /\ Told(w, u, k) = 0
        BY <1>1, <3>1, <3>2, CountsAreNumbers, FS_EmptySet
    <3>5. Given(w, u, k) = 0
        BY <3>3, FS_EmptySet DEF Given
    <3>. QED
        BY <3>4, <3>5 DEF Balanced
  <2>. QED
      BY <2>1, ToldOnceMeans
<1>. QED
    BY <1>1, <1>3, <1>4, <1>5, <1>6, <1>7, <1>8 DEF IInv

LEMMA Invariance == Spec => []IInv
<1>1. IInv /\ [Next]_allVars => IInv'
    BY NextTyped, IndexedKept, GoneKept, PopularKept, AloneKept, KnowsKept, ToldKept DEF IInv
<1>. QED
    BY InitInv, <1>1, PTL DEF Spec

\* Whenever no connection would rebuild them, the full-text tables that the
\* triggers of db.py maintain hold the row a rebuild would write for every work
\* and item, whatever imports, edits, deletions, renamed users and tags set in
\* between by other requests did.
THEOREM IndexFresh == Spec => []IndexIsFresh
BY Invariance, PTL DEF IInv, Indexed

\* usage_count never falls below the number of works that have the tag, and
\* metadata.toml agrees with the rows after every request that no other one
\* overlapped, however many syncs, failures and crashes came before it.
THEOREM Derived == Spec => []DerivedFollows
<1>1. IInv => DerivedFollows
    BY AloneSafe DEF IInv
<1>. QED
    BY <1>1, Invariance, PTL

\* The uploader is told of each of somebody else's kudos and comments once,
\* for any number of clicks and requests under way at the same time, unless a
\* request ended before its notification or a deletion crossed it.
THEOREM TellsOnce == Spec => []ToldOnce
BY Invariance, PTL DEF IInv

\* Whatever readers leave on a work or an item goes with it: kudos, comments,
\* bookmarks and progress, the work of a notification and an item's comments.
THEOREM LeftGoes == Spec => []GoneWithWork
<1>1. IInv => GoneWithWork
    BY GoneSafe DEF IInv
<1>. QED
    BY <1>1, Invariance, PTL
==============================================================================
