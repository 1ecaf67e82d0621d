----------------------------- MODULE FanartMedia -----------------------------
(***************************************************************************)
(* Fanart items, the media objects they point to and one gallery of their  *)
(* owner.  An object is named by the hash of its bytes, so two items of    *)
(* the same picture share it; the table of items is the only count of its  *)
(* users.  An upload stores the object first and inserts the row in a      *)
(* later transaction; a deletion drops the row, looks for other users in   *)
(* the same transaction and deletes the object after it.                   *)
(*                                                                         *)
(* The object store puts an object whole or not at all.  The local backend *)
(* truncates the file of that name and fills it: until then, and for ever  *)
(* when the put fails or dies half way, exists() takes it for the object.  *)
(*                                                                         *)
(* The thumbnail goes the way of the image and is left out; moderation and *)
(* the review queue are in WorkReview.                                     *)
(***************************************************************************)
EXTENDS Naturals, FiniteSets

CONSTANTS Request,    \* request threads
          Picture,    \* pictures, by content hash
          NoPicture,  \* stands for a deleted item
          MaxItems,   \* bound: items ever inserted
          MaxOps,     \* bound: requests started
          SkipChecks  \* the values of media_bunny_skip_exists_check in play:
                      \* is an object put without an existence check?

ASSUME FanartAssumption ==
    /\ NoPicture \notin Picture
    /\ MaxItems \in Nat /\ MaxOps \in Nat
    /\ SkipChecks \subseteq BOOLEAN

VARIABLES
    local,    \* media_backend: the file system, or the object store?
    objects,  \* the pictures whose key exists in the media store
    half,     \* <<p, r>>: the file of p was last truncated by r, and not filled since
    cut,      \* history: the pictures of which a put was cut short
    items,    \* items[n]: the picture of the n-th item, NoPicture once deleted
    lastItem, \* items ever inserted
    tagged,   \* the items that have rows in fanart_item_tags
    gallery,  \* [id, items]: the gallery of one slug, id 0 if there is none,
              \* and its rows in fanart_gallery_items
    lastGallery, \* galleries ever created
    at,       \* at[r]: the next step of request r
    loc,      \* loc[r]: [req, item, doomed, gallery]
    ops,      \* requests started
    solo,     \* history: the request that has run alone
    trouble   \* history: what may be wrong by now, "lost" (requests overlapped)
              \* and "litter" (they did, a call failed or a process died)

fanartStore == <<local, objects, half, cut>>
dbVars == <<items, lastItem, tagged, gallery, lastGallery>>
history == <<solo, trouble>>
vars   == <<fanartStore, dbVars, at, loc, ops, history>>

Ids  == 1..MaxItems
Live == {n \in Ids : items[n] # NoPicture}
Used == {items[n] : n \in Live}

-----------------------------------------------------------------------------
(* Requests: pic is the picture uploaded, tags whether the form names any, *)
(* item the one to delete, chosen what the gallery form has ticked: items  *)
(* the page listed when it was loaded.                                     *)

Req(k, p, t, n, c) == [kind |-> k, pic |-> p, tags |-> t, item |-> n, chosen |-> c]

NoReq == Req("none", NoPicture, FALSE, 0, {})
NoLoc == [req |-> NoReq, item |-> 0, doomed |-> NoPicture, gallery |-> 0]

Uploads   == {Req("upload", p, t, 0, {}) : p \in Picture, t \in BOOLEAN}
Deletions == {Req("delete", NoPicture, FALSE, n, {}) : n \in Ids}
GalleryForms ==
    {Req("fill", NoPicture, FALSE, 0, c) : c \in SUBSET Ids}
    \cup {Req(k, NoPicture, FALSE, 0, {}) : k \in {"create", "drop"}}

-----------------------------------------------------------------------------
Init ==
    /\ local \in BOOLEAN
    /\ objects = {} /\ half = {} /\ cut = {}
    /\ items = [n \in Ids |-> NoPicture]
    /\ lastItem = 0
    /\ tagged = {}
    /\ gallery = [id |-> 0, items |-> {}]
    /\ lastGallery = 0
    /\ at = [r \in Request |-> "idle"]
    /\ loc = [r \in Request |-> NoLoc]
    /\ ops = 0
    /\ solo = NoReq
    /\ trouble = {}

AllIdle == \A r \in Request : at[r] = "idle"

To(r, step, l) ==
    /\ at' = [at EXCEPT ![r] = step]
    /\ loc' = [loc EXCEPT ![r] = l]

Stop(r) == To(r, "idle", NoLoc)

\* An exception ends the request.
Abandon(r) == Stop(r) /\ solo' = NoReq

FirstStep(skip) ==
    [upload |-> IF skip THEN "put" ELSE "check",
     delete |-> "find", create |-> "create", fill |-> "slug", drop |-> "slug"]

\* The request arrives; an item or a selection was on a page shown before.
\* alone tells whether nothing else runs.
Begin(r, q, skip, alone) ==
    /\ at[r] = "idle"
    /\ ops < MaxOps
    /\ skip => ~local
    /\ q.kind = "upload" => lastItem < MaxItems
    /\ q.item <= lastItem /\ q.chosen \subseteq 1..lastItem
    /\ ops' = ops + 1
    /\ solo' = IF alone THEN q ELSE NoReq
    /\ trouble' = IF alone THEN trouble ELSE {"lost", "litter"}
    /\ To(r, FirstStep(skip)[q.kind], [NoLoc EXCEPT !.req = q])
    /\ UNCHANGED <<fanartStore, dbVars>>

\* Seeded fault for Check: the object is taken to be there.
FaultCheck(r) ==
    /\ at[r] = "check"
    /\ To(r, "insert", loc[r])
    /\ UNCHANGED <<fanartStore, dbVars, ops, history>>

\* _store_content_addressed asks whether the object is there ...
Check(r) ==
    /\ at[r] = "check"
    /\ To(r, IF loc[r].req.pic \in objects THEN "insert" ELSE "put", loc[r])
    /\ UNCHANGED <<fanartStore, dbVars, ops, history>>

\* What is known of the file of p, when it is whole or gone.
Settled(p) == {h \in half : h[1] # p}

\* ... and puts it.  The object store answers once it has it all; a local
\* write_bytes first truncates the file ...
Put(r) ==
    LET p == loc[r].req.pic IN
    /\ at[r] = "put"
    /\ objects' = objects \cup {p}
    /\ half' = IF local THEN Settled(p) \cup {<<p, r>>} ELSE half
    /\ To(r, IF local THEN "write" ELSE "insert", loc[r])
    /\ UNCHANGED <<local, cut, dbVars, ops, history>>

\* ... then fills it.  When another truncated it meanwhile, that other one has
\* taken away what was written before.
Write(r) ==
    LET p == loc[r].req.pic IN
    /\ at[r] = "write"
    /\ \/ half' = Settled(p)
       \/ <<p, r>> \notin half /\ UNCHANGED half
    /\ To(r, "insert", loc[r])
    /\ UNCHANGED <<local, objects, cut, dbVars, ops, history>>

\* create_fanart_item.
Insert(r) ==
    /\ at[r] = "insert"
    /\ lastItem < MaxItems
    /\ lastItem' = lastItem + 1
    /\ items' = [items EXCEPT ![lastItem'] = loc[r].req.pic]
    /\ To(r, "tag", [loc[r] EXCEPT !.item = lastItem'])
    /\ UNCHANGED <<fanartStore, tagged, gallery, lastGallery, ops, history>>

\* The bound on items was reached meanwhile.
InsertBound(r) ==
    /\ at[r] = "insert"
    /\ lastItem = MaxItems
    /\ Abandon(r)
    /\ UNCHANGED <<fanartStore, dbVars, ops, trouble>>

\* replace_fanart_item_tags, whose rows need the item.
Tag(r) ==
    /\ at[r] = "tag"
    /\ loc[r].req.tags => loc[r].item \in Live
    /\ tagged' = IF loc[r].req.tags THEN tagged \cup {loc[r].item} ELSE tagged \ {loc[r].item}
    /\ Stop(r)
    /\ UNCHANGED <<fanartStore, items, lastItem, gallery, lastGallery, ops, history>>

\* IntegrityError: the item was deleted since it was inserted.
TagFails(r) ==
    /\ at[r] = "tag"
    /\ loc[r].req.tags /\ loc[r].item \notin Live
    /\ Abandon(r)
    /\ UNCHANGED <<fanartStore, dbVars, ops, trouble>>

\* delete_fanart_item looks the item and its file name up.
Find(r) ==
    LET n == loc[r].req.item IN
    /\ at[r] = "find"
    /\ IF n \in Live THEN To(r, "erase", [loc[r] EXCEPT !.doomed = items[n]]) ELSE Stop(r)
    /\ UNCHANGED <<fanartStore, dbVars, ops, history>>

\* Seeded fault for InUse: other items of the picture are not looked for.
FaultInUse(p, rest) == FALSE

\* Seeded fault for InUse: asked before the row is gone, it finds the row.
FaultInUseBefore(p, rest) == \E n \in Live : items[n] = p

\* Is the picture that of another item?
InUse(p, rest) == \E n \in rest : items[n] = p

\* The row goes, its tags and gallery rows cascade, and whether the picture is
\* still in use is decided, all in one transaction.
Erase(r) ==
    LET n == loc[r].req.item IN
    /\ at[r] = "erase"
    /\ items' = [items EXCEPT ![n] = NoPicture]
    /\ tagged' = tagged \ {n}
    /\ gallery' = [gallery EXCEPT !.items = @ \ {n}]
    /\ IF n \notin Live \/ InUse(loc[r].doomed, Live \ {n})
       THEN Stop(r) ELSE To(r, "remove", loc[r])
    /\ UNCHANGED <<fanartStore, lastItem, lastGallery, ops, history>>

\* The object is deleted after the transaction.
Remove(r) ==
    /\ at[r] = "remove"
    /\ objects' = objects \ {loc[r].doomed}
    /\ half' = Settled(loc[r].doomed)
    /\ cut' = cut \ {loc[r].doomed}
    /\ Stop(r)
    /\ UNCHANGED <<local, dbVars, ops, history>>

\* Seeded fault for Fillable: the ticked items are not looked up again.
FaultFillable(chosen) == chosen

\* The ticked items that are still there.
Fillable(chosen) == chosen \cap Live

\* create_fanart_gallery; while the slug is taken the new one gets another and
\* is not followed.
CreateGallery(r) ==
    /\ at[r] = "create"
    /\ lastGallery' = IF gallery.id = 0 THEN lastGallery + 1 ELSE lastGallery
    /\ gallery' = IF gallery.id = 0 THEN [id |-> lastGallery', items |-> {}] ELSE gallery
    /\ Stop(r)
    /\ UNCHANGED <<fanartStore, items, lastItem, tagged, ops, history>>

\* get_fanart_gallery_by_slug; without a gallery the request is refused.
FindGallery(r) ==
    /\ at[r] = "slug"
    /\ IF gallery.id = 0 THEN Stop(r)
       ELSE To(r, loc[r].req.kind, [loc[r] EXCEPT !.gallery = gallery.id])
    /\ UNCHANGED <<fanartStore, dbVars, ops, history>>

\* Is it still the gallery that was found by its slug?
StillThere(r) == gallery.id = loc[r].gallery

\* replace_fanart_gallery_items, in one transaction.
FillGallery(r) ==
    /\ at[r] = "fill"
    /\ gallery' = IF StillThere(r)
                  THEN [gallery EXCEPT !.items = Fillable(loc[r].req.chosen)] ELSE gallery
    /\ Stop(r)
    /\ UNCHANGED <<fanartStore, items, lastItem, tagged, lastGallery, ops, history>>

\* delete_fanart_gallery.
DropGallery(r) ==
    /\ at[r] = "drop"
    /\ gallery' = IF StillThere(r) THEN [id |-> 0, items |-> {}] ELSE gallery
    /\ Stop(r)
    /\ UNCHANGED <<fanartStore, items, lastItem, tagged, lastGallery, ops, history>>

\* A call fails or the process dies; the disk may be full half way through a
\* file.  A failure to delete the object is swallowed: the request ends as if
\* it had been.
Fail(r) ==
    /\ at[r] # "idle"
    /\ Abandon(r)
    /\ cut' = IF at[r] = "write" THEN cut \cup {loc[r].req.pic} ELSE cut
    /\ trouble' = trouble \cup {"litter"}
    /\ UNCHANGED <<local, objects, half, dbVars, ops>>

Step(r) ==
    \/ Check(r) \/ Put(r) \/ Write(r) \/ Insert(r) \/ InsertBound(r) \/ Tag(r) \/ TagFails(r)
    \/ Find(r) \/ Erase(r) \/ Remove(r)
    \/ CreateGallery(r) \/ FindGallery(r) \/ FillGallery(r) \/ DropGallery(r)
    \/ Fail(r)

Done == AllIdle /\ ops = MaxOps /\ UNCHANGED vars

Next ==
    \/ \E r \in Request : \E q \in Uploads : \E skip \in SkipChecks : Begin(r, q, skip, AllIdle)
    \/ \E r \in Request : \E q \in Deletions \cup GalleryForms : Begin(r, q, FALSE, AllIdle)
    \/ \E r \in Request : Step(r)
    \/ Done

Spec == Init /\ [][Next]_vars

-----------------------------------------------------------------------------
(* Properties.                                                             *)

\* The objects that are all there.
Whole == objects \ {h[1] : h \in half}

\* As long as nothing overlapped, whatever failed: the key of every item's
\* picture exists in the media store, also when another item of the same
\* picture was deleted.
\* And it is the whole picture, unless a put of it to the local backend was cut
\* short: then an upload that found the file broken off has named it.
ItemsHaveMedia ==
    AllIdle /\ "lost" \notin trouble => Used \subseteq objects /\ Used \ cut \subseteq Whole

\* Whatever raced or failed before, an upload that runs alone to its end leaves
\* the key of its picture in the store, so uploading again repairs a picture
\* that was lost; it does not repair one that a local put left broken off,
\* because exists() is content with it.
UploadHeals ==
    AllIdle /\ solo.kind = "upload" /\ solo.pic \in Used =>
        solo.pic \in objects /\ (solo.pic \in Whole \/ solo.pic \in cut)

\* However forms with stale selections, uploads and deletions race, tags and
\* gallery places belong to items that are there.
NothingDangles ==
    /\ tagged \subseteq Live
    /\ gallery.items \subseteq Live
    /\ gallery.id = 0 => gallery.items = {}
=============================================================================
