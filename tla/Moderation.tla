----------------------------- MODULE Moderation -----------------------------
(***************************************************************************)
(* What happens to the pages of an upload before they are published: each  *)
(* goes to a worker of the moderation sidecar, which classifies its style  *)
(* with a model it may have to load first and has it scored by a remote    *)
(* service, and then to the remote service once more, from the request     *)
(* itself.  Verdicts add up to a rating and to items for review.           *)
(*                                                                         *)
(* A sidecar worker is synchronous: one connection at a time.  Requests    *)
(* wait for it in the socket's backlog and give up after a time-out, of    *)
(* which the worker learns nothing.                                        *)
(***************************************************************************)
EXTENDS Integers, Sequences, FiniteSetsExt

CONSTANTS Upload,      \* request threads
          Worker,      \* workers of the sidecar
          Nobody,
          Archives,    \* the page sequences that are uploaded
          Asked,       \* the ratings asked for in the form
          Class,       \* the styles the model knows, "photorealistic" among them
          \* settings, in percent
          TopMin, TopMargin, StyleMin, PhotoMin, PhotoMax, PhotoMargin,
          ExplicitMin, ExplicitMax,
          Retry        \* style_load_retry_seconds, in ticks

Percent == 0..100
Photo   == "photorealistic"
Drawn   == Class \ {Photo}

\* The ratings by rank, 0 for no suggestion.
Low      == 1
Mature   == 2
Explicit == 3

\* A page as the models see it: the probability of each style, its explicit
\* score, and what the second remote call would make of it.
Page == [p : [Class -> Percent], score : Percent,
         suggest : {0, Mature, Explicit}, violent : BOOLEAN]

ASSUME ModerationAssumption ==
    /\ Nobody \notin Upload
    /\ Photo \in Class /\ Drawn # {} /\ "unknown" \notin Class
    /\ Archives \subseteq Seq(Page) \ {<<>>}
    /\ {TopMin, TopMargin, StyleMin, PhotoMin, PhotoMax, PhotoMargin,
        ExplicitMin, ExplicitMax} \subseteq Percent
    /\ Asked \subseteq {Low, Mature, Explicit}
    /\ TopMargin > 0
    /\ PhotoMin <= PhotoMax /\ ExplicitMin <= ExplicitMax
    /\ Retry \in Nat \ {0}

VARIABLES
    up,    \* up[u]: an upload, where it stands and what it has learnt
    side   \* side[w]: a sidecar worker

moderationVars == <<up, side>>

-----------------------------------------------------------------------------
(* The classifier and the gates.                                           *)

\* The confidences start at zero, and a probability that is not obtained, since
\* the helpers of torch_helpers.py turn exceptions into None, leaves its zero.
Read(p, got) == [c \in Class |-> IF c \in got THEN p[c] ELSE 0]

\* The styles that argmax may return: it works on the logits.
Best(p) == {c \in Class : \A d \in Class : p[d] <= p[c]}

\* _classify_style_internal: near ties and low confidence make a "comic", and
\* so do confidences that were not obtained.
StyleOf(best, conf) ==
    LET top   == Max({conf[c] : c \in Class})
        near  == \E c, d \in Class : c # d /\ conf[c] = top /\ top - conf[d] < TopMargin
        drawn == Max({conf[c] : c \in Drawn})
    IN  IF top < TopMin \/ near THEN "comic"
        ELSE IF best = Photo
             THEN IF conf[best] >= PhotoMin /\ conf[best] - drawn >= PhotoMargin THEN Photo ELSE "comic"
             ELSE IF conf[best] >= StyleMin THEN best ELSE "comic"

Allowed == Drawn \cup {"comic"}

\* Seeded fault for Judged: what the classifier cannot tell passes.
FaultJudged(style, conf, score, heard) ==
    LET review == ExplicitMin <= score /\ score < ExplicitMax
    IN  IF style = Photo
        THEN [allow |-> conf[Photo] < PhotoMax, why |-> Photo, score |-> 0, heard |-> FALSE]
        ELSE [allow |-> TRUE, why |-> IF review THEN "explicit" ELSE "", score |-> score, heard |-> heard]

\* moderate_image_local: photorealistic pages are refused or go to review, an
\* unknown style is refused, the others have their score.
Judged(style, conf, score, heard) ==
    LET review == ExplicitMin <= score /\ score < ExplicitMax
    IN  IF style = Photo
        THEN [allow |-> PhotoMin <= conf[Photo] /\ conf[Photo] < PhotoMax,
              why |-> Photo, score |-> 0, heard |-> FALSE]
        ELSE IF style \notin Allowed
             THEN [allow |-> FALSE, why |-> "", score |-> 0, heard |-> FALSE]
             ELSE [allow |-> TRUE, why |-> IF review THEN "explicit" ELSE "",
                   score |-> score, heard |-> heard]

\* suggested_rating_for_nsfw.
SuggestedForScore(score) == IF score >= ExplicitMax THEN Explicit ELSE 0

\* Seeded fault for RatingOf: what the remote service says counts, or the form.
FaultRatingOf(asked, remote, score) == IF remote # 0 THEN Max({asked, remote}) ELSE asked

\* _elevate_rating of the form's rating: a suggestion of the remote service
\* for any page takes the place of the one made from the scores.
RatingOf(asked, remote, score) ==
    Max({asked, IF remote # 0 THEN remote ELSE SuggestedForScore(score)})

-----------------------------------------------------------------------------
NoJob == [at |-> "idle", pages |-> <<>>, asked |-> Low, k |-> 1, score |-> 0, remote |-> 0,
          flags |-> {}, seen |-> {}, scored |-> {}, rating |-> 0, items |-> {}]

\* A worker as it is forked or started: nothing loaded, nothing failed.
Fresh == [phase |-> "start", client |-> Nobody, page |-> <<>>, style |-> "", got |-> {}, answer |-> <<>>,
          loaded |-> FALSE, backend |-> FALSE, cool |-> 0, backendCool |-> 0]

ModerationInit ==
    /\ up = [u \in Upload |-> NoJob]
    /\ side = [w \in Worker |-> Fresh]

Outcomes == {"done", "blocked", "failed"}

Current(u) == up[u].pages[up[u].k]

Served(u) == {w \in Worker : side[w].client = u}

\* When u is gone the worker that serves it goes on for nobody.
HungUp(u) == [w \in Worker |-> IF w \in Served(u) THEN [side[w] EXCEPT !.client = Nobody] ELSE side[w]]

-----------------------------------------------------------------------------
(* The request: ingest_cbz, ingest_editor_page, ingest_fanart_image.       *)

Arrive(u, pages, asked) ==
    /\ up[u].at = "idle"
    /\ up' = [up EXCEPT ![u] = [NoJob EXCEPT !.at = "send", !.pages = pages, !.asked = asked]]
    /\ UNCHANGED side

\* _sidecar_json_request.
Send(u) ==
    /\ up[u].at = "send"
    /\ up' = [up EXCEPT ![u].at = "wait"]
    /\ UNCHANGED side

\* No connection, a time-out, an error status or no JSON, and everything else
\* that ends a request early: an undecodable image, a failed transaction, the
\* death of the process.
Fail(u) ==
    /\ up[u].at \notin Outcomes \cup {"idle"}
    /\ up' = [up EXCEPT ![u].at = "failed"]
    /\ side' = HungUp(u)

\* The second remote call; its failure is logged and ignored.
Assess(u) ==
    LET page == Current(u)
        last == up[u].k = Len(up[u].pages)
        next == [up[u] EXCEPT !.at = IF last THEN "publish" ELSE "send",
                              !.k = IF last THEN @ ELSE @ + 1]
    IN  /\ up[u].at = "assess"
        /\ \/ up' = [up EXCEPT ![u] = [next EXCEPT
                        !.remote = Max({@, page.suggest}),
                        !.flags = @ \cup {f \in {<<up[u].k, "graphic-violence">>} : page.violent}]]
           \/ up' = [up EXCEPT ![u] = next]
        /\ UNCHANGED side

\* The rows are written with the rating ...
Publish(u) ==
    /\ up[u].at = "publish"
    /\ up' = [up EXCEPT ![u].at = "queue",
                        ![u].rating = RatingOf(up[u].asked, up[u].remote, up[u].score)]
    /\ UNCHANGED side

\* ... then one review item after the other, each in its own transaction.
Enqueue(u) ==
    /\ up[u].at = "queue"
    /\ \E f \in up[u].flags \ up[u].items : up' = [up EXCEPT ![u].items = @ \cup {f}]
    /\ UNCHANGED side

Finish(u) ==
    /\ up[u].at = "queue"
    /\ up[u].flags = up[u].items
    /\ up' = [up EXCEPT ![u].at = "done"]
    /\ UNCHANGED side

Depart(u) ==
    /\ up[u].at \in Outcomes
    /\ up' = [up EXCEPT ![u] = NoJob]
    /\ UNCHANGED side

-----------------------------------------------------------------------------
(* The sidecar.                                                            *)

Accept(w, u) ==
    /\ side[w].phase = "free"
    /\ up[u].at = "wait"
    /\ Served(u) = {}
    /\ side' = [side EXCEPT ![w].phase = "load", ![w].client = u, ![w].page = Current(u)]
    /\ UNCHANGED up

\* Seeded fault for Loadable: one attempt only, as with a flag that remembers
\* that loading was tried.
FaultLoadable(s) == s.phase = "start"

\* _ensure_loaded waits with another attempt after one has failed.
Loadable(s) == s.cool = 0

\* _ensure_loaded: the backend has a cool-down of its own.  backendOk and
\* styleOk tell whether loading them works this time.
Ensured(s, backendOk, styleOk) ==
    IF s.loaded \/ ~Loadable(s) THEN s
    ELSE IF ~s.backend /\ (s.backendCool > 0 \/ ~backendOk)
         THEN [s EXCEPT !.cool = Retry, !.backendCool = IF @ = 0 THEN Retry ELSE @]
         ELSE [s EXCEPT !.backend = TRUE, !.backendCool = 0,
                        !.loaded = styleOk, !.cool = IF styleOk THEN 0 ELSE Retry]

\* At the start of a worker and at the head of every classification; without a
\* model the style is unknown.
Load(w, backendOk, styleOk) ==
    LET s == Ensured(side[w], backendOk, styleOk)
    IN  /\ side[w].phase \in {"start", "load"}
        /\ side' = [side EXCEPT ![w] =
                IF s.phase = "start" THEN [s EXCEPT !.phase = "free"]
                ELSE IF s.loaded THEN [s EXCEPT !.phase = "classify"]
                     ELSE [s EXCEPT !.phase = "judge", !.style = "unknown"]]
        /\ UNCHANGED up

\* An exception or a tensor that could not be had makes the style unknown, also
\* after the probabilities.  They are read one by one, and each may fail without
\* a word: got are the styles whose probability was read.  Of the confidences only that of the
\* photorealistic style is used afterwards.
Classify(w) ==
    LET p == side[w].page.p IN
    /\ side[w].phase = "classify"
    /\ \E got \in SUBSET Class, best \in Best(p) :
          \E style \in {StyleOf(best, Read(p, got)), "unknown"} :
              side' = [side EXCEPT ![w].phase = "judge", ![w].style = style, ![w].got = got \cap {Photo}]
    /\ UNCHANGED up

\* The score is 0 when the remote call fails.
Judge(w) ==
    LET page == side[w].page IN
    /\ side[w].phase = "judge"
    /\ \E heard \in BOOLEAN :
          side' = [side EXCEPT ![w].phase = "reply",
              ![w].answer = Judged(side[w].style, Read(page.p, side[w].got),
                                   IF heard THEN page.score ELSE 0, heard)]
    /\ UNCHANGED up

\* Seeded fault for Receiver: connections are kept alive, and an answer nobody
\* waits for goes to whoever waits now.
FaultReceiver(w) ==
    IF side[w].client # Nobody THEN {side[w].client}
                               ELSE {u \in Upload : up[u].at = "wait" /\ Served(u) = {}}

\* Every request has a connection of its own.
Receiver(w) == {side[w].client} \ {Nobody}

\* The answer: a refusal ends the upload, a flag is noted for later.
Reply(w) ==
    LET a == side[w].answer
        heardBy(u) == [up[u] EXCEPT
                !.at = IF a.allow THEN "assess" ELSE "blocked",
                !.score = Max({@, a.score}),
                !.flags = IF a.allow /\ a.why # "" THEN @ \cup {<<up[u].k, a.why>>} ELSE @,
                !.seen = IF Photo \in side[w].got THEN @ \cup {up[u].k} ELSE @,
                !.scored = IF a.heard THEN @ \cup {up[u].k} ELSE @]
    IN  /\ side[w].phase = "reply"
        /\ up' = [u \in Upload |-> IF u \in Receiver(w) THEN heardBy(u) ELSE up[u]]
        /\ side' = [side EXCEPT ![w] = [@ EXCEPT !.phase = "free", !.client = Nobody,
                                        !.page = <<>>, !.style = "", !.got = {}, !.answer = <<>>]]

\* gunicorn replaces a worker after a number of requests, or aborts it.
Recycle(w) ==
    /\ side[w].phase # "start"
    /\ side' = [side EXCEPT ![w] = Fresh]
    /\ up' = [u \in Upload |-> IF side[w].client = u THEN [up[u] EXCEPT !.at = "failed"] ELSE up[u]]

Tick ==
    /\ \E w \in Worker : side[w].cool > 0
    /\ side' = [w \in Worker |-> [side[w] EXCEPT !.cool = Max({0, @ - 1}),
                                                 !.backendCool = Max({0, @ - 1})]]
    /\ UNCHANGED up

Serve(w) == (\E a, b \in BOOLEAN : Load(w, a, b)) \/ Classify(w) \/ Judge(w) \/ Reply(w)

ModerationNext ==
    \/ \E u \in Upload, pages \in Archives, asked \in Asked : Arrive(u, pages, asked)
    \/ \E u \in Upload : \/ Send(u) \/ Fail(u) \/ Assess(u) \/ Publish(u)
                         \/ Enqueue(u) \/ Finish(u) \/ Depart(u)
    \/ \E w \in Worker, u \in Upload : Accept(w, u)
    \/ \E w \in Worker : Serve(w) \/ Recycle(w)
    \/ Tick

\* A worker goes on with what it does, time passes, and loading works in the
\* end if it is tried again and again.
ModerationFairness ==
    /\ \A w \in Worker : WF_moderationVars(Serve(w))
    /\ WF_moderationVars(Tick)
    /\ \A w \in Worker : SF_moderationVars(Loadable(side[w]) /\ Load(w, TRUE, TRUE))

ModerationSafeSpec == ModerationInit /\ [][ModerationNext]_moderationVars

ModerationSpec == ModerationSafeSpec /\ ModerationFairness

-----------------------------------------------------------------------------
(* Properties.                                                             *)

\* The photorealistic style leads as clearly as the settings ask for.
Leads(p) == p[Photo] >= TopMin /\ \A c \in Drawn : p[Photo] - p[c] >= Max({TopMargin, PhotoMargin})

\* Whatever is late or lost on the way of a page - a load, a call, a worker, a
\* client - nothing is published that the thresholds refuse if the classifier
\* has read how photorealistic it is; and an upload that went through has an
\* item for review for every such page that is neither clearly photorealistic
\* nor clearly not, and for every page whose score was obtained and is neither
\* high nor low.  A high score makes it Explicit, or the remote service has
\* suggested a rating, if only for another page.
PublishedAsJudged ==
    \A u \in Upload : \A k \in DOMAIN up[u].pages :
        LET j    == up[u]
            page == j.pages[k]
        IN  /\ j.rating # 0 /\ k \in j.seen => ~(Leads(page.p) /\ page.p[Photo] >= PhotoMax)
            /\ j.at = "done" =>
                  /\ k \in j.seen /\ Leads(page.p) /\ page.p[Photo] >= PhotoMin
                        => <<k, Photo>> \in j.items
                  /\ k \in j.scored =>
                        /\ page.score >= ExplicitMin /\ page.score < ExplicitMax
                              => <<k, "explicit">> \in j.items
                        /\ page.score >= ExplicitMax => j.rating = Explicit \/ j.remote # 0

\* A worker that failed to load the model is not useless for good: if requests
\* go on reaching it, it has the model again and again, the backend's own
\* cool-down and the recycling of workers notwithstanding.
Recovers ==
    \A w \in Worker : []<>(side[w].phase = "load") => []<>side[w].loaded
=============================================================================
