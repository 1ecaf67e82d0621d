---------------------------- MODULE MCModeration ----------------------------
(* Instances of Moderation for TLC: the thresholds of settings.toml. *)
EXTENDS Moderation

Styles == {"photorealistic", "anime"}

Seen(photo, anime) == [c \in Styles |-> IF c = "photorealistic" THEN photo ELSE anime]

\* Photographic enough for a review, a tie with a score to review, and a page
\* to refuse.
Unsure == [p |-> Seen(70, 30), score |-> 90, suggest |-> 0, violent |-> FALSE]
Border == [p |-> Seen(48, 52), score |-> 70, suggest |-> Mature, violent |-> TRUE]
Real   == [p |-> Seen(90, 10), score |-> 0, suggest |-> 0, violent |-> FALSE]

SomeArchives == {<<Unsure, Border>>, <<Real>>}
=============================================================================
