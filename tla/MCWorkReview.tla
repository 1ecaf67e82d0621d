---------------------------- MODULE MCWorkReview ----------------------------
(* Instances of WorkReview for TLC. *)
EXTENDS WorkReview, TLC

CONSTANTS o1, o2, a1, a2, s1, s2

OneOwner  == {o1}
TwoOwners == {o1, o2}
OneAdmin  == {a1}
TwoAdmins == {a1, a2}
OneSource == {s1}
TwoSources == {s1, s2}

\* Four requests about pages and reviews, three about reports too, and one
\* owner and one admin one after the other.
Reviewed == [ops |-> 4, items |-> 2, reports |-> 0]
Reported == [ops |-> 3, items |-> 1, reports |-> 1]
Few      == [ops |-> 3, items |-> 1, reports |-> 0]
Both     == {Reviewed, Reported}
OnlyFew  == {Few}

Alike == Permutations(TwoOwners) \cup Permutations(TwoAdmins)
=============================================================================
