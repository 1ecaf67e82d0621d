---------------------------- MODULE MCCommunity ----------------------------
(* Instances of Catalogue and Community for TLC. *)
EXTENDS Community, TLC

CONSTANTS r1, r2, w1, w2, w3, i1, ann, bob, n1, n2, t1, t2, t3, s1

Two       == {r1, r2}
AllWorks  == {w1, w2, w3}
OneItem   == {i1}
OneUser   == {ann}
Readers   == {ann, bob}
TwoNames  == {n1, n2}
AllTitles == {t1, t2, t3}
OneSlug   == {s1}

\* Rows: one work, one item, tags and users, and what is derived from them.
\* Shared: two works with a tag in common.  Leave: what two readers, one of them
\* the uploader, leave on a work and an item while the work is deleted and
\* imported again.
Rows   == [ops |-> 3, kinds |-> {"import", "edit", "rate", "page", "delete"},
           singles |-> {"users", "items"}, works |-> {w3}, titles |-> {t1, t2},
           wants |-> Wants, legacy |-> TRUE]
Shared == [Rows EXCEPT !.works = {w1, w2}, !.titles = {t3}]
Leave  == [ops |-> 4, kinds |-> {"import", "delete", "kudos", "comment"},
           singles |-> {"readers", "items"}, works |-> {w3}, titles |-> {t3},
           wants |-> {NoTags}, legacy |-> TRUE]
Mixed  == {Rows, Shared, Leave}

Alike == Permutations(Two) \cup Permutations({w1, w2})
            \cup Permutations(TwoNames) \cup Permutations({t1, t2})
=============================================================================
