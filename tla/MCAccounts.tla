----------------------------- MODULE MCAccounts -----------------------------
(* Instances of Accounts for TLC. *)
EXTENDS Accounts, TLC

CONSTANTS r1, r2, c, u1, u2, s1, s2

Two       == {r1, r2}
OneChosen == {c}
TwoUuids  == {u1, u2}
Subjects  == {s1, s2}

Alike == Permutations(Two) \cup Permutations(TwoUuids) \cup Permutations(Subjects)
=============================================================================
