------------------------- MODULE MCUploadAdmission -------------------------
(* Model-checking instance of UploadAdmission.                             *)
EXTENDS UploadAdmission, TLC

CONSTANTS r1, r2, r3, r4, u1, u2

ThreeRequests == {r1, r2, r3}
FourRequests  == {r1, r2, r3, r4}
OneUser       == {u1}
TwoUsers      == {u1, u2}

\* Requests and users are interchangeable, so of all arrivals one of each kind
\* will do: requests in the order of their routes, and u1 is the first user.
Rank(kind) == CASE kind[1] = "api" -> 0 [] kind[1] = "browser" -> 2 [] kind[1] = "page" -> 4
RankOf(kind) == Rank(kind) + (IF kind[2] = u1 THEN 0 ELSE 1)

AllMixes ==
    {m \in [Request -> AllRoutes \X User] :
        /\ RankOf(m[r1]) <= RankOf(m[r2])
        /\ RankOf(m[r2]) <= RankOf(m[r3])
        /\ m[r1][2] = u1}

ApiOnly == {[r \in Request |-> <<"api", u1>>]}
=============================================================================
