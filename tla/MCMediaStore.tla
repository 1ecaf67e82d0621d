---------------------------- MODULE MCMediaStore ----------------------------
(* The instance of MediaStore for TLC. *)
EXTENDS MediaStore, TLC

CONSTANTS r1, r2, p1, p2, none, j1, j2, w1

TwoRequests == {r1, r2}
TwoPictures == {p1, p2}
TwoJobs     == {j1, j2}
OneWork     == {w1}

\* An id that quoting leaves alone.
PlainId == [w \in OneWork |-> w]

\* Fanart by itself in the object store and in local files, fanart swept, one
\* import through the pool, comics imported into local files and deleted, and
\* comics swept.
NoComics == [ops |-> 0, jobs |-> 0, sweeps |-> 0, lengths |-> {},
             workers |-> 1, skips |-> {}, limit |-> FALSE, locals |-> {FALSE}]

FanartAlone == [NoComics EXCEPT !.ops = 6]
FanartLocal == [NoComics EXCEPT !.ops = 4, !.locals = {TRUE}]
FanartSwept == [NoComics EXCEPT !.ops = 3, !.sweeps = 2, !.limit = TRUE]
Pool        == [NoComics EXCEPT !.jobs = 1, !.lengths = {4}, !.workers = 2, !.skips = BOOLEAN]
Comics      == [NoComics EXCEPT !.jobs = 3, !.lengths = {1, 2}, !.skips = {FALSE}, !.locals = {TRUE}]
ComicsSwept == [NoComics EXCEPT !.jobs = 2, !.lengths = {1, 2}, !.workers = 2, !.skips = {FALSE},
                                !.sweeps = 1]

SomeMixes == {FanartAlone, FanartLocal, FanartSwept, Pool, Comics, ComicsSwept}

AllAlike == Permutations(TwoPictures) \cup Permutations(TwoRequests) \cup Permutations(TwoJobs)
=============================================================================
