--------------------------- MODULE MCIngestProgress ---------------------------
(* Instances of IngestProgress for TLC. *)
EXTENDS IngestProgress, TLC

CONSTANTS h, w, p1, p2

TwoWorkers == {h, w}
TwoPolls   == {p1, p2}

PollsAlike == Permutations(TwoPolls)
=============================================================================
