--------------------------- MODULE MCIngestQueue ---------------------------
(* Model-checking instance of IngestQueue: a small set of threads.         *)
EXTENDS IngestQueue

CONSTANTS t1, t2, t3, t4, t5, t6

SixThreads == {t1, t2, t3, t4, t5, t6}
=============================================================================
