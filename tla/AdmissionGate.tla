--------------------------- MODULE AdmissionGate ---------------------------
(***************************************************************************)
(* What the comic ingest queue promises to the request threads, with no    *)
(* lock, counter or condition variable in sight: at most Capacity          *)
(* requests are inside at a time, a request is turned away only while the  *)
(* gate is full, and every request that asked is answered.                 *)
(*                                                                         *)
(* Capacity <= 0 means that the gate is always open, as in the settings.   *)
(***************************************************************************)
EXTENDS Integers, FiniteSets

CONSTANTS Thread,    \* the request threads and background ingest threads
          Capacity   \* how many may be inside, unlimited when <= 0

VARIABLE where       \* where[t] is "out", "asked" or "in"

Inside == {t \in Thread : where[t] = "in"}

Full == Capacity > 0 /\ Cardinality(Inside) >= Capacity

Init == where = [t \in Thread |-> "out"]

Ask(t) ==
    /\ where[t] = "out"
    /\ Full
    /\ where' = [where EXCEPT ![t] = "asked"]

Admit(t) ==
    /\ where[t] \in {"out", "asked"}
    /\ ~Full
    /\ where' = [where EXCEPT ![t] = "in"]

TurnAway(t) ==
    /\ where[t] = "asked"
    /\ Full
    /\ where' = [where EXCEPT ![t] = "out"]

Leave(t) ==
    /\ where[t] = "in"
    /\ where' = [where EXCEPT ![t] = "out"]

Next == \E t \in Thread : Ask(t) \/ Admit(t) \/ TurnAway(t) \/ Leave(t)

SafeSpec == Init /\ [][Next]_where

Spec ==
    /\ SafeSpec
    /\ \A t \in Thread : WF_where(where[t] = "asked" /\ (Admit(t) \/ TurnAway(t)))
=============================================================================
