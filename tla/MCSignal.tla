------------------------------ MODULE MCSignal ------------------------------
(* Small instances of Signal for TLC. *)
EXTENDS Signal, TLC

CONSTANTS t1, t2, t3, c1, c2, free

ThreeThreads == {t1, t2, t3}
TwoSlots == {c1, c2}

Symmetric == Permutations(ThreeThreads) \cup Permutations(TwoSlots)
=============================================================================
