----------------------------- MODULE MCPublish -----------------------------
(* A small instance of Publish for TLC. *)
EXTENDS Publish, TLC

CONSTANTS m1, m2, m3, m4, none

FourMessages == {m1, m2, m3, m4}
Symmetric    == Permutations(FourMessages)
=============================================================================
