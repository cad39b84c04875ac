----------------------------- MODULE MCFakeQueue -----------------------------
(* Model-checking instance of FakeQueue: small lengths on either side of the  *)
(* width of UBaseType_t, which is reduced to two bits.                        *)
EXTENDS FakeQueue, TLC

\* Handles are interchangeable.
HandleSymmetry == Permutations(Handles)
=============================================================================
