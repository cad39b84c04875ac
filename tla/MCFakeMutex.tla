----------------------------- MODULE MCFakeMutex -----------------------------
(* Model-checking instance of FakeMutex: two or three addresses, so that one  *)
(* is reused while a mutex at another is locked.                              *)
EXTENDS FakeMutex, TLC

\* Handles are interchangeable.
HandleSymmetry == Permutations(Handles)
=============================================================================
