--------------------------- MODULE MCButtonService ---------------------------
(* Model-checking instance of ButtonService: one or two supported buttons and *)
(* one bit that the service ignores.                                          *)
EXTENDS ButtonService, TLC

\* Observers are interchangeable.
ObserverSymmetry == Permutations(Observers)
=============================================================================
