------------------------- MODULE ExchangeCallGateMC --------------------------
(* Instances of ExchangeCallGate for TLC.                                   *)
EXTENDS ExchangeCallGate, TLC

\* Callers are interchangeable (safety runs only).
Symmetry == Permutations(Callers)
=============================================================================
