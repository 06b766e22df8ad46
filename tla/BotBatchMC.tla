------------------------------ MODULE BotBatchMC ------------------------------
(* Instances of BotBatch for TLC.                                           *)
EXTENDS BotBatch, TLC

\* Requests are interchangeable (safety runs only).
Symmetry == Permutations(Requests)
=============================================================================
