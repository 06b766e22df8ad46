---------------------------- MODULE OneTimeCodesMC ----------------------------
(* Instances of OneTimeCodes for TLC.                                       *)
EXTENDS OneTimeCodes, TLC

\* Users, values and requests are interchangeable (safety runs only).
Symmetry == Permutations(Requests) \cup Permutations(Users)
              \cup Permutations(Values) \cup Permutations(Codes)
=============================================================================
