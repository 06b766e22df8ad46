------------------------------- MODULE SignInMC -------------------------------
(* Instance of SignIn for TLC.                                              *)
EXTENDS SignIn, TLC

CONSTANTS a1, g1, g2

\* Two Google accounts that have had the same address.
TwoSubs == {<<g1, a1>>, <<g2, a1>>}

Symmetry == Permutations(Clients) \cup Permutations(Requests)
            \cup Permutations(Telegrams) \cup Permutations(Googles)
=============================================================================
