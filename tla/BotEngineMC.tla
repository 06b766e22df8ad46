----------------------------- MODULE BotEngineMC ------------------------------
(* Instances of BotEngine for TLC; the .cfg files give the constants.       *)
EXTENDS BotEngine, TLC

Overlap == Permutations(Requests)
=============================================================================
