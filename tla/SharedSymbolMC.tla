---------------------------- MODULE SharedSymbolMC ----------------------------
(* Instance of SharedSymbol for TLC; SharedSymbol.cfg gives the constants.   *)
EXTENDS SharedSymbol
=============================================================================
