------------------------------ MODULE GridRiskMC ------------------------------
(* Instances of GridRisk for TLC: every request over small sets of inputs.  *)
EXTENDS GridRisk
=============================================================================
