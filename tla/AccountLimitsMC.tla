---------------------------- MODULE AccountLimitsMC ----------------------------
(* Instances of AccountLimits for TLC.                                      *)
EXTENDS AccountLimits, TLC

\* One key and one bot for a user, two for a vip.
TwoRoles == {"USER", "VIP"}
SmallLimits == [k \in Kind |-> [x \in TwoRoles |-> IF x = "USER" THEN 1 ELSE 2]]

\* Requests and labels are interchangeable.
Symmetry == Permutations(Requests) \cup Permutations(Labels)
=============================================================================
