----------------------------- MODULE MCReconnect -----------------------------
(***************************************************************************)
(* Instances of FpssReconnect for TLC.                                     *)
(***************************************************************************)
EXTENDS FpssReconnect

AllPolicies == {"auto", "manual", "custom"}
OnlyAuto == {"auto"}
OnlyCustom == {"custom"}
SmallBudget == [c \in Classes |-> IF c = "Transient" THEN 3 ELSE 2]
==============================================================================
