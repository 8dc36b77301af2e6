-------------------------- MODULE MCSubscriptions --------------------------
(***************************************************************************)
(* Instances of FpssSubscriptions for TLC.                                 *)
(***************************************************************************)
EXTENDS FpssSubscriptions, TLC

CONSTANTS caller1, caller2, quotes, allTrades

TwoCallers == {caller1, caller2}
OneContract == {quotes}
OneFull == {allTrades}
NoFull == {}
CallerSymmetry == Permutations(TwoCallers)
==============================================================================
