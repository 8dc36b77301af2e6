---------------------------- MODULE MCLifecycle ----------------------------
(***************************************************************************)
(* Instances of ClientLifecycle for TLC.                                   *)
(***************************************************************************)
EXTENDS ClientLifecycle

CONSTANTS user, quotes

OneUser == {user}
OneStream == {quotes}
==============================================================================
