----------------------------- MODULE MCRequests -----------------------------
(***************************************************************************)
(* Instances of MddsRequests for TLC.                                      *)
(***************************************************************************)
EXTENDS MddsRequests

CONSTANTS query, stream, inner, nobody

ThreeRequests == {query, stream, inner}
OneStream == {stream}
OneNested == {inner}
==============================================================================
