----------------------------- MODULE RowStream -----------------------------
(***************************************************************************)
(* What the columnar reader promises, without threads, queues, batches or  *)
(* a ring: rows are numbered as they are decoded and told in that order,   *)
(* none of them twice and none skipped, except those that a full buffer    *)
(* dropped under a policy that says so.  An end means that nothing is left *)
(* undecided.                                                              *)
(***************************************************************************)
EXTENDS Naturals, SequencesExt

VARIABLES
    backpressure, \* "Block" or "DropOldest": configuration
    decoded,      \* rows decoded so far
    told,         \* those handed out, in order
    gone,         \* those dropped
    dropped,      \* the drops that were counted
    closed,       \* was the stream closed by its reader?
    ended         \* was it said to be over, before any close?

stream == <<backpressure, decoded, told, gone, dropped, closed, ended>>

Undecided == (1..decoded) \ (ToSet(told) \cup gone)

\* The undecided rows up to n.
UpTo(n) == {x \in Undecided : x <= n}

Ascending(rows) == \A i, j \in DOMAIN rows : i < j => rows[i] < rows[j]

Init ==
    /\ backpressure \in {"Block", "DropOldest"}
    /\ decoded = 0
    /\ told = <<>>
    /\ gone = {}
    /\ dropped = 0
    /\ closed = FALSE
    /\ ended = FALSE

\* A row is decoded, and dropped at once if there is no room for it.
Decode ==
    /\ ~ended
    /\ decoded' = decoded + 1
    /\ gone' \in {gone, gone \cup {decoded + 1}}
    /\ UNCHANGED <<backpressure, told, dropped, closed, ended>>

\* All that is undecided up to some row is told, oldest first.
Tell ==
    /\ \E n \in Undecided : ToSet(told') = ToSet(told) \cup UpTo(n)
    /\ IsPrefix(told, told')
    /\ Ascending(told')
    /\ UNCHANGED <<backpressure, decoded, gone, dropped, closed, ended>>

\* All that is undecided up to some row is dropped, and that is counted.
DropOldest ==
    /\ backpressure = "DropOldest"
    /\ \E n \in Undecided : gone' = gone \cup UpTo(n)
    /\ dropped' = dropped + 1
    /\ UNCHANGED <<backpressure, decoded, told, closed, ended>>

\* A stream that may not drop anything does so only when its reader is gone.
Discard ==
    /\ backpressure = "Block"
    /\ closed
    /\ gone \subseteq gone' /\ gone' \subseteq gone \cup Undecided
    /\ UNCHANGED <<backpressure, decoded, told, dropped, closed, ended>>

Close ==
    /\ closed' = TRUE
    /\ UNCHANGED <<backpressure, decoded, told, gone, dropped, ended>>

End ==
    /\ ~closed
    /\ Undecided = {}
    /\ ended' = TRUE
    /\ UNCHANGED <<backpressure, decoded, told, gone, dropped, closed>>

Next == Decode \/ Tell \/ DropOldest \/ Discard \/ Close \/ End

Spec == Init /\ [][Next]_stream
==============================================================================
