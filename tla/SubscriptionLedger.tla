------------------------- MODULE SubscriptionLedger -------------------------
(***************************************************************************)
(* What the subscription tracking of a client promises, without threads,   *)
(* channels, sockets or request ids: a ledger that counts, per identity,   *)
(* the references held and how many of them a server answer may still      *)
(* take back.  A rejection only ever takes back a reference that is held,  *)
(* an unsubscribe settles the whole account, and a new session starts with *)
(* one reference per identity and no answer owed.                          *)
(***************************************************************************)
EXTENDS Naturals

CONSTANT Ids

VARIABLES
    refs,    \* references held, per identity
    owed,    \* answers that may still arrive for them
    closed   \* the client was shut down: the ledger promises nothing more

ledger == <<refs, owed, closed>>

Init ==
    /\ refs = [i \in Ids |-> 0]
    /\ owed = [i \in Ids |-> 0]
    /\ closed = FALSE

\* A subscribe takes a reference and is owed an answer; answers that will never
\* come may be written off meanwhile.
Subscribe(i) ==
    /\ refs' = [refs EXCEPT ![i] = @ + 1]
    /\ owed'[i] \in 1..(owed[i] + 1)
    /\ \A j \in Ids \ {i} : owed'[j] \in 0..owed[j]

WriteOff ==
    /\ refs' = refs
    /\ \A j \in Ids : owed'[j] \in 0..owed[j]

Accepted(i) ==
    /\ owed[i] > 0
    /\ owed' = [owed EXCEPT ![i] = @ - 1]
    /\ refs' = refs

Rejected(i) ==
    /\ owed[i] > 0
    /\ owed' = [owed EXCEPT ![i] = @ - 1]
    /\ refs' = [refs EXCEPT ![i] = @ - 1]

Unsubscribe(i) ==
    /\ refs' = [refs EXCEPT ![i] = 0]
    /\ owed' = [owed EXCEPT ![i] = 0]

NewSession ==
    /\ refs' = [i \in Ids |-> IF refs[i] > 0 THEN 1 ELSE 0]
    /\ owed' = [i \in Ids |-> 0]

\* The replay asks again for a reference that is held and not asked for already.
Resubscribe(i) ==
    /\ owed[i] < refs[i]
    /\ owed' = [owed EXCEPT ![i] = @ + 1]
    /\ refs' = refs

Operate ==
    \/ WriteOff
    \/ NewSession
    \/ \E i \in Ids : Subscribe(i) \/ Accepted(i) \/ Rejected(i)
                      \/ Unsubscribe(i) \/ Resubscribe(i)

Next ==
    \/ ~closed /\ Operate /\ UNCHANGED closed
    \/ /\ closed' = TRUE
       /\ refs' = [i \in Ids |-> 0]
       /\ owed' = [i \in Ids |-> 0]

Spec == Init /\ [][Next]_ledger
==============================================================================
