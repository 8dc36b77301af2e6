---------------------------- MODULE MddsRequests ----------------------------
(***************************************************************************)
(* Historical requests of one client: the permit each of them holds, the   *)
(* session token they share and refresh, and the retry loop each runs.     *)
(*                                                                         *)
(* A request is a task; every await is a point where the others go on and  *)
(* where its deadline may drop it.  The server (which tokens it accepts,   *)
(* how an attempt ends) and the login service are external choices.  A     *)
(* token is identified by its version: the uuid changes with it and only   *)
(* with it.                                                                *)
(***************************************************************************)
EXTENDS Naturals, FiniteSets

CONSTANTS
    Requests,       \* the calls made, one task each
    Streaming,      \* those that hand rows to an async handler as they arrive
    Nested,         \* those awaited inside a handler of a streaming call
    MaxPermits,     \* bound: sizes of the request semaphore
    MaxAttempts,    \* RetryPolicy::max_attempts
    HasEnvelope,    \* is RetryPolicy::max_elapsed set?
    MaxRevocations, \* bound: tokens the server may stop accepting
    NoOne           \* not a request

ASSUME RequestsAssumption ==
    /\ IsFiniteSet(Requests)
    /\ Streaming \subseteq Requests
    /\ Nested \subseteq Requests \ Streaming
    /\ MaxPermits \in Nat \ {0}
    /\ MaxAttempts \in Nat
    /\ HasEnvelope \in BOOLEAN
    /\ MaxRevocations \in Nat
    /\ NoOne \notin Requests

VARIABLES
    pc,           \* what each request awaits, then how it ended
    version,      \* SessionToken: version of the current token
    attempts,     \* logins completed, successful or not
    lastFailure,  \* kind of the last failed login
    lock,         \* refresh_lock: the request that holds it
    pool,         \* size of the request semaphore: configuration, never changes
    holders,      \* requests that hold a permit
    snap,         \* version of the token the current attempt uses
    entry,        \* entry_attempts of the current refresh
    tries,        \* the attempt number of the retry loop
    refreshed,    \* refreshed_already
    expired,      \* has the wall-clock envelope of the call run out?
    outer,        \* the streaming call whose handler awaits this request
    rows,         \* attempts whose rows the handler was given
    accepted,     \* server: versions it accepts
    rejected,     \* not in the code: versions each request saw rejected
    logins        \* not in the code: the completed logins

token  == <<version, attempts, lastFailure>>
calls  == <<snap, entry, tries, refreshed, expired, outer, rows, rejected>>
vars   == <<pc, token, pool, lock, holders, calls, accepted, logins>>

Running  == {"permit", "snapshot", "attempt", "refresh", "gate", "login", "backoff"}
Failures == {"InvalidCredentials", "ServerError"}
Outcomes == {"ok", "transient", "unauthenticated", "terminal", "reentrancy", "timeout"}
              \cup Failures
Done(r)  == pc[r] \in Outcomes

------------------------------------------------------------------------------
Init ==
    /\ pc = [r \in Requests |-> "idle"]
    /\ version = 0
    /\ attempts = 0
    /\ lastFailure = "none"
    /\ lock = NoOne
    /\ pool \in 1..MaxPermits
    /\ holders = {}
    /\ snap = [r \in Requests |-> 0]
    /\ entry = [r \in Requests |-> 0]
    /\ tries = [r \in Requests |-> 0]
    /\ refreshed = [r \in Requests |-> FALSE]
    /\ expired = [r \in Requests |-> FALSE]
    /\ outer = [r \in Requests |-> NoOne]
    /\ rows = [r \in Requests |-> {}]
    /\ accepted = {0}
    /\ rejected = [r \in Requests |-> {}]
    /\ logins = {}

\* A streaming call waits while its handler awaits another request.
InHandler(r) == \E n \in Nested : outer[n] = r /\ pc[n] \in Running

Goto(r, where) == pc' = [pc EXCEPT ![r] = where]

\* Leaving the call drops its permit.
Finish(r, outcome) ==
    /\ Goto(r, outcome)
    /\ holders' = holders \ {r}

\* The next turn of the retry loop.
Again(r) ==
    /\ Goto(r, "snapshot")
    /\ tries' = [tries EXCEPT ![r] = @ + 1]
    /\ UNCHANGED holders

------------------------------------------------------------------------------
(* Starting, permits, the deadline *)

Start(r) ==
    /\ pc[r] = "idle"
    /\ r \notin Nested
    /\ Goto(r, "permit")
    /\ UNCHANGED <<token, pool, lock, holders, calls, accepted, logins>>

\* A handler that was given rows awaits a request of its own.
HandlerCalls(r, n) ==
    /\ r \in Streaming
    /\ n \in Nested
    /\ pc[r] = "attempt"
    /\ tries[r] \in rows[r]
    /\ ~InHandler(r)
    /\ pc[n] = "idle"
    /\ Goto(n, "permit")
    /\ outer' = [outer EXCEPT ![n] = r]
    /\ UNCHANGED <<token, pool, lock, holders, snap, entry, tries, refreshed, expired,
                   rows, rejected, accepted, logins>>

\* Variant: a request made inside a handler waits like any other.
NeverReentrant(r) == FALSE
InDeliveryHandler(r) == r \in Nested

\* acquire_request_permit: inside a handler it never waits.
Acquire(r) ==
    /\ pc[r] = "permit"
    /\ \/ /\ Cardinality(holders) < pool
          /\ holders' = holders \cup {r}
          /\ Goto(r, "snapshot")
          /\ tries' = [tries EXCEPT ![r] = 1]
       \/ /\ Cardinality(holders) >= pool
          /\ InDeliveryHandler(r)
          /\ Goto(r, "reentrancy")
          /\ UNCHANGED <<holders, tries>>
    /\ UNCHANGED <<token, pool, lock, snap, entry, refreshed, expired, outer, rows,
                   rejected, accepted, logins>>

\* The deadline of a call drops its future at whatever it awaits, and with it the
\* request its handler awaits; permits and the refresh lock are guards and go too.
\* Variant: the lock outlives its holder.
LockKept(S) == lock
LockAfterDrop(S) == IF lock \in S THEN NoOne ELSE lock
Timeout(r) ==
    /\ pc[r] \in Running
    /\ LET dropped == {r} \cup {n \in Nested : outer[n] = r /\ pc[n] \in Running}
       IN /\ pc' = [x \in Requests |-> IF x \in dropped THEN "timeout" ELSE pc[x]]
          /\ holders' = holders \ dropped
          /\ lock' = LockAfterDrop(dropped)
    /\ UNCHANGED <<token, pool, calls, accepted, logins>>

\* The envelope of the retry policy runs out.
EnvelopeEnds(r) ==
    /\ HasEnvelope
    /\ pc[r] \in Running \ {"permit"}
    /\ ~expired[r]
    /\ expired' = [expired EXCEPT ![r] = TRUE]
    /\ UNCHANGED <<pc, token, pool, lock, holders, snap, entry, tries, refreshed, outer,
                   rows, rejected, accepted, logins>>

------------------------------------------------------------------------------
(* One attempt *)

Snapshot(r) ==
    /\ pc[r] = "snapshot"
    /\ Goto(r, "attempt")
    /\ snap' = [snap EXCEPT ![r] = version]
    /\ UNCHANGED <<token, pool, lock, holders, entry, tries, refreshed, expired, outer,
                   rows, rejected, accepted, logins>>

\* A non-empty chunk reaches the handler, which also sets `delivered'.
Deliver(r) ==
    /\ r \in Streaming
    /\ pc[r] = "attempt"
    /\ ~InHandler(r)
    /\ snap[r] \in accepted
    /\ tries[r] \notin rows[r]
    /\ rows' = [rows EXCEPT ![r] = @ \cup {tries[r]}]
    /\ UNCHANGED <<pc, token, pool, lock, holders, snap, entry, tries, refreshed,
                   expired, outer, rejected, accepted, logins>>

AttemptDone(r) == pc[r] = "attempt" /\ ~InHandler(r)

AttemptSucceeds(r) ==
    /\ AttemptDone(r)
    /\ snap[r] \in accepted
    /\ Finish(r, "ok")
    /\ UNCHANGED <<token, pool, lock, calls, accepted, logins>>

AttemptTerminal(r) ==
    /\ AttemptDone(r)
    /\ Finish(r, "terminal")
    /\ UNCHANGED <<token, pool, lock, calls, accepted, logins>>

\* Variants: rows that were delivered are not remembered; one attempt too many.
NeverDelivered(r) == FALSE
Delivered(r) == rows[r] # {}
Budget == IF MaxAttempts > 1 THEN MaxAttempts ELSE 1
BudgetOverrun(r) == tries[r] > Budget \/ expired[r]
BudgetSpent(r) == tries[r] >= Budget \/ expired[r]

\* Unavailable, DeadlineExceeded, ResourceExhausted, a closed or refusing transport.
AttemptTransient(r) ==
    /\ AttemptDone(r)
    /\ IF BudgetSpent(r) \/ Delivered(r)
       THEN Finish(r, "transient")
       ELSE Goto(r, "backoff") /\ UNCHANGED holders
    /\ UNCHANGED <<token, pool, lock, calls, accepted, logins>>

\* The clipped sleep may end with the envelope.
BackoffEnds(r) ==
    /\ pc[r] = "backoff"
    /\ IF expired[r] THEN Finish(r, "transient") /\ UNCHANGED tries ELSE Again(r)
    /\ UNCHANGED <<token, pool, lock, snap, entry, refreshed, expired, outer, rows,
                   rejected, accepted, logins>>

\* Unauthenticated: the first one refreshes the session, the second one is final.
AttemptRejected(r) ==
    /\ AttemptDone(r)
    /\ snap[r] \notin accepted
    /\ rejected' = [rejected EXCEPT ![r] = @ \cup {snap[r]}]
    /\ IF refreshed[r]
       THEN Finish(r, "unauthenticated")
       ELSE Goto(r, "refresh") /\ UNCHANGED holders
    /\ UNCHANGED <<token, pool, lock, snap, entry, tries, refreshed, expired, outer,
                   rows, accepted, logins>>

------------------------------------------------------------------------------
(* SessionToken::refresh *)

\* Variant: the refresh looks at the token of now instead of the rejected one.
StaleNow(r) == version
Stale(r) == snap[r]
Superseded(r) == version # Stale(r)

\* What the loop does with a refreshed token: one more attempt whatever the budgets
\* say, unless a restart would deliver rows twice.  Variant: the budgets apply.
AfterRefreshBudgeted(r) ==
    /\ refreshed' = [refreshed EXCEPT ![r] = TRUE]
    /\ IF Delivered(r) \/ BudgetSpent(r)
       THEN Finish(r, "unauthenticated") /\ UNCHANGED tries
       ELSE Again(r)
AfterRefresh(r) ==
    /\ refreshed' = [refreshed EXCEPT ![r] = TRUE]
    /\ IF Delivered(r) THEN Finish(r, "unauthenticated") /\ UNCHANGED tries ELSE Again(r)

RefreshEnter(r) ==
    /\ pc[r] = "refresh"
    /\ IF Superseded(r)
       THEN AfterRefresh(r) /\ UNCHANGED entry
       ELSE /\ entry' = [entry EXCEPT ![r] = attempts]
            /\ Goto(r, "gate")
            /\ UNCHANGED <<holders, tries, refreshed>>
    /\ UNCHANGED <<token, pool, lock, snap, expired, outer, rows, rejected, accepted,
                   logins>>

\* Variants: nobody coalesces; everybody does once a login has ever been made.
CoalesceNever(r) == FALSE
CoalesceEver(r) == attempts # 0
Coalesced(r) == attempts # entry[r]
CoalescedError == IF lastFailure = "none" THEN "ServerError" ELSE lastFailure

\* Taking the lock and looking again: only its holder changes what is looked at.
RefreshGate(r) ==
    /\ pc[r] = "gate"
    /\ lock = NoOne
    /\ \/ /\ Superseded(r)
          /\ AfterRefresh(r)
          /\ UNCHANGED lock
       \/ /\ ~Superseded(r)
          /\ Coalesced(r)
          /\ Finish(r, CoalescedError)
          /\ UNCHANGED <<lock, tries, refreshed>>
       \/ /\ ~Superseded(r)
          /\ ~Coalesced(r)
          /\ Goto(r, "login")
          /\ lock' = r
          /\ UNCHANGED <<holders, tries, refreshed>>
    /\ UNCHANGED <<token, pool, snap, entry, expired, outer, rows, rejected, accepted,
                   logins>>

LoginDone(r, outcome) ==
    /\ pc[r] = "login"
    /\ lock' = NoOne
    /\ attempts' = attempts + 1
    /\ logins' = logins \cup
         {[nth |-> attempts + 1, from |-> version, since |-> entry[r], outcome |-> outcome]}

LoginSucceeds(r) ==
    /\ LoginDone(r, "ok")
    /\ version' = version + 1
    /\ lastFailure' = "none"
    /\ accepted' = accepted \cup {version + 1}
    /\ AfterRefresh(r)
    /\ UNCHANGED <<pool, snap, entry, expired, outer, rows, rejected>>

LoginFails(r) ==
    /\ \E kind \in Failures :
         /\ LoginDone(r, kind)
         /\ lastFailure' = kind
         /\ Finish(r, kind)
    /\ UNCHANGED <<version, pool, calls, accepted>>

------------------------------------------------------------------------------
(* The server, external, stops accepting a token *)

Revoke(v) ==
    /\ v \in accepted
    /\ v < MaxRevocations
    /\ accepted' = accepted \ {v}
    /\ UNCHANGED <<pc, token, pool, lock, holders, calls, logins>>

------------------------------------------------------------------------------
Attempt(r) == AttemptSucceeds(r) \/ AttemptTerminal(r) \/ AttemptTransient(r)
              \/ AttemptRejected(r)
Refresh(r) == RefreshEnter(r) \/ RefreshGate(r) \/ LoginSucceeds(r) \/ LoginFails(r)
Step(r) == Acquire(r) \/ Snapshot(r) \/ Attempt(r) \/ BackoffEnds(r) \/ Refresh(r)

Next ==
    \/ \E r \in Requests :
         Start(r) \/ Deliver(r) \/ Timeout(r) \/ EnvelopeEnds(r) \/ Step(r)
    \/ \E r, n \in Requests : HandlerCalls(r, n)
    \/ \E v \in accepted : Revoke(v)

\* Attempts, logins and sleeps end, and the tasks are polled.  Permits and the lock
\* are handed over in turn, which is not even needed; no deadline has to strike.
Fairness == \A r \in Requests : WF_vars(Step(r))

SafetySpec == Init /\ [][Next]_vars
Spec == SafetySpec /\ Fairness

------------------------------------------------------------------------------
(* Properties *)

Login == [nth : Nat, from : Nat, since : Nat, outcome : Failures \cup {"ok"}]

\* The type of every variable; the lock is held exactly by the request that is
\* logging in, and the pool is never overdrawn.
TypeOK ==
    /\ pc \in [Requests -> {"idle"} \cup Running \cup Outcomes]
    /\ version \in Nat
    /\ attempts \in Nat
    /\ lastFailure \in Failures \cup {"none"}
    /\ lock \in Requests \cup {NoOne}
    /\ \A r \in Requests : pc[r] = "login" <=> lock = r
    /\ pool \in 1..MaxPermits
    /\ holders \subseteq Requests
    /\ Cardinality(holders) <= pool
    /\ snap \in [Requests -> Nat]
    /\ entry \in [Requests -> Nat]
    /\ tries \in [Requests -> Nat]
    /\ refreshed \in [Requests -> BOOLEAN]
    /\ expired \in [Requests -> BOOLEAN]
    /\ outer \in [Requests -> Requests \cup {NoOne}]
    /\ rows \in [Requests -> SUBSET Nat]
    /\ accepted \subseteq Nat
    /\ rejected \in [Requests -> SUBSET Nat]
    /\ logins \subseteq Login

\* A token is replaced only after the server rejected it, never because a request
\* was still holding an older one (auth/session.rs:24).
LoginsAreCalledFor == \A l \in logins : l.from \notin accepted

\* Requests that meet the same rejection together cost one login, even if it fails:
\* a second login for a token is made by a request that began its refresh after the
\* first was over (auth/session.rs:220), and a token that was replaced is never
\* logged in for again.
OneLoginPerBurst ==
    \A k, m \in logins :
      (k.from = m.from /\ k.nth < m.nth) => /\ k.outcome # "ok"
                                            /\ m.since >= k.nth

\* A request that ends with a failed login made it, or shared one for the very token
\* it was refused, completed while it was refreshing.
FailuresAreOwn ==
    \A r \in Requests : pc[r] \in Failures =>
      \E l \in logins : /\ l.nth > entry[r]
                        /\ l.from = snap[r]
                        /\ l.outcome = pc[r]

\* No handler is given rows of two attempts (mdds/macros.rs:427).
DeliveredOnce ==
    \A r \in Requests : rows[r] \subseteq {tries[r]}

\* The budget bounds the attempts; a refresh earns at most one more.
AttemptsBounded ==
    \A r \in Requests : tries[r] <= Budget + (IF refreshed[r] THEN 1 ELSE 0)

\* An expired session surfaces only if two tokens in a row were refused, or if rows
\* were delivered already; the attempt budget has no say (mdds/macros.rs:340).
RejectionsAreRecovered ==
    \A r \in Requests : pc[r] = "unauthenticated" =>
      \/ Cardinality(rejected[r]) = 2
      \/ rows[r] # {}

\* Every call ends, with as few permits as one, whether or not handlers make calls
\* of their own and whatever is dropped half-way.
EveryCallEnds == \A r \in Requests : pc[r] = "permit" ~> Done(r)
==============================================================================
