------------------------- MODULE MddsRequestsProofs -------------------------
(***************************************************************************)
(* Theorems about MddsRequests, for any requests, pool and budgets: what   *)
(* refreshes and retries promise, where permits are, and that calls end.   *)
(***************************************************************************)
EXTENDS MddsRequests, FiniteSetTheorems, TLAPS

(* Type correctness *)

LEMMA InitTypes == Init => TypeOK
  <1> SUFFICES ASSUME Init PROVE TypeOK
    OBVIOUS
  <1>1. Cardinality(holders) = 0 /\ 0 <= pool
    BY FS_EmptySet, RequestsAssumption DEF Init
  <1> QED
    BY <1>1, RequestsAssumption DEF Init, TypeOK, Running

\* Dropping holders keeps the pool from being overdrawn.
LEMMA FewerHolders ==
  ASSUME TypeOK, NEW S, S \subseteq holders
  PROVE  /\ S \subseteq Requests
         /\ Cardinality(S) <= pool
  <1>1. IsFiniteSet(holders) /\ holders \subseteq Requests
    BY FS_Subset, RequestsAssumption DEF TypeOK
  <1>2. Cardinality(S) <= Cardinality(holders) /\ IsFiniteSet(S)
    BY <1>1, FS_Subset
  <1>3. Cardinality(S) \in Nat /\ Cardinality(holders) \in Nat
    BY <1>1, <1>2, FS_CardinalityType
  <1> QED
    BY <1>1, <1>2, <1>3 DEF TypeOK

\* A permit taken while one is free.
LEMMA OneMoreHolder ==
  ASSUME TypeOK, NEW r \in Requests, Cardinality(holders) < pool
  PROVE  Cardinality(holders \cup {r}) <= pool
  <1>1. IsFiniteSet(holders)
    BY FS_Subset, RequestsAssumption DEF TypeOK
  <1>2. Cardinality(holders) \in Nat
    BY <1>1, FS_CardinalityType
  <1>3. \/ Cardinality(holders \cup {r}) = Cardinality(holders)
        \/ Cardinality(holders \cup {r}) = Cardinality(holders) + 1
    BY <1>1, FS_AddElement
  <1> QED
    BY <1>2, <1>3 DEF TypeOK

\* What follows a refresh leaves the types of the call as they are.
LEMMA AfterRefreshTypes ==
  ASSUME TypeOK, NEW r \in Requests, AfterRefresh(r)
  PROVE  /\ pc' \in [Requests -> {"idle"} \cup Running \cup Outcomes]
         /\ \A x \in Requests : pc'[x] = "login" <=> x # r /\ pc[x] = "login"
         /\ tries' \in [Requests -> Nat]
         /\ refreshed' \in [Requests -> BOOLEAN]
  <1>1. CASE Delivered(r)
    BY <1>1 DEF AfterRefresh, Finish, Goto, TypeOK, Outcomes
  <1>2. CASE ~Delivered(r)
    BY <1>2 DEF AfterRefresh, Again, Goto, TypeOK, Running
  <1> QED
    BY <1>1, <1>2

LEMMA NextTypes == TypeOK /\ [Next]_vars => TypeOK'
  <1> SUFFICES ASSUME TypeOK, [Next]_vars PROVE TypeOK'
    OBVIOUS
  <1> USE RequestsAssumption
  <1>a. \A S : S \subseteq holders => S \subseteq Requests /\ Cardinality(S) <= pool
    BY FewerHolders
  <1>1. ASSUME NEW r \in Requests, Start(r) PROVE TypeOK'
    BY <1>1 DEF TypeOK, Start, Goto, token, calls, Running, Outcomes
  <1>2. ASSUME NEW r \in Requests, Deliver(r) PROVE TypeOK'
    BY <1>2 DEF TypeOK, Deliver, token
  <1>3. ASSUME NEW r \in Requests, Timeout(r) PROVE TypeOK'
    <2> DEFINE dropped == {r} \cup {n \in Nested : outer[n] = r /\ pc[n] \in Running}
    <2>1. /\ pc' = [x \in Requests |-> IF x \in dropped THEN "timeout" ELSE pc[x]]
          /\ holders' = holders \ dropped
          /\ lock' = IF lock \in dropped THEN NoOne ELSE lock
      BY <1>3 DEF Timeout, LockAfterDrop
    <2> HIDE DEF dropped
    <2>2. holders' \subseteq Requests /\ Cardinality(holders') <= pool
      BY <1>a, <2>1
    <2>3. \A x \in Requests : pc'[x] = "login" <=> lock' = x
      BY <2>1 DEF TypeOK
    <2> QED
      BY <1>3, <2>1, <2>2, <2>3 DEF Timeout, TypeOK, token, calls, Outcomes
  <1>4. ASSUME NEW r \in Requests, EnvelopeEnds(r) PROVE TypeOK'
    BY <1>4 DEF TypeOK, EnvelopeEnds, token
  <1>5. ASSUME NEW r \in Requests, NEW n \in Requests, HandlerCalls(r, n) PROVE TypeOK'
    BY <1>5 DEF TypeOK, HandlerCalls, Goto, token, Running
  <1>6. ASSUME NEW v \in accepted, Revoke(v) PROVE TypeOK'
    BY <1>6 DEF TypeOK, Revoke, token, calls
  <1>7. ASSUME NEW r \in Requests, Acquire(r) PROVE TypeOK'
    <2>1. holders' \subseteq Requests /\ Cardinality(holders') <= pool
      BY <1>7, OneMoreHolder DEF Acquire, TypeOK
    <2> QED
      BY <1>7, <2>1 DEF TypeOK, Acquire, Goto, token, Running, Outcomes
  <1>8. ASSUME NEW r \in Requests, Snapshot(r) PROVE TypeOK'
    BY <1>8 DEF TypeOK, Snapshot, Goto, token, Running
  <1>9. ASSUME NEW r \in Requests, Attempt(r) PROVE TypeOK'
    <2>1. holders' \subseteq Requests /\ Cardinality(holders') <= pool
      BY <1>9, <1>a DEF Attempt, AttemptSucceeds, AttemptTerminal, AttemptTransient,
         AttemptRejected, Finish, Goto
    <2>2. CASE AttemptSucceeds(r)
      BY <2>1, <2>2 DEF TypeOK, AttemptSucceeds, AttemptDone, Finish, Goto, token, calls,
         Outcomes
    <2>3. CASE AttemptTerminal(r)
      BY <2>1, <2>3 DEF TypeOK, AttemptTerminal, AttemptDone, Finish, Goto, token, calls,
         Outcomes
    <2>4. CASE AttemptTransient(r)
      BY <2>1, <2>4 DEF TypeOK, AttemptTransient, AttemptDone, Finish, Goto, token, calls,
         Outcomes, Running
    <2>5. CASE AttemptRejected(r)
      BY <2>1, <2>5 DEF TypeOK, AttemptRejected, AttemptDone, Finish, Goto, token,
         Outcomes, Running
    <2> QED
      BY <1>9, <2>2, <2>3, <2>4, <2>5 DEF Attempt
  <1>10. ASSUME NEW r \in Requests, BackoffEnds(r) PROVE TypeOK'
    <2>1. holders' \subseteq Requests /\ Cardinality(holders') <= pool
      BY <1>10, <1>a DEF BackoffEnds, Finish, Again
    <2> QED
      BY <1>10, <2>1 DEF TypeOK, BackoffEnds, Finish, Again, Goto, token, Outcomes, Running
  <1>11. ASSUME NEW r \in Requests, Refresh(r) PROVE TypeOK'
    <2>1. holders' \subseteq Requests /\ Cardinality(holders') <= pool
      BY <1>11, <1>a DEF Refresh, RefreshEnter, RefreshGate, LoginSucceeds, LoginFails,
         AfterRefresh, Finish, Again
    <2>2. CASE RefreshEnter(r)
      <3>1. CASE Superseded(r)
        BY <2>1, <2>2, <3>1, AfterRefreshTypes DEF TypeOK, RefreshEnter, token
      <3>2. CASE ~Superseded(r)
        BY <2>1, <2>2, <3>2 DEF TypeOK, RefreshEnter, Goto, token, Running
      <3> QED
        BY <3>1, <3>2
    <2>3. CASE RefreshGate(r)
      <3>1. CASE Superseded(r)
        BY <2>1, <2>3, <3>1, AfterRefreshTypes DEF TypeOK, RefreshGate, token
      <3>2. CASE ~Superseded(r) /\ Coalesced(r)
        BY <2>1, <2>3, <3>2 DEF TypeOK, RefreshGate, Finish, Goto, token, Outcomes,
           CoalescedError, Failures
      <3>3. CASE ~Superseded(r) /\ ~Coalesced(r)
        BY <2>1, <2>3, <3>3 DEF TypeOK, RefreshGate, Goto, token, Running
      <3> QED
        BY <3>1, <3>2, <3>3
    <2>4. CASE LoginSucceeds(r)
      BY <2>1, <2>4 DEF TypeOK, LoginSucceeds, LoginDone, AfterRefresh, Finish, Again,
         Goto, Outcomes, Running, Login
    <2>5. CASE LoginFails(r)
      BY <2>1, <2>5 DEF TypeOK, LoginFails, LoginDone, Finish, Goto, calls, Outcomes,
         Failures, Login
    <2> QED
      BY <1>11, <2>2, <2>3, <2>4, <2>5 DEF Refresh
  <1>12. CASE UNCHANGED vars
    BY <1>12 DEF TypeOK, vars, token, calls
  <1> QED
    BY <1>1, <1>2, <1>3, <1>4, <1>5, <1>6, <1>7, <1>8, <1>9, <1>10, <1>11, <1>12
       DEF Next, Step

\* Every variable keeps its type, the refresh lock is held by the request that is
\* logging in and by no other, and the request semaphore is never overdrawn, whatever
\* deadlines drop.
THEOREM RequestTypes == SafetySpec => []TypeOK
  BY InitTypes, NextTypes, PTL DEF SafetySpec

------------------------------------------------------------------------------
(* The inductive invariant *)

\* Completed logins are numbered by attempts, and a successful one moved the version
\* on; the server only accepts tokens that were issued.
LoginBooks ==
    /\ \A l \in logins : /\ l.nth \in 1..attempts
                         /\ l.from <= version
                         /\ l.outcome = "ok" => l.from < version
    /\ accepted \subseteq 0..version

\* What a call remembers of the session is not ahead of it.
Remembers(r) == snap[r] <= version /\ entry[r] <= attempts

\* A refresh is for a token the server refused to this very call; under the lock
\* nothing has moved since the call entered; and if only the login count moved, the
\* last failure belongs to a login for this token.
Refreshing(r) ==
    /\ pc[r] \in {"refresh", "gate", "login"} =>
         /\ snap[r] \notin accepted
         /\ ~refreshed[r]
         /\ rejected[r] = {snap[r]}
    /\ pc[r] = "login" => snap[r] = version /\ entry[r] = attempts
    /\ (pc[r] = "gate" /\ snap[r] = version /\ attempts # entry[r]) =>
         \E l \in logins : /\ l.nth > entry[r]
                          /\ l.from = version
                          /\ l.outcome = lastFailure
                          /\ lastFailure # "none"

\* A call that will try again has delivered nothing and has an attempt left; after
\* its refresh it has one refusal behind it, of a token older than the current one.
Trying(r) ==
    /\ pc[r] \in {"idle", "permit", "snapshot", "backoff"} => rows[r] = {}
    /\ pc[r] = "backoff" => tries[r] < Budget
    /\ pc[r] \in {"idle", "permit"} => ~refreshed[r] /\ rejected[r] = {}
    /\ pc[r] \in {"snapshot", "attempt", "backoff"} =>
         IF refreshed[r]
         THEN \E v \in 0..version : /\ rejected[r] = {v}
                                    /\ v < version
                                    /\ pc[r] = "attempt" => v < snap[r]
         ELSE rejected[r] = {}

\* The properties of MddsRequests that speak of one call.
Promised(r) ==
    /\ pc[r] \in Failures =>
         \E l \in logins : l.nth > entry[r] /\ l.from = snap[r] /\ l.outcome = pc[r]
    /\ rows[r] \subseteq {tries[r]}
    /\ tries[r] <= Budget + (IF refreshed[r] THEN 1 ELSE 0)
    /\ pc[r] = "unauthenticated" => Cardinality(rejected[r]) = 2 \/ rows[r] # {}

SoundCall(r) == Remembers(r) /\ Refreshing(r) /\ Trying(r) /\ Promised(r)

Sound ==
    /\ TypeOK
    /\ LoginBooks
    /\ LoginsAreCalledFor
    /\ OneLoginPerBurst
    /\ \A r \in Requests : SoundCall(r)

\* A new client.
LEMMA InitSound == Init => Sound
  <1> SUFFICES ASSUME Init PROVE Sound
    OBVIOUS
  <1>1. TypeOK
    BY InitTypes
  <1>2. LoginBooks /\ LoginsAreCalledFor /\ OneLoginPerBurst
    BY DEF Init, LoginBooks, LoginsAreCalledFor, OneLoginPerBurst
  <1>3. ASSUME NEW r \in Requests PROVE SoundCall(r)
    BY RequestsAssumption DEF Init, SoundCall, Remembers, Refreshing, Trying, Promised,
       Budget, Failures
  <1> QED
    BY <1>1, <1>2, <1>3 DEF Sound

------------------------------------------------------------------------------
(* Steps that complete no login *)

\* The session stands still; the server may stop accepting tokens.
SessionKept ==
    /\ UNCHANGED <<token, logins>>
    /\ accepted' \subseteq accepted

\* Without a login the books of the logins stay right.
LEMMA LoginsKept ==
  ASSUME LoginBooks, LoginsAreCalledFor, OneLoginPerBurst, SessionKept
  PROVE  LoginBooks' /\ LoginsAreCalledFor' /\ OneLoginPerBurst'
  BY DEF LoginBooks, LoginsAreCalledFor, OneLoginPerBurst, SessionKept, token

\* A call nothing happens to.
SameCall(r) ==
    /\ pc'[r] = pc[r] /\ snap'[r] = snap[r] /\ entry'[r] = entry[r]
    /\ tries'[r] = tries[r] /\ refreshed'[r] = refreshed[r]
    /\ rows'[r] = rows[r] /\ rejected'[r] = rejected[r]

LEMMA CallKept ==
  ASSUME NEW r \in Requests, SoundCall(r), SameCall(r), SessionKept
  PROVE  SoundCall(r)'
  BY DEF SoundCall, SameCall, SessionKept, Remembers, Refreshing, Trying, Promised, token

\* A call that ends for a reason the session has no part in.
LEMMA CallEnded ==
  ASSUME NEW r \in Requests, SoundCall(r), SessionKept,
         pc'[r] \in {"ok", "transient", "terminal", "reentrancy", "timeout"},
         snap'[r] = snap[r], entry'[r] = entry[r], tries'[r] = tries[r],
         refreshed'[r] = refreshed[r], rows'[r] = rows[r]
  PROVE  SoundCall(r)'
  BY DEF SoundCall, SessionKept, Remembers, Refreshing, Trying, Promised, token, Failures

\* A call that goes round the loop after its refresh, or may not.
LEMMA CallRefreshed ==
  ASSUME TypeOK, NEW r \in Requests, SoundCall(r), SessionKept, AfterRefresh(r),
         pc[r] \in {"refresh", "gate"}, Superseded(r),
         snap'[r] = snap[r], entry'[r] = entry[r], rows'[r] = rows[r],
         rejected'[r] = rejected[r]
  PROVE  SoundCall(r)'
  <1>1. rejected[r] = {snap[r]} /\ ~refreshed[r] /\ snap[r] < version
    BY DEF SoundCall, Refreshing, Remembers, Superseded, Stale, TypeOK
  <1>2. CASE Delivered(r)
    <2>1. /\ pc'[r] = "unauthenticated" /\ refreshed'[r] /\ tries'[r] = tries[r]
          /\ rows'[r] = rows[r] /\ rows[r] # {} /\ version' = version
      BY <1>1, <1>2 DEF AfterRefresh, Finish, Goto, Delivered, TypeOK, SessionKept, token
    <2>2. Remembers(r)' /\ Refreshing(r)' /\ Trying(r)'
      BY <2>1 DEF SoundCall, SessionKept, Remembers, Refreshing, Trying, token
    <2>3. tries[r] <= Budget /\ tries[r] \in Nat /\ Budget \in Nat
      BY <1>1, RequestsAssumption DEF SoundCall, Promised, TypeOK, Budget
    <2>4. Promised(r)'
      BY <2>1, <2>3 DEF SoundCall, Promised, Failures, Budget
    <2> QED
      BY <2>2, <2>4 DEF SoundCall
  <1>3. CASE ~Delivered(r)
    <2>1. /\ pc'[r] = "snapshot" /\ refreshed'[r] /\ tries'[r] = tries[r] + 1
          /\ rows'[r] = {} /\ rejected'[r] = {snap[r]} /\ version' = version
      BY <1>1, <1>3 DEF AfterRefresh, Again, Goto, Delivered, TypeOK, SessionKept, token
    <2>2. Remembers(r)' /\ Refreshing(r)'
      BY <2>1 DEF SoundCall, SessionKept, Remembers, Refreshing, token
    <2>3. Trying(r)'
      BY <1>1, <2>1 DEF Trying, TypeOK
    <2>4. Promised(r)'
      <3>1. tries[r] <= Budget /\ tries[r] \in Nat /\ Budget \in Nat
        BY <1>1, RequestsAssumption DEF SoundCall, Promised, TypeOK, Budget
      <3> QED
        BY <2>1, <3>1 DEF Promised, Failures, Budget
    <2> QED
      BY <2>2, <2>3, <2>4 DEF SoundCall
  <1> QED
    BY <1>2, <1>3

\* One lemma per group of actions; in each, the other calls are untouched.

LEMMA StartSound ==
  ASSUME Sound, NEW r \in Requests, Start(r) \/ EnvelopeEnds(r)
  PROVE  \A x \in Requests : SoundCall(x)'
  <1>1. CASE Start(r)
    <2>1. SoundCall(r)'
      BY <1>1 DEF Sound, Start, Goto, SoundCall, Remembers, Refreshing, Trying, Promised,
         token, calls, TypeOK, Failures
    <2>2. \A x \in Requests \ {r} : SameCall(x) /\ SessionKept
      BY <1>1 DEF Sound, TypeOK, Start, Goto, SameCall, SessionKept, token, calls
    <2> QED
      BY <2>1, <2>2, CallKept DEF Sound
  <1>2. CASE EnvelopeEnds(r)
    <2>1. \A x \in Requests : SameCall(x) /\ SessionKept
      BY <1>2 DEF EnvelopeEnds, SameCall, SessionKept, token
    <2> QED
      BY <2>1, CallKept DEF Sound
  <1> QED
    BY <1>1, <1>2

LEMMA HandlerCallsSound ==
  ASSUME Sound, NEW r \in Requests, NEW n \in Requests, HandlerCalls(r, n)
  PROVE  \A x \in Requests : SoundCall(x)'
  <1>1. SoundCall(n)'
    BY DEF Sound, HandlerCalls, Goto, SoundCall, Remembers, Refreshing, Trying, Promised,
       token, TypeOK, Failures
  <1>2. \A x \in Requests \ {n} : SameCall(x) /\ SessionKept
    BY DEF Sound, TypeOK, HandlerCalls, Goto, SameCall, SessionKept, token
  <1> QED
    BY <1>1, <1>2, CallKept DEF Sound

LEMMA TimeoutSound ==
  ASSUME Sound, NEW r \in Requests, Timeout(r)
  PROVE  \A x \in Requests : SoundCall(x)'
  <1>1. SessionKept /\ UNCHANGED calls
    BY DEF Timeout, SessionKept, calls
  <1>2. \A x \in Requests : pc'[x] = pc[x] \/ pc'[x] = "timeout"
    BY DEF Timeout
  <1> QED
    BY <1>1, <1>2, CallKept, CallEnded DEF Sound, SameCall, calls

LEMMA AcquireSound ==
  ASSUME Sound, NEW r \in Requests, Acquire(r)
  PROVE  \A x \in Requests : SoundCall(x)'
  <1>1. \A x \in Requests \ {r} : SameCall(x) /\ SessionKept
    BY DEF Sound, TypeOK, Acquire, Goto, SameCall, SessionKept, token
  <1>2. CASE pc'[r] = "snapshot"
    <2>1. /\ pc[r] = "permit" /\ pc'[r] = "snapshot" /\ tries'[r] = 1
          /\ UNCHANGED <<token, snap, entry, refreshed, rows, rejected, accepted, logins>>
      BY <1>2 DEF Acquire, Goto, Sound, TypeOK
    <2>2. Budget >= 1 /\ Budget \in Nat
      BY RequestsAssumption DEF Budget
    <2>3. SoundCall(r)'
      BY <2>1, <2>2 DEF Sound, SoundCall, Remembers, Refreshing, Trying, Promised,
         token, TypeOK, Failures, Budget
    <2> QED
      BY <1>1, <2>3, CallKept DEF Sound
  <1>3. CASE pc'[r] # "snapshot"
    <2>1. /\ pc'[r] = "reentrancy" /\ SessionKept
          /\ UNCHANGED <<snap, entry, tries, refreshed, rows>>
      BY <1>3 DEF Acquire, Goto, Sound, TypeOK, SessionKept, token
    <2> QED
      BY <1>1, <2>1, CallKept, CallEnded DEF Sound
  <1> QED
    BY <1>2, <1>3

LEMMA SnapshotSound ==
  ASSUME Sound, NEW r \in Requests, Snapshot(r)
  PROVE  \A x \in Requests : SoundCall(x)'
  <1>1. \A x \in Requests \ {r} : SameCall(x) /\ SessionKept
    BY DEF Sound, TypeOK, Snapshot, Goto, SameCall, SessionKept, token
  <1>2. /\ pc[r] = "snapshot" /\ pc'[r] = "attempt" /\ snap'[r] = version
        /\ UNCHANGED <<token, entry, tries, refreshed, rows, rejected, accepted, logins>>
    BY DEF Sound, TypeOK, Snapshot, Goto
  <1>3. SoundCall(r)'
    BY <1>2 DEF Sound, SoundCall, Remembers, Refreshing, Trying, Promised, token, TypeOK,
       Failures, Budget
  <1> QED
    BY <1>1, <1>3, CallKept DEF Sound

LEMMA DeliverSound ==
  ASSUME Sound, NEW r \in Requests, Deliver(r)
  PROVE  \A x \in Requests : SoundCall(x)'
  <1>1. \A x \in Requests \ {r} : SameCall(x) /\ SessionKept
    BY DEF Sound, TypeOK, Deliver, SameCall, SessionKept, token
  <1>2. /\ pc[r] = "attempt" /\ rows'[r] = rows[r] \cup {tries[r]}
        /\ UNCHANGED <<pc, token, snap, entry, tries, refreshed, rejected, accepted, logins>>
    BY DEF Sound, TypeOK, Deliver
  <1>3. SoundCall(r)'
    BY <1>2 DEF Sound, SoundCall, Remembers, Refreshing, Trying, Promised, token, TypeOK,
       Failures, Budget
  <1> QED
    BY <1>1, <1>3, CallKept DEF Sound

LEMMA AttemptSound ==
  ASSUME Sound, NEW r \in Requests, Attempt(r)
  PROVE  \A x \in Requests : SoundCall(x)'
  <1>1. \A x \in Requests \ {r} : SameCall(x) /\ SessionKept
    BY DEF Sound, TypeOK, Attempt, AttemptSucceeds, AttemptTerminal, AttemptTransient,
       AttemptRejected, Finish, Goto, SameCall, SessionKept, token, calls
  <1>2. pc[r] = "attempt"
    BY DEF Attempt, AttemptSucceeds, AttemptTerminal, AttemptTransient, AttemptRejected,
       AttemptDone
  <1>3. CASE \/ AttemptSucceeds(r)
             \/ AttemptTerminal(r)
             \/ AttemptTransient(r) /\ pc'[r] # "backoff"
    <2>1. /\ pc'[r] \in {"ok", "terminal", "transient"} /\ SessionKept
          /\ UNCHANGED calls
      BY <1>3 DEF Sound, TypeOK, AttemptSucceeds, AttemptTerminal, AttemptTransient, Finish,
         Goto, SessionKept, calls
    <2> QED
      BY <1>1, <2>1, CallKept, CallEnded DEF Sound, calls
  <1>4. CASE AttemptTransient(r) /\ pc'[r] = "backoff"
    <2>1. /\ rows[r] = {} /\ tries[r] < Budget
          /\ pc'[r] = "backoff" /\ UNCHANGED <<token, calls, accepted, logins>>
      BY <1>4, RequestsAssumption DEF Sound, TypeOK, AttemptTransient, Finish, Goto, BudgetSpent,
         Delivered, Budget
    <2>2. SoundCall(r)'
      BY <1>2, <2>1 DEF Sound, SoundCall, Remembers, Refreshing, Trying, Promised, token, calls,
         TypeOK, Failures, Budget
    <2> QED
      BY <1>1, <2>2, CallKept DEF Sound
  <1>5. CASE AttemptRejected(r) /\ ~refreshed[r]
    <2>1. /\ pc'[r] = "refresh" /\ snap[r] \notin accepted
          /\ rejected'[r] = rejected[r] \cup {snap[r]} /\ rejected[r] = {}
          /\ UNCHANGED <<token, snap, entry, tries, refreshed, rows, accepted, logins>>
      BY <1>2, <1>5 DEF Sound, TypeOK, AttemptRejected, Goto, SoundCall, Trying
    <2>2. SoundCall(r)'
      BY <1>5, <2>1 DEF Sound, SoundCall, Remembers, Refreshing, Trying, Promised, token,
         TypeOK, Failures, Budget
    <2> QED
      BY <1>1, <2>2, CallKept DEF Sound
  <1>6. CASE AttemptRejected(r) /\ refreshed[r]
    <2>1. /\ pc'[r] = "unauthenticated" /\ rejected'[r] = rejected[r] \cup {snap[r]}
          /\ UNCHANGED <<token, snap, entry, tries, refreshed, rows, accepted, logins>>
      BY <1>6 DEF Sound, TypeOK, AttemptRejected, Finish, Goto
    <2>2. PICK v \in 0..version : rejected[r] = {v} /\ v < snap[r]
      BY <1>2, <1>6 DEF Sound, SoundCall, Trying
    <2>3. Cardinality({v, snap[r]}) = 2
      <3>1. Cardinality({v}) = 1 /\ IsFiniteSet({v})
        BY FS_Singleton
      <3>2. Cardinality({v} \cup {snap[r]}) = Cardinality({v}) + 1
        <4>1. snap[r] \notin {v}
          BY <2>2 DEF Sound, TypeOK
        <4> QED
          BY <3>1, <4>1, FS_AddElement
      <3>3. {v, snap[r]} = {v} \cup {snap[r]}
        OBVIOUS
      <3> QED
        BY <3>1, <3>2, <3>3
    <2>4. rejected'[r] = {v, snap[r]}
      BY <2>1, <2>2
    <2>5. SoundCall(r)'
      BY <2>1, <2>3, <2>4 DEF Sound, SoundCall, Remembers, Refreshing, Trying, Promised, token,
         TypeOK, Failures, Budget
    <2> QED
      BY <1>1, <2>5, CallKept DEF Sound
  <1> QED
    BY <1>3, <1>4, <1>5, <1>6 DEF Attempt

LEMMA BackoffEndsSound ==
  ASSUME Sound, NEW r \in Requests, BackoffEnds(r)
  PROVE  \A x \in Requests : SoundCall(x)'
  <1>1. \A x \in Requests \ {r} : SameCall(x) /\ SessionKept
    BY DEF Sound, TypeOK, BackoffEnds, Finish, Again, Goto, SameCall, SessionKept, token
  <1>2. CASE expired[r]
    <2>1. /\ pc'[r] = "transient" /\ SessionKept
          /\ UNCHANGED <<snap, entry, tries, refreshed, rows>>
      BY <1>2 DEF Sound, TypeOK, BackoffEnds, Finish, Goto, SessionKept, token
    <2> QED
      BY <1>1, <2>1, CallKept, CallEnded DEF Sound
  <1>3. CASE ~expired[r]
    <2>1. /\ pc[r] = "backoff" /\ pc'[r] = "snapshot" /\ tries'[r] = tries[r] + 1
          /\ UNCHANGED <<token, snap, entry, refreshed, rows, rejected, accepted, logins>>
      BY <1>3 DEF Sound, TypeOK, BackoffEnds, Again, Goto
    <2>2. tries[r] < Budget /\ tries[r] \in Nat /\ Budget \in Nat /\ rows[r] = {}
      BY <2>1, RequestsAssumption DEF Sound, TypeOK, SoundCall, Trying, Budget
    <2>3. Remembers(r)' /\ Refreshing(r)' /\ Trying(r)'
      BY <2>1, <2>2 DEF Sound, SoundCall, Remembers, Refreshing, Trying, token
    <2>4. Promised(r)'
      BY <2>1, <2>2 DEF Promised, Failures, Budget
    <2> QED
      BY <1>1, <2>3, <2>4, CallKept DEF Sound, SoundCall
  <1> QED
    BY <1>2, <1>3

LEMMA RefreshEnterSound ==
  ASSUME Sound, NEW r \in Requests, RefreshEnter(r)
  PROVE  \A x \in Requests : SoundCall(x)'
  <1>1. \A x \in Requests \ {r} : SameCall(x) /\ SessionKept
    BY DEF Sound, TypeOK, RefreshEnter, AfterRefresh, Finish, Again, Goto, SameCall,
       SessionKept, token
  <1>2. CASE Superseded(r)
    <2>1. /\ pc[r] = "refresh" /\ AfterRefresh(r) /\ SessionKept
          /\ UNCHANGED <<snap, entry, rows, rejected>>
      BY <1>2 DEF RefreshEnter, SessionKept, token
    <2> QED
      BY <1>1, <1>2, <2>1, CallKept, CallRefreshed DEF Sound
  <1>3. CASE ~Superseded(r)
    <2>1. /\ pc[r] = "refresh" /\ pc'[r] = "gate" /\ entry'[r] = attempts
          /\ UNCHANGED <<token, snap, tries, refreshed, rows, rejected, accepted, logins>>
      BY <1>3 DEF Sound, TypeOK, RefreshEnter, Goto
    <2>2. SoundCall(r)'
      BY <2>1 DEF Sound, SoundCall, Remembers, Refreshing, Trying, Promised, token, TypeOK,
         Failures, Budget
    <2> QED
      BY <1>1, <2>2, CallKept DEF Sound
  <1> QED
    BY <1>2, <1>3

LEMMA RefreshGateSound ==
  ASSUME Sound, NEW r \in Requests, RefreshGate(r)
  PROVE  \A x \in Requests : SoundCall(x)'
  <1>1. \A x \in Requests \ {r} : SameCall(x) /\ SessionKept
    BY DEF Sound, TypeOK, RefreshGate, AfterRefresh, Finish, Again, Goto, SameCall,
       SessionKept, token
  <1>2. CASE Superseded(r)
    <2>1. /\ pc[r] = "gate" /\ AfterRefresh(r) /\ SessionKept
          /\ UNCHANGED <<snap, entry, rows, rejected>>
      BY <1>2 DEF RefreshGate, SessionKept, token
    <2> QED
      BY <1>1, <1>2, <2>1, CallKept, CallRefreshed DEF Sound
  <1>3. CASE ~Superseded(r) /\ Coalesced(r)
    <2>1. /\ pc[r] = "gate" /\ pc'[r] = CoalescedError
          /\ UNCHANGED <<token, snap, entry, tries, refreshed, rows, rejected, accepted,
                         logins>>
      BY <1>3 DEF Sound, TypeOK, RefreshGate, Finish, Goto
    <2>2. \E l \in logins : /\ l.nth > entry[r]
                            /\ l.from = snap[r]
                            /\ l.outcome = lastFailure
                            /\ lastFailure # "none"
      BY <1>3, <2>1 DEF Sound, SoundCall, Refreshing, Superseded, Stale, Coalesced
    <2>3. CoalescedError = lastFailure /\ lastFailure \in Failures
      BY <2>2 DEF CoalescedError, Sound, TypeOK
    <2>4. SoundCall(r)'
      BY <2>1, <2>2, <2>3 DEF Sound, SoundCall, Remembers, Refreshing, Trying, Promised, token,
         Failures, Budget
    <2> QED
      BY <1>1, <2>4, CallKept DEF Sound
  <1>4. CASE ~Superseded(r) /\ ~Coalesced(r)
    <2>1. /\ pc[r] = "gate" /\ pc'[r] = "login" /\ snap[r] = version /\ entry[r] = attempts
          /\ UNCHANGED <<token, snap, entry, tries, refreshed, rows, rejected, accepted,
                         logins>>
      BY <1>4 DEF Sound, TypeOK, RefreshGate, Goto, Superseded, Stale, Coalesced
    <2>2. SoundCall(r)'
      BY <2>1 DEF Sound, SoundCall, Remembers, Refreshing, Trying, Promised, token, Failures,
         Budget
    <2> QED
      BY <1>1, <2>2, CallKept DEF Sound
  <1> QED
    BY <1>2, <1>3, <1>4

LEMMA RevokeSound ==
  ASSUME Sound, NEW v \in accepted, Revoke(v)
  PROVE  \A x \in Requests : SoundCall(x)'
  <1>1. SessionKept
    BY DEF Revoke, SessionKept
  <1> QED
    BY <1>1, CallKept DEF Sound, Revoke, SameCall, calls

------------------------------------------------------------------------------
(* Steps that complete a login *)

LEMMA LoginFailsSound ==
  ASSUME Sound, NEW r \in Requests, LoginFails(r)
  PROVE  Sound'
  <1>1. PICK kind \in Failures :
          /\ LoginDone(r, kind)
          /\ lastFailure' = kind
          /\ Finish(r, kind)
    BY DEF LoginFails
  <1> DEFINE mine == [nth |-> attempts + 1, from |-> version,
                      since |-> entry[r], outcome |-> kind]
  <1>2. /\ pc[r] = "login" /\ attempts' = attempts + 1 /\ attempts \in Nat /\ version \in Nat
        /\ logins' = logins \cup {mine} /\ kind # "ok" /\ kind # "none"
        /\ UNCHANGED <<version, calls, accepted>>
    BY <1>1 DEF LoginFails, LoginDone, Failures, Sound, TypeOK
  <1>m. /\ mine \in logins'
        /\ mine.nth = attempts + 1 /\ mine.from = version /\ mine.outcome = kind
    BY <1>2
  <1>3. snap[r] = version /\ entry[r] = attempts /\ version \notin accepted
    BY <1>2 DEF Sound, SoundCall, Refreshing
  <1>4. TypeOK'
    BY NextTypes DEF Sound, Next, Step, Refresh
  <1>5. LoginBooks' /\ LoginsAreCalledFor'
    BY <1>2, <1>3 DEF Sound, LoginBooks, LoginsAreCalledFor
  <1>6. OneLoginPerBurst'
    <2>1. \A k \in logins : k.nth <= attempts /\ k.nth \in Nat
                            /\ (k.outcome = "ok" => k.from # version)
      BY <1>2 DEF Sound, LoginBooks
    <2> QED
      BY <1>2, <1>3, <2>1 DEF Sound, OneLoginPerBurst
  <1>7. ASSUME NEW x \in Requests, x # r PROVE SoundCall(x)'
    <2>1. pc'[x] = pc[x] /\ pc[x] # "login" /\ entry[x] \in Nat /\ entry[x] <= attempts
      BY <1>1, <1>2, <1>7 DEF Finish, Goto, Sound, TypeOK, SoundCall, Remembers
    <2>2. SoundCall(x)
      BY DEF Sound
    <2>3. Remembers(x)' /\ Trying(x)' /\ Promised(x)'
      BY <1>2, <2>1, <2>2 DEF SoundCall, Remembers, Trying, Promised, calls
    <2>4. Refreshing(x)'
      <3>1. /\ pc'[x] \in {"refresh", "gate", "login"} =>
                 snap'[x] \notin accepted' /\ ~refreshed'[x] /\ rejected'[x] = {snap'[x]}
            /\ pc'[x] # "login"
        BY <1>2, <2>1, <2>2 DEF SoundCall, Refreshing, calls
      <3>2. mine.nth > entry'[x] /\ mine.from = version' /\ mine.outcome = lastFailure'
            /\ lastFailure' # "none"
        BY <1>1, <1>2, <1>m, <2>1 DEF calls
      <3> QED
        BY <1>m, <3>1, <3>2 DEF Refreshing
    <2> QED
      BY <2>3, <2>4 DEF SoundCall
  <1>8. SoundCall(r)'
    <2>1. pc'[r] = kind
      BY <1>1 DEF Finish, Goto, Sound, TypeOK
    <2>2. SoundCall(r) /\ kind \in Failures
      BY DEF Sound
    <2>3. Remembers(r)' /\ Refreshing(r)' /\ Trying(r)'
      BY <1>2, <1>3, <2>1, <2>2 DEF SoundCall, Remembers, Refreshing, Trying, calls, Failures
    <2>4. mine.nth > entry'[r] /\ mine.from = snap'[r] /\ mine.outcome = pc'[r]
      BY <1>2, <1>3, <1>m, <2>1 DEF calls
    <2>5. Promised(r)'
      BY <1>2, <1>m, <2>1, <2>2, <2>4 DEF SoundCall, Promised, calls, Failures
    <2> QED
      BY <2>3, <2>5 DEF SoundCall
  <1> QED
    BY <1>4, <1>5, <1>6, <1>7, <1>8 DEF Sound

LEMMA LoginSucceedsSound ==
  ASSUME Sound, NEW r \in Requests, LoginSucceeds(r)
  PROVE  Sound'
  <1> DEFINE mine == [nth |-> attempts + 1, from |-> version,
                      since |-> entry[r], outcome |-> "ok"]
  <1>1. /\ pc[r] = "login" /\ attempts' = attempts + 1 /\ attempts \in Nat
        /\ version' = version + 1 /\ version \in Nat
        /\ logins' = logins \cup {mine} /\ accepted' = accepted \cup {version + 1}
        /\ AfterRefresh(r)
        /\ UNCHANGED <<snap, entry, rows, rejected>>
    BY DEF LoginSucceeds, LoginDone, Sound, TypeOK
  <1>2. /\ snap[r] = version /\ entry[r] = attempts /\ version \notin accepted
        /\ ~refreshed[r] /\ rejected[r] = {version}
    BY <1>1 DEF Sound, SoundCall, Refreshing
  <1>3. TypeOK'
    BY NextTypes DEF Sound, Next, Step, Refresh
  <1>4. LoginBooks' /\ LoginsAreCalledFor'
    <2>1. /\ mine.nth = attempts + 1 /\ mine.from = version
          /\ \A l \in logins' : l \in logins \/ l = mine
      BY <1>1
    <2>2. accepted' \subseteq 0..version'
      BY <1>1 DEF Sound, LoginBooks
    <2>3. \A l \in logins : l.from <= version /\ l.from \in Nat /\ l.nth \in 1..attempts
      BY DEF Sound, LoginBooks, TypeOK, Login
    <2>4. LoginBooks'
      BY <1>1, <2>1, <2>2, <2>3 DEF Sound, LoginBooks
    <2>5. LoginsAreCalledFor'
      BY <1>1, <1>2, <2>1, <2>3 DEF Sound, LoginsAreCalledFor
    <2> QED
      BY <2>4, <2>5
  <1>5. OneLoginPerBurst'
    <2>1. \A k \in logins : k.nth <= attempts /\ k.nth \in Nat
                            /\ (k.outcome = "ok" => k.from # version)
      BY <1>1 DEF Sound, LoginBooks
    <2> QED
      BY <1>1, <1>2, <2>1 DEF Sound, OneLoginPerBurst
  <1>6. ASSUME NEW x \in Requests, x # r PROVE SoundCall(x)'
    <2>1. /\ pc'[x] = pc[x] /\ pc[x] # "login" /\ tries'[x] = tries[x]
          /\ refreshed'[x] = refreshed[x] /\ entry[x] \in Nat /\ snap[x] \in Nat
      BY <1>1, <1>6 DEF AfterRefresh, Finish, Again, Goto, Sound, TypeOK
    <2>2. SoundCall(x)
      BY DEF Sound
    <2>3. snap[x] <= version /\ entry[x] <= attempts
      BY <2>2 DEF SoundCall, Remembers
    <2>4. Remembers(x)' /\ Refreshing(x)'
      BY <1>1, <2>1, <2>2, <2>3 DEF SoundCall, Remembers, Refreshing
    <2>5. Trying(x)'
      BY <1>1, <2>1, <2>2 DEF SoundCall, Trying
    <2>6. Promised(x)'
      BY <1>1, <2>1, <2>2 DEF SoundCall, Promised
    <2> QED
      BY <2>4, <2>5, <2>6 DEF SoundCall
  <1>7. SoundCall(r)'
    <2>1. SoundCall(r)
      BY DEF Sound
    <2>2. tries[r] <= Budget /\ tries[r] \in Nat /\ Budget \in Nat
      BY <1>2, <2>1, RequestsAssumption DEF SoundCall, Promised, Sound, TypeOK, Budget
    <2>3. CASE Delivered(r)
      <3>1. /\ pc'[r] = "unauthenticated" /\ refreshed'[r] /\ tries'[r] = tries[r]
            /\ rows[r] # {}
        BY <1>1, <2>3 DEF AfterRefresh, Finish, Goto, Delivered, Sound, TypeOK
      <3>2. Remembers(r)' /\ Refreshing(r)' /\ Trying(r)'
        BY <1>1, <1>2, <3>1 DEF Remembers, Refreshing, Trying
      <3>3. Promised(r)'
        BY <1>1, <2>1, <2>2, <3>1 DEF SoundCall, Promised, Failures, Budget
      <3> QED
        BY <3>2, <3>3 DEF SoundCall
    <2>4. CASE ~Delivered(r)
      <3>1. /\ pc'[r] = "snapshot" /\ refreshed'[r] /\ tries'[r] = tries[r] + 1
            /\ rows'[r] = {}
        BY <1>1, <2>4 DEF AfterRefresh, Again, Goto, Delivered, Sound, TypeOK
      <3>2. Remembers(r)' /\ Refreshing(r)'
        BY <1>1, <1>2, <3>1 DEF Remembers, Refreshing
      <3>3. Trying(r)'
        BY <1>1, <1>2, <3>1 DEF Trying
      <3>4. Promised(r)'
        BY <2>2, <3>1 DEF Promised, Failures, Budget
      <3> QED
        BY <3>2, <3>3, <3>4 DEF SoundCall
    <2> QED
      BY <2>3, <2>4
  <1> QED
    BY <1>3, <1>4, <1>5, <1>6, <1>7 DEF Sound

------------------------------------------------------------------------------
(* The theorems *)

LEMMA NextSound == Sound /\ [Next]_vars => Sound'
  <1> SUFFICES ASSUME Sound, [Next]_vars PROVE Sound'
    OBVIOUS
  <1>1. TypeOK'
    BY NextTypes DEF Sound
  <1>2. ASSUME SessionKept, \A x \in Requests : SoundCall(x)' PROVE Sound'
    BY <1>1, <1>2, LoginsKept DEF Sound
  <1>3. ASSUME NEW r \in Requests, Start(r) \/ EnvelopeEnds(r) PROVE Sound'
    <2>1. SessionKept
      BY <1>3 DEF Start, EnvelopeEnds, SessionKept
    <2> QED
      BY <1>2, <1>3, <2>1, StartSound
  <1>4. ASSUME NEW r \in Requests, NEW n \in Requests, HandlerCalls(r, n) PROVE Sound'
    <2>1. SessionKept
      BY <1>4 DEF HandlerCalls, SessionKept
    <2> QED
      BY <1>2, <1>4, <2>1, HandlerCallsSound
  <1>5. ASSUME NEW r \in Requests, Timeout(r) PROVE Sound'
    <2>1. SessionKept
      BY <1>5 DEF Timeout, SessionKept
    <2> QED
      BY <1>2, <1>5, <2>1, TimeoutSound
  <1>6. ASSUME NEW r \in Requests, Deliver(r) PROVE Sound'
    <2>1. SessionKept
      BY <1>6 DEF Deliver, SessionKept
    <2> QED
      BY <1>2, <1>6, <2>1, DeliverSound
  <1>7. ASSUME NEW v \in accepted, Revoke(v) PROVE Sound'
    <2>1. SessionKept
      BY <1>7 DEF Revoke, SessionKept
    <2> QED
      BY <1>2, <1>7, <2>1, RevokeSound
  <1>8. ASSUME NEW r \in Requests, Acquire(r) PROVE Sound'
    <2>1. SessionKept
      BY <1>8 DEF Acquire, SessionKept
    <2> QED
      BY <1>2, <1>8, <2>1, AcquireSound
  <1>9. ASSUME NEW r \in Requests, Snapshot(r) PROVE Sound'
    <2>1. SessionKept
      BY <1>9 DEF Snapshot, SessionKept
    <2> QED
      BY <1>2, <1>9, <2>1, SnapshotSound
  <1>10. ASSUME NEW r \in Requests, Attempt(r) PROVE Sound'
    <2>1. SessionKept
      BY <1>10 DEF Attempt, AttemptSucceeds, AttemptTerminal, AttemptTransient,
         AttemptRejected, SessionKept
    <2> QED
      BY <1>2, <1>10, <2>1, AttemptSound
  <1>11. ASSUME NEW r \in Requests, BackoffEnds(r) PROVE Sound'
    <2>1. SessionKept
      BY <1>11 DEF BackoffEnds, SessionKept
    <2> QED
      BY <1>2, <1>11, <2>1, BackoffEndsSound
  <1>12. ASSUME NEW r \in Requests, Refresh(r) PROVE Sound'
    <2>1. CASE RefreshEnter(r) \/ RefreshGate(r)
      <3>1. SessionKept
        BY <2>1 DEF RefreshEnter, RefreshGate, SessionKept
      <3> QED
        BY <1>2, <2>1, <3>1, RefreshEnterSound, RefreshGateSound
    <2> QED
      BY <1>12, <2>1, LoginSucceedsSound, LoginFailsSound DEF Refresh
  <1>13. CASE UNCHANGED vars
    <2>1. SessionKept /\ \A x \in Requests : SameCall(x)
      BY <1>13 DEF SessionKept, SameCall, vars, calls
    <2> QED
      BY <1>2, <2>1, CallKept DEF Sound
  <1> QED
    BY <1>3, <1>4, <1>5, <1>6, <1>7, <1>8, <1>9, <1>10, <1>11, <1>12, <1>13 DEF Next, Step

\* The books of the session token and of every call agree, at every await, with what
\* was rejected, delivered and logged in (auth/session.rs, mdds/macros.rs).
THEOREM RequestsSound == SafetySpec => []Sound
  BY InitSound, NextSound, PTL DEF SafetySpec

\* SessionToken::refresh logs in only for a token the server has rejected.
THEOREM LoginsAreJustified == SafetySpec => []LoginsAreCalledFor
  <1>1. Sound => LoginsAreCalledFor
    BY DEF Sound
  <1> QED
    BY <1>1, RequestsSound, PTL

\* SessionToken::refresh makes one login for all requests that wait for it, whether it
\* succeeds or fails, for any number of requests and deadlines.
THEOREM RefreshesCoalesce == SafetySpec => []OneLoginPerBurst
  <1>1. Sound => OneLoginPerBurst
    BY DEF Sound
  <1> QED
    BY <1>1, RequestsSound, PTL

\* A coalesced failure (coalesced_refresh_error) belongs to the token the request was
\* refused and to a login that ended during its own refresh.
THEOREM CoalescedFailuresAreOwn == SafetySpec => []FailuresAreOwn
  <1>1. Sound => FailuresAreOwn
    BY DEF Sound, SoundCall, Promised, FailuresAreOwn
  <1> QED
    BY <1>1, RequestsSound, PTL

\* run_streaming_retry_loop never hands a handler rows of two attempts.
THEOREM NothingIsDeliveredTwice == SafetySpec => []DeliveredOnce
  <1>1. Sound => DeliveredOnce
    BY DEF Sound, SoundCall, Promised, DeliveredOnce
  <1> QED
    BY <1>1, RequestsSound, PTL

\* Both retry loops keep to the attempt budget, plus one attempt after a refresh.
THEOREM RetriesAreBounded == SafetySpec => []AttemptsBounded
  <1>1. Sound => AttemptsBounded
    BY DEF Sound, SoundCall, Promised, AttemptsBounded
  <1> QED
    BY <1>1, RequestsSound, PTL

\* Both retry loops surface a rejection only after a second one or a delivery.
THEOREM RejectionsRecover == SafetySpec => []RejectionsAreRecovered
  <1>1. Sound => RejectionsAreRecovered
    BY DEF Sound, SoundCall, Promised, RejectionsAreRecovered
  <1> QED
    BY <1>1, RequestsSound, PTL

------------------------------------------------------------------------------
(* Permits, and the end of a call *)

\* A permit belongs to a call that was let in and is not over: none is lost and none kept.
PermitsAreHeld == \A r \in Requests : r \in holders <=> pc[r] \in Running \ {"permit"}

\* Only a streaming call has a handler, and a request made inside one is not streaming.
HandlersStream == \A n \in Nested : outer[n] \in Streaming \cup {NoOne}

NotBegun == \A r \in Requests : pc[r] \in {"idle", "permit"} => tries[r] = 0

Permits == PermitsAreHeld /\ HandlersStream /\ NotBegun

\* The guard of some step of a call holds.
CallsGoOn ==
    \E r \in Requests :
      \/ pc[r] \in {"snapshot", "backoff", "refresh", "login"}
      \/ pc[r] = "permit" /\ (Cardinality(holders) < pool \/ InDeliveryHandler(r))
      \/ pc[r] = "gate" /\ lock = NoOne
      \/ pc[r] = "attempt" /\ ~InHandler(r)

NeverStuck == (\E r \in Requests : pc[r] \in Running) => CallsGoOn

\* How far a call is from its end: the attempts that it may still make, its place in the
\* loop, and whether its handler and its envelope have still to be heard of.
TriesLeft(r) == Budget + 1 - tries[r]
Rank == [idle |-> 8, permit |-> 7, snapshot |-> 6, attempt |-> 5, refresh |-> 4,
         gate |-> 3, login |-> 2, backoff |-> 1]
Stage(r) == IF pc[r] \in DOMAIN Rank THEN Rank[pc[r]] ELSE 0
Unheard(r) ==
    (IF tries[r] \in rows[r] THEN 0 ELSE 1) + (IF expired[r] THEN 0 ELSE 1)

MeasuresAreNat ==
    \A r \in Requests : TriesLeft(r) \in Nat /\ Stage(r) \in Nat /\ Unheard(r) \in Nat

Stays(r) ==
    TriesLeft(r)' = TriesLeft(r) /\ Stage(r)' = Stage(r) /\ Unheard(r)' = Unheard(r)
Nearer(r) ==
    \/ TriesLeft(r)' < TriesLeft(r)
    \/ TriesLeft(r)' = TriesLeft(r) /\ Stage(r)' < Stage(r)
    \/ TriesLeft(r)' = TriesLeft(r) /\ Stage(r)' = Stage(r) /\ Unheard(r)' < Unheard(r)

\* A step brings some call nearer to its end and none further from it, or else the server
\* stops accepting a token.
Settles ==
    \/ /\ \E r \in Requests : Nearer(r)
       /\ \A r \in Requests : Nearer(r) \/ Stays(r)
    \/ /\ \A r \in Requests : Stays(r)
       /\ \E v \in accepted : v < MaxRevocations /\ accepted' = accepted \ {v}

Inside == Running \ {"permit"}

\* What a step of a call makes of it: it goes on, ends, tries again or is let in.
GoesOn(r) ==
    /\ pc[r] \in Inside /\ pc'[r] \in Inside /\ Stage(r)' < Stage(r)
    /\ tries'[r] = tries[r] /\ holders' = holders
Ended(r) ==
    /\ pc[r] \in Running /\ pc'[r] \in Outcomes
    /\ tries'[r] = tries[r] /\ holders' \in {holders \ {r}, holders}
    /\ pc[r] # "permit" => holders' = holders \ {r}
TriesAgain(r) ==
    /\ pc[r] \in Inside /\ pc'[r] = "snapshot"
    /\ tries'[r] = tries[r] + 1 /\ holders' = holders
LetIn(r) ==
    /\ pc[r] = "permit" /\ pc'[r] = "snapshot"
    /\ tries'[r] = 1 /\ holders' = holders \cup {r}

\* Each step of a call is one of these, and leaves the other calls alone.
LEMMA StepEffect ==
  ASSUME Sound, NEW r \in Requests, Step(r)
  PROVE  /\ \A x \in Requests : x # r => pc'[x] = pc[x] /\ tries'[x] = tries[x]
         /\ UNCHANGED <<rows, expired, outer>>
         /\ GoesOn(r) \/ Ended(r) \/ TriesAgain(r) \/ LetIn(r)
<1>0. /\ pc \in [Requests -> {"idle"} \cup Running \cup Outcomes]
      /\ tries \in [Requests -> Nat]
      /\ lastFailure \in Failures \cup {"none"}
  BY Zenon DEF Sound, TypeOK
<1>a. ASSUME NEW where \in Inside, pc[r] \in Inside, Goto(r, where), UNCHANGED <<tries, holders>>,
             <<pc[r], where>> \in {<<"snapshot", "attempt">>, <<"attempt", "backoff">>,
                                   <<"attempt", "refresh">>, <<"refresh", "gate">>,
                                   <<"gate", "login">>}
      PROVE  GoesOn(r) /\ \A x \in Requests : x # r => pc'[x] = pc[x] /\ tries'[x] = tries[x]
  <2>1. pc'[r] = where /\ \A x \in Requests : x # r => pc'[x] = pc[x]
    BY <1>0, <1>a, Zenon DEF Goto
  <2>2. Stage(r)' < Stage(r)
    BY <1>a, <2>1, SMT DEF Stage, Rank
  <2> QED
    BY <1>a, <2>1, <2>2, Zenon DEF GoesOn
<1>b. ASSUME NEW outcome \in Outcomes, pc[r] \in Running, Finish(r, outcome), UNCHANGED tries
      PROVE  Ended(r) /\ \A x \in Requests : x # r => pc'[x] = pc[x] /\ tries'[x] = tries[x]
  <2>1. pc'[r] = outcome /\ \A x \in Requests : x # r => pc'[x] = pc[x]
    BY <1>0, <1>b, Zenon DEF Finish, Goto
  <2> QED
    BY <1>b, <2>1, SMT DEF Finish, Ended
<1>c. ASSUME pc[r] \in Inside, Again(r)
      PROVE  TriesAgain(r) /\ \A x \in Requests : x # r => pc'[x] = pc[x] /\ tries'[x] = tries[x]
  BY <1>0, <1>c, SMT DEF Again, Goto, TriesAgain
<1>d. ASSUME pc[r] \in Inside, AfterRefresh(r)
      PROVE  /\ Ended(r) \/ TriesAgain(r)
             /\ \A x \in Requests : x # r => pc'[x] = pc[x] /\ tries'[x] = tries[x]
  <2>1. CASE Delivered(r)
    <3>1. Finish(r, "unauthenticated") /\ UNCHANGED tries
      BY <1>d, <2>1, Zenon DEF AfterRefresh
    <3>2. "unauthenticated" \in Outcomes /\ pc[r] \in Running
      BY <1>d, SMT DEF Outcomes, Inside
    <3> QED
      BY <1>b, <3>1, <3>2
  <2>2. CASE ~Delivered(r)
    <3>1. Again(r)
      BY <1>d, <2>2, Zenon DEF AfterRefresh
    <3> QED
      BY <1>c, <1>d, <3>1
  <2> QED
    BY <2>1, <2>2
<1>1. CASE Acquire(r)
  <2>1. pc[r] = "permit" /\ UNCHANGED <<rows, expired, outer>>
    BY <1>1, Zenon DEF Acquire
  <2>2. CASE Cardinality(holders) < pool /\ holders' = holders \cup {r} /\ Goto(r, "snapshot")
             /\ tries' = [tries EXCEPT ![r] = 1]
    BY <1>0, <2>1, <2>2, SMT DEF Goto, LetIn
  <2>3. CASE Goto(r, "reentrancy") /\ UNCHANGED <<holders, tries>>
    <3>1. pc'[r] = "reentrancy" /\ \A x \in Requests : x # r => pc'[x] = pc[x]
      BY <1>0, <2>3, Zenon DEF Goto
    <3>2. "reentrancy" \in Outcomes /\ "permit" \in Running
      BY SMT DEF Outcomes, Running
    <3> QED
      BY <2>1, <2>3, <3>1, <3>2, SMT DEF Ended
  <2> QED
    BY <1>1, <2>2, <2>3, Zenon DEF Acquire
<1>2. CASE Snapshot(r)
  <2>1. "snapshot" \in Inside /\ "attempt" \in Inside
    BY SMT DEF Inside, Running
  <2>2. /\ pc[r] = "snapshot" /\ Goto(r, "attempt")
        /\ UNCHANGED <<tries, holders, rows, expired, outer>>
    BY <1>2, Zenon DEF Snapshot
  <2> QED
    BY <1>a, <2>1, <2>2
<1>3. CASE Attempt(r)
  <2>1. pc[r] = "attempt" /\ UNCHANGED <<tries, rows, expired, outer>>
    BY <1>3, Zenon DEF Attempt, AttemptSucceeds, AttemptTerminal, AttemptTransient,
                       AttemptRejected, AttemptDone, calls
  <2>2. \/ \E outcome \in {"ok", "terminal", "transient", "unauthenticated"} : Finish(r, outcome)
        \/ \E where \in {"backoff", "refresh"} : Goto(r, where) /\ UNCHANGED holders
    BY <1>3, SMT DEF Attempt, AttemptSucceeds, AttemptTerminal, AttemptTransient,
                       AttemptRejected
  <2>3. CASE \E outcome \in {"ok", "terminal", "transient", "unauthenticated"} : Finish(r, outcome)
    <3>1. PICK outcome \in Outcomes : Finish(r, outcome)
      BY <2>3, SMT DEF Outcomes
    <3>2. pc[r] \in Running
      BY <2>1, SMT DEF Running
    <3> QED
      BY <1>b, <2>1, <3>1, <3>2
  <2>4. CASE \E where \in {"backoff", "refresh"} : Goto(r, where) /\ UNCHANGED holders
    <3>1. PICK where \in {"backoff", "refresh"} : Goto(r, where) /\ UNCHANGED holders
      BY <2>4
    <3>2. where \in Inside /\ pc[r] \in Inside
      BY <2>1, SMT DEF Inside, Running
    <3> QED
      BY <1>a, <2>1, <3>1, <3>2
  <2> QED
    BY <2>2, <2>3, <2>4
<1>4. CASE BackoffEnds(r)
  <2>1. pc[r] = "backoff" /\ UNCHANGED <<rows, expired, outer>>
        /\ ((Finish(r, "transient") /\ UNCHANGED tries) \/ Again(r))
    BY <1>4, Zenon DEF BackoffEnds
  <2>2. pc[r] \in Inside /\ pc[r] \in Running /\ "transient" \in Outcomes
    BY <2>1, SMT DEF Inside, Running, Outcomes
  <2> QED
    BY <1>b, <1>c, <2>1, <2>2
<1>5. CASE Refresh(r)
  <2>0. {"refresh", "gate", "login"} \subseteq Inside
    BY SMT DEF Inside, Running
  <2>1. CASE RefreshEnter(r)
    <3>1. pc[r] = "refresh" /\ UNCHANGED <<rows, expired, outer>>
          /\ (AfterRefresh(r) \/ (Goto(r, "gate") /\ UNCHANGED <<tries, holders>>))
      BY <2>1, Zenon DEF RefreshEnter
    <3> QED
      BY <1>a, <1>d, <2>0, <3>1
  <2>2. CASE RefreshGate(r)
    <3>1. pc[r] = "gate" /\ UNCHANGED <<rows, expired, outer>>
          /\ \/ AfterRefresh(r)
             \/ Finish(r, CoalescedError) /\ UNCHANGED tries
             \/ Goto(r, "login") /\ UNCHANGED <<tries, holders>>
      BY <2>2, Zenon DEF RefreshGate
    <3>2. CoalescedError \in Outcomes /\ pc[r] \in Running
      BY <1>0, <2>0, <3>1, SMT DEF CoalescedError, Failures, Outcomes, Inside
    <3>3. pc[r] \in Inside
      BY <2>0, <3>1
    <3> QED
      BY <1>a, <1>b, <1>d, <2>0, <3>1, <3>2, <3>3
  <2>3. CASE LoginSucceeds(r)
    <3>1. pc[r] = "login" /\ AfterRefresh(r) /\ UNCHANGED <<rows, expired, outer>>
      BY <2>3, Zenon DEF LoginSucceeds, LoginDone
    <3> QED
      BY <1>d, <2>0, <3>1
  <2>4. CASE LoginFails(r)
    <3>1. pc[r] = "login" /\ UNCHANGED <<rows, expired, outer, tries>>
          /\ \E kind \in Failures : Finish(r, kind)
      BY <2>4, Zenon DEF LoginFails, LoginDone, calls
    <3>2. PICK kind \in Failures : Finish(r, kind)
      BY <3>1
    <3>3. kind \in Outcomes /\ pc[r] \in Running
      BY <2>0, <3>1, SMT DEF Outcomes, Inside
    <3> QED
      BY <1>b, <3>1, <3>2, <3>3
  <2> QED
    BY <1>5, <2>1, <2>2, <2>3, <2>4, Zenon DEF Refresh
<1> QED
  BY <1>1, <1>2, <1>3, <1>4, <1>5, Zenon DEF Step

\* A new client has let nobody in.
LEMMA PermitsFirst == Init => Permits
<1> SUFFICES ASSUME Init PROVE Permits
  OBVIOUS
<1>1. "idle" \notin Running
  BY SMT DEF Running
<1>2. PermitsAreHeld /\ NotBegun
  BY <1>1, Zenon DEF Init, PermitsAreHeld, NotBegun
<1>3. HandlersStream
  BY RequestsAssumption, Zenon DEF Init, HandlersStream
<1> QED
  BY <1>2, <1>3 DEF Permits

\* The deadline drops a call, and with it the call that its handler awaits.
LEMMA TimeoutEffect ==
  ASSUME Sound, NEW r \in Requests, Timeout(r)
  PROVE  /\ pc[r] \in Running /\ pc'[r] = "timeout"
         /\ \A x \in Requests : \/ pc'[x] = pc[x] /\ (x \in holders' <=> x \in holders)
                                \/ pc[x] \in Running /\ pc'[x] = "timeout" /\ x \notin holders'
         /\ UNCHANGED <<tries, rows, expired, outer>>
<1> DEFINE dropped == {r} \cup {n \in Nested : outer[n] = r /\ pc[n] \in Running}
<1>1. /\ pc[r] \in Running
      /\ pc' = [x \in Requests |-> IF x \in dropped THEN "timeout" ELSE pc[x]]
      /\ holders' = holders \ dropped
      /\ UNCHANGED <<tries, rows, expired, outer>>
  BY Zenon DEF Timeout, calls
<1>2. r \in dropped /\ \A x \in dropped : pc[x] \in Running
  BY <1>1
<1> HIDE DEF dropped
<1> QED
  BY <1>1, <1>2, Zenon

\* Steps that are not part of a loop: calls begin, rows arrive, envelopes run out.
LEMMA OtherEffect ==
  ASSUME Sound, NEW r \in Requests,
         \/ Start(r) \/ Deliver(r) \/ EnvelopeEnds(r) \/ \E n \in Requests : HandlerCalls(n, r)
  PROVE  /\ \A x \in Requests : x # r => pc'[x] = pc[x] /\ rows'[x] = rows[x]
                                         /\ expired'[x] = expired[x] /\ outer'[x] = outer[x]
         /\ UNCHANGED <<tries, holders>>
         /\ \/ /\ pc[r] = "idle" /\ pc'[r] = "permit" /\ UNCHANGED <<rows, expired>>
               /\ outer'[r] = outer[r] \/ outer'[r] \in Streaming
            \/ /\ UNCHANGED <<pc, outer, expired>>
               /\ tries[r] \notin rows[r] /\ tries[r] \in rows'[r]
            \/ /\ UNCHANGED <<pc, outer, rows>>
               /\ ~expired[r] /\ expired'[r]
<1>0. /\ pc \in [Requests -> {"idle"} \cup Running \cup Outcomes]
      /\ outer \in [Requests -> Requests \cup {NoOne}]
      /\ rows \in [Requests -> SUBSET Nat]
      /\ expired \in [Requests -> BOOLEAN]
      /\ tries \in [Requests -> Nat]
  BY Zenon DEF Sound, TypeOK
<1>1. CASE Start(r)
  BY <1>0, <1>1, Zenon DEF Start, Goto, calls
<1>2. CASE Deliver(r)
  BY <1>0, <1>2, Zenon DEF Deliver
<1>3. CASE EnvelopeEnds(r)
  BY <1>0, <1>3, Zenon DEF EnvelopeEnds
<1>4. CASE \E n \in Requests : HandlerCalls(n, r)
  BY <1>0, <1>4, Zenon DEF HandlerCalls, Goto
<1> QED
  BY <1>1, <1>2, <1>3, <1>4

\* And so it stays: a permit goes to the call that is let in, and back with its end.
LEMMA PermitsStay ==
  ASSUME Sound, Permits, [Next]_vars
  PROVE  Permits'
<1>0. PermitsAreHeld /\ HandlersStream /\ NotBegun
  BY DEF Permits
<1>a. \A s : s \in Outcomes => s \notin Running /\ s \notin {"idle", "permit"}
  BY SMT DEF Outcomes, Failures, Running
<1>b. /\ "snapshot" \in Inside /\ "permit" \in Running /\ "idle" \notin Running
      /\ "timeout" \in Outcomes
      /\ "snapshot" \notin {"idle", "permit"} /\ "permit" \notin Inside
      /\ \A s : s \in Inside => s \in Running /\ s \notin {"idle", "permit"}
  BY SMT DEF Inside, Running, Outcomes
<1>c. \A r \in Requests : r \in holders <=> pc[r] \in Inside
  BY <1>0, Zenon DEF PermitsAreHeld, Inside
<1>d. ASSUME \A r \in Requests : r \in holders' <=> pc'[r] \in Inside PROVE PermitsAreHeld'
  BY <1>d, Zenon DEF PermitsAreHeld, Inside
<1>1. ASSUME NEW r \in Requests, Step(r) PROVE Permits'
  <2>1. /\ \A x \in Requests : x # r => pc'[x] = pc[x] /\ tries'[x] = tries[x]
        /\ outer' = outer
        /\ GoesOn(r) \/ Ended(r) \/ TriesAgain(r) \/ LetIn(r)
    BY <1>1, StepEffect
  <2>2. /\ r \in holders' <=> pc'[r] \in Inside
        /\ \A x \in Requests : x # r => (x \in holders' <=> x \in holders)
        /\ pc'[r] \notin {"idle", "permit"}
    <3>1. CASE GoesOn(r)
      BY <1>b, <1>c, <3>1, Zenon DEF GoesOn
    <3>2. CASE Ended(r)
      <4>1. pc'[r] \notin Inside /\ pc'[r] \notin {"idle", "permit"}
        BY <1>a, <1>b, <3>2, Zenon DEF Ended
      <4>2. r \notin holders'
        <5>1. CASE pc[r] = "permit"
          BY <1>b, <1>c, <3>2, <5>1, SMT DEF Ended
        <5>2. CASE pc[r] # "permit"
          BY <3>2, <5>2, SMT DEF Ended
        <5> QED
          BY <5>1, <5>2
      <4> QED
        BY <3>2, <4>1, <4>2, SMT DEF Ended
    <3>3. CASE TriesAgain(r)
      BY <1>b, <1>c, <3>3, Zenon DEF TriesAgain
    <3>4. CASE LetIn(r)
      BY <1>b, <1>c, <3>4, SMT DEF LetIn
    <3> QED
      BY <2>1, <3>1, <3>2, <3>3, <3>4
  <2>3. PermitsAreHeld'
    BY <1>c, <1>d, <2>1, <2>2, Zenon
  <2>4. HandlersStream' /\ NotBegun'
    BY <1>0, <2>1, <2>2, Zenon DEF HandlersStream, NotBegun
  <2> QED
    BY <2>3, <2>4 DEF Permits
<1>2. ASSUME NEW r \in Requests, Timeout(r) PROVE Permits'
  <2>1. /\ \A x \in Requests : \/ pc'[x] = pc[x] /\ (x \in holders' <=> x \in holders)
                               \/ pc'[x] = "timeout" /\ x \notin holders'
        /\ UNCHANGED <<tries, outer>>
    BY <1>2, TimeoutEffect
  <2>2. "timeout" \notin Inside /\ "timeout" \notin {"idle", "permit"}
    BY <1>a, <1>b, Zenon
  <2>3. PermitsAreHeld'
    BY <1>c, <1>d, <2>1, <2>2, Zenon
  <2>4. HandlersStream' /\ NotBegun'
    BY <1>0, <2>1, <2>2, Zenon DEF HandlersStream, NotBegun
  <2> QED
    BY <2>3, <2>4 DEF Permits
<1>3. ASSUME NEW r \in Requests,
             \/ Start(r) \/ Deliver(r) \/ EnvelopeEnds(r)
             \/ \E n \in Requests : HandlerCalls(n, r)
      PROVE  Permits'
  <2>1. /\ \A x \in Requests : x # r => pc'[x] = pc[x] /\ outer'[x] = outer[x]
        /\ UNCHANGED <<tries, holders>>
        /\ outer'[r] = outer[r] \/ outer'[r] \in Streaming
        /\ pc'[r] = pc[r] \/ (pc[r] = "idle" /\ pc'[r] = "permit")
    BY <1>3, OtherEffect
  <2>2. "idle" \notin Inside
    BY <1>b, Zenon
  <2>3. PermitsAreHeld'
    BY <1>b, <1>c, <1>d, <2>1, <2>2, Zenon
  <2>4. Nested \subseteq Requests
    BY RequestsAssumption
  <2>5. HandlersStream'
    BY <1>0, <2>1, <2>4, Zenon DEF HandlersStream
  <2>6. NotBegun'
    BY <1>0, <2>1, SMT DEF NotBegun
  <2> QED
    BY <2>3, <2>5, <2>6 DEF Permits
<1>4. CASE UNCHANGED <<pc, holders, outer, tries>>
  BY <1>0, <1>4, Zenon DEF Permits, PermitsAreHeld, HandlersStream, NotBegun
<1>5. ASSUME NEW v \in accepted, Revoke(v) PROVE UNCHANGED <<pc, holders, outer, tries>>
  BY <1>5, Zenon DEF Revoke, calls
<1>6. CASE UNCHANGED vars
  BY <1>4, <1>6, Zenon DEF vars, calls
<1> QED
  BY <1>1, <1>2, <1>3, <1>4, <1>5, <1>6, Zenon DEF Next

\* While a call runs, a call may go on: the permits are with calls that have one, the lock
\* is with a login, and the handler that a stream waits for makes a request that never
\* waits for a permit and has no handler.
LEMMA CallsAreNeverStuck == Sound /\ Permits => NeverStuck
<1> SUFFICES ASSUME Sound, Permits, NEW r \in Requests, pc[r] \in Running, ~CallsGoOn PROVE FALSE
  BY Zenon DEF NeverStuck
<1>0. TypeOK /\ PermitsAreHeld /\ HandlersStream
  BY DEF Sound, Permits
<1>1. \A x \in Requests : pc[x] \notin {"snapshot", "backoff", "refresh", "login"}
  BY Zenon DEF CallsGoOn
<1>2. lock = NoOne
  BY <1>0, <1>1, SMT DEF TypeOK
<1>3. \A x \in Requests : pc[x] # "gate"
  BY <1>2, Zenon DEF CallsGoOn
<1>4. \A x \in Requests : pc[x] \in Running => pc[x] \in {"permit", "attempt"}
  BY <1>1, <1>3, SMT DEF Running
<1>5. \A x \in Requests : pc[x] = "attempt" => x \notin Nested
  <2> SUFFICES ASSUME NEW x \in Nested, x \in Requests, pc[x] = "attempt" PROVE FALSE
    OBVIOUS
  <2>1. InHandler(x)
    BY Zenon DEF CallsGoOn
  <2>2. PICK n \in Nested : outer[n] = x
    BY <2>1, Zenon DEF InHandler
  <2>3. x \in Streaming \/ x = NoOne
    BY <1>0, <2>2, Zenon DEF HandlersStream
  <2> QED
    BY <2>3, RequestsAssumption
<1>6. \A x \in Nested : pc[x] \notin Running
  <2> SUFFICES ASSUME NEW x \in Nested, pc[x] \in Running PROVE FALSE
    OBVIOUS
  <2>1. x \in Requests
    BY RequestsAssumption
  <2>2. pc[x] = "permit"
    BY <1>4, <1>5, <2>1
  <2> QED
    BY <2>1, <2>2, Zenon DEF CallsGoOn, InDeliveryHandler
<1>7. \A x \in Requests : pc[x] # "attempt"
  BY <1>6, Zenon DEF CallsGoOn, InHandler
<1>8. holders = {}
  <2>1. \A x \in Requests : pc[x] \notin Running \ {"permit"}
    BY <1>4, <1>7, SMT
  <2> QED
    BY <1>0, <2>1, Zenon DEF PermitsAreHeld, TypeOK
<1>9. Cardinality(holders) < pool
  BY <1>0, <1>8, FS_EmptySet, RequestsAssumption, SMT DEF TypeOK
<1> QED
  BY <1>4, <1>7, <1>9, Zenon DEF CallsGoOn

\* A permit is with a call that was let in and is not over, and with no other: an error, a
\* retry, a refresh or a dropped call neither loses nor keeps one (mdds/client.rs:338-362).
THEOREM PermitsAreReturned == SafetySpec => []PermitsAreHeld
<1>1. Permits => PermitsAreHeld
  BY DEF Permits
<1> QED
  BY <1>1, InitSound, NextSound, PermitsFirst, PermitsStay, PTL DEF SafetySpec

\* While a call runs some call may go on, with a pool of any size, whatever handlers ask for
\* and whatever is dropped (mdds/client.rs:338-347).
THEOREM CallsNeverDeadlock == SafetySpec => []NeverStuck
BY InitSound, NextSound, PermitsFirst, PermitsStay, CallsAreNeverStuck, PTL DEF SafetySpec

\* The measures are numbers.
LEMMA SoundMeasures == Sound => MeasuresAreNat
<1> SUFFICES ASSUME Sound, NEW r \in Requests
             PROVE  TriesLeft(r) \in Nat /\ Stage(r) \in Nat /\ Unheard(r) \in Nat
  BY Zenon DEF MeasuresAreNat
<1>1. TriesLeft(r) \in Nat
  <2>1. tries[r] \in Nat /\ Budget \in Nat
    BY RequestsAssumption, SMT DEF Sound, TypeOK, Budget
  <2>2. tries[r] <= Budget + 1
    <3>1. tries[r] <= Budget + (IF refreshed[r] THEN 1 ELSE 0)
      BY Zenon DEF Sound, SoundCall, Promised
    <3> QED
      BY <2>1, <3>1, SMT
  <2> QED
    BY <2>1, <2>2, SMT DEF TriesLeft
<1>2. Stage(r) \in Nat
  BY SMT DEF Stage, Rank
<1>3. Unheard(r) \in Nat
  BY SMT DEF Unheard
<1> QED
  BY <1>1, <1>2, <1>3

\* A call that is over is at its last stage, and any other is not.
LEMMA Stages ==
  ASSUME NEW r \in Requests
  PROVE  /\ pc[r] \in Running => Stage(r) > 0
         /\ pc'[r] \in Outcomes => Stage(r)' = 0
<1>1. pc[r] \in Running => Stage(r) > 0
  BY SMT DEF Stage, Rank, Running
<1>2. pc'[r] \in Outcomes => Stage(r)' = 0
  BY SMT DEF Stage, Rank, Outcomes, Failures
<1> QED
  BY <1>1, <1>2

LEMMA StepSettles ==
  ASSUME Sound, Permits, [Next]_vars
  PROVE  [Settles]_vars
<1>a. \A r \in Requests : tries[r] \in Nat /\ Budget \in Nat
  BY RequestsAssumption, SMT DEF Sound, TypeOK, Budget
<1>b. ASSUME NEW r \in Requests, pc'[r] = pc[r], tries'[r] = tries[r], rows'[r] = rows[r],
             expired'[r] = expired[r]
      PROVE  Stays(r)
  BY <1>b, Zenon DEF Stays, TriesLeft, Stage, Unheard
<1>c. ASSUME NEW r \in Requests, tries'[r] = tries[r], Stage(r)' < Stage(r) PROVE Nearer(r)
  BY <1>c, Zenon DEF Nearer, TriesLeft
<1>d. ASSUME NEW r \in Requests, Nearer(r), \A x \in Requests : x # r => Stays(x)
      PROVE  Settles
  BY <1>d, Zenon DEF Settles
<1>1. ASSUME NEW r \in Requests, Step(r) PROVE Settles
  <2>1. /\ \A x \in Requests : x # r => pc'[x] = pc[x] /\ tries'[x] = tries[x]
        /\ UNCHANGED <<rows, expired>>
        /\ GoesOn(r) \/ Ended(r) \/ TriesAgain(r) \/ LetIn(r)
    BY <1>1, StepEffect
  <2>2. \A x \in Requests : x # r => Stays(x)
    BY <1>b, <2>1
  <2>3. ASSUME GoesOn(r) PROVE Nearer(r)
    BY <1>c, <2>3, Zenon DEF GoesOn
  <2>4. ASSUME Ended(r) PROVE Nearer(r)
    <3>1. Stage(r) > 0 /\ Stage(r)' = 0
      BY <2>4, Stages, Zenon DEF Ended
    <3>2. Stage(r)' < Stage(r)
      BY <3>1
    <3> QED
      BY <1>c, <2>4, <3>2, Zenon DEF Ended
  <2>5. ASSUME TriesAgain(r) \/ LetIn(r) PROVE Nearer(r)
    <3>1. tries'[r] = tries[r] + 1
      <4>1. pc[r] = "permit" => tries[r] = 0
        BY SMT DEF Permits, NotBegun
      <4> QED
        BY <1>a, <2>5, <4>1, SMT DEF TriesAgain, LetIn
    <3>2. TriesLeft(r)' = Budget + 1 - (tries[r] + 1)
      BY <3>1, Zenon DEF TriesLeft, Budget
    <3>3. TriesLeft(r)' < TriesLeft(r)
      BY <1>a, <3>2, SMT DEF TriesLeft
    <3> QED
      BY <3>3, Zenon DEF Nearer
  <2> QED
    BY <1>d, <2>1, <2>2, <2>3, <2>4, <2>5
<1>2. ASSUME NEW r \in Requests, Timeout(r) PROVE Settles
  <2>1. /\ pc[r] \in Running /\ pc'[r] = "timeout"
        /\ \A x \in Requests : pc'[x] = pc[x] \/ (pc[x] \in Running /\ pc'[x] = "timeout")
        /\ UNCHANGED <<tries, rows, expired>>
    BY <1>2, TimeoutEffect
  <2>2. ASSUME NEW x \in Requests, pc[x] \in Running, pc'[x] = "timeout" PROVE Nearer(x)
    <3>1. Stage(x) > 0 /\ Stage(x)' = 0
      BY <2>2, Stages, SMT DEF Outcomes
    <3> QED
      BY <1>c, <2>1, <3>1
  <2>3. \A x \in Requests : Nearer(x) \/ Stays(x)
    BY <1>b, <2>1, <2>2
  <2> QED
    BY <2>1, <2>2, <2>3, Zenon DEF Settles
<1>3. ASSUME NEW r \in Requests,
             \/ Start(r) \/ Deliver(r) \/ EnvelopeEnds(r)
             \/ \E n \in Requests : HandlerCalls(n, r)
      PROVE  Settles
  <2>1. /\ \A x \in Requests : x # r => pc'[x] = pc[x] /\ rows'[x] = rows[x]
                                        /\ expired'[x] = expired[x]
        /\ UNCHANGED tries
        /\ \/ pc[r] = "idle" /\ pc'[r] = "permit"
           \/ UNCHANGED <<pc, expired>> /\ tries[r] \notin rows[r] /\ tries[r] \in rows'[r]
           \/ UNCHANGED <<pc, rows>> /\ ~expired[r] /\ expired'[r]
    BY <1>3, OtherEffect
  <2>2. \A x \in Requests : x # r => Stays(x)
    BY <1>b, <2>1
  <2>3. CASE pc[r] = "idle" /\ pc'[r] = "permit"
    <3>1. Stage(r)' < Stage(r)
      BY <2>3, SMT DEF Stage, Rank
    <3> QED
      BY <1>c, <1>d, <2>1, <2>2, <3>1
  <2>4. CASE UNCHANGED pc /\ Unheard(r)' < Unheard(r)
    <3>1. Stage(r)' = Stage(r) /\ TriesLeft(r)' = TriesLeft(r)
      BY <2>1, <2>4, Zenon DEF Stage, TriesLeft
    <3> QED
      BY <1>d, <2>2, <2>4, <3>1, Zenon DEF Nearer
  <2>5. CASE UNCHANGED <<pc, expired>> /\ tries[r] \notin rows[r] /\ tries[r] \in rows'[r]
    <3>1. Unheard(r)' < Unheard(r)
      BY <2>1, <2>5, SMT DEF Unheard
    <3> QED
      BY <2>4, <2>5, <3>1
  <2>6. CASE UNCHANGED <<pc, rows>> /\ ~expired[r] /\ expired'[r]
    <3>1. Unheard(r)' < Unheard(r)
      BY <2>1, <2>6, SMT DEF Unheard
    <3> QED
      BY <2>4, <2>6, <3>1
  <2> QED
    BY <2>1, <2>3, <2>5, <2>6
<1>4. ASSUME NEW v \in accepted, Revoke(v) PROVE Settles
  <2>1. UNCHANGED <<pc, tries, rows, expired>> /\ v < MaxRevocations /\ accepted' = accepted \ {v}
    BY <1>4, Zenon DEF Revoke, calls
  <2> QED
    BY <1>b, <2>1, Zenon DEF Settles
<1> QED
  BY <1>1, <1>2, <1>3, <1>4, Zenon DEF Next

\* Every step but a revocation brings some call nearer to its end and none further from it:
\* attempts run out, whichever of the budgets, the refreshes and the deadline ends them
\* (mdds/macros.rs:331-350, 483-492).
THEOREM CallsSettle == SafetySpec => []MeasuresAreNat /\ [][Settles]_vars
<1>1. Sound => MeasuresAreNat
  BY SoundMeasures
<1>2. Sound /\ Permits /\ [Next]_vars => [Settles]_vars
  BY StepSettles
<1> QED
  BY <1>1, <1>2, InitSound, NextSound, PermitsFirst, PermitsStay, PTL DEF SafetySpec

==============================================================================
