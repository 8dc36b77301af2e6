----------------------- MODULE ClientLifecycleProofs -----------------------
(***************************************************************************)
(* Theorems about ClientLifecycle, for any users, streams and numbers of   *)
(* sessions and calls: whose a session is, what a drain and a reconnect    *)
(* promise, and that calls do not wait for one another in a circle.        *)
(***************************************************************************)
EXTENDS ClientLifecycle, FiniteSetTheorems, WellFoundedInduction, TLAPS

(* The strengthening *)

\* A client is in the hands of a teardown only between the swap and the shutdown, and
\* it is never again the one in the slot.
ClientsHeld ==
    /\ \A a \in Agents : client[a] # None => pc[a] \in {"extract", "shutdown"}
    /\ \A a \in Agents : client[a] # None => client[a] # live
    /\ \A a, b \in Agents : pc[a] = "install" => client[b] # made
    /\ \A a \in Agents : pc[a] = "report" => handle[a] # None /\ Over(handle[a])

\* The gate is closed for the session being installed, and for no other.
Gated ==
    /\ \A n \in Sessions : thread[n] = "gated" =>
         n = made /\ \E a \in Agents : pc[a] \in {"install", "publish"}
    /\ \A a \in Agents :
         pc[a] \in {"install", "publish"} => made # None /\ thread[made] = "gated"

\* The dispatcher session is that of session n, or of none.
IsOf(n) ==
    /\ n # None => session.is # "Idle" /\ session.of = n
    /\ session.is = "Running" => n # None /\ session.of = n

SlotAgrees ==
    /\ MutexFree => IsOf(live)
    /\ \A a \in Agents : pc[a] = "extract" => live = None /\ IsOf(client[a])
    /\ \A a \in Agents : pc[a] = "install" => live = None /\ session.is # "Running"
    /\ \A a \in Agents : pc[a] = "publish" => live = made /\ session.is # "Running"

FailedIsOver == session.is = "Failed" => session.of # None /\ Over(session.of)

Published(n) == kind[n] = "columnar" /\ thread[n] # "gated"

GenerationsMove ==
    /\ \A n \in Sessions : owned[n] <= generation
    /\ ReadersOwn
    /\ \A n \in 1..made : \A a \in Agents :
         InMutex(a) /\ Published(n) => owned[n] # generation

Quiet(n) == thread[n] \in {"failing", "ended", "panicked"}

DrainsAreWatched ==
    /\ \A n \in drained : Over(n)
    /\ \A n \in retired :
         kind[n] = "callback" => n \in registered \/ n \in drained \/ Quiet(n)
    /\ \A n \in assured : kind[n] = "callback" => Quiet(n)

ReconnectsRemember ==
    /\ \A a \in Agents : pc[a] # "restore" => owed[a] \subseteq saved[a]
    /\ ReconnectKeepsSubscriptions

Sound ==
    /\ TypeOK
    /\ ClientsHeld
    /\ Gated
    /\ SlotAgrees
    /\ FailedIsOver
    /\ GenerationsMove
    /\ NoOrphans
    /\ DrainsAreWatched
    /\ ReconnectsRemember

------------------------------------------------------------------------------
(* What the larger actions change, point by point *)

LEMMA DispatcherMoves ==
  ASSUME Sound, NEW n \in Sessions,
         \/ CallbackBegins(n) \/ CallbackReturns(n) \/ DispatcherEnds(n)
         \/ DispatcherFails(n) \/ RecordFailed(n)
  PROVE  /\ thread[n] \in {"draining", "callback", "failing"}
         /\ thread'[n] \notin {"none", "gated"}
         /\ thread[n] = "failing" => thread'[n] \in {"ended", "panicked"}
         /\ thread'[n] = "callback" => thread[n] = "draining" /\ kind[n] = "callback"
         /\ \A m \in Sessions : m # n => thread'[m] = thread[m]
         /\ UNCHANGED <<live, generation, holder, registered, made, kind, readers, owned,
                        drained, tracked, frames, history>>
  <1> USE DEF Sound, TypeOK, ClientTypes, ThreadChanges, OtherwiseUnchanged
  <1>1. CASE CallbackBegins(n)
    BY <1>1 DEF CallbackBegins
  <1>2. CASE CallbackReturns(n)
    BY <1>2 DEF CallbackReturns
  <1>3. CASE DispatcherEnds(n)
    BY <1>3 DEF DispatcherEnds
  <1>4. CASE DispatcherFails(n)
    BY <1>4 DEF DispatcherFails
  <1>5. CASE RecordFailed(n)
    BY <1>5 DEF RecordFailed
  <1> QED
    BY <1>1, <1>2, <1>3, <1>4, <1>5

LEMMA RecordEffect ==
  ASSUME Sound, NEW n \in Sessions, RecordFailed(n)
  PROVE  /\ holder = None
         /\ thread[n] = "failing" /\ Over(n)'
         /\ \/ session' = session
            \/ /\ session.is = "Running" /\ session.of = n
               /\ session'.is = "Failed" /\ session'.of = n
         /\ UNCHANGED up
  <1>1. thread \in [Sessions -> Threads]
    BY DEF Sound, TypeOK, ClientTypes
  <1>2. Over(n)'
    BY <1>1 DEF RecordFailed, ThreadChanges, Over
  <1> QED
    BY <1>2 DEF RecordFailed, ThreadChanges, OtherwiseUnchanged, MutexFree

LEMMA CallEnds ==
  ASSUME Sound, NEW a \in Agents, Returns(a)
  PROVE  /\ pc'[a] = "idle" /\ \A b \in Agents : b # a => pc'[b] = pc[b]
         /\ saved'[a] = {} /\ \A b \in Agents : b # a => saved'[b] = saved[b]
         /\ owed'[a] = {} /\ \A b \in Agents : b # a => owed'[b] = owed[b]
         /\ failed'[a] = {} /\ \A b \in Agents : b # a => failed'[b] = failed[b]
         /\ \A b \in Agents : calm'[b] => calm[b]
         /\ pc' \in [Agents -> Places]
         /\ op' \in [Agents -> {"none", "stop", "close", "reconnect"} \cup Kinds]
         /\ target' \in [Agents -> 0..made]
         /\ saved' \in [Agents -> SUBSET Streams]
  <1> USE DEF Sound, TypeOK, CallTypes, HistoryTypes
  <1>1. 0 \in 0..made
    BY DEF ClientTypes, StateTypes
  <1> QED
    BY <1>1 DEF Returns, At, Places, None

LEMMA TeardownEnds ==
  ASSUME Sound, NEW a \in Agents, AfterTeardown(a)
  PROVE  /\ handle'[a] = None /\ \A b \in Agents : b # a => handle'[b] = handle[b]
         /\ pc'[a] \in {"idle", "lock"} /\ \A b \in Agents : b # a => pc'[b] = pc[b]
         /\ \A b \in Agents : b # a =>
              saved'[b] = saved[b] /\ owed'[b] = owed[b] /\ failed'[b] = failed[b]
         /\ \/ saved'[a] = saved[a] /\ owed'[a] = owed[a]
            \/ saved'[a] = {} /\ owed'[a] = {}
         /\ \A b \in Agents : calm'[b] => calm[b]
         /\ pc' \in [Agents -> Places]
         /\ op' \in [Agents -> {"none", "stop", "close", "reconnect"} \cup Kinds]
         /\ handle' \in [Agents -> 0..made]
         /\ target' \in [Agents -> 0..made]
         /\ saved' \in [Agents -> SUBSET Streams]
  <1> USE DEF Sound, TypeOK, CallTypes
  <1>1. 0 \in 0..made
    BY DEF ClientTypes, StateTypes
  <1>2. /\ handle' \in [Agents -> 0..made]
        /\ handle'[a] = None /\ \A b \in Agents : b # a => handle'[b] = handle[b]
    BY <1>1 DEF AfterTeardown, None
  <1>3. CASE op[a] = "reconnect"
    BY <1>2, <1>3 DEF AfterTeardown, At, Places, None
  <1>4. CASE op[a] # "reconnect"
    <2>1. Returns(a)
      BY <1>4 DEF AfterTeardown
    <2> QED
      BY <1>2, <2>1, CallEnds
  <1> QED
    BY <1>3, <1>4

LEMMA JoinEffect ==
  ASSUME Sound, NEW a \in Agents, Join(a)
  PROVE  /\ pc[a] = "join"
         /\ pc'[a] \in {"idle", "lock", "report"}
         /\ \A b \in Agents : b # a => pc'[b] = pc[b] /\ handle'[b] = handle[b]
         /\ pc'[a] = "report" =>
              handle'[a] = handle[a] /\ handle[a] # None /\ thread[handle[a]] = "panicked"
         /\ \A b \in Agents : b # a =>
              saved'[b] = saved[b] /\ owed'[b] = owed[b] /\ failed'[b] = failed[b]
         /\ \/ saved'[a] = saved[a] /\ owed'[a] = owed[a]
            \/ saved'[a] = {} /\ owed'[a] = {}
         /\ \A b \in Agents : calm'[b] => calm[b]
         /\ pc' \in [Agents -> Places]
         /\ op' \in [Agents -> {"none", "stop", "close", "reconnect"} \cup Kinds]
         /\ handle' \in [Agents -> 0..made]
         /\ target' \in [Agents -> 0..made]
         /\ saved' \in [Agents -> SUBSET Streams]
         /\ UNCHANGED <<state, clients, client, calls, retired, assured>>
  <1>1. pc[a] = "join" /\ UNCHANGED <<state, clients, client, calls, retired, assured>>
    BY DEF Join
  <1> DEFINE Panics == Joins(a) /\ thread[handle[a]] = "panicked"
  <1>2. CASE Panics
    BY <1>1, <1>2 DEF Join, Joins, At, Sound, TypeOK, CallTypes, Places
  <1>3. CASE ~Panics
    <2>1. AfterTeardown(a)
      BY <1>3 DEF Join
    <2> QED
      BY <1>1, <2>1, TeardownEnds
  <1> HIDE DEF Panics
  <1> QED
    BY <1>2, <1>3

LEMMA ConnectEffect ==
  ASSUME Sound, NEW a \in Agents, Connect(a)
  PROVE  /\ pc[a] = "lock" /\ pc'[a] = "install"
         /\ \A b \in Agents : b # a => pc'[b] = pc[b]
         /\ holder = None /\ holder' = a
         /\ live = None /\ made' = made + 1 /\ made' \in Sessions
         /\ kind'[made'] \in Kinds /\ \A m \in 1..made : kind'[m] = kind[m]
         /\ up'[made'] /\ \A m \in 1..made : up'[m] = up[m]
         /\ thread'[made'] = "gated"
         /\ \A m \in Sessions : m # made' => thread'[m] = thread[m]
         /\ 1..made \subseteq 1..made' /\ 0..made \subseteq 0..made'
         /\ made' \notin 1..made
         /\ UNCHANGED <<live, generation, session, registered, readers, owned, drained,
                        tracked, op, client, handle, target, saved, history>>
  <1>1. made' = made + 1 /\ made \in Nat /\ made < MaxSessions
    BY LifecycleAssumption DEF Connect, Sound, TypeOK, ClientTypes
  <1>2. /\ made' \in Sessions /\ made' \notin 1..made /\ 1..made \subseteq Sessions
        /\ 1..made \subseteq 1..made' /\ 0..made \subseteq 0..made'
    BY <1>1, LifecycleAssumption DEF Sessions
  <1>3. /\ kind'[made'] \in Kinds /\ \A m \in 1..made : kind'[m] = kind[m]
        /\ up'[made'] /\ \A m \in 1..made : up'[m] = up[m]
        /\ thread'[made'] = "gated"
        /\ \A m \in Sessions : m # made' => thread'[m] = thread[m]
    BY <1>1, <1>2 DEF Connect, Kinds, Sound, TypeOK, ClientTypes
  <1>4. /\ pc[a] = "lock" /\ pc'[a] = "install"
        /\ \A b \in Agents : b # a => pc'[b] = pc[b]
        /\ holder = None /\ holder' = a /\ live = None
        /\ UNCHANGED <<live, generation, session, registered, readers, owned, drained,
                       tracked, op, client, handle, target, saved, history>>
    BY DEF Connect, At, MutexFree, Sound, TypeOK, CallTypes
  <1> QED
    BY <1>1, <1>2, <1>3, <1>4

LEMMA PublishEffect ==
  ASSUME Sound, NEW a \in Agents, Publish(a)
  PROVE  /\ pc[a] = "publish" /\ pc'[a] \in {"idle", "restore"}
         /\ \A b \in Agents : b # a => pc'[b] = pc[b]
         /\ live \in Sessions /\ live = made /\ thread[live] = "gated"
         /\ session'.is = "Running" /\ session'.of = live
         /\ holder = a /\ holder' = None
         /\ thread'[live] = "draining"
         /\ \A m \in Sessions : m # live => thread'[m] = thread[m] /\ owned'[m] = owned[m]
         /\ owned'[live] \in {owned[live], generation}
         /\ pc'[a] = "idle" => saved'[a] = {} /\ owed'[a] = {}
         /\ pc'[a] = "restore" => saved'[a] = saved[a] /\ owed'[a] = owed[a]
         /\ \A b \in Agents : b # a =>
              saved'[b] = saved[b] /\ owed'[b] = owed[b] /\ failed'[b] = failed[b]
         /\ \A b \in Agents : calm'[b] => calm[b]
         /\ pc' \in [Agents -> Places]
         /\ op' \in [Agents -> {"none", "stop", "close", "reconnect"} \cup Kinds]
         /\ target' \in [Agents -> 0..made]
         /\ saved' \in [Agents -> SUBSET Streams]
         /\ UNCHANGED <<live, generation, registered, made, kind, up, drained, tracked,
                        client, handle, calls, retired, assured>>
  <1> USE LifecycleAssumption
  <1>1. /\ pc[a] = "publish" /\ live = made /\ made # None /\ thread[made] = "gated"
        /\ holder = a /\ holder' = None
    BY DEF Publish, Sound, SlotAgrees, Gated, TypeOK, MutexHeld, InMutex
  <1>2. live \in Sessions
    BY <1>1 DEF Sound, TypeOK, ClientTypes, Sessions, None
  <1>3. /\ session'.is = "Running" /\ session'.of = live
        /\ thread'[live] = "draining"
        /\ \A m \in Sessions : m # live => thread'[m] = thread[m] /\ owned'[m] = owned[m]
        /\ owned'[live] \in {owned[live], generation}
        /\ UNCHANGED <<live, generation, registered, made, kind, up, drained, tracked,
                       client, handle, calls, retired, assured>>
    BY <1>2 DEF Publish, Sound, TypeOK, ClientTypes
  <1>4. CASE op[a] = "reconnect"
    BY <1>1, <1>2, <1>3, <1>4 DEF Publish, Sound, TypeOK, CallTypes, At, Places
  <1>5. CASE op[a] # "reconnect"
    <2>1. Returns(a)
      BY <1>5 DEF Publish
    <2> QED
      BY <1>1, <1>2, <1>3, <2>1, CallEnds
  <1> QED
    BY <1>4, <1>5

------------------------------------------------------------------------------
(* One lemma for each conjunct, with one step for each action *)

LEMMA StateTypesStep == ASSUME Sound, [Next]_vars PROVE StateTypes'
  <1> USE LifecycleAssumption DEF Agents, Sessions, InMutex, None, MutexFree,
              IdleSession
  <1> StateTypes /\ ClientTypes /\ CallTypes /\ MutexHeld
    BY DEF Sound, TypeOK
  <1>1. ASSUME NEW a \in Agents, Extract(a) PROVE StateTypes'
    <2>1. client[a] # None => client[a] \in 1..made
      BY DEF CallTypes, ClientTypes
    <2>2. registered' \subseteq 1..made
      BY <1>1, <2>1 DEF Extract, Register, RegistersDrainFlag, StateTypes
    <2>3. UNCHANGED <<live, generation, made>> /\ holder' = None /\ session' = IdleSession
      BY <1>1 DEF Extract, clients
    <2>4. session' \in [is : {"Idle", "Running", "Failed"}, of : 0..made]
      BY <2>3 DEF ClientTypes
    <2> QED
      BY <2>2, <2>3, <2>4 DEF StateTypes
  <1> USE DEF state, clients, frames, history, StateTypes, ClientTypes, CallTypes,
              MutexHeld
  <1>2. ASSUME NEW a \in Agents, Stop(a) PROVE StateTypes'
    BY <1>2 DEF Stop, Begin, MayCall, At
  <1>3. ASSUME NEW a \in Agents, NEW k \in Kinds, Start(a, k) PROVE StateTypes'
    BY <1>3 DEF Start, Begin, MayCall, At, Kinds
  <1>4. ASSUME NEW a \in Agents, NEW n \in Sessions, Close(a, n) PROVE StateTypes'
    BY <1>4 DEF Close, Begin, MayCall, At
  <1>5. ASSUME NEW a \in Agents, Reconnect(a) PROVE StateTypes'
    BY <1>5 DEF Reconnect, Begin, MayCall, At, Tracked
  <1>6. ASSUME NEW a \in Agents, AwaitDrain(a) PROVE StateTypes'
    BY <1>6 DEF AwaitDrain, MayCall
  <1>7. ASSUME NEW a \in Agents, NEW s \in Streams, Subscribe(a, s) PROVE StateTypes'
    BY <1>7 DEF Subscribe, MayCall, Accepts
  <1>8. ASSUME NEW a \in Agents, NEW s \in Streams, Unsubscribe(a, s) PROVE StateTypes'
    BY <1>8 DEF Unsubscribe, MayCall
  <1>9. ASSUME NEW a \in Agents, LeaveAlone(a) PROVE StateTypes'
    BY <1>9 DEF LeaveAlone, Returns, At
  <1>10. ASSUME NEW a \in Agents, Retire(a) PROVE StateTypes'
    BY <1>10 DEF Retire, At
  <1>11. ASSUME NEW a \in Agents, Shutdown(a) PROVE StateTypes'
    BY <1>11 DEF Shutdown, At
  <1>12. ASSUME NEW a \in Agents, Join(a) PROVE StateTypes'
    BY <1>12 DEF Join, Joins, AfterTeardown, Returns, At
  <1>13. ASSUME NEW a \in Agents, Report(a) PROVE StateTypes'
    BY <1>13 DEF Report, AfterTeardown, Returns, At
  <1>14. ASSUME NEW a \in Agents, Refuse(a) PROVE StateTypes'
    BY <1>14 DEF Refuse, Returns, At
  <1>15. ASSUME NEW a \in Agents, ConnectFails(a) PROVE StateTypes'
    BY <1>15 DEF ConnectFails, Returns, At
  <1>16. ASSUME NEW a \in Agents, Connect(a) PROVE StateTypes'
    BY SMTT(30), <1>16 DEF Connect, At
  <1>17. ASSUME NEW a \in Agents, Install(a) PROVE StateTypes'
    BY <1>17 DEF Install, At
  <1>18. ASSUME NEW a \in Agents, Publish(a) PROVE StateTypes'
    BY <1>18 DEF Publish, Returns, At
  <1>19. ASSUME NEW a \in Agents, Restore(a) PROVE StateTypes'
    BY <1>19 DEF Restore, Restored, Accepts
  <1>20. ASSUME NEW a \in Agents, RestoreOver(a) PROVE StateTypes'
    BY <1>20 DEF RestoreOver, Returns, At
  <1>21. ASSUME NEW n \in Sessions, CallbackBegins(n) PROVE StateTypes'
    BY <1>21 DEF CallbackBegins, ThreadChanges, OtherwiseUnchanged
  <1>22. ASSUME NEW n \in Sessions, CallbackReturns(n) PROVE StateTypes'
    BY <1>22 DEF CallbackReturns, ThreadChanges, OtherwiseUnchanged
  <1>23. ASSUME NEW n \in Sessions, DispatcherEnds(n) PROVE StateTypes'
    BY <1>23 DEF DispatcherEnds, ThreadChanges, OtherwiseUnchanged
  <1>24. ASSUME NEW n \in Sessions, DispatcherFails(n) PROVE StateTypes'
    BY <1>24 DEF DispatcherFails, ThreadChanges, OtherwiseUnchanged
  <1>25. ASSUME NEW n \in Sessions, RecordFailed(n) PROVE StateTypes'
    BY <1>25 DEF RecordFailed, ThreadChanges, OtherwiseUnchanged
  <1>26. ASSUME NEW n \in Sessions, Drain(n) PROVE StateTypes'
    BY <1>26 DEF Drain, Released
  <1>27. CASE UNCHANGED vars
    BY <1>27 DEF vars
  <1> QED
    BY <1>1, <1>2, <1>3, <1>4, <1>5, <1>6, <1>7, <1>8, <1>9, <1>10, <1>11, <1>12,
       <1>13, <1>14, <1>15, <1>16, <1>17, <1>18, <1>19, <1>20, <1>21, <1>22, <1>23,
       <1>24, <1>25, <1>26, <1>27 DEF Next, CallStep, SessionStep

LEMMA ClientTypesStep == ASSUME Sound, [Next]_vars PROVE ClientTypes'
  <1> USE LifecycleAssumption DEF Agents, Sessions, Kinds, None, Threads
  <1> StateTypes /\ ClientTypes
    BY DEF Sound, TypeOK
  <1>1. ASSUME NEW a \in Agents, Publish(a) PROVE ClientTypes'
    <2>1. live \in 1..made /\ live \in Sessions
      BY <1>1, PublishEffect DEF ClientTypes
    <2> QED
      BY ZenonT(60), <1>1, <2>1 DEF Publish, StateTypes, ClientTypes
  <1>2. ASSUME NEW a \in Agents, Restore(a) PROVE ClientTypes'
    <2>1. \A s \in saved[a] : s \in Streams
      BY DEF Sound, TypeOK, CallTypes
    <2> QED
      BY <1>2, <2>1 DEF Restore, Restored, Accepts, StateTypes, ClientTypes
  <1> USE DEF state, clients, frames, history, StateTypes, ClientTypes
  <1>3. ASSUME NEW a \in Agents, Stop(a) PROVE ClientTypes'
    BY <1>3 DEF Stop, Begin, MayCall, At
  <1>4. ASSUME NEW a \in Agents, NEW k \in Kinds, Start(a, k) PROVE ClientTypes'
    BY <1>4 DEF Start, Begin, MayCall, At
  <1>5. ASSUME NEW a \in Agents, NEW n \in Sessions, Close(a, n) PROVE ClientTypes'
    BY <1>5 DEF Close, Begin, MayCall, At
  <1>6. ASSUME NEW a \in Agents, Reconnect(a) PROVE ClientTypes'
    BY <1>6 DEF Reconnect, Begin, MayCall, At, Tracked
  <1>7. ASSUME NEW a \in Agents, AwaitDrain(a) PROVE ClientTypes'
    BY <1>7 DEF AwaitDrain, MayCall
  <1>8. ASSUME NEW a \in Agents, NEW s \in Streams, Subscribe(a, s) PROVE ClientTypes'
    BY <1>8 DEF Subscribe, MayCall, Accepts
  <1>9. ASSUME NEW a \in Agents, NEW s \in Streams, Unsubscribe(a, s) PROVE ClientTypes'
    BY <1>9 DEF Unsubscribe, MayCall
  <1>10. ASSUME NEW a \in Agents, LeaveAlone(a) PROVE ClientTypes'
    BY <1>10 DEF LeaveAlone, Returns, At, MutexFree
  <1>11. ASSUME NEW a \in Agents, Retire(a) PROVE ClientTypes'
    BY <1>11 DEF Retire, At, MutexFree
  <1>12. ASSUME NEW a \in Agents, Extract(a) PROVE ClientTypes'
    BY <1>12 DEF Extract, At, Register, RegistersDrainFlag, IdleSession
  <1>13. ASSUME NEW a \in Agents, Shutdown(a) PROVE ClientTypes'
    BY <1>13 DEF Shutdown, At
  <1>14. ASSUME NEW a \in Agents, Join(a) PROVE ClientTypes'
    BY <1>14 DEF Join, Joins, AfterTeardown, Returns, At
  <1>15. ASSUME NEW a \in Agents, Report(a) PROVE ClientTypes'
    BY <1>15 DEF Report, AfterTeardown, Returns, At, MutexFree
  <1>16. ASSUME NEW a \in Agents, Refuse(a) PROVE ClientTypes'
    BY <1>16 DEF Refuse, Returns, At, MutexFree
  <1>17. ASSUME NEW a \in Agents, ConnectFails(a) PROVE ClientTypes'
    BY <1>17 DEF ConnectFails, Returns, At, MutexFree
  <1>18. ASSUME NEW a \in Agents, Connect(a) PROVE ClientTypes'
    BY <1>18 DEF Connect, At, MutexFree
  <1>19. ASSUME NEW a \in Agents, Install(a) PROVE ClientTypes'
    BY <1>19 DEF Install, At
  <1>20. ASSUME NEW a \in Agents, RestoreOver(a) PROVE ClientTypes'
    BY <1>20 DEF RestoreOver, Returns, At
  <1>21. ASSUME NEW n \in Sessions, CallbackBegins(n) PROVE ClientTypes'
    BY <1>21 DEF CallbackBegins, ThreadChanges, OtherwiseUnchanged
  <1>22. ASSUME NEW n \in Sessions, CallbackReturns(n) PROVE ClientTypes'
    BY <1>22 DEF CallbackReturns, ThreadChanges, OtherwiseUnchanged
  <1>23. ASSUME NEW n \in Sessions, DispatcherEnds(n) PROVE ClientTypes'
    BY <1>23 DEF DispatcherEnds, ThreadChanges, OtherwiseUnchanged
  <1>24. ASSUME NEW n \in Sessions, DispatcherFails(n) PROVE ClientTypes'
    BY <1>24 DEF DispatcherFails, ThreadChanges, OtherwiseUnchanged
  <1>25. ASSUME NEW n \in Sessions, RecordFailed(n) PROVE ClientTypes'
    BY <1>25 DEF RecordFailed, ThreadChanges, OtherwiseUnchanged, MutexFree
  <1>26. ASSUME NEW n \in Sessions, Drain(n) PROVE ClientTypes'
    BY <1>26 DEF Drain, Released
  <1>27. CASE UNCHANGED vars
    BY <1>27 DEF vars
  <1> QED
    BY <1>1, <1>2, <1>3, <1>4, <1>5, <1>6, <1>7, <1>8, <1>9, <1>10, <1>11, <1>12,
       <1>13, <1>14, <1>15, <1>16, <1>17, <1>18, <1>19, <1>20, <1>21, <1>22, <1>23,
       <1>24, <1>25, <1>26, <1>27 DEF Next, CallStep, SessionStep

LEMMA CallTypesStep == ASSUME Sound, [Next]_vars PROVE CallTypes'
  <1> USE LifecycleAssumption DEF Agents, Sessions, None, Kinds, Places
  <1> StateTypes /\ ClientTypes /\ CallTypes
    BY DEF Sound, TypeOK
  <1>1. ASSUME NEW a \in Agents, NEW n \in Sessions, Close(a, n) PROVE CallTypes'
    <2>1. n \in 0..made
      BY <1>1 DEF Close, ClientTypes
    <2> QED
      BY <1>1, <2>1 DEF Close, Begin, At, clients, CallTypes
  <1>2. ASSUME NEW a \in Agents, LeaveAlone(a) PROVE CallTypes'
    BY <1>2, CallEnds DEF LeaveAlone, clients, CallTypes
  <1>3. ASSUME NEW a \in Agents, Shutdown(a) PROVE CallTypes'
    <2>1. pc' \in [Agents -> Places] /\ client' \in [Agents -> 0..made]
      BY <1>3 DEF Shutdown, At, CallTypes, ClientTypes, StateTypes
    <2>2. UNCHANGED <<made, op, handle, target, saved>>
      BY <1>3 DEF Shutdown
    <2> QED
      BY <2>1, <2>2 DEF CallTypes
  <1>4. ASSUME NEW a \in Agents, Join(a) PROVE CallTypes'
    BY <1>4, JoinEffect DEF clients, CallTypes
  <1>5. ASSUME NEW a \in Agents, Report(a) PROVE CallTypes'
    BY <1>5, TeardownEnds DEF Report, clients, CallTypes
  <1>6. ASSUME NEW a \in Agents, Refuse(a) PROVE CallTypes'
    BY <1>6, CallEnds DEF Refuse, clients, CallTypes
  <1>7. ASSUME NEW a \in Agents, Connect(a) PROVE CallTypes'
    <2>1. pc' \in [Agents -> Places]
      BY <1>7 DEF Connect, At, CallTypes, Places
    <2> QED
      BY <1>7, <2>1, ConnectEffect DEF CallTypes
  <1>8. ASSUME NEW a \in Agents, Publish(a) PROVE CallTypes'
    BY <1>8, PublishEffect DEF CallTypes
  <1> USE DEF state, clients, frames, history, StateTypes, ClientTypes, CallTypes
  <1>9. ASSUME NEW a \in Agents, Stop(a) PROVE CallTypes'
    BY <1>9 DEF Stop, Begin, MayCall, At
  <1>10. ASSUME NEW a \in Agents, NEW k \in Kinds, Start(a, k) PROVE CallTypes'
    BY <1>10 DEF Start, Begin, MayCall, At
  <1>11. ASSUME NEW a \in Agents, Reconnect(a) PROVE CallTypes'
    BY SMTT(30), <1>11 DEF Reconnect, Begin, MayCall, At, Tracked
  <1>12. ASSUME NEW a \in Agents, AwaitDrain(a) PROVE CallTypes'
    BY <1>12 DEF AwaitDrain, MayCall
  <1>13. ASSUME NEW a \in Agents, NEW s \in Streams, Subscribe(a, s) PROVE CallTypes'
    BY <1>13 DEF Subscribe, MayCall, Accepts
  <1>14. ASSUME NEW a \in Agents, NEW s \in Streams, Unsubscribe(a, s) PROVE CallTypes'
    BY <1>14 DEF Unsubscribe, MayCall
  <1>15. ASSUME NEW a \in Agents, Retire(a) PROVE CallTypes'
    BY <1>15 DEF Retire, At, MutexFree
  <1>16. ASSUME NEW a \in Agents, Extract(a) PROVE CallTypes'
    BY <1>16 DEF Extract, At, Register, RegistersDrainFlag, IdleSession
  <1>17. ASSUME NEW a \in Agents, ConnectFails(a) PROVE CallTypes'
    BY <1>17 DEF ConnectFails, Returns, At, MutexFree
  <1>18. ASSUME NEW a \in Agents, Install(a) PROVE CallTypes'
    BY <1>18 DEF Install, At
  <1>19. ASSUME NEW a \in Agents, Restore(a) PROVE CallTypes'
    BY SMTT(30), <1>19 DEF Restore, Restored, Accepts
  <1>20. ASSUME NEW a \in Agents, RestoreOver(a) PROVE CallTypes'
    BY SMTT(30), <1>20 DEF RestoreOver, Returns, At
  <1>21. ASSUME NEW n \in Sessions, CallbackBegins(n) PROVE CallTypes'
    BY <1>21 DEF CallbackBegins, ThreadChanges, OtherwiseUnchanged
  <1>22. ASSUME NEW n \in Sessions, CallbackReturns(n) PROVE CallTypes'
    BY <1>22 DEF CallbackReturns, ThreadChanges, OtherwiseUnchanged
  <1>23. ASSUME NEW n \in Sessions, DispatcherEnds(n) PROVE CallTypes'
    BY <1>23 DEF DispatcherEnds, ThreadChanges, OtherwiseUnchanged
  <1>24. ASSUME NEW n \in Sessions, DispatcherFails(n) PROVE CallTypes'
    BY <1>24 DEF DispatcherFails, ThreadChanges, OtherwiseUnchanged
  <1>25. ASSUME NEW n \in Sessions, RecordFailed(n) PROVE CallTypes'
    BY <1>25 DEF RecordFailed, ThreadChanges, OtherwiseUnchanged, MutexFree
  <1>26. ASSUME NEW n \in Sessions, Drain(n) PROVE CallTypes'
    BY <1>26 DEF Drain, Released
  <1>27. CASE UNCHANGED vars
    BY <1>27 DEF vars
  <1> QED
    BY ZenonT(60), <1>1, <1>2, <1>3, <1>4, <1>5, <1>6, <1>7, <1>8, <1>9, <1>10, <1>11, <1>12,
       <1>13, <1>14, <1>15, <1>16, <1>17, <1>18, <1>19, <1>20, <1>21, <1>22, <1>23,
       <1>24, <1>25, <1>26, <1>27 DEF Next, CallStep, SessionStep

LEMMA HistoryTypesStep == ASSUME Sound, [Next]_vars PROVE HistoryTypes'
  <1> USE LifecycleAssumption DEF Agents, Sessions, None
  <1> StateTypes /\ ClientTypes /\ CallTypes /\ HistoryTypes
    BY DEF Sound, TypeOK
  <1>1. ASSUME NEW a \in Agents, Extract(a) PROVE HistoryTypes'
    <2>1. client[a] # None => client[a] \in 1..made
      BY DEF CallTypes, ClientTypes
    <2> QED
      BY <1>1, <2>1 DEF Extract, clients, HistoryTypes
  <1>2. ASSUME NEW a \in Agents, Connect(a) PROVE HistoryTypes'
    BY <1>2, ConnectEffect DEF history, HistoryTypes
  <1> USE DEF state, clients, frames, history, StateTypes, ClientTypes, CallTypes,
              HistoryTypes
  <1>3. ASSUME NEW a \in Agents, Stop(a) PROVE HistoryTypes'
    BY SMTT(30), <1>3 DEF Stop, Begin, MayCall, At
  <1>4. ASSUME NEW a \in Agents, NEW k \in Kinds, Start(a, k) PROVE HistoryTypes'
    BY <1>4 DEF Start, Begin, MayCall, At, Kinds
  <1>5. ASSUME NEW a \in Agents, NEW n \in Sessions, Close(a, n) PROVE HistoryTypes'
    BY SMTT(30), <1>5 DEF Close, Begin, MayCall, At
  <1>6. ASSUME NEW a \in Agents, Reconnect(a) PROVE HistoryTypes'
    BY SMTT(30), <1>6 DEF Reconnect, Begin, MayCall, At, Tracked
  <1>7. ASSUME NEW a \in Agents, AwaitDrain(a) PROVE HistoryTypes'
    BY <1>7 DEF AwaitDrain, MayCall
  <1>8. ASSUME NEW a \in Agents, NEW s \in Streams, Subscribe(a, s) PROVE HistoryTypes'
    BY <1>8 DEF Subscribe, MayCall, Accepts
  <1>9. ASSUME NEW a \in Agents, NEW s \in Streams, Unsubscribe(a, s) PROVE HistoryTypes'
    BY <1>9 DEF Unsubscribe, MayCall
  <1>10. ASSUME NEW a \in Agents, LeaveAlone(a) PROVE HistoryTypes'
    BY <1>10 DEF LeaveAlone, Returns, At, MutexFree
  <1>11. ASSUME NEW a \in Agents, Retire(a) PROVE HistoryTypes'
    BY <1>11 DEF Retire, At, MutexFree
  <1>12. ASSUME NEW a \in Agents, Shutdown(a) PROVE HistoryTypes'
    BY <1>12 DEF Shutdown, At
  <1>13. ASSUME NEW a \in Agents, Join(a) PROVE HistoryTypes'
    BY <1>13 DEF Join, Joins, AfterTeardown, Returns, At
  <1>14. ASSUME NEW a \in Agents, Report(a) PROVE HistoryTypes'
    BY <1>14 DEF Report, AfterTeardown, Returns, At, MutexFree
  <1>15. ASSUME NEW a \in Agents, Refuse(a) PROVE HistoryTypes'
    BY <1>15 DEF Refuse, Returns, At, MutexFree
  <1>16. ASSUME NEW a \in Agents, ConnectFails(a) PROVE HistoryTypes'
    BY <1>16 DEF ConnectFails, Returns, At, MutexFree
  <1>17. ASSUME NEW a \in Agents, Install(a) PROVE HistoryTypes'
    BY <1>17 DEF Install, At
  <1>18. ASSUME NEW a \in Agents, Publish(a) PROVE HistoryTypes'
    BY <1>18 DEF Publish, Returns, At
  <1>19. ASSUME NEW a \in Agents, Restore(a) PROVE HistoryTypes'
    BY SMTT(30), <1>19 DEF Restore, Restored, Accepts
  <1>20. ASSUME NEW a \in Agents, RestoreOver(a) PROVE HistoryTypes'
    BY <1>20 DEF RestoreOver, Returns, At
  <1>21. ASSUME NEW n \in Sessions, CallbackBegins(n) PROVE HistoryTypes'
    BY <1>21 DEF CallbackBegins, ThreadChanges, OtherwiseUnchanged
  <1>22. ASSUME NEW n \in Sessions, CallbackReturns(n) PROVE HistoryTypes'
    BY <1>22 DEF CallbackReturns, ThreadChanges, OtherwiseUnchanged
  <1>23. ASSUME NEW n \in Sessions, DispatcherEnds(n) PROVE HistoryTypes'
    BY <1>23 DEF DispatcherEnds, ThreadChanges, OtherwiseUnchanged
  <1>24. ASSUME NEW n \in Sessions, DispatcherFails(n) PROVE HistoryTypes'
    BY <1>24 DEF DispatcherFails, ThreadChanges, OtherwiseUnchanged
  <1>25. ASSUME NEW n \in Sessions, RecordFailed(n) PROVE HistoryTypes'
    BY <1>25 DEF RecordFailed, ThreadChanges, OtherwiseUnchanged, MutexFree
  <1>26. ASSUME NEW n \in Sessions, Drain(n) PROVE HistoryTypes'
    BY <1>26 DEF Drain, Released
  <1>27. CASE UNCHANGED vars
    BY <1>27 DEF vars
  <1> QED
    BY <1>1, <1>2, <1>3, <1>4, <1>5, <1>6, <1>7, <1>8, <1>9, <1>10, <1>11, <1>12,
       <1>13, <1>14, <1>15, <1>16, <1>17, <1>18, <1>19, <1>20, <1>21, <1>22, <1>23,
       <1>24, <1>25, <1>26, <1>27 DEF Next, CallStep, SessionStep

LEMMA MutexStep == ASSUME Sound, [Next]_vars PROVE MutexHeld'
  <1> USE LifecycleAssumption DEF Agents, Sessions, InMutex, None, MutexFree
  <1> CallTypes /\ MutexHeld
    BY DEF Sound, TypeOK
  <1> USE DEF state, clients, frames, history, CallTypes, MutexHeld
  <1>1. ASSUME NEW a \in Agents, Stop(a) PROVE MutexHeld'
    BY <1>1 DEF Stop, Begin, MayCall, At
  <1>2. ASSUME NEW a \in Agents, NEW k \in Kinds, Start(a, k) PROVE MutexHeld'
    BY <1>2 DEF Start, Begin, MayCall, At, Kinds
  <1>3. ASSUME NEW a \in Agents, NEW n \in Sessions, Close(a, n) PROVE MutexHeld'
    BY <1>3 DEF Close, Begin, MayCall, At
  <1>4. ASSUME NEW a \in Agents, Reconnect(a) PROVE MutexHeld'
    BY <1>4 DEF Reconnect, Begin, MayCall, At, Tracked
  <1>5. ASSUME NEW a \in Agents, AwaitDrain(a) PROVE MutexHeld'
    BY <1>5 DEF AwaitDrain, MayCall
  <1>6. ASSUME NEW a \in Agents, NEW s \in Streams, Subscribe(a, s) PROVE MutexHeld'
    BY <1>6 DEF Subscribe, MayCall, Accepts
  <1>7. ASSUME NEW a \in Agents, NEW s \in Streams, Unsubscribe(a, s) PROVE MutexHeld'
    BY <1>7 DEF Unsubscribe, MayCall
  <1>8. ASSUME NEW a \in Agents, LeaveAlone(a) PROVE MutexHeld'
    BY <1>8 DEF LeaveAlone, Returns, At
  <1>9. ASSUME NEW a \in Agents, Retire(a) PROVE MutexHeld'
    BY <1>9 DEF Retire, At
  <1>10. ASSUME NEW a \in Agents, Extract(a) PROVE MutexHeld'
    BY <1>10 DEF Extract, At, Register, RegistersDrainFlag, IdleSession
  <1>11. ASSUME NEW a \in Agents, Shutdown(a) PROVE MutexHeld'
    BY <1>11 DEF Shutdown, At
  <1>12. ASSUME NEW a \in Agents, Join(a) PROVE MutexHeld'
    BY <1>12 DEF Join, Joins, AfterTeardown, Returns, At
  <1>13. ASSUME NEW a \in Agents, Report(a) PROVE MutexHeld'
    BY <1>13 DEF Report, AfterTeardown, Returns, At
  <1>14. ASSUME NEW a \in Agents, Refuse(a) PROVE MutexHeld'
    BY <1>14 DEF Refuse, Returns, At
  <1>15. ASSUME NEW a \in Agents, ConnectFails(a) PROVE MutexHeld'
    BY <1>15 DEF ConnectFails, Returns, At
  <1>16. ASSUME NEW a \in Agents, Connect(a) PROVE MutexHeld'
    BY <1>16 DEF Connect, At
  <1>17. ASSUME NEW a \in Agents, Install(a) PROVE MutexHeld'
    BY <1>17 DEF Install, At
  <1>18. ASSUME NEW a \in Agents, Publish(a) PROVE MutexHeld'
    BY <1>18 DEF Publish, Returns, At
  <1>19. ASSUME NEW a \in Agents, Restore(a) PROVE MutexHeld'
    BY <1>19 DEF Restore, Restored, Accepts
  <1>20. ASSUME NEW a \in Agents, RestoreOver(a) PROVE MutexHeld'
    BY <1>20 DEF RestoreOver, Returns, At
  <1>21. ASSUME NEW n \in Sessions, CallbackBegins(n) PROVE MutexHeld'
    BY <1>21 DEF CallbackBegins, ThreadChanges, OtherwiseUnchanged
  <1>22. ASSUME NEW n \in Sessions, CallbackReturns(n) PROVE MutexHeld'
    BY <1>22 DEF CallbackReturns, ThreadChanges, OtherwiseUnchanged
  <1>23. ASSUME NEW n \in Sessions, DispatcherEnds(n) PROVE MutexHeld'
    BY <1>23 DEF DispatcherEnds, ThreadChanges, OtherwiseUnchanged
  <1>24. ASSUME NEW n \in Sessions, DispatcherFails(n) PROVE MutexHeld'
    BY <1>24 DEF DispatcherFails, ThreadChanges, OtherwiseUnchanged
  <1>25. ASSUME NEW n \in Sessions, RecordFailed(n) PROVE MutexHeld'
    BY <1>25 DEF RecordFailed, ThreadChanges, OtherwiseUnchanged
  <1>26. ASSUME NEW n \in Sessions, Drain(n) PROVE MutexHeld'
    BY <1>26 DEF Drain, Released
  <1>27. CASE UNCHANGED vars
    BY <1>27 DEF vars
  <1> QED
    BY <1>1, <1>2, <1>3, <1>4, <1>5, <1>6, <1>7, <1>8, <1>9, <1>10, <1>11, <1>12,
       <1>13, <1>14, <1>15, <1>16, <1>17, <1>18, <1>19, <1>20, <1>21, <1>22, <1>23,
       <1>24, <1>25, <1>26, <1>27 DEF Next, CallStep, SessionStep

LEMMA ClientsStep == ASSUME Sound, [Next]_vars PROVE ClientsHeld'
  <1> USE LifecycleAssumption DEF Agents, Sessions, Over, InMutex, None, MutexFree
  <1> StateTypes /\ ClientTypes /\ CallTypes /\ MutexHeld /\ ClientsHeld
      /\ SlotAgrees
    BY DEF Sound, TypeOK
  <1>1. ASSUME NEW a \in Agents, LeaveAlone(a) PROVE ClientsHeld'
    BY <1>1, CallEnds DEF LeaveAlone, state, clients, ClientsHeld
  <1>2. ASSUME NEW a \in Agents, Join(a) PROVE ClientsHeld'
    BY <1>2, JoinEffect DEF state, clients, ClientsHeld
  <1>3. ASSUME NEW a \in Agents, Report(a) PROVE ClientsHeld'
    BY <1>3, TeardownEnds DEF Report, clients, ClientsHeld
  <1>4. ASSUME NEW a \in Agents, Connect(a) PROVE ClientsHeld'
    <2>1. \A b \in Agents : client[b] # made' /\ handle[b] # made'
      BY <1>4, ConnectEffect DEF CallTypes
    <2>2. \A b \in Agents : pc[b] = "report" => handle[b] \in Sessions
      BY DEF CallTypes, ClientTypes, ClientsHeld
    <2>3. \A b \in Agents : pc'[b] = "install" => b = a
      BY <1>4, ConnectEffect DEF MutexHeld
    <2> QED
      BY <1>4, ConnectEffect, <2>1, <2>2, <2>3 DEF ClientsHeld
  <1>5. ASSUME NEW a \in Agents, Publish(a) PROVE ClientsHeld'
    <2>1. \A b \in Agents : pc[b] = "report" => handle[b] # live
      BY <1>5, PublishEffect DEF ClientsHeld
    <2>2. \A b \in Agents : pc[b] = "report" => handle[b] \in Sessions
      BY DEF CallTypes, ClientTypes, ClientsHeld
    <2> QED
      BY <1>5, PublishEffect, <2>1, <2>2 DEF ClientsHeld
  <1>6. ASSUME NEW n \in Sessions, RecordFailed(n) PROVE ClientsHeld'
    <2>1. \A b \in Agents : pc[b] = "report" => handle[b] \in Sessions
      BY DEF CallTypes, ClientTypes, ClientsHeld
    <2> QED
      BY <1>6, RecordEffect, DispatcherMoves, <2>1 DEF frames, ClientsHeld
  <1> USE DEF state, clients, frames, history, StateTypes, ClientTypes, CallTypes,
              MutexHeld, ClientsHeld, SlotAgrees
  <1>7. ASSUME NEW a \in Agents, Stop(a) PROVE ClientsHeld'
    BY <1>7 DEF Stop, Begin, MayCall, At
  <1>8. ASSUME NEW a \in Agents, NEW k \in Kinds, Start(a, k) PROVE ClientsHeld'
    BY SMTT(30), <1>8 DEF Start, Begin, MayCall, At, Kinds
  <1>9. ASSUME NEW a \in Agents, NEW n \in Sessions, Close(a, n) PROVE ClientsHeld'
    BY SMTT(30), <1>9 DEF Close, Begin, MayCall, At
  <1>10. ASSUME NEW a \in Agents, Reconnect(a) PROVE ClientsHeld'
    BY SMTT(30), <1>10 DEF Reconnect, Begin, MayCall, At, Tracked
  <1>11. ASSUME NEW a \in Agents, AwaitDrain(a) PROVE ClientsHeld'
    BY <1>11 DEF AwaitDrain, MayCall
  <1>12. ASSUME NEW a \in Agents, NEW s \in Streams, Subscribe(a, s) PROVE ClientsHeld'
    BY <1>12 DEF Subscribe, MayCall, Accepts
  <1>13. ASSUME NEW a \in Agents, NEW s \in Streams, Unsubscribe(a, s) PROVE ClientsHeld'
    BY <1>13 DEF Unsubscribe, MayCall
  <1>14. ASSUME NEW a \in Agents, Retire(a) PROVE ClientsHeld'
    BY SMTT(30), <1>14 DEF Retire, At
  <1>15. ASSUME NEW a \in Agents, Extract(a) PROVE ClientsHeld'
    BY <1>15 DEF Extract, At, Register, RegistersDrainFlag, IdleSession
  <1>16. ASSUME NEW a \in Agents, Shutdown(a) PROVE ClientsHeld'
    BY SMTT(30), <1>16 DEF Shutdown, At
  <1>17. ASSUME NEW a \in Agents, Refuse(a) PROVE ClientsHeld'
    BY <1>17 DEF Refuse, Returns, At
  <1>18. ASSUME NEW a \in Agents, ConnectFails(a) PROVE ClientsHeld'
    BY SMTT(30), <1>18 DEF ConnectFails, Returns, At
  <1>19. ASSUME NEW a \in Agents, Install(a) PROVE ClientsHeld'
    BY <1>19 DEF Install, At
  <1>20. ASSUME NEW a \in Agents, Restore(a) PROVE ClientsHeld'
    BY SMTT(30), <1>20 DEF Restore, Restored, Accepts
  <1>21. ASSUME NEW a \in Agents, RestoreOver(a) PROVE ClientsHeld'
    BY SMTT(30), <1>21 DEF RestoreOver, Returns, At
  <1>22. ASSUME NEW n \in Sessions, CallbackBegins(n) PROVE ClientsHeld'
    BY SMTT(30), <1>22 DEF CallbackBegins, ThreadChanges, OtherwiseUnchanged
  <1>23. ASSUME NEW n \in Sessions, CallbackReturns(n) PROVE ClientsHeld'
    BY SMTT(30), <1>23 DEF CallbackReturns, ThreadChanges, OtherwiseUnchanged
  <1>24. ASSUME NEW n \in Sessions, DispatcherEnds(n) PROVE ClientsHeld'
    BY <1>24 DEF DispatcherEnds, ThreadChanges, OtherwiseUnchanged
  <1>25. ASSUME NEW n \in Sessions, DispatcherFails(n) PROVE ClientsHeld'
    BY SMTT(30), <1>25 DEF DispatcherFails, ThreadChanges, OtherwiseUnchanged
  <1>26. ASSUME NEW n \in Sessions, Drain(n) PROVE ClientsHeld'
    BY <1>26 DEF Drain, Released
  <1>27. CASE UNCHANGED vars
    BY <1>27 DEF vars
  <1> QED
    BY <1>1, <1>2, <1>3, <1>4, <1>5, <1>6, <1>7, <1>8, <1>9, <1>10, <1>11, <1>12,
       <1>13, <1>14, <1>15, <1>16, <1>17, <1>18, <1>19, <1>20, <1>21, <1>22, <1>23,
       <1>24, <1>25, <1>26, <1>27 DEF Next, CallStep, SessionStep

LEMMA GatesStep == ASSUME Sound, [Next]_vars PROVE Gated'
  <1> USE LifecycleAssumption DEF Agents, Sessions, InMutex, None, MutexFree
  <1> StateTypes /\ ClientTypes /\ CallTypes /\ MutexHeld /\ Gated /\ ClientsHeld
    BY DEF Sound, TypeOK
  <1>1. ASSUME NEW a \in Agents, Join(a) PROVE Gated'
    BY <1>1, JoinEffect DEF clients, Gated
  <1>2. ASSUME NEW a \in Agents, Report(a) PROVE Gated'
    BY <1>2, TeardownEnds DEF Report, clients, Gated
  <1>3. ASSUME NEW a \in Agents, Connect(a) PROVE Gated'
    <2>1. \A n \in Sessions : thread[n] # "gated"
      BY <1>3, ConnectEffect DEF Gated, MutexHeld
    <2>2. \A b \in Agents : pc'[b] \in {"install", "publish"} => b = a
      BY <1>3, ConnectEffect DEF MutexHeld
    <2> QED
      BY <1>3, ConnectEffect, <2>1, <2>2 DEF Gated
  <1>4. ASSUME NEW a \in Agents, Publish(a) PROVE Gated'
    <2>1. \A b \in Agents : pc'[b] \notin {"install", "publish"}
      BY <1>4, PublishEffect DEF MutexHeld
    <2> QED
      BY <1>4, PublishEffect, <2>1 DEF Gated
  <1>5. ASSUME NEW n \in Sessions, CallbackBegins(n) PROVE Gated'
    BY SMTT(30), <1>5, DispatcherMoves DEF frames, Gated, ClientTypes
  <1>6. ASSUME NEW n \in Sessions, CallbackReturns(n) PROVE Gated'
    BY SMTT(30), <1>6, DispatcherMoves DEF frames, Gated, ClientTypes
  <1>7. ASSUME NEW n \in Sessions, DispatcherEnds(n) PROVE Gated'
    BY SMTT(30), <1>7, DispatcherMoves DEF frames, Gated, ClientTypes
  <1>8. ASSUME NEW n \in Sessions, DispatcherFails(n) PROVE Gated'
    BY SMTT(30), <1>8, DispatcherMoves DEF frames, Gated, ClientTypes
  <1>9. ASSUME NEW n \in Sessions, RecordFailed(n) PROVE Gated'
    BY SMTT(30), <1>9, DispatcherMoves DEF frames, Gated, ClientTypes
  <1> USE DEF state, clients, frames, history, StateTypes, ClientTypes, CallTypes,
              MutexHeld, Gated, ClientsHeld
  <1>10. ASSUME NEW a \in Agents, Stop(a) PROVE Gated'
    BY <1>10 DEF Stop, Begin, MayCall, At
  <1>11. ASSUME NEW a \in Agents, NEW k \in Kinds, Start(a, k) PROVE Gated'
    BY <1>11 DEF Start, Begin, MayCall, At, Kinds
  <1>12. ASSUME NEW a \in Agents, NEW n \in Sessions, Close(a, n) PROVE Gated'
    BY <1>12 DEF Close, Begin, MayCall, At
  <1>13. ASSUME NEW a \in Agents, Reconnect(a) PROVE Gated'
    BY <1>13 DEF Reconnect, Begin, MayCall, At, Tracked
  <1>14. ASSUME NEW a \in Agents, AwaitDrain(a) PROVE Gated'
    BY <1>14 DEF AwaitDrain, MayCall
  <1>15. ASSUME NEW a \in Agents, NEW s \in Streams, Subscribe(a, s) PROVE Gated'
    BY <1>15 DEF Subscribe, MayCall, Accepts
  <1>16. ASSUME NEW a \in Agents, NEW s \in Streams, Unsubscribe(a, s) PROVE Gated'
    BY <1>16 DEF Unsubscribe, MayCall
  <1>17. ASSUME NEW a \in Agents, LeaveAlone(a) PROVE Gated'
    BY <1>17 DEF LeaveAlone, Returns, At
  <1>18. ASSUME NEW a \in Agents, Retire(a) PROVE Gated'
    BY <1>18 DEF Retire, At
  <1>19. ASSUME NEW a \in Agents, Extract(a) PROVE Gated'
    BY <1>19 DEF Extract, At, Register, RegistersDrainFlag, IdleSession
  <1>20. ASSUME NEW a \in Agents, Shutdown(a) PROVE Gated'
    BY <1>20 DEF Shutdown, At
  <1>21. ASSUME NEW a \in Agents, Refuse(a) PROVE Gated'
    BY <1>21 DEF Refuse, Returns, At
  <1>22. ASSUME NEW a \in Agents, ConnectFails(a) PROVE Gated'
    BY <1>22 DEF ConnectFails, Returns, At
  <1>23. ASSUME NEW a \in Agents, Install(a) PROVE Gated'
    BY <1>23 DEF Install, At
  <1>24. ASSUME NEW a \in Agents, Restore(a) PROVE Gated'
    BY <1>24 DEF Restore, Restored, Accepts
  <1>25. ASSUME NEW a \in Agents, RestoreOver(a) PROVE Gated'
    BY <1>25 DEF RestoreOver, Returns, At
  <1>26. ASSUME NEW n \in Sessions, Drain(n) PROVE Gated'
    BY <1>26 DEF Drain, Released
  <1>27. CASE UNCHANGED vars
    BY <1>27 DEF vars
  <1> QED
    BY <1>1, <1>2, <1>3, <1>4, <1>5, <1>6, <1>7, <1>8, <1>9, <1>10, <1>11, <1>12,
       <1>13, <1>14, <1>15, <1>16, <1>17, <1>18, <1>19, <1>20, <1>21, <1>22, <1>23,
       <1>24, <1>25, <1>26, <1>27 DEF Next, CallStep, SessionStep

LEMMA SlotsStep == ASSUME Sound, [Next]_vars PROVE SlotAgrees'
  <1> USE LifecycleAssumption DEF Agents, Sessions, InMutex, IsOf, None, MutexFree,
              IdleSession
  <1> StateTypes /\ ClientTypes /\ CallTypes /\ MutexHeld /\ SlotAgrees /\ Gated
      /\ FailedIsOver /\ ClientsHeld
    BY DEF Sound, TypeOK
  <1>1. ASSUME NEW a \in Agents, Retire(a) PROVE SlotAgrees'
    <2>1. IsOf(live) /\ pc'[a] = "extract" /\ client'[a] = live /\ live' = None
      BY <1>1 DEF Retire, At, CallTypes, SlotAgrees
    <2>2. \A b \in Agents : b # a => pc'[b] \notin {"extract", "install", "publish"}
      BY <1>1 DEF Retire, At, CallTypes, MutexHeld
    <2> QED
      BY <1>1, <2>1, <2>2 DEF Retire, SlotAgrees
  <1>2. ASSUME NEW a \in Agents, Join(a) PROVE SlotAgrees'
    BY <1>2, JoinEffect DEF state, clients, SlotAgrees
  <1>3. ASSUME NEW a \in Agents, Publish(a) PROVE SlotAgrees'
    <2>1. \A b \in Agents : pc'[b] \notin {"extract", "install", "publish"}
      BY <1>3, PublishEffect DEF MutexHeld
    <2> QED
      BY <1>3, PublishEffect, <2>1 DEF SlotAgrees
  <1>4. ASSUME NEW n \in Sessions, RecordFailed(n) PROVE SlotAgrees'
    <2>1. \A b \in Agents : pc'[b] \notin {"extract", "install", "publish"}
      BY <1>4, RecordEffect, DispatcherMoves DEF frames, MutexHeld
    <2> QED
      BY <1>4, RecordEffect, DispatcherMoves, <2>1 DEF frames, SlotAgrees
  <1> USE DEF state, clients, frames, history, StateTypes, ClientTypes, CallTypes,
              MutexHeld, SlotAgrees, Gated, FailedIsOver, ClientsHeld
  <1>5. ASSUME NEW a \in Agents, Stop(a) PROVE SlotAgrees'
    BY <1>5 DEF Stop, Begin, MayCall, At
  <1>6. ASSUME NEW a \in Agents, NEW k \in Kinds, Start(a, k) PROVE SlotAgrees'
    BY <1>6 DEF Start, Begin, MayCall, At, Kinds
  <1>7. ASSUME NEW a \in Agents, NEW n \in Sessions, Close(a, n) PROVE SlotAgrees'
    BY <1>7 DEF Close, Begin, MayCall, At
  <1>8. ASSUME NEW a \in Agents, Reconnect(a) PROVE SlotAgrees'
    BY <1>8 DEF Reconnect, Begin, MayCall, At, Tracked
  <1>9. ASSUME NEW a \in Agents, AwaitDrain(a) PROVE SlotAgrees'
    BY <1>9 DEF AwaitDrain, MayCall
  <1>10. ASSUME NEW a \in Agents, NEW s \in Streams, Subscribe(a, s) PROVE SlotAgrees'
    BY <1>10 DEF Subscribe, MayCall, Accepts
  <1>11. ASSUME NEW a \in Agents, NEW s \in Streams, Unsubscribe(a, s) PROVE SlotAgrees'
    BY <1>11 DEF Unsubscribe, MayCall
  <1>12. ASSUME NEW a \in Agents, LeaveAlone(a) PROVE SlotAgrees'
    BY <1>12 DEF LeaveAlone, Returns, At
  <1>13. ASSUME NEW a \in Agents, Extract(a) PROVE SlotAgrees'
    BY <1>13 DEF Extract, At, Register, RegistersDrainFlag
  <1>14. ASSUME NEW a \in Agents, Shutdown(a) PROVE SlotAgrees'
    BY <1>14 DEF Shutdown, At
  <1>15. ASSUME NEW a \in Agents, Report(a) PROVE SlotAgrees'
    BY ZenonT(60), <1>15 DEF Report, AfterTeardown, Returns, At
  <1>16. ASSUME NEW a \in Agents, Refuse(a) PROVE SlotAgrees'
    BY <1>16 DEF Refuse, Returns, At
  <1>17. ASSUME NEW a \in Agents, ConnectFails(a) PROVE SlotAgrees'
    BY <1>17 DEF ConnectFails, Returns, At
  <1>18. ASSUME NEW a \in Agents, Connect(a) PROVE SlotAgrees'
    BY <1>18 DEF Connect, At
  <1>19. ASSUME NEW a \in Agents, Install(a) PROVE SlotAgrees'
    BY <1>19 DEF Install, At
  <1>20. ASSUME NEW a \in Agents, Restore(a) PROVE SlotAgrees'
    BY <1>20 DEF Restore, Restored, Accepts
  <1>21. ASSUME NEW a \in Agents, RestoreOver(a) PROVE SlotAgrees'
    BY <1>21 DEF RestoreOver, Returns, At
  <1>22. ASSUME NEW n \in Sessions, CallbackBegins(n) PROVE SlotAgrees'
    BY <1>22 DEF CallbackBegins, ThreadChanges, OtherwiseUnchanged
  <1>23. ASSUME NEW n \in Sessions, CallbackReturns(n) PROVE SlotAgrees'
    BY <1>23 DEF CallbackReturns, ThreadChanges, OtherwiseUnchanged
  <1>24. ASSUME NEW n \in Sessions, DispatcherEnds(n) PROVE SlotAgrees'
    BY <1>24 DEF DispatcherEnds, ThreadChanges, OtherwiseUnchanged
  <1>25. ASSUME NEW n \in Sessions, DispatcherFails(n) PROVE SlotAgrees'
    BY <1>25 DEF DispatcherFails, ThreadChanges, OtherwiseUnchanged
  <1>26. ASSUME NEW n \in Sessions, Drain(n) PROVE SlotAgrees'
    BY <1>26 DEF Drain, Released
  <1>27. CASE UNCHANGED vars
    BY <1>27 DEF vars
  <1> QED
    BY <1>1, <1>2, <1>3, <1>4, <1>5, <1>6, <1>7, <1>8, <1>9, <1>10, <1>11, <1>12,
       <1>13, <1>14, <1>15, <1>16, <1>17, <1>18, <1>19, <1>20, <1>21, <1>22, <1>23,
       <1>24, <1>25, <1>26, <1>27 DEF Next, CallStep, SessionStep

LEMMA FailuresStep == ASSUME Sound, [Next]_vars PROVE FailedIsOver'
  <1> USE LifecycleAssumption DEF Agents, Sessions, Over, InMutex, None, MutexFree,
              IdleSession
  <1> StateTypes /\ ClientTypes /\ CallTypes /\ MutexHeld /\ FailedIsOver /\ Gated
      /\ ClientsHeld /\ SlotAgrees
    BY DEF Sound, TypeOK
  <1>1. ASSUME NEW a \in Agents, Join(a) PROVE FailedIsOver'
    BY <1>1, JoinEffect DEF state, clients, FailedIsOver
  <1>2. ASSUME NEW a \in Agents, Connect(a) PROVE FailedIsOver'
    <2>1. session.is = "Failed" => session.of \in Sessions /\ thread[session.of] # "gated"
      BY DEF FailedIsOver, StateTypes, ClientTypes
    <2>2. session.is = "Failed" => session.of # made'
      BY <1>2, ConnectEffect DEF StateTypes
    <2> QED
      BY <1>2, ConnectEffect, <2>1, <2>2 DEF FailedIsOver
  <1>3. ASSUME NEW n \in Sessions, RecordFailed(n) PROVE FailedIsOver'
    <2>1. session.is = "Failed" => session.of \in Sessions
      BY DEF FailedIsOver, StateTypes, ClientTypes
    <2> QED
      BY <1>3, RecordEffect, DispatcherMoves, <2>1 DEF FailedIsOver
  <1> USE DEF state, clients, frames, history, StateTypes, ClientTypes, CallTypes,
              MutexHeld, FailedIsOver, Gated, ClientsHeld, SlotAgrees
  <1>4. ASSUME NEW a \in Agents, Stop(a) PROVE FailedIsOver'
    BY <1>4 DEF Stop, Begin, MayCall, At
  <1>5. ASSUME NEW a \in Agents, NEW k \in Kinds, Start(a, k) PROVE FailedIsOver'
    BY <1>5 DEF Start, Begin, MayCall, At, Kinds
  <1>6. ASSUME NEW a \in Agents, NEW n \in Sessions, Close(a, n) PROVE FailedIsOver'
    BY <1>6 DEF Close, Begin, MayCall, At
  <1>7. ASSUME NEW a \in Agents, Reconnect(a) PROVE FailedIsOver'
    BY <1>7 DEF Reconnect, Begin, MayCall, At, Tracked
  <1>8. ASSUME NEW a \in Agents, AwaitDrain(a) PROVE FailedIsOver'
    BY <1>8 DEF AwaitDrain, MayCall
  <1>9. ASSUME NEW a \in Agents, NEW s \in Streams, Subscribe(a, s) PROVE FailedIsOver'
    BY <1>9 DEF Subscribe, MayCall, Accepts
  <1>10. ASSUME NEW a \in Agents, NEW s \in Streams, Unsubscribe(a, s)
        PROVE  FailedIsOver'
    BY <1>10 DEF Unsubscribe, MayCall
  <1>11. ASSUME NEW a \in Agents, LeaveAlone(a) PROVE FailedIsOver'
    BY <1>11 DEF LeaveAlone, Returns, At
  <1>12. ASSUME NEW a \in Agents, Retire(a) PROVE FailedIsOver'
    BY <1>12 DEF Retire, At
  <1>13. ASSUME NEW a \in Agents, Extract(a) PROVE FailedIsOver'
    BY <1>13 DEF Extract, At, Register, RegistersDrainFlag
  <1>14. ASSUME NEW a \in Agents, Shutdown(a) PROVE FailedIsOver'
    BY <1>14 DEF Shutdown, At
  <1>15. ASSUME NEW a \in Agents, Report(a) PROVE FailedIsOver'
    BY <1>15 DEF Report, AfterTeardown, Returns, At
  <1>16. ASSUME NEW a \in Agents, Refuse(a) PROVE FailedIsOver'
    BY <1>16 DEF Refuse, Returns, At
  <1>17. ASSUME NEW a \in Agents, ConnectFails(a) PROVE FailedIsOver'
    BY <1>17 DEF ConnectFails, Returns, At
  <1>18. ASSUME NEW a \in Agents, Install(a) PROVE FailedIsOver'
    BY <1>18 DEF Install, At
  <1>19. ASSUME NEW a \in Agents, Publish(a) PROVE FailedIsOver'
    BY <1>19 DEF Publish, Returns, At
  <1>20. ASSUME NEW a \in Agents, Restore(a) PROVE FailedIsOver'
    BY <1>20 DEF Restore, Restored, Accepts
  <1>21. ASSUME NEW a \in Agents, RestoreOver(a) PROVE FailedIsOver'
    BY <1>21 DEF RestoreOver, Returns, At
  <1>22. ASSUME NEW n \in Sessions, CallbackBegins(n) PROVE FailedIsOver'
    BY <1>22 DEF CallbackBegins, ThreadChanges, OtherwiseUnchanged
  <1>23. ASSUME NEW n \in Sessions, CallbackReturns(n) PROVE FailedIsOver'
    BY <1>23 DEF CallbackReturns, ThreadChanges, OtherwiseUnchanged
  <1>24. ASSUME NEW n \in Sessions, DispatcherEnds(n) PROVE FailedIsOver'
    BY <1>24 DEF DispatcherEnds, ThreadChanges, OtherwiseUnchanged
  <1>25. ASSUME NEW n \in Sessions, DispatcherFails(n) PROVE FailedIsOver'
    BY <1>25 DEF DispatcherFails, ThreadChanges, OtherwiseUnchanged
  <1>26. ASSUME NEW n \in Sessions, Drain(n) PROVE FailedIsOver'
    BY <1>26 DEF Drain, Released
  <1>27. CASE UNCHANGED vars
    BY <1>27 DEF vars
  <1> QED
    BY <1>1, <1>2, <1>3, <1>4, <1>5, <1>6, <1>7, <1>8, <1>9, <1>10, <1>11, <1>12,
       <1>13, <1>14, <1>15, <1>16, <1>17, <1>18, <1>19, <1>20, <1>21, <1>22, <1>23,
       <1>24, <1>25, <1>26, <1>27 DEF Next, CallStep, SessionStep

LEMMA GenerationsStep == ASSUME Sound, [Next]_vars PROVE GenerationsMove'
  <1> USE LifecycleAssumption DEF Agents, Sessions, Published, ReadersOwn, InMutex,
              None, MutexFree
  <1> StateTypes /\ ClientTypes /\ CallTypes /\ MutexHeld /\ GenerationsMove
      /\ Gated /\ SlotAgrees
    BY DEF Sound, TypeOK
  <1>1. ASSUME NEW a \in Agents, Retire(a) PROVE GenerationsMove'
    <2>1. generation' = generation + 1 /\ UNCHANGED <<owned, made, kind, thread>>
      BY <1>1 DEF Retire, clients
    <2>2. \A n \in Sessions : owned[n] < generation'
      BY <2>1 DEF GenerationsMove, StateTypes, ClientTypes
    <2>3. 1..made \subseteq Sessions
      BY DEF ClientTypes
    <2> QED
      BY <2>1, <2>2, <2>3 DEF GenerationsMove, StateTypes, ClientTypes
  <1>2. ASSUME NEW a \in Agents, Report(a) PROVE GenerationsMove'
    <2>1. \A b \in Agents : InMutex(b)' => InMutex(b)
      BY <1>2, TeardownEnds DEF Report
    <2> QED
      BY <1>2, <2>1 DEF Report, clients, GenerationsMove
  <1>3. ASSUME NEW a \in Agents, Connect(a) PROVE GenerationsMove'
    <2>1. \A n \in 1..made : Published(n) => owned[n] # generation
      BY <1>3, ConnectEffect DEF GenerationsMove, ClientTypes
    <2>2. \A n \in 1..made' : Published(n)' => n \in 1..made /\ Published(n)
      BY <1>3, ConnectEffect DEF ClientTypes
    <2>3. UNCHANGED <<owned, generation>> /\ holder' = a /\ a # None
      BY <1>3, ConnectEffect
    <2> QED
      BY <2>1, <2>2, <2>3 DEF GenerationsMove
  <1>4. ASSUME NEW a \in Agents, Publish(a) PROVE GenerationsMove'
    <2>1. \A n \in 1..made : Published(n) => owned[n] # generation
      BY <1>4, PublishEffect DEF GenerationsMove
    <2>2. \A b \in Agents : ~InMutex(b)'
      BY <1>4, PublishEffect DEF MutexHeld
    <2>3. \A n \in 1..made :
            n # live => (Published(n)' <=> Published(n)) /\ owned'[n] = owned[n]
      BY <1>4, PublishEffect DEF ClientTypes
    <2>4. \A n \in Sessions : owned'[n] <= generation
      BY <1>4, PublishEffect DEF GenerationsMove, StateTypes, ClientTypes
    <2> QED
      BY <1>4, PublishEffect, <2>1, <2>2, <2>3, <2>4 DEF GenerationsMove
  <1>5. ASSUME NEW n \in Sessions, RecordFailed(n) PROVE GenerationsMove'
    <2>1. \A m \in Sessions : Published(m)' <=> Published(m)
      BY <1>5, DispatcherMoves
    <2>2. 1..made \subseteq Sessions
      BY DEF ClientTypes
    <2> QED
      BY <1>5, DispatcherMoves, <2>1, <2>2 DEF frames, GenerationsMove
  <1> USE DEF state, clients, frames, history, StateTypes, ClientTypes, CallTypes,
              MutexHeld, GenerationsMove, Gated, SlotAgrees
  <1>6. ASSUME NEW a \in Agents, Stop(a) PROVE GenerationsMove'
    BY <1>6 DEF Stop, Begin, MayCall, At
  <1>7. ASSUME NEW a \in Agents, NEW k \in Kinds, Start(a, k) PROVE GenerationsMove'
    BY <1>7 DEF Start, Begin, MayCall, At, Kinds
  <1>8. ASSUME NEW a \in Agents, NEW n \in Sessions, Close(a, n) PROVE GenerationsMove'
    BY <1>8 DEF Close, Begin, MayCall, At
  <1>9. ASSUME NEW a \in Agents, Reconnect(a) PROVE GenerationsMove'
    BY <1>9 DEF Reconnect, Begin, MayCall, At, Tracked
  <1>10. ASSUME NEW a \in Agents, AwaitDrain(a) PROVE GenerationsMove'
    BY <1>10 DEF AwaitDrain, MayCall
  <1>11. ASSUME NEW a \in Agents, NEW s \in Streams, Subscribe(a, s)
        PROVE  GenerationsMove'
    BY <1>11 DEF Subscribe, MayCall, Accepts
  <1>12. ASSUME NEW a \in Agents, NEW s \in Streams, Unsubscribe(a, s)
        PROVE  GenerationsMove'
    BY <1>12 DEF Unsubscribe, MayCall
  <1>13. ASSUME NEW a \in Agents, LeaveAlone(a) PROVE GenerationsMove'
    BY <1>13 DEF LeaveAlone, Returns, At
  <1>14. ASSUME NEW a \in Agents, Extract(a) PROVE GenerationsMove'
    BY <1>14 DEF Extract, At, Register, RegistersDrainFlag, IdleSession
  <1>15. ASSUME NEW a \in Agents, Shutdown(a) PROVE GenerationsMove'
    BY <1>15 DEF Shutdown, At
  <1>16. ASSUME NEW a \in Agents, Join(a) PROVE GenerationsMove'
    BY SMTT(30), <1>16 DEF Join, Joins, AfterTeardown, Returns, At
  <1>17. ASSUME NEW a \in Agents, Refuse(a) PROVE GenerationsMove'
    BY <1>17 DEF Refuse, Returns, At
  <1>18. ASSUME NEW a \in Agents, ConnectFails(a) PROVE GenerationsMove'
    BY <1>18 DEF ConnectFails, Returns, At
  <1>19. ASSUME NEW a \in Agents, Install(a) PROVE GenerationsMove'
    BY <1>19 DEF Install, At
  <1>20. ASSUME NEW a \in Agents, Restore(a) PROVE GenerationsMove'
    BY <1>20 DEF Restore, Restored, Accepts
  <1>21. ASSUME NEW a \in Agents, RestoreOver(a) PROVE GenerationsMove'
    BY <1>21 DEF RestoreOver, Returns, At
  <1>22. ASSUME NEW n \in Sessions, CallbackBegins(n) PROVE GenerationsMove'
    BY <1>22 DEF CallbackBegins, ThreadChanges, OtherwiseUnchanged
  <1>23. ASSUME NEW n \in Sessions, CallbackReturns(n) PROVE GenerationsMove'
    BY <1>23 DEF CallbackReturns, ThreadChanges, OtherwiseUnchanged
  <1>24. ASSUME NEW n \in Sessions, DispatcherEnds(n) PROVE GenerationsMove'
    BY SMTT(30), <1>24 DEF DispatcherEnds, ThreadChanges, OtherwiseUnchanged
  <1>25. ASSUME NEW n \in Sessions, DispatcherFails(n) PROVE GenerationsMove'
    BY <1>25 DEF DispatcherFails, ThreadChanges, OtherwiseUnchanged
  <1>26. ASSUME NEW n \in Sessions, Drain(n) PROVE GenerationsMove'
    BY <1>26 DEF Drain, Released
  <1>27. CASE UNCHANGED vars
    BY <1>27 DEF vars
  <1> QED
    BY <1>1, <1>2, <1>3, <1>4, <1>5, <1>6, <1>7, <1>8, <1>9, <1>10, <1>11, <1>12,
       <1>13, <1>14, <1>15, <1>16, <1>17, <1>18, <1>19, <1>20, <1>21, <1>22, <1>23,
       <1>24, <1>25, <1>26, <1>27 DEF Next, CallStep, SessionStep

LEMMA OrphansStep == ASSUME Sound, [Next]_vars PROVE NoOrphans'
  <1> USE LifecycleAssumption DEF Agents, Sessions, InMutex, Over, None, MutexFree
  <1> StateTypes /\ ClientTypes /\ CallTypes /\ MutexHeld /\ NoOrphans
      /\ ClientsHeld /\ Gated /\ SlotAgrees
    BY DEF Sound, TypeOK
  <1>1. ASSUME NEW a \in Agents, Shutdown(a) PROVE NoOrphans'
    <2>1. \A n \in Sessions : up'[n] => up[n] /\ n # client[a]
      BY <1>1 DEF Shutdown, ClientTypes, CallTypes
    <2>2. \A b \in Agents : b # a => client'[b] = client[b] /\ pc'[b] = pc[b]
      BY <1>1 DEF Shutdown, At, CallTypes
    <2>3. pc[a] # "install" /\ UNCHANGED <<live, made, thread>>
      BY <1>1 DEF Shutdown, state
    <2>4. 1..made \subseteq Sessions
      BY DEF ClientTypes
    <2> QED
      BY <2>1, <2>2, <2>3, <2>4 DEF NoOrphans
  <1>2. ASSUME NEW a \in Agents, Report(a) PROVE NoOrphans'
    BY <1>2, TeardownEnds DEF Report, clients, NoOrphans
  <1>3. ASSUME NEW a \in Agents, Connect(a) PROVE NoOrphans'
    <2>1. \A n \in 1..made' : n = made' \/ n \in 1..made
      BY <1>3, ConnectEffect DEF ClientTypes
    <2>2. \A b \in Agents : pc[b] # "install"
      BY <1>3, ConnectEffect DEF MutexHeld
    <2>3. \A n \in 1..made : n \in Sessions /\ n # made'
      BY <1>3, ConnectEffect DEF ClientTypes
    <2> QED
      BY <1>3, ConnectEffect, <2>1, <2>2, <2>3 DEF NoOrphans
  <1>4. ASSUME NEW n \in Sessions, RecordFailed(n) PROVE NoOrphans'
    <2>1. \A m \in 1..made : m \in Sessions
      BY DEF ClientTypes
    <2> QED
      BY <1>4, RecordEffect, DispatcherMoves, <2>1 DEF frames, NoOrphans
  <1> USE DEF state, clients, frames, history, StateTypes, ClientTypes, CallTypes,
              MutexHeld, NoOrphans, ClientsHeld, Gated, SlotAgrees
  <1>5. ASSUME NEW a \in Agents, Stop(a) PROVE NoOrphans'
    BY <1>5 DEF Stop, Begin, MayCall, At
  <1>6. ASSUME NEW a \in Agents, NEW k \in Kinds, Start(a, k) PROVE NoOrphans'
    BY <1>6 DEF Start, Begin, MayCall, At, Kinds
  <1>7. ASSUME NEW a \in Agents, NEW n \in Sessions, Close(a, n) PROVE NoOrphans'
    BY <1>7 DEF Close, Begin, MayCall, At
  <1>8. ASSUME NEW a \in Agents, Reconnect(a) PROVE NoOrphans'
    BY <1>8 DEF Reconnect, Begin, MayCall, At, Tracked
  <1>9. ASSUME NEW a \in Agents, AwaitDrain(a) PROVE NoOrphans'
    BY <1>9 DEF AwaitDrain, MayCall
  <1>10. ASSUME NEW a \in Agents, NEW s \in Streams, Subscribe(a, s) PROVE NoOrphans'
    BY <1>10 DEF Subscribe, MayCall, Accepts
  <1>11. ASSUME NEW a \in Agents, NEW s \in Streams, Unsubscribe(a, s) PROVE NoOrphans'
    BY <1>11 DEF Unsubscribe, MayCall
  <1>12. ASSUME NEW a \in Agents, LeaveAlone(a) PROVE NoOrphans'
    BY <1>12 DEF LeaveAlone, Returns, At
  <1>13. ASSUME NEW a \in Agents, Retire(a) PROVE NoOrphans'
    BY <1>13 DEF Retire, At
  <1>14. ASSUME NEW a \in Agents, Extract(a) PROVE NoOrphans'
    BY <1>14 DEF Extract, At, Register, RegistersDrainFlag, IdleSession
  <1>15. ASSUME NEW a \in Agents, Join(a) PROVE NoOrphans'
    BY <1>15 DEF Join, Joins, AfterTeardown, Returns, At
  <1>16. ASSUME NEW a \in Agents, Refuse(a) PROVE NoOrphans'
    BY <1>16 DEF Refuse, Returns, At
  <1>17. ASSUME NEW a \in Agents, ConnectFails(a) PROVE NoOrphans'
    BY <1>17 DEF ConnectFails, Returns, At
  <1>18. ASSUME NEW a \in Agents, Install(a) PROVE NoOrphans'
    BY <1>18 DEF Install, At
  <1>19. ASSUME NEW a \in Agents, Publish(a) PROVE NoOrphans'
    BY <1>19 DEF Publish, Returns, At
  <1>20. ASSUME NEW a \in Agents, Restore(a) PROVE NoOrphans'
    BY <1>20 DEF Restore, Restored, Accepts
  <1>21. ASSUME NEW a \in Agents, RestoreOver(a) PROVE NoOrphans'
    BY <1>21 DEF RestoreOver, Returns, At
  <1>22. ASSUME NEW n \in Sessions, CallbackBegins(n) PROVE NoOrphans'
    BY SMTT(30), <1>22 DEF CallbackBegins, ThreadChanges, OtherwiseUnchanged
  <1>23. ASSUME NEW n \in Sessions, CallbackReturns(n) PROVE NoOrphans'
    BY <1>23 DEF CallbackReturns, ThreadChanges, OtherwiseUnchanged
  <1>24. ASSUME NEW n \in Sessions, DispatcherEnds(n) PROVE NoOrphans'
    BY <1>24 DEF DispatcherEnds, ThreadChanges, OtherwiseUnchanged
  <1>25. ASSUME NEW n \in Sessions, DispatcherFails(n) PROVE NoOrphans'
    BY <1>25 DEF DispatcherFails, ThreadChanges, OtherwiseUnchanged
  <1>26. ASSUME NEW n \in Sessions, Drain(n) PROVE NoOrphans'
    BY <1>26 DEF Drain, Released
  <1>27. CASE UNCHANGED vars
    BY <1>27 DEF vars
  <1> QED
    BY <1>1, <1>2, <1>3, <1>4, <1>5, <1>6, <1>7, <1>8, <1>9, <1>10, <1>11, <1>12,
       <1>13, <1>14, <1>15, <1>16, <1>17, <1>18, <1>19, <1>20, <1>21, <1>22, <1>23,
       <1>24, <1>25, <1>26, <1>27 DEF Next, CallStep, SessionStep

LEMMA DrainsStep == ASSUME Sound, [Next]_vars PROVE DrainsAreWatched'
  <1> USE LifecycleAssumption DEF Agents, Sessions, InMutex, Over, Quiet, IsOf, None,
              MutexFree
  <1> StateTypes /\ ClientTypes /\ CallTypes /\ MutexHeld /\ HistoryTypes
      /\ DrainsAreWatched /\ SlotAgrees /\ FailedIsOver /\ Gated /\ ClientsHeld
    BY DEF Sound, TypeOK
  <1>1. ASSUME NEW a \in Agents, Connect(a) PROVE DrainsAreWatched'
    <2>1. drained \cup retired \cup assured \subseteq 1..made
      BY DEF ClientTypes, HistoryTypes
    <2>2. \A m \in 1..made : m \in Sessions /\ m # made'
      BY <1>1, ConnectEffect DEF ClientTypes
    <2> QED
      BY <1>1, ConnectEffect, <2>1, <2>2 DEF history, DrainsAreWatched
  <1>2. ASSUME NEW n \in Sessions, CallbackBegins(n) PROVE DrainsAreWatched'
    <2>1. \A m \in Sessions : Over(m) => Over(m)'
      BY <1>2, DispatcherMoves
    <2>2. \A m \in Sessions : Quiet(m) => Quiet(m)'
      BY <1>2, DispatcherMoves
    <2>3. \A m \in drained \cup retired \cup assured : m \in Sessions
      BY DEF HistoryTypes, ClientTypes
    <2>4. UNCHANGED <<registered, kind, drained, retired, assured>>
      BY <1>2, DispatcherMoves DEF history
    <2> HIDE DEF Over, Quiet
    <2> QED
      BY <2>1, <2>2, <2>3, <2>4 DEF DrainsAreWatched
  <1>3. ASSUME NEW n \in Sessions, CallbackReturns(n) PROVE DrainsAreWatched'
    <2>1. \A m \in Sessions : Over(m) => Over(m)'
      BY <1>3, DispatcherMoves
    <2>2. \A m \in Sessions : Quiet(m) => Quiet(m)'
      BY <1>3, DispatcherMoves
    <2>3. \A m \in drained \cup retired \cup assured : m \in Sessions
      BY DEF HistoryTypes, ClientTypes
    <2>4. UNCHANGED <<registered, kind, drained, retired, assured>>
      BY <1>3, DispatcherMoves DEF history
    <2> HIDE DEF Over, Quiet
    <2> QED
      BY <2>1, <2>2, <2>3, <2>4 DEF DrainsAreWatched
  <1>4. ASSUME NEW n \in Sessions, DispatcherEnds(n) PROVE DrainsAreWatched'
    <2>1. \A m \in Sessions : Over(m) => Over(m)'
      BY <1>4, DispatcherMoves
    <2>2. \A m \in Sessions : Quiet(m) => Quiet(m)'
      BY <1>4, DispatcherMoves
    <2>3. \A m \in drained \cup retired \cup assured : m \in Sessions
      BY DEF HistoryTypes, ClientTypes
    <2>4. UNCHANGED <<registered, kind, drained, retired, assured>>
      BY <1>4, DispatcherMoves DEF history
    <2> HIDE DEF Over, Quiet
    <2> QED
      BY <2>1, <2>2, <2>3, <2>4 DEF DrainsAreWatched
  <1>5. ASSUME NEW n \in Sessions, DispatcherFails(n) PROVE DrainsAreWatched'
    <2>1. \A m \in Sessions : Over(m) => Over(m)'
      BY <1>5, DispatcherMoves
    <2>2. \A m \in Sessions : Quiet(m) => Quiet(m)'
      BY <1>5, DispatcherMoves
    <2>3. \A m \in drained \cup retired \cup assured : m \in Sessions
      BY DEF HistoryTypes, ClientTypes
    <2>4. UNCHANGED <<registered, kind, drained, retired, assured>>
      BY <1>5, DispatcherMoves DEF history
    <2> HIDE DEF Over, Quiet
    <2> QED
      BY <2>1, <2>2, <2>3, <2>4 DEF DrainsAreWatched
  <1>6. ASSUME NEW n \in Sessions, RecordFailed(n) PROVE DrainsAreWatched'
    <2>1. \A m \in Sessions : Over(m) => Over(m)'
      BY <1>6, DispatcherMoves
    <2>2. \A m \in Sessions : Quiet(m) => Quiet(m)'
      BY <1>6, DispatcherMoves
    <2>3. \A m \in drained \cup retired \cup assured : m \in Sessions
      BY DEF HistoryTypes, ClientTypes
    <2>4. UNCHANGED <<registered, kind, drained, retired, assured>>
      BY <1>6, DispatcherMoves DEF history
    <2> HIDE DEF Over, Quiet
    <2> QED
      BY <2>1, <2>2, <2>3, <2>4 DEF DrainsAreWatched
  <1> USE DEF state, clients, frames, history, StateTypes, ClientTypes, CallTypes,
              MutexHeld, HistoryTypes, DrainsAreWatched, SlotAgrees, FailedIsOver,
              Gated, ClientsHeld
  <1>7. ASSUME NEW a \in Agents, Stop(a) PROVE DrainsAreWatched'
    BY <1>7 DEF Stop, Begin, MayCall, At
  <1>8. ASSUME NEW a \in Agents, NEW k \in Kinds, Start(a, k) PROVE DrainsAreWatched'
    BY <1>8 DEF Start, Begin, MayCall, At, Kinds
  <1>9. ASSUME NEW a \in Agents, NEW n \in Sessions, Close(a, n) PROVE DrainsAreWatched'
    BY <1>9 DEF Close, Begin, MayCall, At
  <1>10. ASSUME NEW a \in Agents, Reconnect(a) PROVE DrainsAreWatched'
    BY <1>10 DEF Reconnect, Begin, MayCall, At, Tracked
  <1>11. ASSUME NEW a \in Agents, AwaitDrain(a) PROVE DrainsAreWatched'
    BY <1>11 DEF AwaitDrain, MayCall
  <1>12. ASSUME NEW a \in Agents, NEW s \in Streams, Subscribe(a, s)
        PROVE  DrainsAreWatched'
    BY <1>12 DEF Subscribe, MayCall, Accepts
  <1>13. ASSUME NEW a \in Agents, NEW s \in Streams, Unsubscribe(a, s)
        PROVE  DrainsAreWatched'
    BY <1>13 DEF Unsubscribe, MayCall
  <1>14. ASSUME NEW a \in Agents, LeaveAlone(a) PROVE DrainsAreWatched'
    BY <1>14 DEF LeaveAlone, Returns, At
  <1>15. ASSUME NEW a \in Agents, Retire(a) PROVE DrainsAreWatched'
    BY <1>15 DEF Retire, At
  <1>16. ASSUME NEW a \in Agents, Extract(a) PROVE DrainsAreWatched'
    BY SMTT(30), <1>16 DEF Extract, At, Register, RegistersDrainFlag, IdleSession
  <1>17. ASSUME NEW a \in Agents, Shutdown(a) PROVE DrainsAreWatched'
    BY <1>17 DEF Shutdown, At
  <1>18. ASSUME NEW a \in Agents, Join(a) PROVE DrainsAreWatched'
    BY <1>18 DEF Join, Joins, AfterTeardown, Returns, At
  <1>19. ASSUME NEW a \in Agents, Report(a) PROVE DrainsAreWatched'
    BY <1>19 DEF Report, AfterTeardown, Returns, At
  <1>20. ASSUME NEW a \in Agents, Refuse(a) PROVE DrainsAreWatched'
    BY <1>20 DEF Refuse, Returns, At
  <1>21. ASSUME NEW a \in Agents, ConnectFails(a) PROVE DrainsAreWatched'
    BY <1>21 DEF ConnectFails, Returns, At
  <1>22. ASSUME NEW a \in Agents, Install(a) PROVE DrainsAreWatched'
    BY <1>22 DEF Install, At
  <1>23. ASSUME NEW a \in Agents, Publish(a) PROVE DrainsAreWatched'
    BY <1>23 DEF Publish, Returns, At
  <1>24. ASSUME NEW a \in Agents, Restore(a) PROVE DrainsAreWatched'
    BY <1>24 DEF Restore, Restored, Accepts
  <1>25. ASSUME NEW a \in Agents, RestoreOver(a) PROVE DrainsAreWatched'
    BY <1>25 DEF RestoreOver, Returns, At
  <1>26. ASSUME NEW n \in Sessions, Drain(n) PROVE DrainsAreWatched'
    BY <1>26 DEF Drain, Released
  <1>27. CASE UNCHANGED vars
    BY <1>27 DEF vars
  <1> QED
    BY <1>1, <1>2, <1>3, <1>4, <1>5, <1>6, <1>7, <1>8, <1>9, <1>10, <1>11, <1>12,
       <1>13, <1>14, <1>15, <1>16, <1>17, <1>18, <1>19, <1>20, <1>21, <1>22, <1>23,
       <1>24, <1>25, <1>26, <1>27 DEF Next, CallStep, SessionStep

LEMMA MemoryStep == ASSUME Sound, [Next]_vars PROVE ReconnectsRemember'
  <1> USE LifecycleAssumption DEF Agents, Sessions, InMutex,
              ReconnectKeepsSubscriptions, None, MutexFree
  <1> StateTypes /\ ClientTypes /\ CallTypes /\ MutexHeld /\ HistoryTypes
      /\ ReconnectsRemember /\ ClientsHeld /\ SlotAgrees
    BY DEF Sound, TypeOK
  <1>1. ASSUME NEW a \in Agents, Shutdown(a) PROVE ReconnectsRemember'
    <2>1. \A b \in Agents : pc'[b] = "restore" <=> pc[b] = "restore"
      BY <1>1 DEF Shutdown, At, CallTypes
    <2>2. live # None => tracked'[live] = tracked[live]
      BY <1>1 DEF Shutdown, ClientsHeld, ClientTypes, StateTypes
    <2>3. UNCHANGED <<live, saved, owed, failed, calm>>
      BY <1>1 DEF Shutdown, state, history
    <2> QED
      BY <2>1, <2>2, <2>3 DEF ReconnectsRemember
  <1>2. ASSUME NEW a \in Agents, Join(a) PROVE ReconnectsRemember'
    <2>1. UNCHANGED <<live, tracked>>
      BY <1>2, JoinEffect DEF state, clients
    <2> QED
      BY <1>2, JoinEffect, <2>1 DEF ReconnectsRemember
  <1>3. ASSUME NEW a \in Agents, Report(a) PROVE ReconnectsRemember'
    <2>1. UNCHANGED <<live, tracked>> /\ pc[a] = "report"
      BY <1>3 DEF Report, clients
    <2> QED
      BY <1>3, TeardownEnds, <2>1 DEF Report, ReconnectsRemember
  <1>4. ASSUME NEW a \in Agents, Publish(a) PROVE ReconnectsRemember'
    BY <1>4, PublishEffect DEF ReconnectsRemember
  <1> USE DEF state, clients, frames, history, StateTypes, ClientTypes, CallTypes,
              MutexHeld, HistoryTypes, ReconnectsRemember, ClientsHeld, SlotAgrees
  <1>5. ASSUME NEW a \in Agents, Stop(a) PROVE ReconnectsRemember'
    BY <1>5 DEF Stop, Begin, MayCall, At
  <1>6. ASSUME NEW a \in Agents, NEW k \in Kinds, Start(a, k) PROVE ReconnectsRemember'
    BY <1>6 DEF Start, Begin, MayCall, At, Kinds
  <1>7. ASSUME NEW a \in Agents, NEW n \in Sessions, Close(a, n)
        PROVE  ReconnectsRemember'
    BY <1>7 DEF Close, Begin, MayCall, At
  <1>8. ASSUME NEW a \in Agents, Reconnect(a) PROVE ReconnectsRemember'
    BY <1>8 DEF Reconnect, Begin, MayCall, At, Tracked
  <1>9. ASSUME NEW a \in Agents, AwaitDrain(a) PROVE ReconnectsRemember'
    BY <1>9 DEF AwaitDrain, MayCall
  <1>10. ASSUME NEW a \in Agents, NEW s \in Streams, Subscribe(a, s)
        PROVE  ReconnectsRemember'
    BY <1>10 DEF Subscribe, MayCall, Accepts
  <1>11. ASSUME NEW a \in Agents, NEW s \in Streams, Unsubscribe(a, s)
        PROVE  ReconnectsRemember'
    BY <1>11 DEF Unsubscribe, MayCall
  <1>12. ASSUME NEW a \in Agents, LeaveAlone(a) PROVE ReconnectsRemember'
    BY <1>12 DEF LeaveAlone, Returns, At
  <1>13. ASSUME NEW a \in Agents, Retire(a) PROVE ReconnectsRemember'
    BY <1>13 DEF Retire, At
  <1>14. ASSUME NEW a \in Agents, Extract(a) PROVE ReconnectsRemember'
    BY <1>14 DEF Extract, At, Register, RegistersDrainFlag, IdleSession
  <1>15. ASSUME NEW a \in Agents, Refuse(a) PROVE ReconnectsRemember'
    BY <1>15 DEF Refuse, Returns, At
  <1>16. ASSUME NEW a \in Agents, ConnectFails(a) PROVE ReconnectsRemember'
    BY <1>16 DEF ConnectFails, Returns, At
  <1>17. ASSUME NEW a \in Agents, Connect(a) PROVE ReconnectsRemember'
    BY <1>17 DEF Connect, At
  <1>18. ASSUME NEW a \in Agents, Install(a) PROVE ReconnectsRemember'
    BY <1>18 DEF Install, At
  <1>19. ASSUME NEW a \in Agents, Restore(a) PROVE ReconnectsRemember'
    BY <1>19 DEF Restore, Restored, Accepts
  <1>20. ASSUME NEW a \in Agents, RestoreOver(a) PROVE ReconnectsRemember'
    BY <1>20 DEF RestoreOver, Returns, At
  <1>21. ASSUME NEW n \in Sessions, CallbackBegins(n) PROVE ReconnectsRemember'
    BY <1>21 DEF CallbackBegins, ThreadChanges, OtherwiseUnchanged
  <1>22. ASSUME NEW n \in Sessions, CallbackReturns(n) PROVE ReconnectsRemember'
    BY <1>22 DEF CallbackReturns, ThreadChanges, OtherwiseUnchanged
  <1>23. ASSUME NEW n \in Sessions, DispatcherEnds(n) PROVE ReconnectsRemember'
    BY <1>23 DEF DispatcherEnds, ThreadChanges, OtherwiseUnchanged
  <1>24. ASSUME NEW n \in Sessions, DispatcherFails(n) PROVE ReconnectsRemember'
    BY <1>24 DEF DispatcherFails, ThreadChanges, OtherwiseUnchanged
  <1>25. ASSUME NEW n \in Sessions, RecordFailed(n) PROVE ReconnectsRemember'
    BY <1>25 DEF RecordFailed, ThreadChanges, OtherwiseUnchanged
  <1>26. ASSUME NEW n \in Sessions, Drain(n) PROVE ReconnectsRemember'
    BY <1>26 DEF Drain, Released
  <1>27. CASE UNCHANGED vars
    BY <1>27 DEF vars
  <1> QED
    BY <1>1, <1>2, <1>3, <1>4, <1>5, <1>6, <1>7, <1>8, <1>9, <1>10, <1>11, <1>12,
       <1>13, <1>14, <1>15, <1>16, <1>17, <1>18, <1>19, <1>20, <1>21, <1>22, <1>23,
       <1>24, <1>25, <1>26, <1>27 DEF Next, CallStep, SessionStep

------------------------------------------------------------------------------
LEMMA InitSound == Init => Sound
  <1> SUFFICES ASSUME Init PROVE Sound
    OBVIOUS
  <1> USE LifecycleAssumption DEF Init, None, Agents, Sessions, IdleSession
  <1>1. StateTypes /\ ClientTypes
    BY DEF StateTypes, ClientTypes, Kinds, Threads
  <1>2. CallTypes /\ HistoryTypes
    BY DEF CallTypes, HistoryTypes, Places
  <1>3. MutexHeld /\ ClientsHeld /\ Gated
    BY DEF MutexHeld, InMutex, ClientsHeld, Gated
  <1>4. SlotAgrees /\ FailedIsOver /\ GenerationsMove /\ NoOrphans
    BY DEF SlotAgrees, IsOf, FailedIsOver, GenerationsMove, ReadersOwn, InMutex, NoOrphans
  <1>5. DrainsAreWatched /\ ReconnectsRemember
    BY DEF DrainsAreWatched, ReconnectsRemember, ReconnectKeepsSubscriptions
  <1> QED
    BY <1>1, <1>2, <1>3, <1>4, <1>5 DEF Sound, TypeOK

\* The strengthening is an invariant (client.rs:204-518, 837-1195).
THEOREM LifecycleSound == SafetySpec => []Sound
<1>1. Sound /\ [Next]_vars => Sound'
  BY StateTypesStep, ClientTypesStep, CallTypesStep, HistoryTypesStep, MutexStep,
     ClientsStep, GatesStep, SlotsStep, FailuresStep, GenerationsStep, OrphansStep,
     DrainsStep, MemoryStep DEF Sound, TypeOK
<1> QED
  BY <1>1, InitSound, PTL DEF SafetySpec

\* Every variable has its type, and who is between the lock and the unlock of the
\* dispatcher mutex holds it (client.rs:204).
THEOREM LifecycleTyped == SafetySpec => []TypeOK
<1>1. Sound => TypeOK
  BY DEF Sound
<1> QED
  BY <1>1, LifecycleSound, PTL

\* The slot and the dispatcher session agree, no connected client is left without an
\* owner and no reader retires the session of another (client.rs:348, 500, 2888).
THEOREM SessionsOwned == SafetySpec => []SessionsAreOwned
<1>1. Sound => SessionsAreOwned
  BY DEF Sound, SlotAgrees, IsOf, FailedIsOver, GenerationsMove, SlotAndSessionAgree,
         SessionsAreOwned, None
<1> QED
  BY <1>1, LifecycleSound, PTL

\* After await_drain returned true no callback of a session retired before runs
\* (client.rs:181).
THEOREM DrainsTruthful == SafetySpec => []DrainIsTruthful
<1>1. Sound => DrainIsTruthful
  BY DEF Sound, DrainsAreWatched, DrainIsTruthful, Quiet
<1> QED
  BY <1>1, LifecycleSound, PTL

\* A reconnect that no teardown crosses loses no subscription in silence
\* (client.rs:1733).
THEOREM ReconnectsKeep == SafetySpec => []ReconnectKeepsSubscriptions
<1>1. Sound => ReconnectKeepsSubscriptions
  BY DEF Sound, ReconnectsRemember
<1> QED
  BY <1>1, LifecycleSound, PTL

------------------------------------------------------------------------------
(* Who waits for whom *)

\* Who may wait for whom: a dispatcher that makes a call is inside a callback, the session
\* that runs is the last that was made, and a call that joins has told the client of that
\* dispatcher to stop.
Callbacks ==
    /\ \A n \in Sessions : n <= made <=> thread[n] # "none"
    /\ \A n \in Sessions : pc[n] # "idle" => thread[n] = "callback"
LastRuns ==
    /\ live # None => live = made
    /\ session.is = "Running" => session.of = made
Told(a) ==
    /\ handle[a] # None =>
         pc[a] \in {"shutdown", "join", "report"} /\ thread[handle[a]] # "gated"
    /\ handle[a] # None => client[a] = handle[a] \/ ~up[handle[a]]
    /\ pc[a] \in {"join", "report"} => client[a] = None
JoinedAreTold == \A a \in Agents : Told(a)

\* A dispatcher joins itself, which it is spared, or a later one.
JoinsAscend == \A n \in Sessions : handle[n] # None => n <= handle[n]

Waits == Callbacks /\ LastRuns /\ JoinedAreTold /\ JoinsAscend

\* The guard of some step of a call holds, or that of a dispatcher which was told to stop,
\* fails, or runs a callback that makes no call.
CallsGoOn ==
    \/ \E a \in Agents :
         \/ pc[a] \in {"extract", "shutdown", "install", "publish", "restore"}
         \/ pc[a] \in {"retire", "lock", "report"} /\ MutexFree
         \/ pc[a] = "join" /\ (Joins(a) => Over(handle[a]))
    \/ \E n \in Sessions :
         \/ thread[n] = "callback" /\ pc[n] = "idle"
         \/ thread[n] = "draining" /\ ~up[n]
         \/ thread[n] = "failing" /\ MutexFree

NeverStuck == (\E a \in Agents : pc[a] # "idle") => CallsGoOn

\* What a call holds is a session that was made.
LEMMA HeldAreSessions ==
  ASSUME Sound, NEW a \in Agents
  PROVE  /\ handle[a] # None => handle[a] \in Sessions /\ handle[a] <= made
         /\ client[a] # None => client[a] \in Sessions
<1>1. made \in 0..MaxSessions /\ client[a] \in 0..made /\ handle[a] \in 0..made
  BY Zenon DEF Sound, TypeOK, ClientTypes, CallTypes
<1> QED
  BY <1>1, LifecycleAssumption, SMT DEF Sessions, None

\* One call begins, or goes on, and no dispatcher moves.
LEMMA OneCallMoves ==
  ASSUME Sound, Waits, NEW a \in Agents,
         UNCHANGED <<made, thread>>,
         live' \in {live, None, made},
         session' = session \/ session'.is # "Running",
         \A n \in Sessions : up'[n] => up[n],
         \A b \in Agents : b # a =>
           pc'[b] = pc[b] /\ client'[b] = client[b] /\ handle'[b] = handle[b],
         pc[a] # "idle" \/ MayCall(a) \/ pc'[a] = "idle",
         Told(a)',
         a \in Sessions /\ handle'[a] # None => a <= handle'[a]
  PROVE  Waits'
<1>1. Callbacks'
  <2>1. \A n \in Sessions : pc'[n] # "idle" => thread[n] = "callback"
    BY Zenon DEF Waits, Callbacks, MayCall, Agents
  <2> QED
    BY <2>1, Zenon DEF Waits, Callbacks
<1>2. LastRuns'
  BY Zenon DEF Waits, LastRuns
<1>3. JoinedAreTold'
  <2> SUFFICES ASSUME NEW b \in Agents, b # a PROVE Told(b)'
    BY Zenon DEF JoinedAreTold
  <2>1. handle[b] # None => handle[b] \in Sessions
    BY HeldAreSessions
  <2>2. Told(b)
    BY Zenon DEF Waits, JoinedAreTold
  <2> QED
    BY <2>1, <2>2, Zenon DEF Told
<1>4. JoinsAscend'
  <2>1. \A n \in Sessions : n \in Agents
    BY Zenon DEF Agents
  <2> QED
    BY <2>1, Zenon DEF Waits, JoinsAscend
<1> QED
  BY <1>1, <1>2, <1>3, <1>4, Zenon DEF Waits

\* A call that is just beginning joins nobody.
LEMMA WaitsBegin ==
  ASSUME Sound, Waits, NEW a \in Agents, MayCall(a),
         UNCHANGED <<made, thread, live, session, up, client, handle>>,
         \/ UNCHANGED pc
         \/ \E where \in {"retire", "lock"} : At(a, where)
  PROVE  Waits'
<1>1. pc[a] = "idle" /\ pc \in [Agents -> Places]
  BY Zenon DEF MayCall, Sound, TypeOK, CallTypes
<1>2. \A b \in Agents : b # a => pc'[b] = pc[b]
  BY <1>1, Zenon DEF At
<1>3. pc'[a] \in {"idle", "retire", "lock"}
  BY <1>1, Zenon DEF At
<1>4. handle[a] = None
  BY <1>1, SMT DEF Waits, JoinedAreTold, Told
<1>5. Told(a)'
  BY <1>3, <1>4, SMT DEF Told
<1> QED
  BY <1>2, <1>4, <1>5, OneCallMoves

\* A call that neither joins nor leaves a teardown.
LEMMA WaitsElsewhere ==
  ASSUME Sound, Waits, NEW a \in Agents,
         UNCHANGED <<made, thread, session, up, client, handle>>,
         live' \in {live, made},
         \A b \in Agents : b # a => pc'[b] = pc[b],
         pc[a] \notin {"idle", "shutdown", "join", "report"},
         pc'[a] \notin {"join", "report"}
  PROVE  Waits'
<1>1. handle[a] = None
  BY SMT DEF Waits, JoinedAreTold, Told
<1>2. Told(a)'
  BY <1>1, SMT DEF Told
<1> QED
  BY <1>1, <1>2, OneCallMoves

\* So it is at first.
LEMMA WaitsFirst == Init => Waits
<1> SUFFICES ASSUME Init PROVE Waits
  OBVIOUS
<1>1. Callbacks
  <2>1. \A n \in Sessions : thread[n] = "none" /\ pc[n] = "idle" /\ ~(n <= made)
    BY SMT DEF Init, Sessions, Agents
  <2> QED
    BY <2>1, Zenon DEF Callbacks
<1>2. LastRuns
  BY SMT DEF Init, LastRuns, IdleSession
<1>3. \A a \in Agents : handle[a] = None /\ client[a] = None /\ pc[a] = "idle"
  BY Zenon DEF Init
<1>4. JoinedAreTold /\ JoinsAscend
  BY <1>3, Zenon DEF JoinedAreTold, Told, JoinsAscend, Agents
<1> QED
  BY <1>1, <1>2, <1>4, Zenon DEF Waits

\* A teardown: what it extracts is what it tells to stop, and the last to have been made.
LEMMA WaitsTeardown ==
  ASSUME Sound, Waits, NEW a \in Agents,
         Retire(a) \/ Extract(a) \/ Shutdown(a)
  PROVE  Waits'
<1>0. /\ StateTypes /\ ClientTypes /\ CallTypes
      /\ pc \in [Agents -> Places]
      /\ client \in [Agents -> 0..made] /\ handle \in [Agents -> 0..made]
  BY Zenon DEF Sound, TypeOK, CallTypes
<1>1. CASE Retire(a)
  <2>1. pc[a] = "retire" /\ pc'[a] = "extract" /\ live' = None
        /\ UNCHANGED <<session, made, thread, up, handle>>
    BY <1>0, <1>1, Zenon DEF Retire, At, clients
  <2>2. \A b \in Agents : b # a => pc'[b] = pc[b] /\ client'[b] = client[b]
    BY <1>0, <1>1, Zenon DEF Retire, At
  <2>3. handle[a] = None
    BY <2>1, SMT DEF Waits, JoinedAreTold, Told
  <2>4. Told(a)'
    BY <2>1, <2>3, SMT DEF Told
  <2> QED
    BY <2>1, <2>2, <2>3, <2>4, OneCallMoves
<1>2. CASE Extract(a)
  <2>1. /\ pc[a] = "extract" /\ pc'[a] = "shutdown" /\ session'.is = "Idle"
        /\ UNCHANGED <<live, made, thread, up, client>>
    BY <1>0, <1>2, Zenon DEF Extract, At, clients, IdleSession
  <2>2. \A b \in Agents : b # a => pc'[b] = pc[b] /\ handle'[b] = handle[b]
    BY <1>0, <1>2, Zenon DEF Extract, At
  <2>3. handle'[a] = IF session.is = "Running" THEN session.of ELSE None
    BY <1>0, <1>2, Zenon DEF Extract
  <2>4. handle'[a] # None => /\ handle'[a] = made /\ client[a] = made
                             /\ thread[made] # "gated"
    <3> SUFFICES ASSUME handle'[a] # None
                 PROVE  /\ handle'[a] = made /\ client[a] = made
                        /\ thread[made] # "gated"
      OBVIOUS
    <3>1. session.is = "Running" /\ handle'[a] = session.of
      BY <2>3, Zenon
    <3>2. session.of = made
      BY <3>1, Zenon DEF Waits, LastRuns
    <3>3. IsOf(client[a])
      BY <2>1, Zenon DEF Sound, SlotAgrees
    <3>4. client[a] = made
      BY <3>1, <3>2, <3>3, Zenon DEF IsOf
    <3>5. made \in Sessions
      BY <1>0, <3>1, <3>2, SMT DEF ClientTypes, Sessions, None
    <3>6. \A b \in Agents : pc[b] \notin {"install", "publish"}
      BY <2>1, SMT DEF Sound, TypeOK, MutexHeld, InMutex
    <3>7. thread[made] # "gated"
      BY <3>5, <3>6, Zenon DEF Sound, Gated
    <3> QED
      BY <3>1, <3>2, <3>4, <3>7
  <2>5. Told(a)'
    BY <2>1, <2>4, SMT DEF Told
  <2>6. a \in Sessions /\ handle'[a] # None => a <= handle'[a]
    <3>1. a \in Sessions => a <= made
      BY <2>1, Zenon DEF Waits, Callbacks
    <3> QED
      BY <2>4, <3>1, Zenon
  <2> QED
    BY <2>1, <2>2, <2>5, <2>6, OneCallMoves
<1>3. CASE Shutdown(a)
  <2>1. /\ pc[a] = "shutdown" /\ pc'[a] = "join" /\ client'[a] = None
        /\ UNCHANGED <<live, session, made, thread, handle>>
    BY <1>0, <1>3, Zenon DEF Shutdown, At, state
  <2>2. \A b \in Agents : b # a => pc'[b] = pc[b] /\ client'[b] = client[b]
    BY <1>0, <1>3, Zenon DEF Shutdown, At
  <2>3. /\ \A n \in Sessions : up'[n] => up[n]
        /\ client[a] # None => ~up'[client[a]]
    <3>1. up \in [Sessions -> BOOLEAN] /\ (client[a] # None => client[a] \in Sessions)
      BY <1>0, HeldAreSessions, Zenon DEF ClientTypes
    <3>2. up' = up \/ (client[a] # None /\ up' = [up EXCEPT ![client[a]] = FALSE])
      BY <1>3, Zenon DEF Shutdown
    <3>3. client[a] # None /\ up[client[a]] => up' = [up EXCEPT ![client[a]] = FALSE]
      BY <1>3, Zenon DEF Shutdown
    <3> QED
      BY <3>1, <3>2, <3>3, Zenon
  <2>4. handle[a] # None => handle[a] \in Sessions
    BY HeldAreSessions
  <2>5. Told(a)
    BY Zenon DEF Waits, JoinedAreTold
  <2>6. Told(a)'
    BY <2>1, <2>3, <2>4, <2>5, SMT DEF Told
  <2>7. a \in Sessions /\ handle'[a] # None => a <= handle'[a]
    BY <2>1, Zenon DEF Waits, JoinsAscend
  <2> QED
    BY <2>1, <2>2, <2>3, <2>6, <2>7, OneCallMoves
<1> QED
  BY <1>1, <1>2, <1>3

\* The join, and what follows it: only a join that reports keeps the handle.
LEMMA WaitsJoin ==
  ASSUME Sound, Waits, NEW a \in Agents, Join(a) \/ Report(a)
  PROVE  Waits'
<1>1. pc[a] \in {"join", "report"} /\ client[a] = None
  <2>1. pc[a] \in {"join", "report"}
    BY Zenon DEF Join, Report
  <2> QED
    BY <2>1, Zenon DEF Waits, JoinedAreTold, Told
<1>2. /\ UNCHANGED <<made, thread, live, up, client>>
      /\ session' = session \/ session'.is # "Running"
  <2>1. CASE Join(a)
    BY <2>1, Zenon DEF Join, state, clients
  <2>2. CASE Report(a)
    <3>1. session' = session \/ session' = [is |-> "Failed", of |-> handle[a]]
      BY <2>2, Zenon DEF Report
    <3>2. UNCHANGED <<made, thread, live, up, client>>
      BY <2>2, Zenon DEF Report, clients
    <3> QED
      BY <3>1, <3>2, SMT
  <2> QED
    BY <2>1, <2>2
<1>3. /\ \A b \in Agents : b # a => pc'[b] = pc[b] /\ handle'[b] = handle[b]
      /\ \/ pc'[a] = "report" /\ handle'[a] = handle[a]
         \/ pc'[a] \in {"idle", "lock"} /\ handle'[a] = None
  <2>1. CASE AfterTeardown(a)
    BY <2>1, TeardownEnds, Zenon
  <2>2. CASE At(a, "report") /\ UNCHANGED handle
    <3>1. pc \in [Agents -> Places]
      BY Zenon DEF Sound, TypeOK, CallTypes
    <3> QED
      BY <2>2, <3>1, Zenon DEF At
  <2> QED
    BY <2>1, <2>2, Zenon DEF Join, Report
<1>4. Told(a)'
  <2>1. Told(a)
    BY Zenon DEF Waits, JoinedAreTold
  <2> QED
    BY <1>1, <1>2, <1>3, <2>1, SMT DEF Told
<1>5. a \in Sessions /\ handle'[a] # None => a <= handle'[a]
  BY <1>3, Zenon DEF Waits, JoinsAscend
<1>6. pc[a] # "idle"
  BY <1>1
<1> QED
  BY <1>2, <1>3, <1>4, <1>5, <1>6, OneCallMoves

\* A start: the session it makes is above all others, and nobody makes calls from it yet.
LEMMA WaitsStart ==
  ASSUME Sound, Waits, NEW a \in Agents,
         Refuse(a) \/ ConnectFails(a) \/ Connect(a) \/ Install(a) \/ Publish(a)
  PROVE  Waits'
<1>0. /\ made \in 0..MaxSessions
      /\ pc \in [Agents -> Places]
      /\ a \in Sessions => (pc[a] # "idle" => thread[a] = "callback" /\ a <= made)
      /\ pc[a] # "idle"
      /\ handle[a] = None
  <2>1. pc[a] \in {"lock", "install", "publish"}
    BY Zenon DEF Refuse, ConnectFails, Connect, Install, Publish
  <2>2. handle[a] = None
    BY <2>1, SMT DEF Waits, JoinedAreTold, Told
  <2>3. a \in Sessions => thread[a] = "callback" /\ a <= made
    BY <2>1, SMT DEF Waits, Callbacks
  <2> QED
    BY <2>1, <2>2, <2>3, Zenon DEF Sound, TypeOK, ClientTypes, CallTypes
<1>1. CASE Refuse(a) \/ ConnectFails(a)
  <2>1. pc[a] = "lock" /\ Returns(a)
        /\ UNCHANGED <<made, thread, live, session, up, client, handle>>
    BY <1>1, Zenon DEF Refuse, ConnectFails, state, clients
  <2>2. pc'[a] = "idle" /\ \A b \in Agents : b # a => pc'[b] = pc[b]
    BY <2>1, CallEnds
  <2> QED
    BY <2>1, <2>2, WaitsElsewhere
<1>2. CASE Connect(a)
  <2>1. /\ pc[a] = "lock" /\ pc'[a] = "install" /\ made' = made + 1 /\ made' \in Sessions
        /\ \A b \in Agents : b # a => pc'[b] = pc[b]
        /\ holder = None /\ live = None
        /\ thread'[made'] = "gated" /\ \A m \in Sessions : m # made' => thread'[m] = thread[m]
        /\ \A m \in 1..made : up'[m] = up[m]
        /\ UNCHANGED <<live, session, client, handle>>
    BY <1>2, ConnectEffect
  <2>2. \A n \in Sessions : (n <= made' <=> n <= made \/ n = made') /\ ~(made' <= made)
    BY <1>0, <2>1, LifecycleAssumption, SMT DEF Sessions
  <2>3. pc[made'] = "idle" /\ a # made'
    <3>1. thread[made'] = "none"
      BY <2>1, <2>2, Zenon DEF Waits, Callbacks
    <3>2. thread[made'] # "callback"
      BY <3>1
    <3> QED
      BY <1>0, <2>1, <3>2, Zenon DEF Waits, Callbacks
  <2>4. Callbacks'
    <3>1. ASSUME NEW n \in Sessions PROVE n <= made' <=> thread'[n] # "none"
      <4>1. n <= made <=> thread[n] # "none"
        BY Zenon DEF Waits, Callbacks
      <4>2. "gated" # "none"
        OBVIOUS
      <4> QED
        BY <2>1, <2>2, <4>1, <4>2, Zenon
    <3>2. ASSUME NEW n \in Sessions, pc'[n] # "idle" PROVE thread'[n] = "callback"
      <4>1. n \in Agents
        BY Zenon DEF Agents
      <4>2. n # made'
        BY <2>1, <2>3, <3>2, <4>1, Zenon
      <4>3. thread[n] = "callback"
        BY <1>0, <2>1, <3>2, <4>1, Zenon DEF Waits, Callbacks
      <4> QED
        BY <2>1, <4>2, <4>3, Zenon
    <3> QED
      BY <3>1, <3>2, Zenon DEF Callbacks
  <2>5. LastRuns'
    <3>1. IsOf(None)
      BY <2>1, Zenon DEF Sound, SlotAgrees, MutexFree
    <3> QED
      BY <2>1, <3>1, Zenon DEF IsOf, LastRuns
  <2>6. JoinedAreTold'
    <3> SUFFICES ASSUME NEW b \in Agents PROVE Told(b)'
      BY Zenon DEF JoinedAreTold
    <3>1. CASE b = a
      BY <1>0, <2>1, <3>1, SMT DEF Told
    <3>2. CASE b # a
      <4>1. Told(b)
        BY Zenon DEF Waits, JoinedAreTold
      <4>2. handle[b] # None => handle[b] # made' /\ handle[b] \in Sessions
                                /\ handle[b] \in 1..made
        <5>1. handle[b] # None => handle[b] \in Sessions /\ handle[b] <= made
          BY HeldAreSessions
        <5> QED
          BY <1>0, <2>1, <5>1, LifecycleAssumption, SMT DEF Sessions
      <4> QED
        BY <2>1, <3>2, <4>1, <4>2, Zenon DEF Told
    <3> QED
      BY <3>1, <3>2
  <2>7. JoinsAscend'
    BY <2>1, Zenon DEF Waits, JoinsAscend
  <2> QED
    BY <2>4, <2>5, <2>6, <2>7, Zenon DEF Waits
<1>3. CASE Install(a)
  <2>1. pc[a] = "install" /\ pc'[a] = "publish" /\ live' = made
        /\ UNCHANGED <<made, thread, session, up, client, handle>>
    BY <1>0, <1>3, Zenon DEF Install, At, clients
  <2>2. \A b \in Agents : b # a => pc'[b] = pc[b]
    BY <1>0, <1>3, Zenon DEF Install, At
  <2> QED
    BY <2>1, <2>2, WaitsElsewhere
<1>4. CASE Publish(a)
  <2>1. /\ pc[a] = "publish" /\ pc'[a] \in {"idle", "restore"}
        /\ \A b \in Agents : b # a => pc'[b] = pc[b]
        /\ live \in Sessions /\ live = made /\ thread[live] = "gated"
        /\ session'.is = "Running" /\ session'.of = live
        /\ thread'[live] = "draining"
        /\ \A m \in Sessions : m # live => thread'[m] = thread[m]
        /\ UNCHANGED <<live, made, up, client, handle>>
    BY <1>4, PublishEffect
  <2>2. Callbacks'
    <3>1. ASSUME NEW n \in Sessions PROVE n <= made' <=> thread'[n] # "none"
      <4>1. n <= made <=> thread[n] # "none"
        BY Zenon DEF Waits, Callbacks
      <4>2. "gated" # "none" /\ "draining" # "none"
        OBVIOUS
      <4> QED
        BY <2>1, <4>1, <4>2, Zenon
    <3>2. ASSUME NEW n \in Sessions, pc'[n] # "idle" PROVE thread'[n] = "callback"
      <4>1. n \in Agents
        BY Zenon DEF Agents
      <4>2. pc[n] # "idle"
        BY <1>0, <2>1, <3>2, <4>1, Zenon
      <4>3. thread[n] = "callback"
        BY <4>2, Zenon DEF Waits, Callbacks
      <4>4. n # live
        BY <2>1, <4>3
      <4> QED
        BY <2>1, <4>3, <4>4, Zenon
    <3> QED
      BY <3>1, <3>2, Zenon DEF Callbacks
  <2>3. LastRuns'
    BY <2>1, Zenon DEF LastRuns
  <2>4. JoinedAreTold'
    <3> SUFFICES ASSUME NEW b \in Agents PROVE Told(b)'
      BY Zenon DEF JoinedAreTold
    <3>1. CASE b = a
      BY <1>0, <2>1, <3>1, SMT DEF Told
    <3>2. CASE b # a
      <4>1. Told(b)
        BY Zenon DEF Waits, JoinedAreTold
      <4>2. handle[b] # None => handle[b] \in Sessions
        BY HeldAreSessions
      <4>3. "draining" # "gated"
        OBVIOUS
      <4> QED
        BY <2>1, <3>2, <4>1, <4>2, <4>3, Zenon DEF Told
    <3> QED
      BY <3>1, <3>2
  <2>5. JoinsAscend'
    BY <2>1, Zenon DEF Waits, JoinsAscend
  <2> QED
    BY <2>2, <2>3, <2>4, <2>5, Zenon DEF Waits
<1> QED
  BY <1>1, <1>2, <1>3, <1>4

\* A dispatcher moves, or a client is drained: a callback does not return while it makes a
\* call.
LEMMA WaitsSession ==
  ASSUME Sound, Waits, NEW n \in Sessions, SessionStep(n)
  PROVE  Waits'
<1>0. thread \in [Sessions -> Threads] /\ up \in [Sessions -> BOOLEAN]
  BY Zenon DEF Sound, TypeOK, ClientTypes
<1>1. /\ UNCHANGED <<live, made, pc, client, handle>>
      /\ session' = session \/ session'.is # "Running"
  <2>1. UNCHANGED <<live, made, pc, client, handle>>
    BY Zenon DEF SessionStep, CallbackBegins, CallbackReturns, DispatcherEnds,
                 DispatcherFails, RecordFailed, Drain, OtherwiseUnchanged, frames, state
  <2>2. session' = session \/ session' = [is |-> "Failed", of |-> n]
    BY Zenon DEF SessionStep, CallbackBegins, CallbackReturns, DispatcherEnds,
                 DispatcherFails, RecordFailed, Drain, state
  <2> QED
    BY <2>1, <2>2, SMT
<1>2. \A m \in Sessions : up'[m] => up[m]
  <2>1. up' = up \/ up' = [up EXCEPT ![n] = FALSE]
    BY Zenon DEF SessionStep, CallbackBegins, CallbackReturns, DispatcherEnds,
                 DispatcherFails, RecordFailed, Drain
  <2> QED
    BY <1>0, <2>1, Zenon
<1>3. /\ \A m \in Sessions : m # n => thread'[m] = thread[m]
      /\ \/ thread'[n] = thread[n]
         \/ /\ thread[n] \notin {"none", "gated"} /\ thread'[n] \notin {"none", "gated"}
            /\ thread[n] = "callback" => pc[n] = "idle"
  <2>1. CASE Drain(n)
    BY <2>1, Zenon DEF Drain
  <2>2. CASE ~Drain(n)
    <3>1. thread[n] = "callback" => pc[n] = "idle"
      BY <2>2, Zenon DEF SessionStep, CallbackBegins, CallbackReturns, DispatcherEnds,
                         DispatcherFails, RecordFailed, ThreadChanges
    <3>2. /\ thread[n] \in {"draining", "callback", "failing"}
          /\ thread'[n] \notin {"none", "gated"}
          /\ \A m \in Sessions : m # n => thread'[m] = thread[m]
      BY <2>2, DispatcherMoves, Zenon DEF SessionStep
    <3> QED
      BY <3>1, <3>2
  <2> QED
    BY <2>1, <2>2
<1>4. Callbacks'
  <2>1. ASSUME NEW m \in Sessions PROVE m <= made' <=> thread'[m] # "none"
    <3>1. m <= made <=> thread[m] # "none"
      BY Zenon DEF Waits, Callbacks
    <3> QED
      BY <1>1, <1>3, <3>1
  <2>2. ASSUME NEW m \in Sessions, pc'[m] # "idle" PROVE thread'[m] = "callback"
    <3>1. pc[m] # "idle"
      BY <1>1, <2>2
    <3>2. thread[m] = "callback"
      BY <3>1, Zenon DEF Waits, Callbacks
    <3> QED
      BY <1>3, <3>1, <3>2
  <2> QED
    BY <2>1, <2>2, Zenon DEF Callbacks
<1>5. LastRuns'
  BY <1>1, Zenon DEF Waits, LastRuns
<1>6. JoinedAreTold'
  <2> SUFFICES ASSUME NEW b \in Agents PROVE Told(b)'
    BY Zenon DEF JoinedAreTold
  <2>1. Told(b)
    BY Zenon DEF Waits, JoinedAreTold
  <2>2. handle[b] # None => handle[b] \in Sessions
    BY HeldAreSessions
  <2>3. handle[b] # None => thread'[handle[b]] # "gated"
    BY <1>3, <2>1, <2>2 DEF Told
  <2> QED
    BY <1>1, <1>2, <2>1, <2>2, <2>3, Zenon DEF Told
<1>7. JoinsAscend'
  BY <1>1, Zenon DEF Waits, JoinsAscend
<1> QED
  BY <1>4, <1>5, <1>6, <1>7, Zenon DEF Waits

\* And so it stays.
LEMMA WaitsStay ==
  ASSUME Sound, Waits, [Next]_vars
  PROVE  Waits'
<1>1. ASSUME NEW a \in Agents, Stop(a) \/ Reconnect(a) \/ \E k \in Kinds : Start(a, k)
      PROVE  Waits'
  <2>1. \E where \in {"retire", "lock"} : At(a, where)
    BY <1>1, Zenon DEF Stop, Reconnect, Start, Begin
  <2>2. MayCall(a) /\ UNCHANGED <<made, thread, live, session, up, client, handle>>
    BY <1>1, Zenon DEF Stop, Reconnect, Start, Begin, state, clients
  <2> QED
    BY <2>1, <2>2, WaitsBegin
<1>2. ASSUME NEW a \in Agents, NEW n \in Sessions, Close(a, n) PROVE Waits'
  <2>1. \E where \in {"retire", "lock"} : At(a, where)
    BY <1>2, Zenon DEF Close, Begin
  <2>2. MayCall(a) /\ UNCHANGED <<made, thread, live, session, up, client, handle>>
    BY <1>2, Zenon DEF Close, Begin, state
  <2> QED
    BY <2>1, <2>2, WaitsBegin
<1>3. ASSUME NEW a \in Agents,
             \/ AwaitDrain(a)
             \/ \E s \in Streams : Subscribe(a, s) \/ Unsubscribe(a, s)
      PROVE  Waits'
  <2>1. MayCall(a) /\ UNCHANGED <<pc, made, thread, live, session, up, client, handle>>
    BY <1>3, Zenon DEF AwaitDrain, Subscribe, Unsubscribe, state, clients, frames
  <2> QED
    BY <2>1, WaitsBegin
<1>4. ASSUME NEW a \in Agents, CallStep(a) PROVE Waits'
  <2>1. CASE LeaveAlone(a) \/ RestoreOver(a)
    <3>1. pc[a] \in {"retire", "restore"} /\ Returns(a)
          /\ UNCHANGED <<made, thread, live, session, up, client, handle>>
      BY <2>1, Zenon DEF LeaveAlone, RestoreOver, state, clients
    <3>2. pc'[a] = "idle" /\ \A b \in Agents : b # a => pc'[b] = pc[b]
      BY <3>1, CallEnds
    <3> QED
      BY <3>1, <3>2, WaitsElsewhere
  <2>2. CASE Restore(a)
    <3>1. pc[a] = "restore"
          /\ UNCHANGED <<pc, made, thread, live, session, up, client, handle>>
      BY <2>2, Zenon DEF Restore, state
    <3> QED
      BY <3>1, WaitsElsewhere
  <2> QED
    BY <1>4, <2>1, <2>2, WaitsTeardown, WaitsJoin, WaitsStart, Zenon DEF CallStep
<1>5. CASE UNCHANGED vars
  BY <1>5, Zenon DEF vars, state, clients, frames, Waits, Callbacks, LastRuns, JoinedAreTold,
                     Told, JoinsAscend
<1> QED
  BY <1>1, <1>2, <1>3, <1>4, <1>5, WaitsSession, Zenon DEF Next

\* Among finitely many numbers that are not none, one is the largest.
LEMMA OneIsLargest ==
  ASSUME NEW W, W \subseteq Sessions, W # {}
  PROVE  \E x \in W : \A y \in W : y <= x
<1> DEFINE From(x) == {y \in W : x <= y}
           T == {From(x) : x \in W}
           R == StrictSubsetOrdering(Sessions)
           S == FiniteSubsetsOf(Sessions)
<1>1. IsFiniteSet(Sessions) /\ Sessions \subseteq Int
  BY LifecycleAssumption, FS_Interval DEF Sessions
<1>2. T \subseteq S
  <2> SUFFICES ASSUME NEW x \in W PROVE From(x) \in S
    OBVIOUS
  <2>1. From(x) \in SUBSET Sessions
    OBVIOUS
  <2>2. IsFiniteSet(From(x))
    <3> HIDE DEF From
    <3> QED
      BY <1>1, <2>1, FS_Subset
  <2> QED
    BY <2>1, <2>2 DEF FiniteSubsetsOf
<1>3. T # {}
  OBVIOUS
<1>4. \E t \in T : \A u \in T : ~(<<u, t>> \in R)
  <2>1. IsWellFoundedOn(R, S)
    BY FS_StrictSubsetOrderingWellFounded
  <2> HIDE DEF R, S, T
  <2> QED
    BY <1>2, <1>3, <2>1, WFMin
<1>5. PICK x \in W : \A u \in T : ~(<<u, From(x)>> \in R)
  BY <1>4
<1>6. ASSUME NEW y \in W, ~(y <= x) PROVE FALSE
  <2>1. From(y) \subseteq From(x) /\ x \notin From(y) /\ x \in From(x)
    <3>1. x < y /\ x <= x /\ \A m \in W : y <= m => x <= m
      <4>1. x \in Int /\ y \in Int /\ W \subseteq Int
        BY <1>1
      <4> HIDE DEF From, T, R, S
      <4> QED
        BY <1>6, <4>1, SMT
    <3>2. ~(y <= x)
      BY <1>6
    <3> QED
      BY <3>1, <3>2, Zenon
  <2>2. From(y) \in SUBSET Sessions /\ From(x) \in SUBSET Sessions
    OBVIOUS
  <2>3. <<From(y), From(x)>> \in R
    <3> HIDE DEF From
    <3> QED
      BY <2>1, <2>2, Zenon DEF StrictSubsetOrdering
  <2>4. From(y) \in T
    OBVIOUS
  <2> QED
    BY <1>5, <2>3, <2>4
<1> QED
  BY <1>6

\* As long as somebody is in a call, somebody may go on.
LEMMA CallsAreNeverStuck == Sound /\ Waits => NeverStuck
<1> SUFFICES ASSUME Sound, Waits, NEW a \in Agents, pc[a] # "idle", ~CallsGoOn PROVE FALSE
  BY Zenon DEF NeverStuck
<1>1. \A b \in Agents : pc[b] \in Places /\ handle[b] \in 0..made
  BY Zenon DEF Sound, TypeOK, CallTypes
<1>2. \A b \in Agents : pc[b] \notin {"extract", "shutdown", "install", "publish", "restore"}
  BY Zenon DEF CallsGoOn
<1>3. MutexFree
  <2>1. \A b \in Agents : ~InMutex(b)
    BY <1>2, SMT DEF InMutex
  <2> QED
    BY <2>1, Zenon DEF Sound, TypeOK, StateTypes, MutexHeld, MutexFree
<1>4. ASSUME NEW b \in Agents, pc[b] # "idle"
      PROVE  /\ pc[b] = "join" /\ Joins(b)
             /\ handle[b] \in Sessions /\ pc[handle[b]] # "idle"
  <2>1. pc[b] = "join" /\ Joins(b) /\ ~Over(handle[b])
    <3>1. pc[b] \notin {"retire", "lock", "report"}
      BY <1>3, Zenon DEF CallsGoOn
    <3>2. pc[b] = "join"
      BY <1>1, <1>2, <1>4, <3>1, SMT DEF Places
    <3> QED
      BY <3>2, Zenon DEF CallsGoOn
  <2> DEFINE h == handle[b]
  <2>2. h # None /\ h # b
    BY <2>1, SMT DEF Joins
  <2>3. h \in Sessions /\ h <= made
    BY <2>2, HeldAreSessions
  <2>4. thread[h] \in Threads /\ thread[h] \notin {"ended", "panicked", "none", "gated"}
    <3>1. thread[h] \in Threads
      BY <2>3, Zenon DEF Sound, TypeOK, ClientTypes
    <3>2. thread[h] # "none"
      BY <2>3, Zenon DEF Waits, Callbacks
    <3>3. thread[h] # "gated"
      BY <2>2, Zenon DEF Waits, JoinedAreTold, Told
    <3>4. thread[h] \notin {"ended", "panicked"}
      BY <2>1, SMT DEF Over
    <3> QED
      BY <3>1, <3>2, <3>3, <3>4
  <2>5. ~up[h]
    <3>1. client[b] = None
      BY <2>1, SMT DEF Waits, JoinedAreTold, Told
    <3> QED
      BY <2>2, <3>1, Zenon DEF Waits, JoinedAreTold, Told
  <2>6. thread[h] \notin {"draining", "failing"}
    BY <1>3, <2>3, <2>5, SMT DEF CallsGoOn
  <2>7. thread[h] = "callback"
    BY <2>4, <2>6, SMT DEF Threads
  <2>8. pc[h] # "idle"
    BY <2>3, <2>7, Zenon DEF CallsGoOn
  <2> QED
    BY <2>1, <2>3, <2>8
<1> DEFINE W == {n \in Sessions : pc[n] # "idle"}
<1>5. handle[a] \in W
  BY <1>4
<1>6. PICK x \in W : \A y \in W : y <= x
  <2>1. W \subseteq Sessions /\ W # {}
    BY <1>5
  <2> HIDE DEF W
  <2> QED
    BY <2>1, OneIsLargest
<1>7. x \in Sessions /\ x \in Agents /\ pc[x] # "idle"
  BY <1>6, Zenon DEF Agents
<1>8. handle[x] \in W /\ handle[x] # x /\ handle[x] # None
  BY <1>4, <1>7, SMT DEF Joins
<1>9. x <= handle[x]
  BY <1>7, <1>8, Zenon DEF Waits, JoinsAscend
<1>10. handle[x] <= x
  BY <1>6, <1>8
<1>11. x \in Int /\ handle[x] \in Int
  BY <1>7, <1>8, LifecycleAssumption, SMT DEF Sessions
<1> QED
  BY <1>8, <1>9, <1>10, <1>11, SMT

\* A call joins only the dispatcher of a client that it has told to stop, and a dispatcher
\* only itself, when it is spared the join, or one that was made after it: so the waits of
\* callbacks that stop the sessions of others never close a circle (client.rs:448-493).
THEOREM JoinsAreOrdered == SafetySpec => [](JoinedAreTold /\ JoinsAscend)
<1>1. Init => Sound /\ Waits
  BY InitSound, WaitsFirst
<1>2. Sound /\ Waits /\ [Next]_vars => Waits'
  BY WaitsStay
<1>3. Waits => JoinedAreTold /\ JoinsAscend
  BY Zenon DEF Waits
<1> QED
  BY <1>1, <1>2, <1>3, LifecycleSound, PTL DEF SafetySpec

\* While anybody is inside a call, some call may go on, or a dispatcher that was told to
\* stop, failed, or runs a callback that makes no call: calls from inside callbacks do not
\* wait for each other (client.rs:281, 475).
THEOREM NobodyBlocksNobody == SafetySpec => []NeverStuck
<1>1. Init => Sound /\ Waits
  BY InitSound, WaitsFirst
<1>2. Sound /\ Waits /\ [Next]_vars => Waits'
  BY WaitsStay
<1>3. Sound /\ Waits => NeverStuck
  BY CallsAreNeverStuck
<1> QED
  BY <1>1, <1>2, <1>3, LifecycleSound, PTL DEF SafetySpec

==============================================================================
