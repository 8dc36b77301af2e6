-------------------------- MODULE ClientLifecycle --------------------------
(***************************************************************************)
(* The streaming life cycle of the unified client: start, stop, reconnect, *)
(* the columnar reader's close and the drain barrier, called by            *)
(* application threads and from inside the user callback, against the      *)
(* dispatcher threads of the sessions they start.                          *)
(*                                                                         *)
(* Sessions are numbered as their clients connect, and a dispatcher thread *)
(* goes by the number of its session.  An action is what a thread does     *)
(* between two points where another can see or stop it; readers of the     *)
(* slot take no lock, so the steps inside the dispatcher mutex show.       *)
(* Idle and Stopped are one: they differ in what connection_status says.   *)
(* The wake-up hook of a teardown is the business of BatchReader, the     *)
(* connection behind a session that of FpssSubscriptions.                  *)
(***************************************************************************)
EXTENDS Naturals, FiniteSets

CONSTANTS
    Users,        \* application threads
    Streams,      \* what can be subscribed to
    MaxSessions,  \* bound: sessions connected
    MaxCalls      \* bound: calls made

Sessions == 1..MaxSessions
Agents == Users \cup Sessions
None == 0   \* no session, nobody

ASSUME LifecycleAssumption ==
    /\ MaxSessions \in Nat
    /\ MaxCalls \in Nat
    /\ Users \cap Nat = {}

Kinds == {"callback", "columnar"}

VARIABLES
    \* StreamingState
    live,        \* the session in the slot, None when Idle or Stopped
    generation,  \* stop_generation
    session,     \* the dispatcher session: Idle, Running or Failed, and of whom
    holder,      \* who holds the dispatcher mutex
    registered,  \* prev_drained: whose flags await_drain looks at
    \* the sessions
    made,        \* sessions connected so far
    kind,        \* callback or columnar
    readers,     \* columnar sessions whose reader is not closed
    owned,       \* the generation a columnar reader was given
    up,          \* has nobody raised the shutdown flag of the client yet?
    thread,      \* the dispatcher thread
    drained,     \* the drained flags
    tracked,     \* the subscriptions of the client
    \* the calls in progress
    op, pc,      \* which one, and where it is
    client,      \* the client a teardown took out of the slot
    handle,      \* the dispatcher thread it joins, None if there is none to join
    target,      \* the session a reader's close is about
    saved,       \* the subscriptions a reconnect still has to restore
    \* not in the code
    calls,       \* calls made
    retired,     \* sessions whose retirement is over
    assured,     \* those that an await_drain has told its caller are quiet
    owed,        \* what the session tracked when the reconnect was called
    failed,      \* what the reconnect will report
    calm         \* no other teardown since the reconnect was called

state    == <<live, generation, session, holder, registered>>
clients  == <<made, kind, readers, owned, up, thread, drained, tracked>>
frames   == <<op, pc, client, handle, target, saved>>
history  == <<calls, retired, assured, owed, failed, calm>>
vars     == <<state, clients, frames, history>>

IdleSession == [is |-> "Idle", of |-> None]

Init ==
    /\ live = None
    /\ generation = 0
    /\ session = IdleSession
    /\ holder = None
    /\ registered = {}
    /\ made = 0
    /\ kind = [n \in Sessions |-> "callback"]
    /\ readers = {}
    /\ owned = [n \in Sessions |-> 0]
    /\ up = [n \in Sessions |-> FALSE]
    /\ thread = [n \in Sessions |-> "none"]
    /\ drained = {}
    /\ tracked = [n \in Sessions |-> {}]
    /\ op = [a \in Agents |-> "none"]
    /\ pc = [a \in Agents |-> "idle"]
    /\ client = [a \in Agents |-> None]
    /\ handle = [a \in Agents |-> None]
    /\ target = [a \in Agents |-> None]
    /\ saved = [a \in Agents |-> {}]
    /\ calls = 0
    /\ retired = {}
    /\ assured = {}
    /\ owed = [a \in Agents |-> {}]
    /\ failed = [a \in Agents |-> {}]
    /\ calm = [a \in Agents |-> FALSE]

\* Variant: starts and teardowns are not serialised.
Unserialised == TRUE
MutexFree == holder = None

Over(n) == thread[n] \in {"ended", "panicked"}

\* A user thread calls when it likes, a dispatcher thread from inside the callback.
MayCall(a) ==
    /\ pc[a] = "idle"
    /\ a \in Sessions => thread[a] = "callback"

At(a, where) == pc' = [pc EXCEPT ![a] = where]

Tracked(n) == IF n = None THEN {} ELSE tracked[n]

\* A subscription that the client in the slot accepts.
Accepts(s) ==
    /\ live # None /\ up[live]
    /\ tracked' = [tracked EXCEPT ![live] = @ \cup {s}]

------------------------------------------------------------------------------
(* Calls *)

\* The call begins.
Begin(a, what, where) ==
    /\ MayCall(a)
    /\ calls < MaxCalls
    /\ calls' = calls + 1
    /\ op' = [op EXCEPT ![a] = what]
    /\ At(a, where)

Stop(a) ==
    /\ Begin(a, "stop", "retire")
    /\ UNCHANGED <<state, clients, client, handle, target, saved, retired, assured,
                   owed, failed, calm>>

\* start_streaming and start_streaming_batches.
Start(a, k) ==
    /\ Begin(a, k, "lock")
    /\ UNCHANGED <<state, clients, client, handle, target, saved, retired, assured,
                   owed, failed, calm>>

\* A reader is closed once.
Close(a, n) ==
    /\ n \in readers
    /\ Begin(a, "close", "retire")
    /\ readers' = readers \ {n}
    /\ target' = [target EXCEPT ![a] = n]
    /\ UNCHANGED <<state, made, kind, owned, up, thread, drained, tracked, client,
                   handle, saved, retired, assured, owed, failed, calm>>

\* A reconnect saves the subscriptions before it stops.  Variant: it stops first, and
\* finds an empty slot.
ReconnectUnsaved(a) ==
    /\ Begin(a, "reconnect", "retire")
    /\ owed' = [owed EXCEPT ![a] = Tracked(live)]
    /\ calm' = [calm EXCEPT ![a] = TRUE]
    /\ UNCHANGED <<state, clients, client, handle, target, saved, retired, assured,
                   failed>>
Reconnect(a) ==
    /\ Begin(a, "reconnect", "retire")
    /\ saved' = [saved EXCEPT ![a] = Tracked(live)]
    /\ owed' = [owed EXCEPT ![a] = Tracked(live)]
    /\ calm' = [calm EXCEPT ![a] = TRUE]
    /\ UNCHANGED <<state, clients, client, handle, target, retired, assured, failed>>

\* A subscribe goes to the client in the slot; its own protocol is that of
\* FpssSubscriptions.
Subscribe(a, s) ==
    /\ MayCall(a)
    /\ Accepts(s)
    /\ UNCHANGED <<state, made, kind, readers, owned, up, thread, drained, frames,
                   history>>

\* What the user gives up is not owed any longer.
Unsubscribe(a, s) ==
    /\ MayCall(a)
    /\ live # None /\ up[live]
    /\ tracked' = [tracked EXCEPT ![live] = @ \ {s}]
    /\ owed' = [b \in Agents |-> owed[b] \ {s}]
    /\ UNCHANGED <<state, made, kind, readers, owned, up, thread, drained, frames, calls,
                   retired, assured, failed, calm>>

\* One look of await_drain: it forgets the flags that are set and returns true when
\* none is left.
AwaitDrain(a) ==
    /\ MayCall(a)
    /\ registered' = registered \ drained
    /\ assured' = IF registered' = {} THEN assured \cup retired ELSE assured
    /\ UNCHANGED <<live, generation, session, holder, clients, frames, calls, retired,
                   owed, failed, calm>>

------------------------------------------------------------------------------
(* Retiring a session: extract_for_teardown_locked, run_teardown *)

\* The call returns.
Returns(a) ==
    /\ op' = [op EXCEPT ![a] = "none"]
    /\ At(a, "idle")
    /\ target' = [target EXCEPT ![a] = None]
    /\ saved' = [saved EXCEPT ![a] = {}]
    /\ owed' = [owed EXCEPT ![a] = {}]
    /\ failed' = [failed EXCEPT ![a] = {}]
    /\ calm' = [calm EXCEPT ![a] = FALSE]

\* A close whose session is not the live one any more.
NotOwned(a) == op[a] = "close" /\ generation # owned[target[a]]

LeaveAlone(a) ==
    /\ pc[a] = "retire"
    /\ MutexFree
    /\ NotOwned(a)
    /\ Returns(a)
    /\ UNCHANGED <<state, clients, client, handle, calls, retired, assured>>

\* The generation moves, then the slot.
Retire(a) ==
    /\ pc[a] = "retire"
    /\ MutexFree
    /\ ~NotOwned(a)
    /\ holder' = a
    /\ generation' = generation + 1
    /\ live' = None
    /\ client' = [client EXCEPT ![a] = live]
    /\ calm' = [b \in Agents |-> calm[b] /\ b = a]
    /\ At(a, "extract")
    /\ UNCHANGED <<session, registered, clients, op, handle, target, saved, calls,
                   retired, assured, owed, failed>>

\* session_registers_drain_flag.  Variant of the list: only the last flag is kept.
RegistersDrainFlag == session.is = "Running" /\ kind[session.of] = "callback"
RegisterLast(n) == IF n # None /\ RegistersDrainFlag THEN {n} ELSE registered
Register(n) ==
    IF n # None /\ RegistersDrainFlag THEN registered \cup {n} ELSE registered

Extract(a) ==
    /\ pc[a] = "extract"
    /\ registered' = Register(client[a])
    /\ handle' = [handle EXCEPT ![a] = IF session.is = "Running" THEN session.of ELSE None]
    /\ session' = IdleSession
    /\ holder' = None
    /\ retired' = retired \cup ({client[a]} \ {None})
    /\ At(a, "shutdown")
    /\ UNCHANGED <<live, generation, clients, op, client, target, saved, calls, assured,
                   owed, failed, calm>>

\* A client that was told before keeps its subscriptions.
Shutdown(a) ==
    /\ pc[a] = "shutdown"
    /\ LET n == client[a]
       IN IF n # None /\ up[n]
          THEN /\ up' = [up EXCEPT ![n] = FALSE]
               /\ tracked' = [tracked EXCEPT ![n] = {}]
          ELSE UNCHANGED <<up, tracked>>
    /\ client' = [client EXCEPT ![a] = None]
    /\ At(a, "join")
    /\ UNCHANGED <<state, made, kind, readers, owned, thread, drained, op, handle,
                   target, saved, history>>

\* A reconnect goes on to start, another call returns.
AfterTeardown(a) ==
    /\ handle' = [handle EXCEPT ![a] = None]
    /\ IF op[a] = "reconnect"
       THEN At(a, "lock") /\ UNCHANGED <<op, target, saved, owed, failed, calm>>
       ELSE Returns(a)

\* The join, which a thread does not do to itself.  Variant: it does.
JoinsItself(a) == handle[a] # None
Joins(a) == handle[a] \notin {None, a}

Join(a) ==
    /\ pc[a] = "join"
    /\ Joins(a) => Over(handle[a])
    /\ IF Joins(a) /\ thread[handle[a]] = "panicked"
       THEN At(a, "report") /\ UNCHANGED <<op, handle, target, saved, owed, failed, calm>>
       ELSE AfterTeardown(a)
    /\ UNCHANGED <<state, clients, client, calls, retired, assured>>

\* A join that met a panic reports it, unless there is a newer session.
Report(a) ==
    /\ pc[a] = "report"
    /\ MutexFree
    /\ session' = IF session.is = "Idle" THEN [is |-> "Failed", of |-> handle[a]]
                                         ELSE session
    /\ AfterTeardown(a)
    /\ UNCHANGED <<live, generation, holder, registered, clients, client, calls,
                   retired, assured>>

------------------------------------------------------------------------------
(* Starting a session: start_dispatcher, which keeps the mutex throughout *)

Refuse(a) ==
    /\ pc[a] = "lock"
    /\ MutexFree
    /\ live # None
    /\ Returns(a)
    /\ UNCHANGED <<state, clients, client, handle, calls, retired, assured>>

\* No connection or no thread: the session stays as it was.
ConnectFails(a) ==
    /\ pc[a] = "lock"
    /\ MutexFree
    /\ live = None
    /\ Returns(a)
    /\ UNCHANGED <<state, clients, client, handle, calls, retired, assured>>

\* The mutex is taken, the client connects and its dispatcher waits behind the gate.
Connect(a) ==
    /\ pc[a] = "lock"
    /\ MutexFree
    /\ live = None
    /\ made < MaxSessions
    /\ holder' = a
    /\ made' = made + 1
    /\ LET n == made + 1
       IN /\ kind' = [kind EXCEPT ![n] = IF op[a] = "columnar" THEN "columnar"
                                                               ELSE "callback"]
          /\ up' = [up EXCEPT ![n] = TRUE]
          /\ thread' = [thread EXCEPT ![n] = "gated"]
    /\ At(a, "install")
    /\ UNCHANGED <<live, generation, session, registered, readers, owned, drained,
                   tracked, op, client, handle, target, saved, history>>

\* The generation cannot have moved since the mutex was taken: install_live succeeds.
Install(a) ==
    /\ pc[a] = "install"
    /\ live' = made
    /\ At(a, "publish")
    /\ UNCHANGED <<generation, session, holder, registered, clients, op, client, handle,
                   target, saved, history>>

\* Running is published, the gate opens, the mutex is released.
Publish(a) ==
    /\ pc[a] = "publish"
    /\ session' = [is |-> "Running", of |-> live]
    /\ thread' = [thread EXCEPT ![live] = "draining"]
    /\ holder' = None
    /\ IF op[a] = "columnar"
       THEN /\ readers' = readers \cup {live}
            /\ owned' = [owned EXCEPT ![live] = generation]
       ELSE UNCHANGED <<readers, owned>>
    /\ IF op[a] = "reconnect"
       THEN At(a, "restore") /\ UNCHANGED <<op, target, saved, owed, failed, calm>>
       ELSE Returns(a)
    /\ UNCHANGED <<live, generation, registered, made, kind, up, drained, tracked,
                   client, handle, calls, retired, assured>>

\* restore_subscriptions: each saved subscription is subscribed to, on the client that
\* is in the slot by then; a failure is noted and does not stop the rest.
Restored(a, s) ==
    /\ saved' = [saved EXCEPT ![a] = @ \ {s}]
    /\ \/ Accepts(s) /\ UNCHANGED failed
       \/ /\ failed' = [failed EXCEPT ![a] = @ \cup {s}]
          /\ UNCHANGED tracked

Restore(a) ==
    /\ pc[a] = "restore"
    /\ \E s \in saved[a] : Restored(a, s)
    /\ UNCHANGED <<state, made, kind, readers, owned, up, thread, drained, op, pc,
                   client, handle, target, calls, retired, assured, owed, calm>>

RestoreOver(a) ==
    /\ pc[a] = "restore"
    /\ saved[a] = {}
    /\ Returns(a)
    /\ UNCHANGED <<state, clients, client, handle, calls, retired, assured>>

CallStep(a) ==
    \/ LeaveAlone(a) \/ Retire(a) \/ Extract(a) \/ Shutdown(a) \/ Join(a) \/ Report(a)
    \/ Refuse(a) \/ ConnectFails(a) \/ Connect(a) \/ Install(a) \/ Publish(a)
    \/ Restore(a) \/ RestoreOver(a)

------------------------------------------------------------------------------
(* The dispatcher threads and their clients *)

ThreadChanges(n, from, to) == thread[n] = from /\ thread' = [thread EXCEPT ![n] = to]

OtherwiseUnchanged ==
    UNCHANGED <<live, generation, holder, registered, made, kind, readers, owned,
                drained, tracked, frames, history>>

CallbackBegins(n) ==
    /\ ThreadChanges(n, "draining", "callback")
    /\ kind[n] = "callback"
    /\ UNCHANGED <<session, up>> /\ OtherwiseUnchanged

CallbackReturns(n) ==
    /\ pc[n] = "idle"
    /\ ThreadChanges(n, "callback", "draining")
    /\ UNCHANGED <<session, up>> /\ OtherwiseUnchanged

\* The I/O loop was told to stop, or has given up, and the drain reaches the end.
DispatcherEnds(n) ==
    /\ ThreadChanges(n, "draining", "ended")
    /\ up' \in {up, [up EXCEPT ![n] = FALSE]}
    /\ UNCHANGED session /\ OtherwiseUnchanged

\* The I/O thread unwound (its guard raises the flag), or the drain panicked.
DispatcherFails(n) ==
    /\ ThreadChanges(n, "draining", "failing")
    /\ up' \in {up, [up EXCEPT ![n] = FALSE]}
    /\ UNCHANGED session /\ OtherwiseUnchanged

\* record_dispatcher_failed_if_current, and the end of the thread: by a panic when
\* logging does.  Variant: whoever is current is marked as failed.
RecordFailedAnyhow(n) ==
    /\ MutexFree
    /\ \/ ThreadChanges(n, "failing", "ended") \/ ThreadChanges(n, "failing", "panicked")
    /\ session' = IF session.is = "Running" THEN [is |-> "Failed", of |-> n] ELSE session
    /\ UNCHANGED up /\ OtherwiseUnchanged
RecordFailed(n) ==
    /\ MutexFree
    /\ \/ ThreadChanges(n, "failing", "ended") \/ ThreadChanges(n, "failing", "panicked")
    /\ session' = IF session = [is |-> "Running", of |-> n]
                  THEN [is |-> "Failed", of |-> n] ELSE session
    /\ UNCHANGED up /\ OtherwiseUnchanged

\* The last reference to a client goes: its threads are joined and the flag is set.
\* The slot, a teardown, a start and the body of the dispatcher hold one.
HeldBySomeCall(n) ==
    \E a \in Agents : client[a] = n \/ (pc[a] \in {"install", "publish"} /\ n = made)
Released(n) == live # n /\ ~HeldBySomeCall(n) /\ Over(n)

Drain(n) ==
    /\ n <= made
    /\ n \notin drained
    /\ Released(n)
    /\ drained' = drained \cup {n}
    /\ up' = [up EXCEPT ![n] = FALSE]
    /\ UNCHANGED <<state, made, kind, readers, owned, thread, tracked, frames, history>>

SessionStep(n) ==
    \/ CallbackBegins(n) \/ CallbackReturns(n) \/ DispatcherEnds(n)
    \/ DispatcherFails(n) \/ RecordFailed(n) \/ Drain(n)

------------------------------------------------------------------------------
Next ==
    \/ \E a \in Agents :
         \/ Stop(a) \/ Reconnect(a) \/ AwaitDrain(a)
         \/ \E k \in Kinds : Start(a, k)
         \/ \E n \in Sessions : Close(a, n)
         \/ \E s \in Streams : Subscribe(a, s) \/ Unsubscribe(a, s)
         \/ CallStep(a)
    \/ \E n \in Sessions : SessionStep(n)

SafetySpec == Init /\ [][Next]_vars

\* Threads run, connects end one way or the other and callbacks return.  The ring of a
\* client that was told to stop holds finitely many events, so its drain ends however
\* often a callback comes in between.
Fairness ==
    /\ \A a \in Agents : WF_vars(CallStep(a))
    /\ \A n \in Sessions :
         /\ WF_vars(CallbackReturns(n))
         /\ WF_vars(RecordFailed(n))
         /\ SF_vars(~up[n] /\ DispatcherEnds(n))

Spec == SafetySpec /\ Fairness

------------------------------------------------------------------------------
(* Properties *)

Threads == {"none", "gated", "draining", "callback", "failing", "ended", "panicked"}
Places == {"idle", "retire", "extract", "shutdown", "join", "report", "lock", "install",
           "publish", "restore"}

InMutex(a) == pc[a] \in {"extract", "install", "publish"}

StateTypes ==
    /\ live \in 0..made
    /\ generation \in Nat
    /\ session \in [is : {"Idle", "Running", "Failed"}, of : 0..made]
    /\ holder \in Agents \cup {None}
    /\ registered \subseteq 1..made

ClientTypes ==
    /\ made \in 0..MaxSessions
    /\ kind \in [Sessions -> Kinds]
    /\ readers \subseteq 1..made
    /\ owned \in [Sessions -> Nat]
    /\ up \in [Sessions -> BOOLEAN]
    /\ thread \in [Sessions -> Threads]
    /\ drained \subseteq 1..made
    /\ tracked \in [Sessions -> SUBSET Streams]

CallTypes ==
    /\ op \in [Agents -> {"none", "stop", "close", "reconnect"} \cup Kinds]
    /\ pc \in [Agents -> Places]
    /\ client \in [Agents -> 0..made]
    /\ handle \in [Agents -> 0..made]
    /\ target \in [Agents -> 0..made]
    /\ saved \in [Agents -> SUBSET Streams]

HistoryTypes ==
    /\ calls \in Nat
    /\ retired \subseteq 1..made
    /\ assured \subseteq 1..made
    /\ owed \in [Agents -> SUBSET Streams]
    /\ failed \in [Agents -> SUBSET Streams]
    /\ calm \in [Agents -> BOOLEAN]

MutexHeld == \A a \in Agents : InMutex(a) <=> holder = a

\* The type of every variable, and who is inside the mutex (client.rs:204).
TypeOK == StateTypes /\ ClientTypes /\ CallTypes /\ HistoryTypes /\ MutexHeld

\* What the mutex protects agrees whenever it is free: the slot and the dispatcher
\* session are of one session, and a session is marked as failed by its own
\* dispatcher, when that has stopped delivering.
SlotAndSessionAgree ==
    MutexFree =>
      /\ live # None => session.is # "Idle" /\ session.of = live
      /\ session.is = "Running" => session.of = live
      /\ session.is = "Failed" => Over(session.of)

\* A client that is connected, with a dispatcher that runs, is the one in the slot or
\* in the hands of one call that shuts it down or installs it.
NoOrphans ==
    \A n \in 1..made :
      up[n] /\ ~Over(n) =>
        \/ live = n
        \/ \E a \in Agents : client[a] = n
        \/ n = made /\ \E a \in Agents : pc[a] = "install"

\* A reader that would retire the live session retires its own.
ReadersOwn ==
    MutexFree => \A n \in 1..made :
      kind[n] = "columnar" /\ thread[n] # "gated" /\ owned[n] = generation => live = n

\* However calls and failures interleave, there is one session, it is the one the slot
\* shows, its state is its own, and nobody retires it for another
\* (client.rs:348, 500, 2888).
SessionsAreOwned == SlotAndSessionAgree /\ NoOrphans /\ ReadersOwn

\* When await_drain has returned true, no callback of a session whose stop was over
\* runs or will run (client.rs:181).
DrainIsTruthful ==
    \A n \in assured : kind[n] = "callback" => thread[n] \notin {"draining", "callback"}

\* A reconnect that no other teardown crosses brings every subscription back to the
\* live session or names it among the failed (client.rs:1733).
ReconnectKeepsSubscriptions ==
    \A a \in Agents :
      pc[a] = "restore" /\ calm[a] =>
        live # None /\ owed[a] \subseteq saved[a] \cup failed[a] \cup tracked[live]

\* Every call returns, also one made inside a callback of the session it retires
\* (client.rs:434).
CallsReturn == \A a \in Agents : pc[a] # "idle" ~> pc[a] = "idle"
==============================================================================
