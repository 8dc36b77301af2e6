----------------------------- MODULE BatchReader -----------------------------
(***************************************************************************)
(* The columnar reader: a dispatcher thread drains the event ring into     *)
(* batches, a bounded queue carries them to whoever pulls, and two kinds   *)
(* of teardown (the reader's close, the client's stop) end it.             *)
(*                                                                         *)
(* A critical section of Shared::inner is one action with the wake-up that *)
(* follows it, except that testing the predicate and going to wait on the  *)
(* condition variable are two: a thread at "parking" holds the mutex, one  *)
(* at "parked" is in the wait set.  The readers are either threads blocked *)
(* in next_blocking or one async task with its waker.  Rows stand for      *)
(* market-data events; how a row is laid out in a batch is left out, and   *)
(* so is the builder error the code calls unreachable.                     *)
(***************************************************************************)
EXTENDS EventRing, FiniteSets, SequencesExt

CONSTANTS
    Threads,    \* application threads that call next_blocking
    Task,       \* the async task that polls the stream instead
    BatchSize,  \* rows of a full batch
    Capacity    \* bound of the queue, in batches

ASSUME BatchAssumption ==
    /\ Task \notin Threads
    /\ BatchSize \in Nat \ {0}
    /\ Capacity \in Nat \ {0}

Pullers == Threads \cup {Task}

VARIABLES
    backpressure, \* "Block" or "DropOldest": configuration
    pullers,      \* the threads, or the task: who pulls
    pc,           \* program counter of the dispatcher
    taken,        \* events of the batch it took from the ring
    at,           \* those of them handed to on_event
    outcome,      \* what the drain returned
    accum,        \* rows in the builder
    lingered,     \* has the linger deadline of the builder passed?
    hand,         \* the batch being flushed
    return,       \* where the dispatcher goes after the flush
    batches,      \* Queue::batches
    finished,     \* Queue::finished
    error,        \* Queue::error is set
    waker,        \* Queue::waker is set
    closed,       \* Shared::closed
    dropped,      \* Shared::dropped
    pull,         \* what each puller is doing
    teardown,     \* program counters of the two teardowns
    session,      \* does the client still hold the dispatcher session?
    delivered,    \* not in the code: rows handed out, in order
    lost,         \* not in the code: rows dropped queue-side
    panicked,     \* not in the code: did the dispatcher panic?
    cleanEnd,     \* not in the code: was an end reported before any close?
    errorsTold    \* not in the code: terminal errors handed out

dispatcher == <<pc, taken, at, outcome, accum, lingered, hand, return>>
flags      == <<finished, error, closed>>
history    == <<delivered, lost, panicked, cleanEnd, errorsTold>>
config     == <<backpressure, pullers>>
vars       == <<ringVars, config, dispatcher, batches, flags, waker, dropped, pull,
                teardown, session, history>>

Init ==
    /\ RingInit
    /\ backpressure \in {"Block", "DropOldest"}
    /\ pullers \in {Threads, {Task}}
    /\ pc = "recheck"
    /\ taken = 0
    /\ at = 0
    /\ outcome = "Drained"
    /\ accum = <<>>
    /\ lingered = FALSE
    /\ hand = <<>>
    /\ return = "none"
    /\ batches = <<>>
    /\ finished = FALSE
    /\ error = FALSE
    /\ waker = FALSE
    /\ closed = FALSE
    /\ dropped = 0
    /\ pull = [p \in Pullers |-> "idle"]
    /\ teardown = [closer |-> "idle", stopper |-> "idle"]
    /\ session = TRUE
    /\ delivered = <<>>
    /\ lost = {}
    /\ panicked = FALSE
    /\ cleanEnd = FALSE
    /\ errorsTold = 0

\* Shared::inner is held across two steps only by a thread about to wait.
MutexFree == pc # "parking" /\ \A p \in Pullers : pull[p] # "parking"

Waiting(p) == pull[p] \in {"parking", "parked", "pending"}

\* cv.notify_all(), and the waker when it was taken.
Woken(wake) ==
    [p \in Pullers |->
       IF pull[p] = "parked" \/ (wake /\ pull[p] = "pending") THEN "next" ELSE pull[p]]
DispatcherWoken == IF pc = "parked" THEN "push" ELSE pc

------------------------------------------------------------------------------
(* The dispatcher: scope_drain, on_event, flush *)

Poll ==
    /\ pc = "poll"
    /\ IF Terminal
       THEN /\ outcome' = TerminalPollOutcome
            /\ pc' = "linger"
            /\ UNCHANGED <<taken, at>>
       ELSE /\ taken' = Len(ring)
            /\ at' = 0
            /\ pc' = IF ring = <<>> THEN "linger" ELSE "event"
            /\ UNCHANGED outcome
    /\ UNCHANGED <<ringVars, config, accum, lingered, hand, return, batches, flags,
                   waker, dropped, pull, teardown, session, history>>

\* The builder is emptied into a batch, which is then pushed.
Flush(rows, to) ==
    /\ hand' = rows
    /\ accum' = <<>>
    /\ lingered' = FALSE
    /\ return' = to
    /\ pc' = "push"

\* One event of the batch: appended, and flushed when the builder is full.
OnEvent ==
    /\ pc = "event"
    /\ at < taken
    /\ at' = at + 1
    /\ LET rows == Append(accum, ring[at + 1])
       IN IF Len(rows) >= BatchSize
          THEN Flush(rows, "event")
          ELSE accum' = rows /\ UNCHANGED <<pc, lingered, hand, return>>
    /\ UNCHANGED <<ringVars, config, taken, outcome, batches, flags, waker, dropped,
                   pull, teardown, session, history>>

\* The batch guard frees its slots.
Release ==
    /\ pc = "event"
    /\ at = taken
    /\ ring' = SubSeq(ring, taken + 1, Len(ring))
    /\ taken' = 0
    /\ at' = 0
    /\ pc' = "linger"
    /\ UNCHANGED <<decoded, ringLost, io, ioFaulted, shutdown, config, outcome, accum,
                   lingered, hand, return, batches, flags, waker, dropped, pull,
                   teardown, session, history>>

\* The deadline of a builder that holds rows passes.
LingerElapses ==
    /\ accum # <<>>
    /\ ~lingered
    /\ lingered' = TRUE
    /\ UNCHANGED <<ringVars, config, pc, taken, at, outcome, accum, hand, return,
                   batches, flags, waker, dropped, pull, teardown, session, history>>

Linger ==
    /\ pc = "linger"
    /\ lingered
    /\ Flush(accum, "recheck")
    /\ UNCHANGED <<ringVars, config, taken, at, outcome, batches, flags, waker, dropped,
                   pull, teardown, session, history>>

\* Has the reader closed?  Asked after a drain and before the next one, with only the
\* idle wait in between: one step.
Recheck ==
    /\ pc = "recheck" \/ (pc = "linger" /\ ~lingered)
    /\ \/ /\ closed
          /\ outcome' = "Shutdown"
          /\ pc' = "end"
       \/ /\ ~closed
          /\ pc' = IF outcome = "Drained" THEN "poll" ELSE "end"
          /\ UNCHANGED outcome
    /\ UNCHANGED <<ringVars, config, taken, at, accum, lingered, hand, return, batches,
                   flags, waker, dropped, pull, teardown, session, history>>

\* A panic outside the per-event boundary ends the drain, the builder intact.
DispatcherPanics ==
    /\ pc = "linger"
    /\ outcome' = "Failed"
    /\ pc' = "end"
    /\ panicked' = TRUE
    /\ UNCHANGED <<ringVars, config, taken, at, accum, lingered, hand, return, batches,
                   flags, waker, dropped, pull, teardown, session, delivered, lost,
                   cleanEnd, errorsTold>>

\* The critical section of flush.  Variant: one batch more than the bound.
FullTooLate == Len(batches) > Capacity
Full == Len(batches) >= Capacity

Pushed(queue) ==
    /\ batches' = Append(queue, hand)
    /\ waker' = FALSE
    /\ pull' = Woken(waker)

\* Variant: the oldest batch is dropped and not counted.
DropOldestUncounted ==
    /\ lost' = lost \cup ToSet(Head(batches))
    /\ Pushed(Tail(batches))
    /\ UNCHANGED dropped
DropOldest ==
    /\ lost' = lost \cup ToSet(Head(batches))
    /\ dropped' = dropped + 1
    /\ Pushed(Tail(batches))

Push ==
    /\ pc = "push"
    /\ MutexFree
    /\ \/ /\ ~Full
          /\ Pushed(batches)
          /\ UNCHANGED <<dropped, lost>>
       \/ /\ Full
          /\ backpressure = "DropOldest"
          /\ DropOldest
       \/ /\ Full
          /\ backpressure = "Block"
          /\ closed
          /\ lost' = lost \cup ToSet(hand)
          /\ UNCHANGED <<batches, waker, dropped, pull>>
    /\ hand' = <<>>
    /\ pc' = return
    /\ return' = "none"
    /\ UNCHANGED <<ringVars, config, taken, at, outcome, accum, lingered, flags,
                   teardown, session, delivered, panicked, cleanEnd, errorsTold>>

\* Block on a full queue: the mutex is kept from the test to the wait.
PushBlocks ==
    /\ pc = "push"
    /\ MutexFree
    /\ Full
    /\ backpressure = "Block"
    /\ ~closed
    /\ pc' = "parking"
    /\ UNCHANGED <<ringVars, config, taken, at, outcome, accum, lingered, hand, return,
                   batches, flags, waker, dropped, pull, teardown, session, history>>

PushParks ==
    /\ pc = "parking"
    /\ pc' = "parked"
    /\ UNCHANGED <<ringVars, config, taken, at, outcome, accum, lingered, hand, return,
                   batches, flags, waker, dropped, pull, teardown, session, history>>

\* finish and fail: the last rows first.
End ==
    /\ pc = "end"
    /\ IF accum # <<>>
       THEN Flush(accum, "mark")
       ELSE pc' = "mark" /\ UNCHANGED <<accum, lingered, hand, return>>
    /\ UNCHANGED <<ringVars, config, taken, at, outcome, batches, flags, waker, dropped,
                   pull, teardown, session, history>>

\* The terminal marker; the error of a failure lands in the same critical section.
\* Variant: a task that waits is not woken for it.
MarkWithoutWake ==
    /\ pc = "mark"
    /\ MutexFree
    /\ finished' = TRUE
    /\ error' = (error \/ outcome = "Failed")
    /\ pc' = "done"
    /\ UNCHANGED <<ringVars, config, taken, at, outcome, accum, lingered, hand, return,
                   batches, closed, waker, pull, dropped, teardown, session, history>>
MarkTerminal ==
    /\ pc = "mark"
    /\ MutexFree
    /\ finished' = TRUE
    /\ error' = (error \/ outcome = "Failed")
    /\ waker' = FALSE
    /\ pull' = Woken(waker)
    /\ pc' = "done"
    /\ UNCHANGED <<ringVars, config, taken, at, outcome, accum, lingered, hand, return,
                   batches, closed, dropped, teardown, session, history>>

DispatcherStep ==
    \/ Poll \/ OnEvent \/ Release \/ Linger \/ Recheck
    \/ Push \/ PushBlocks \/ PushParks \/ End \/ MarkTerminal

------------------------------------------------------------------------------
(* Pulling: next_blocking on a thread, poll_next on the task *)

\* A call begins with its first critical section; a woken one goes round the loop.
Pulling(p) == p \in pullers /\ pull[p] \in {"idle", "next"}

\* A batch first, then the one-shot error, then the end.
PullBatch(p) ==
    /\ Pulling(p)
    /\ MutexFree
    /\ batches # <<>>
    /\ batches' = Tail(batches)
    /\ delivered' = delivered \o Head(batches)
    /\ pull' = [Woken(FALSE) EXCEPT ![p] = "idle"]
    /\ pc' = DispatcherWoken
    /\ UNCHANGED <<ringVars, config, taken, at, outcome, accum, lingered, hand, return,
                   flags, waker, dropped, teardown, session, lost, panicked, cleanEnd,
                   errorsTold>>

PullError(p) ==
    /\ Pulling(p)
    /\ MutexFree
    /\ batches = <<>>
    /\ error
    /\ error' = FALSE
    /\ errorsTold' = errorsTold + 1
    /\ pull' = [pull EXCEPT ![p] = "idle"]
    /\ UNCHANGED <<ringVars, config, dispatcher, batches, finished, closed, waker,
                   dropped, teardown, session, delivered, lost, panicked, cleanEnd>>

PullEnd(p) ==
    /\ Pulling(p)
    /\ MutexFree
    /\ batches = <<>>
    /\ ~error
    /\ finished \/ closed
    /\ cleanEnd' = (cleanEnd \/ ~closed)
    /\ pull' = [pull EXCEPT ![p] = "idle"]
    /\ UNCHANGED <<ringVars, config, dispatcher, batches, flags, waker, dropped,
                   teardown, session, delivered, lost, panicked, errorsTold>>

\* Nothing to return: a thread goes to wait, the task leaves its waker.
PullWaits(p) ==
    /\ Pulling(p)
    /\ MutexFree
    /\ batches = <<>> /\ ~error /\ ~finished /\ ~closed
    /\ IF p = Task
       THEN waker' = TRUE /\ pull' = [pull EXCEPT ![p] = "pending"]
       ELSE UNCHANGED waker /\ pull' = [pull EXCEPT ![p] = "parking"]
    /\ UNCHANGED <<ringVars, config, dispatcher, batches, flags, dropped, teardown,
                   session, history>>

PullParks(p) ==
    /\ pull[p] = "parking"
    /\ pull' = [pull EXCEPT ![p] = "parked"]
    /\ UNCHANGED <<ringVars, config, dispatcher, batches, flags, waker, dropped,
                   teardown, session, history>>

PullStep(p) ==
    PullBatch(p) \/ PullError(p) \/ PullEnd(p) \/ PullWaits(p) \/ PullParks(p)

------------------------------------------------------------------------------
(* Teardown: close_shared ("closer"), stop_streaming or drop ("stopper") *)

Teardowns == {"closer", "stopper"}

Goto(t, where) == teardown' = [teardown EXCEPT ![t] = where]

\* close_and_wake: `closed' is published under the mutex, then everybody is woken.
\* Variant: it is published outside the mutex.
CloseUnlocked ==
    /\ closed' = TRUE
    /\ waker' = FALSE
    /\ pull' = Woken(waker)
    /\ pc' = DispatcherWoken
CloseAndWake ==
    /\ MutexFree
    /\ closed' = TRUE
    /\ waker' = FALSE
    /\ pull' = Woken(waker)
    /\ pc' = DispatcherWoken

\* close_shared.
Close ==
    /\ teardown["closer"] = "idle"
    /\ CloseAndWake
    /\ Goto("closer", "quiesce")
    /\ UNCHANGED <<ringVars, config, taken, at, outcome, accum, lingered, hand, return,
                   batches, finished, error, dropped, session, history>>

\* The teardown that finds the session takes it and shuts the client down; the reader
\* leaves a session of another generation alone.
Quiesce(t) ==
    /\ teardown[t] = IF t = "closer" THEN "quiesce" ELSE "idle"
    /\ \/ /\ session
          /\ session' = FALSE
          /\ shutdown' = TRUE
          /\ Goto(t, "grace")
       \/ /\ ~session
          /\ Goto(t, "over")
          /\ UNCHANGED <<session, shutdown>>
    /\ UNCHANGED <<ring, decoded, ringLost, io, ioFaulted, config, dispatcher, batches,
                   flags, waker, dropped, pull, history>>

\* The hook wakes a dispatcher that has not exited within the grace period.
HookFires(t) ==
    /\ teardown[t] = "grace"
    /\ pc # "done"
    /\ CloseAndWake
    /\ Goto(t, "join")
    /\ UNCHANGED <<ringVars, config, taken, at, outcome, accum, lingered, hand, return,
                   batches, finished, error, dropped, session, history>>

Join(t) ==
    /\ teardown[t] \in {"grace", "join"}
    /\ pc = "done"
    /\ Goto(t, "over")
    /\ UNCHANGED <<ringVars, config, dispatcher, batches, flags, waker, dropped, pull,
                   session, history>>

TeardownStep(t) == Quiesce(t) \/ HookFires(t) \/ Join(t)

------------------------------------------------------------------------------
ReaderUnchanged ==
    UNCHANGED <<config, dispatcher, batches, flags, waker, dropped, pull, teardown,
                session, history>>

Next ==
    \/ IoStep /\ ReaderUnchanged
    \/ DispatcherStep
    \/ LingerElapses
    \/ DispatcherPanics
    \/ \E p \in Pullers : PullStep(p)
    \/ Close
    \/ \E t \in Teardowns : TeardownStep(t)

SafetySpec == Init /\ [][Next]_vars

\* Threads run, a mutex is handed on, time passes, and an I/O thread that was told to
\* stop does (ShutdownStops of FpssSubscriptions).  Nobody has to pull, to close or to
\* publish, and the loop need not end by itself.
Fairness ==
    /\ WF_vars(DispatcherStep)
    /\ WF_vars(LingerElapses)
    /\ WF_vars(((shutdown /\ IoReturns) \/ ProducerDrops) /\ ReaderUnchanged)
    /\ \A p \in Pullers : WF_vars(pull[p] # "idle" /\ PullStep(p))
    /\ \A t \in Teardowns : WF_vars(teardown[t] # "idle" /\ TeardownStep(t))

Spec == SafetySpec /\ Fairness

------------------------------------------------------------------------------
(* Properties *)

\* The type of every variable; the queue is bounded in both modes
\* (batch_reader.rs:31).
TypeOK ==
    /\ RingTypeOK
    /\ backpressure \in {"Block", "DropOldest"}
    /\ pullers \in {Threads, {Task}}
    /\ pc \in {"poll", "event", "linger", "recheck", "push", "parking",
               "parked", "end", "mark", "done"}
    /\ taken \in Nat /\ at \in 0..taken
    /\ outcome \in {"Drained", "Shutdown", "Failed"}
    /\ accum \in Seq(Nat)
    /\ lingered \in BOOLEAN
    /\ hand \in Seq(Nat)
    /\ return \in {"none", "event", "recheck", "mark"}
    /\ batches \in Seq(Seq(Nat))
    /\ Len(batches) <= Capacity
    /\ finished \in BOOLEAN /\ error \in BOOLEAN /\ closed \in BOOLEAN
    /\ waker \in BOOLEAN
    /\ dropped \in Nat
    /\ pull \in [Pullers -> {"idle", "next", "parking", "parked", "pending"}]
    /\ teardown \in [Teardowns -> {"idle", "quiesce", "grace", "join", "over"}]
    /\ session \in BOOLEAN
    /\ delivered \in Seq(Nat)
    /\ lost \subseteq Nat
    /\ panicked \in BOOLEAN /\ cleanEnd \in BOOLEAN
    /\ errorsTold \in Nat

InQueue == UNION {ToSet(batches[i]) : i \in DOMAIN batches}
Unread == {ring[i] : i \in (at + 1)..Len(ring)}

\* Where the rows are on their way, oldest first.
Stages == <<ToSet(delivered), InQueue, ToSet(hand), ToSet(accum), Unread>>

Ascending(rows) == \A i, j \in DOMAIN rows : i < j => rows[i] < rows[j]
Before(early, late) == \A x \in early, y \in late : x < y

RowsInOrder ==
    /\ \A rows \in {delivered, hand, accum, ring} \cup ToSet(batches) : Ascending(rows)
    /\ \A i, j \in DOMAIN batches : i < j => Before(ToSet(batches[i]), ToSet(batches[j]))
    /\ \A i, j \in DOMAIN Stages : i < j => Before(Stages[i], Stages[j])

\* Where the rows are, and which loss is allowed: by the full ring, by a counted
\* DropOldest, or by Block after a close.
RowsKept ==
    /\ 1..decoded = ToSet(delivered) \cup InQueue \cup ToSet(hand) \cup ToSet(accum)
                      \cup Unread \cup ringLost \cup lost
    /\ lost # {} => IF backpressure = "Block" THEN closed ELSE dropped > 0

\* Every event decoded is on its way, in order and once, or was dropped by a queue
\* that says so (batch_reader.rs:36).
RowsAccountedFor == RowsInOrder /\ RowsKept

\* An end reported to a reader nobody closed is true: everything published was handed
\* out before or lost as above, and if the I/O thread or the dispatcher failed, that
\* was told first, and once (fpss/mod.rs:1748, batch_reader.rs:480).
EndIsTruthful ==
    /\ errorsTold <= 1
    /\ (cleanEnd /\ ~panicked) =>
         /\ IoOver
         /\ 1..decoded = ToSet(delivered) \cup ringLost \cup lost
    /\ (cleanEnd /\ (panicked \/ io # "returned")) => errorsTold = 1

\* The reader implements the stream of RowStream: rows are handed out in order, none twice
\* and none skipped, what is dropped is the oldest and is counted (under Block: dropped
\* only after a close), and an end that no failure of the dispatcher brought about leaves
\* nothing undecided (batch_reader.rs:22, 36).
Stream == INSTANCE RowStream WITH
    told  <- delivered,
    gone  <- ringLost \cup lost,
    ended <- cleanEnd /\ ~panicked
ImplementsStream == Stream!Spec

\* Whoever tears the session down gets to the end of the join, whatever the dispatcher
\* and the readers wait for (batch_reader.rs:269).
TeardownEnds ==
    \A t \in Teardowns : teardown[t] # "idle" ~> teardown[t] = "over"

\* No pull waits for ever on a reader that was closed or on a stream that ended, and
\* if all wait, even a quiet stream gives one of them its partial batch
\* (batch_reader.rs:22).
PullsAreServed ==
    /\ \A p \in Pullers : (Waiting(p) /\ (closed \/ IoOver)) ~> ~Waiting(p)
    /\ (accum # <<>> /\ \A p \in pullers : Waiting(p)) ~> (\E p \in pullers : ~Waiting(p))
==============================================================================
