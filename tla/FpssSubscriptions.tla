------------------------- MODULE FpssSubscriptions -------------------------
(***************************************************************************)
(* Subscription tracking of one FPSS streaming client: the application     *)
(* threads that call subscribe / unsubscribe, the thread that calls        *)
(* shutdown(), the I/O thread (session, reconnect, replay) and, external,  *)
(* the server at the other end of the socket.                              *)
(*                                                                         *)
(* Every operation of the code that holds the pending_subs mutex is one    *)
(* action here; what the code does outside that mutex, or under no mutex,  *)
(* is a separate step.  The program counter of the I/O thread is `io'.     *)
(* Market data, heartbeats and events published on the ring do not touch   *)
(* this state and are left out; why a reconnect is given up is the subject *)
(* of FpssReconnect and a free choice here.                                *)
(***************************************************************************)
EXTENDS Naturals, Sequences, FiniteSets

CONSTANTS
    ContractIds,      \* identities (kind, contract) of per-contract streams
    FullIds,          \* identities (kind, sec_type) of full streams
    Callers,          \* application threads
    ChannelCapacity,  \* capacity of the bounded command channel
    Uncorrelated,     \* may the server answer with the -1 sentinel?
    MaxCalls,         \* bound: subscribe / unsubscribe calls that pass the check
    MaxFaults         \* bound: dropped sessions plus failed redials and writes

ASSUME ConstantsAssumption ==
    /\ ContractIds \cap FullIds = {}
    /\ ChannelCapacity \in Nat \ {0}
    /\ Uncorrelated \in BOOLEAN
    /\ MaxCalls \in Nat
    /\ MaxFaults \in Nat

Ids == ContractIds \cup FullIds

VARIABLES
    io,             \* program counter of the I/O thread
    shutdown,       \* the shared shutdown flag
    authenticated,  \* the shared authenticated flag
    active,         \* active_subs and active_full_subs: references, generation
    nextGen,        \* NEXT_ACTIVE_GEN
    pending,        \* pending_subs: req_id -> the entry it answers for
    nextReq,        \* next_req_id
    cmds,           \* the command channel
    call,           \* what each application thread is executing
    closer,         \* program counter of the shutdown() call
    stopSent,       \* has the I/O thread written a STOP frame?
    todo,           \* snapshot entries the replay has not written yet
    toServer,       \* frames written to the current socket
    fromServer,     \* answers on their way back on the current socket
    serverSubs,     \* identities the server streams on the current socket
    calls,          \* calls started so far (bounded by MaxCalls)
    faults          \* faults so far (bounded by MaxFaults)

flags   == <<shutdown, authenticated>>
tracked == <<active, nextGen, pending>>
socket  == <<toServer, fromServer, serverSubs>>
threads == <<call, closer, calls>>
vars    == <<io, flags, tracked, nextReq, cmds, threads, stopSent, todo,
             socket, faults>>

------------------------------------------------------------------------------
\* An identity that is not tracked has no row in the code; here it has no
\* references.  Generations start at 1, so 0 stamps no instance.
NoEntry == [refs |-> 0, gen |-> 0]
NoReq   == 0         \* the uncorrelated sentinel, -1 on the wire
Idle    == [op |-> "idle"]

Tracked == {i \in Ids : active[i].refs > 0}
For(f, i) == {r \in DOMAIN f : f[r].sub = i}
PendingFor(i) == For(pending, i)

IsFrame(c) == c.op \in {"sub", "unsub"}

\* try_send on the bounded channel: refused when it is full, and once the
\* I/O thread has returned and dropped the receiver.
CanSend == Len(cmds) < ChannelCapacity /\ io # "exited"

\* Correlations whose answer will never come: no frame carries their req_id
\* any more.  The 300 s TTL can only ever sweep these, on the assumption the
\* code states: the server answers well inside that window.
Carried(q) == {q[k].req : k \in {n \in DOMAIN q : q[n].op # "shutdown"}}
Abandoned  == DOMAIN pending \ (Carried(cmds) \cup Carried(toServer) \cup Carried(fromServer))

Without(f, S) == [r \in DOMAIN f \ S |-> f[r]]

\* Variant: the unsubscribe forgets the correlations of the identity.
EvictNothing(i) == pending
EvictPendingForIdentity(i) == Without(pending, PendingFor(i))

------------------------------------------------------------------------------
Init ==
    /\ io = "top"
    /\ shutdown = FALSE
    /\ authenticated = TRUE
    /\ active = [i \in Ids |-> NoEntry]
    /\ nextGen = 1
    /\ pending = <<>>
    /\ nextReq = 1
    /\ cmds = <<>>
    /\ call = [c \in Callers |-> Idle]
    /\ closer = "idle"
    /\ stopSent = FALSE
    /\ todo = {}
    /\ toServer = <<>>
    /\ fromServer = <<>>
    /\ serverSubs = {}
    /\ calls = 0
    /\ faults = 0

------------------------------------------------------------------------------
(* Application threads *)

\* check_connected, then a fresh req_id.  From here to the critical section
\* below nothing stops a shutdown or a reconnect from happening.
CallStart(c) ==
    /\ call[c] = Idle
    /\ calls < MaxCalls
    /\ ~shutdown
    /\ authenticated
    /\ \E op \in {"sub", "unsub"}, i \in Ids :
         call' = [call EXCEPT ![c] = [op |-> op, sub |-> i, req |-> nextReq]]
    /\ nextReq' = nextReq + 1
    /\ calls' = calls + 1
    /\ UNCHANGED <<io, flags, tracked, cmds, closer, stopSent, todo, socket, faults>>

IncActive(i) ==
    IF active[i].refs > 0
    THEN /\ active' = [active EXCEPT ![i].refs = @ + 1]
         /\ nextGen' = nextGen
    ELSE /\ active' = [active EXCEPT ![i] = [refs |-> 1, gen |-> nextGen]]
         /\ nextGen' = nextGen + 1

\* Variants: the row outlives its last reference; one rejection drops them all.
DecActiveKeepsRow(i) == [active EXCEPT ![i].refs = @ - 1]
DecActiveDropsAll(i) == [active EXCEPT ![i] = NoEntry]
DecActive(i) ==
    [active EXCEPT ![i] = IF @.refs > 1 THEN [refs |-> @.refs - 1, gen |-> @.gen]
                                        ELSE NoEntry]

\* The field `inst' is history: the generation of the entry the correlation was
\* recorded for.  The code stores only the identity, and no guard reads it.
Correlate(f, r, i, g) ==
    [x \in DOMAIN f \cup {r} |-> IF x = r THEN [sub |-> i, inst |-> g] ELSE f[x]]

\* inc_active, then dec_active: the row is back where it was, and the generation
\* it drew, if it was new, is spent.  Variant: the reference is kept.
KeepReference(i) == IncActive(i)
RollBack(i) ==
    /\ UNCHANGED active
    /\ nextGen' = IF active[i].refs > 0 THEN nextGen ELSE nextGen + 1

\* The critical section of a subscribe.  A refused send rolls the reference and
\* the correlation back; a generation drawn and stale entries swept stay so.
TrackInflightSubscribe(c) ==
    /\ call[c].op = "sub"
    /\ LET i == call[c].sub
           r == call[c].req
       IN \E stale \in SUBSET Abandoned :
            \/ /\ CanSend
               /\ IncActive(i)
               /\ pending' = Correlate(Without(pending, stale), r, i, active'[i].gen)
               /\ cmds' = Append(cmds, [op |-> "sub", sub |-> i, req |-> r])
            \/ /\ ~CanSend
               /\ RollBack(i)
               /\ pending' = Without(pending, stale)
               /\ UNCHANGED cmds
    /\ call' = [call EXCEPT ![c] = Idle]
    /\ UNCHANGED <<io, flags, nextReq, closer, calls, stopSent, todo, socket, faults>>

\* The critical section of an unsubscribe: nothing changes unless the frame was
\* accepted by the channel.
SendThenUntrack(c) ==
    /\ call[c].op = "unsub"
    /\ LET i == call[c].sub
       IN IF CanSend
          THEN /\ cmds' = Append(cmds, [op |-> "unsub", sub |-> i, req |-> call[c].req])
               /\ active' = [active EXCEPT ![i] = NoEntry]
               /\ pending' = EvictPendingForIdentity(i)
          ELSE UNCHANGED <<cmds, active, pending>>
    /\ call' = [call EXCEPT ![c] = Idle]
    /\ UNCHANGED <<io, flags, nextGen, nextReq, closer, calls, stopSent, todo, socket, faults>>

(* shutdown(), in the order the code runs it; it never takes pending_subs *)

\* swap(true): a second call, or a call after the I/O thread raised the flag
\* itself, returns here.
CloseFlag ==
    /\ closer = "idle"
    /\ ~shutdown
    /\ shutdown' = TRUE
    /\ closer' = "flagged"
    /\ UNCHANGED <<io, authenticated, tracked, nextReq, cmds, call, calls,
                   stopSent, todo, socket, faults>>

CloseSend ==
    /\ closer = "flagged"
    /\ cmds' = IF CanSend THEN Append(cmds, [op |-> "shutdown"]) ELSE cmds
    /\ closer' = "sent"
    /\ UNCHANGED <<io, flags, tracked, nextReq, call, calls, stopSent, todo, socket, faults>>

Clear(S) == [i \in Ids |-> IF i \in S THEN NoEntry ELSE active[i]]

CloseClear ==
    /\ \/ /\ closer = "sent"
          /\ closer' = "contracts_cleared"
          /\ active' = Clear(ContractIds)
       \/ /\ closer = "contracts_cleared"
          /\ closer' = "cleared"
          /\ active' = Clear(FullIds)
    /\ UNCHANGED <<io, flags, nextGen, pending, nextReq, cmds, call, calls,
                   stopSent, todo, socket, faults>>

CloseAuth ==
    /\ closer = "cleared"
    /\ closer' = "done"
    /\ authenticated' = FALSE
    /\ UNCHANGED <<io, shutdown, tracked, nextReq, cmds, call, calls, stopSent,
                   todo, socket, faults>>

------------------------------------------------------------------------------
(* The I/O thread in a live session *)

\* The loop top only looks at the flag.  Variant: it does not.
IoTopUnchecked ==
    /\ io = "top"
    /\ io' = "read"
    /\ UNCHANGED <<flags, tracked, nextReq, cmds, threads, stopSent, todo, socket, faults>>
IoTop ==
    /\ io = "top"
    /\ io' = IF shutdown THEN "exited" ELSE "read"
    /\ UNCHANGED <<flags, tracked, nextReq, cmds, threads, stopSent, todo, socket, faults>>

\* A REQ_RESPONSE: apply_req_response, one critical section.
IoReadResponse ==
    /\ io = "read"
    /\ fromServer # <<>>
    /\ LET f == Head(fromServer)
       IN IF f.req \in DOMAIN pending
          THEN /\ pending' = Without(pending, {f.req})
               /\ active' = IF f.op = "rejected" THEN DecActive(pending[f.req].sub) ELSE active
          ELSE UNCHANGED <<pending, active>>
    /\ fromServer' = Tail(fromServer)
    /\ io' = "drain"
    /\ UNCHANGED <<flags, nextGen, nextReq, cmds, threads, stopSent, todo,
                   toServer, serverSubs, faults>>

\* Market data, an unknown frame, or a read slice that timed out.
IoReadOther ==
    /\ io = "read"
    /\ fromServer = <<>>
    /\ io' = "drain"
    /\ UNCHANGED <<flags, tracked, nextReq, cmds, threads, stopSent, todo, socket, faults>>

\* A METADATA frame inside a session raises the flag again, whoever lowered it.
\* Like other frames it commutes with the answers, so it is read between them.
IoReadMetadata ==
    /\ io = "read"
    /\ fromServer = <<>>
    /\ authenticated' = TRUE
    /\ io' = "drain"
    /\ UNCHANGED <<shutdown, tracked, nextReq, cmds, threads, stopSent, todo, socket, faults>>

SocketLost ==
    /\ toServer' = <<>>
    /\ fromServer' = <<>>
    /\ serverSubs' = {}

Fault == faults < MaxFaults /\ faults' = faults + 1

\* Read error, end of stream, read deadline, or a transient DISCONNECTED frame.
IoReadLost ==
    /\ io = "read"
    /\ Fault
    /\ SocketLost
    /\ authenticated' = FALSE
    /\ io' = "decide"
    /\ UNCHANGED <<shutdown, tracked, nextReq, cmds, threads, stopSent, todo>>

\* A DISCONNECTED frame with a permanent reason: the decoder raises the
\* shutdown flag and the loop goes on to one more command drain, whose writes
\* reach nobody.
IoReadPermanent ==
    /\ io = "read"
    /\ Fault
    /\ SocketLost
    /\ authenticated' = FALSE
    /\ shutdown' = TRUE
    /\ io' = "last_drain"
    /\ UNCHANGED <<tracked, nextReq, cmds, threads, stopSent, todo>>

\* Both command drains (steady state, after a replay) handle a command alike.
WriteFrame ==
    /\ cmds # <<>>
    /\ IsFrame(Head(cmds))
    /\ cmds' = Tail(cmds)
    /\ toServer' = IF io = "last_drain" THEN toServer ELSE Append(toServer, Head(cmds))
    /\ UNCHANGED <<fromServer, serverSubs>>

WriteFails ==
    /\ cmds # <<>>
    /\ IsFrame(Head(cmds))
    /\ cmds' = Tail(cmds)
    /\ Fault
    /\ SocketLost

WriteStop ==
    /\ cmds # <<>>
    /\ Head(cmds).op = "shutdown"
    /\ cmds' = Tail(cmds)
    /\ stopSent' = TRUE
    /\ shutdown' = TRUE

IoDrain ==
    /\ io \in {"drain", "last_drain"}
    /\ \/ /\ WriteFrame
          /\ UNCHANGED <<io, flags, stopSent, faults>>
       \/ /\ WriteFails
          /\ authenticated' = FALSE
          /\ io' = "decide"
          /\ UNCHANGED <<shutdown, stopSent>>
       \/ /\ WriteStop
          /\ io' = "top"
          /\ UNCHANGED <<authenticated, socket, faults>>
       \/ /\ cmds = <<>>
          /\ io' = "top"
          /\ UNCHANGED <<cmds, flags, stopSent, socket, faults>>
    /\ UNCHANGED <<tracked, nextReq, threads, todo>>

------------------------------------------------------------------------------
(* The I/O thread between two sessions *)

\* The reconnection decision: give up, or announce a reconnect and cool down.
IoDecide ==
    /\ io = "decide"
    /\ \/ io' = "exited"
       \/ ~shutdown /\ io' = "cooldown"
    /\ UNCHANGED <<flags, tracked, nextReq, cmds, threads, stopSent, todo, socket, faults>>

\* drain_stale_queued_writes: every queued frame is discarded unwritten, up to
\* the first Shutdown, which raises the flag.  Variant: nothing is discarded.
DrainNothing == UNCHANGED <<cmds, shutdown>>
DrainStale ==
    \/ /\ \A k \in DOMAIN cmds : IsFrame(cmds[k])
       /\ cmds' = <<>>
       /\ UNCHANGED shutdown
    \/ \E k \in DOMAIN cmds :
         /\ cmds[k].op = "shutdown"
         /\ \A m \in 1..(k-1) : IsFrame(cmds[m])
         /\ cmds' = SubSeq(cmds, k + 1, Len(cmds))
         /\ shutdown' = TRUE

\* End of the cooldown: the flag, then the frames queued for the dead session.
IoCooldown ==
    /\ io = "cooldown"
    /\ IF shutdown
       THEN io' = "exited" /\ UNCHANGED <<shutdown, cmds>>
       ELSE DrainStale /\ io' = IF shutdown' THEN "exited" ELSE "dial"
    /\ UNCHANGED <<authenticated, tracked, nextReq, threads, stopSent, todo, socket, faults>>

\* Dial and login: refused by the network or by a transient rejection, refused
\* for good, or a fresh session.
IoDial ==
    /\ io = "dial"
    /\ \/ Fault /\ io' = "decide" /\ UNCHANGED shutdown
       \/ Fault /\ io' = "exited" /\ shutdown' = TRUE
       \/ io' = "snapshot" /\ UNCHANGED <<shutdown, faults>>
    /\ UNCHANGED <<authenticated, tracked, nextReq, cmds, threads, stopSent, todo, socket>>

\* Variant: references of the dead session survive into the new one.
CollapseNothing(e) == e
Collapse(e) == [e EXCEPT !.refs = 1]

\* The critical section that starts a replay: collapse the references, copy the
\* tracked set, discard what is queued, forget the old correlations.
IoSnapshot ==
    /\ io = "snapshot"
    /\ active' = [i \in Ids |-> IF active[i].refs > 0 THEN Collapse(active[i]) ELSE NoEntry]
    /\ todo' = {[sub |-> i, gen |-> active[i].gen] : i \in Tracked}
    /\ DrainStale
    /\ pending' = <<>>
    /\ io' = IF shutdown' THEN "exited" ELSE "replay"
    /\ UNCHANGED <<authenticated, nextGen, nextReq, threads, stopSent, socket, faults>>

\* Per-contract entries are replayed before full streams.
NextToReplay(e) ==
    /\ e \in todo
    /\ e.sub \in FullIds => \A x \in todo : x.sub \in FullIds

\* Variant: the identity alone is compared.
SameIdentity(e) == active[e.sub].refs > 0
SameInstance(e) == active[e.sub].refs > 0 /\ active[e.sub].gen = e.gen

\* One re-subscribe: write the frame, then record its correlation if the entry
\* is still the instance of the snapshot.  The write itself, or the flush of the
\* burst it ends, may find the socket broken.
IoReplay ==
    /\ io = "replay"
    /\ \E e \in todo, outcome \in {"written", "write_failed", "flush_failed"} :
         /\ NextToReplay(e)
         /\ nextReq' = nextReq + 1
         /\ pending' = IF outcome # "write_failed" /\ SameInstance(e)
                       THEN Correlate(pending, nextReq, e.sub, e.gen)
                       ELSE pending
         /\ IF outcome = "written"
            THEN /\ toServer' = Append(toServer, [op |-> "sub", sub |-> e.sub, req |-> nextReq])
                 /\ todo' = todo \ {e}
                 /\ io' = IF shutdown THEN "exited" ELSE "replay"
                 /\ UNCHANGED <<fromServer, serverSubs, faults>>
            ELSE /\ Fault
                 /\ SocketLost
                 /\ todo' = {}
                 /\ io' = "decide"
    /\ UNCHANGED <<flags, active, nextGen, cmds, threads, stopSent>>

\* Variant: the session is marked live before the queued commands are written.
IoReplayDoneLive ==
    /\ io = "replay"
    /\ todo = {}
    /\ io' = "queued"
    /\ authenticated' = TRUE
    /\ UNCHANGED <<shutdown, tracked, nextReq, cmds, threads, stopSent, todo, socket, faults>>

IoReplayDone ==
    /\ io = "replay"
    /\ todo = {}
    /\ io' = "queued"
    /\ UNCHANGED <<flags, tracked, nextReq, cmds, threads, stopSent, todo, socket, faults>>

\* Commands queued while the session was being replaced; when none is left the
\* flag is looked at one last time.
IoQueued ==
    /\ io = "queued"
    /\ \/ /\ WriteFrame
          /\ UNCHANGED <<io, shutdown, stopSent, faults>>
       \/ /\ WriteFails
          /\ io' = "decide"
          /\ UNCHANGED <<shutdown, stopSent>>
       \/ /\ WriteStop
          /\ io' = "exited"
          /\ UNCHANGED <<socket, faults>>
       \/ /\ cmds = <<>>
          /\ io' = IF shutdown THEN "exited" ELSE "announce"
          /\ UNCHANGED <<cmds, shutdown, stopSent, socket, faults>>
    /\ UNCHANGED <<authenticated, tracked, nextReq, threads, todo>>

\* Only now is the session marked live.
IoAnnounce ==
    /\ io = "announce"
    /\ authenticated' = TRUE
    /\ io' = "top"
    /\ UNCHANGED <<shutdown, tracked, nextReq, cmds, threads, stopSent, todo, socket, faults>>

------------------------------------------------------------------------------
(* The server, external: it answers every subscribe, in order, and may refuse  *)
(* one, a duplicate of a stream it already sends included.                     *)

Answer(op, r) == Append(fromServer, [op |-> op, req |-> r])

ServerReceive ==
    /\ toServer # <<>>
    /\ toServer' = Tail(toServer)
    /\ LET f == Head(toServer)
       IN \/ /\ f.op = "sub"
             /\ \E r \in {f.req} \cup (IF Uncorrelated THEN {NoReq} ELSE {}) :
                  \/ /\ serverSubs' = serverSubs \cup {f.sub}
                     /\ fromServer' = Answer("subscribed", r)
                  \/ /\ serverSubs' = serverSubs
                     /\ fromServer' = Answer("rejected", r)
          \/ /\ f.op = "unsub"
             /\ serverSubs' = serverSubs \ {f.sub}
             /\ fromServer' = fromServer
    /\ UNCHANGED <<io, flags, tracked, nextReq, cmds, threads, stopSent, todo, faults>>

------------------------------------------------------------------------------
CallerStep(c) == CallStart(c) \/ TrackInflightSubscribe(c) \/ SendThenUntrack(c)
CloserStep == CloseFlag \/ CloseSend \/ CloseClear \/ CloseAuth
SessionStep == IoTop \/ IoReadResponse \/ IoReadOther \/ IoReadMetadata
               \/ IoReadLost \/ IoReadPermanent \/ IoDrain
RedialStep == IoDecide \/ IoCooldown \/ IoDial \/ IoSnapshot
              \/ IoReplay \/ IoReplayDone \/ IoQueued \/ IoAnnounce

Next ==
    \/ \E c \in Callers : CallerStep(c)
    \/ CloserStep
    \/ SessionStep
    \/ RedialStep
    \/ ServerReceive

\* The I/O thread keeps running (its reads and writes time out), a call that
\* entered its critical section leaves it, a shutdown() that began goes on, and
\* the server reads its socket.  Nobody has to call anything.
Fairness ==
    /\ WF_vars(SessionStep \/ RedialStep)
    /\ WF_vars(CloseSend \/ CloseClear \/ CloseAuth)
    /\ WF_vars(ServerReceive)
    /\ \A c \in Callers : WF_vars(TrackInflightSubscribe(c) \/ SendThenUntrack(c))

SafetySpec == Init /\ [][Next]_vars
Spec == SafetySpec /\ Fairness

------------------------------------------------------------------------------
(* Properties *)

Request == [op : {"sub", "unsub"}, sub : Ids, req : Nat]
Command == Request \cup {[op |-> "shutdown"]}
Correlation == [sub : Ids, inst : Nat]
Answers == [op : {"subscribed", "rejected"}, req : Nat]
Entry   == {e \in [refs : Nat, gen : Nat] : e.refs = 0 <=> e.gen = 0}

\* The type of every variable.  A row of the tracked set exists exactly while it
\* has references (io_loop/mod.rs:73), so no entry has a generation without one.
TypeOK ==
    /\ io \in {"top", "read", "drain", "last_drain", "decide", "cooldown", "dial",
               "snapshot", "replay", "queued", "announce", "exited"}
    /\ shutdown \in BOOLEAN
    /\ authenticated \in BOOLEAN
    /\ active \in [Ids -> Entry]
    /\ nextGen \in Nat \ {0}
    /\ DOMAIN pending \subseteq Nat
    /\ pending \in [DOMAIN pending -> Correlation]
    /\ nextReq \in Nat
    /\ cmds \in Seq(Command)
    /\ call \in [Callers -> Request \cup {Idle}]
    /\ closer \in {"idle", "flagged", "sent", "contracts_cleared", "cleared", "done"}
    /\ stopSent \in BOOLEAN
    /\ todo \subseteq [sub : Ids, gen : Nat]
    /\ toServer \in Seq(Request)
    /\ fromServer \in Seq(Answers)
    /\ serverSubs \subseteq Ids
    /\ calls \in Nat
    /\ faults \in Nat

\* Until a shutdown, every resident correlation names the entry that is tracked
\* now, the very instance it was recorded for: a late rejection, a replay or an
\* unsubscribe followed by a re-subscribe can never make an answer drop a
\* subscription it was not the answer to (apply_req_response removes by value).
PendingNamesLiveInstance ==
    ~shutdown => \A r \in DOMAIN pending :
                   /\ active[pending[r].sub].refs > 0
                   /\ active[pending[r].sub].gen = pending[r].inst

\* Until a shutdown, an identity holds a reference for each answer it is owed, so
\* that rejecting all of them can only release what they were given.
RefsCoverPending ==
    ~shutdown => \A i \in Ids : Cardinality(PendingFor(i)) <= active[i].refs

\* The strengthening the two need to be inductive: generations are drawn from a
\* counter, only a replay has entries to do, and an entry still to be replayed is
\* the one reference of its instance that no answer is owed for yet.
GensBelow == /\ \A i \in Ids : active[i].gen < nextGen
             /\ \A e \in todo : e.gen < nextGen
TodoInReplay == todo # {} => io \in {"replay", "exited"}
ReplayOwed ==
    ~shutdown => \A e \in todo : SameInstance(e) =>
                   Cardinality(PendingFor(e.sub)) < active[e.sub].refs

\* Only a raised flag lets the clearing of shutdown() run.
CloserRaisedFlag == closer # "idle" => shutdown

\* The books of the tracking, together.
Books == /\ IsFiniteSet(DOMAIN pending)
         /\ GensBelow
         /\ TodoInReplay
         /\ CloserRaisedFlag
         /\ RefsCoverPending
         /\ PendingNamesLiveInstance
         /\ ReplayOwed
\* The inductive invariant: the types and the books.
Accounting == TypeOK /\ Books

\* Does this socket carry the subscriptions, or is it about to?
Established == io \in {"top", "read", "drain", "replay", "queued", "announce"}
Pipeline == toServer \o cmds

\* No subscribe frame is live but uncorrelated on the wire: each one that has not
\* been answered can still be rejected by its req_id, unless an unsubscribe of
\* the same identity follows it (the hazard the drain under the lock removes).
NoUncorrelatedSubscribe ==
    (Established /\ ~shutdown) =>
      \A k \in DOMAIN Pipeline :
        Pipeline[k].op = "sub" =>
          \/ Pipeline[k].req \in DOMAIN pending
          \/ \E m \in k+1..Len(Pipeline) :
               Pipeline[m].op = "unsub" /\ Pipeline[m].sub = Pipeline[k].sub

\* A tracked identity is never stranded: on an established socket the server
\* streams it, or its subscribe is queued, in flight or still to be replayed, or
\* the rejection that will untrack it is on its way.
TrackedIsDriven ==
    (Established /\ ~shutdown) =>
      \A i \in Tracked :
        \/ i \in serverSubs
        \/ \E e \in todo : e.sub = i
        \/ \E k \in DOMAIN Pipeline : Pipeline[k].op = "sub" /\ Pipeline[k].sub = i
        \/ \E k \in DOMAIN fromServer :
             fromServer[k].op = "rejected" /\ fromServer[k].req \in PendingFor(i)

\* Nothing queued, written or answered that the other end has not seen yet.
Settled == /\ io \in {"top", "read", "drain"}
           /\ ~shutdown
           /\ Pipeline = <<>>
           /\ fromServer = <<>>

\* When nothing is in flight the client tracks exactly what the server streams,
\* whatever duplicates, refusals, unsubscribes and reconnects came before.
SettledAgreement == Settled => Tracked = serverSubs

\* The half of it that survives answers without a req_id: a stream the server
\* sends is tracked, so a reconnect replays it.
SettledStreamsAreTracked == Settled => serverSubs \subseteq Tracked

\* The session looks live to callers only on a socket whose replay is complete:
\* never while redialling, replaying or writing what was queued meanwhile.
NotLiveBeforeReplay ==
    authenticated => io \in {"top", "read", "drain", "last_drain", "exited"}

\* Once calls and faults stop, the client either has stopped or tracks exactly
\* what the server streams, for good.
Converges == <>[](io = "exited" \/ Tracked = serverSubs)

\* A raised shutdown flag stops the I/O thread, whatever it is doing.
ShutdownStops == shutdown ~> io = "exited"

\* The tracked set implements the ledger of outstanding references.
Ledger == INSTANCE SubscriptionLedger WITH
            closed <- shutdown,
            refs   <- [i \in Ids |-> IF shutdown THEN 0 ELSE active[i].refs],
            owed   <- [i \in Ids |-> IF shutdown THEN 0 ELSE Cardinality(PendingFor(i))]
ImplementsLedger == Ledger!Spec

\* is_authenticated() after the I/O thread is gone: "Whether we are authenticated
\* and the connection is live" (fpss/mod.rs:872).
NotAuthenticatedAfterExit == (io = "exited" /\ closer \in {"idle", "done"}) => ~authenticated

\* shutdown() "will send STOP to server" (fpss/mod.rs:2383): the I/O thread does
\* not leave a live session on a user shutdown without writing the frame.
StopPrecedesExit ==
    [][(io = "top" /\ io' = "exited" /\ closer # "idle") => stopSent]_vars
==============================================================================
