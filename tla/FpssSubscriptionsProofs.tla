----------------------- MODULE FpssSubscriptionsProofs -----------------------
(***************************************************************************)
(* Theorems about FpssSubscriptions, for every set of identities and       *)
(* callers and every bound: what is tracked, correlated and agreed with    *)
(* the server, the refinement of the ledger, and what is left to do once   *)
(* the shutdown flag is up.                                                *)
(***************************************************************************)
EXTENDS FpssSubscriptions, FiniteSetTheorems, SequenceTheorems, TLAPS

------------------------------------------------------------------------------
(* Lemmas about the helpers *)

\* A partial function from request ids to correlations.
Registry(f) == /\ DOMAIN f \subseteq Nat
               /\ f \in [DOMAIN f -> Correlation]

\* Sweeping entries leaves a registry.
LEMMA WithoutType ==
  ASSUME NEW f, Registry(f), NEW S
  PROVE  Registry(Without(f, S))
BY DEF Registry, Without

\* Recording a correlation leaves a registry.
LEMMA CorrelateType ==
  ASSUME NEW f, Registry(f), NEW r \in Nat, NEW i \in Ids, NEW g \in Nat
  PROVE  Registry(Correlate(f, r, i, g))
BY DEF Registry, Correlate, Correlation

\* One more reference, or a first one: the table keeps its type.
LEMMA IncActiveType ==
  ASSUME TypeOK, NEW i \in Ids, IncActive(i)
  PROVE  /\ active' \in [Ids -> Entry]
         /\ nextGen' \in Nat \ {0}
         /\ active'[i].gen \in Nat
<1>1. active \in [Ids -> Entry] /\ nextGen \in Nat \ {0}
  BY DEF TypeOK
<1>2. /\ active[i] \in [refs : Nat, gen : Nat]
      /\ active[i].refs = 0 <=> active[i].gen = 0
  BY <1>1 DEF Entry
<1>3. CASE active[i].refs > 0
  <2>1. [active[i] EXCEPT !.refs = @ + 1] \in Entry
    BY <1>2, <1>3 DEF Entry
  <2>2. active' = [active EXCEPT ![i] = [active[i] EXCEPT !.refs = @ + 1]] /\ nextGen' = nextGen
    BY <1>3 DEF IncActive
  <2>3. active' \in [Ids -> Entry] /\ active'[i] = [active[i] EXCEPT !.refs = @ + 1]
    BY <1>1, <2>1, <2>2
  <2>4. QED
    BY <1>1, <2>1, <2>2, <2>3 DEF Entry
<1>4. CASE active[i].refs = 0
  <2>1. [refs |-> 1, gen |-> nextGen] \in Entry
    BY <1>1 DEF Entry
  <2>2. active' = [active EXCEPT ![i] = [refs |-> 1, gen |-> nextGen]] /\ nextGen' = nextGen + 1
    BY <1>4 DEF IncActive
  <2>3. active' \in [Ids -> Entry] /\ active'[i] = [refs |-> 1, gen |-> nextGen]
    BY <1>1, <2>1, <2>2
  <2>4. QED
    BY <1>1, <2>1, <2>2, <2>3 DEF Entry
<1>5. QED BY <1>2, <1>3, <1>4

\* One reference less: the table keeps its type, rows without references go.
LEMMA DecActiveType ==
  ASSUME TypeOK, NEW i \in Ids
  PROVE  DecActive(i) \in [Ids -> Entry]
<1>1. active \in [Ids -> Entry]
  BY DEF TypeOK
<1>2. /\ active[i] \in [refs : Nat, gen : Nat]
      /\ active[i].refs = 0 <=> active[i].gen = 0
  BY <1>1 DEF Entry
<1>3. active[i].refs > 1 => [refs |-> active[i].refs - 1, gen |-> active[i].gen] \in Entry
  BY <1>2 DEF Entry
<1>4. NoEntry \in Entry
  BY DEF NoEntry, Entry
<1>5. QED BY <1>1, <1>3, <1>4 DEF DecActive

\* The first element and the rest of a non-empty queue.
LEMMA HeadTailType ==
  ASSUME NEW T, NEW s \in Seq(T), s # <<>>
  PROVE  Head(s) \in T /\ Tail(s) \in Seq(T)
OBVIOUS

\* One more element at the end of a queue.
LEMMA AppendType ==
  ASSUME NEW T, NEW s \in Seq(T), NEW e \in T
  PROVE  Append(s, e) \in Seq(T)
OBVIOUS

\* A queued command that is a frame is a request.
LEMMA FrameIsRequest ==
  ASSUME NEW c \in Command, IsFrame(c)
  PROVE  c \in Request
BY DEF Command, IsFrame, Request

\* Draining stale frames leaves a command queue and a flag.
LEMMA DrainStaleType ==
  ASSUME TypeOK, DrainStale
  PROVE  cmds' \in Seq(Command) /\ shutdown' \in BOOLEAN
<1>1. cmds \in Seq(Command) /\ shutdown \in BOOLEAN
  BY DEF TypeOK
<1>2. CASE cmds' = <<>> /\ UNCHANGED shutdown
  BY <1>1, <1>2
<1>3. ASSUME NEW k \in DOMAIN cmds, cmds' = SubSeq(cmds, k + 1, Len(cmds)), shutdown' = TRUE
      PROVE  cmds' \in Seq(Command) /\ shutdown' \in BOOLEAN
  BY <1>1, <1>3
<1>4. QED BY <1>2, <1>3 DEF DrainStale

------------------------------------------------------------------------------
(* Type correctness: one lemma for the application threads, one for the        *)
(* shutdown() call and one for each half of the I/O loop.                      *)

\* The parts of TypeOK about the registry, as the helper lemmas need them.
LEMMA PendingIsRegistry ==
  TypeOK <=> TypeOK /\ Registry(pending)
BY DEF TypeOK, Registry

LEMMA CallerType ==
  ASSUME TypeOK, NEW c \in Callers, CallerStep(c)
  PROVE  TypeOK'
<1> USE DEF vars, flags, tracked, socket, threads
<1>1. CASE CallStart(c)
  <2>1. call' \in [Callers -> Request \cup {Idle}]
    BY <1>1 DEF CallStart, TypeOK, Request
  <2>2. QED BY <1>1, <2>1 DEF CallStart, TypeOK
<1>2. CASE TrackInflightSubscribe(c)
  <2>1. call[c].op = "sub" /\ call[c] \in Request
    BY <1>2 DEF TrackInflightSubscribe, TypeOK, Idle
  <2> DEFINE i == call[c].sub
             r == call[c].req
  <2>2. i \in Ids /\ r \in Nat /\ [op |-> "sub", sub |-> i, req |-> r] \in Command
    BY <2>1 DEF Request, Command
  <2>3. Registry(pending)
    BY PendingIsRegistry
  <2>4. PICK stale \in SUBSET Abandoned :
          \/ /\ CanSend
             /\ IncActive(i)
             /\ pending' = Correlate(Without(pending, stale), r, i, active'[i].gen)
             /\ cmds' = Append(cmds, [op |-> "sub", sub |-> i, req |-> r])
          \/ /\ ~CanSend
             /\ RollBack(i)
             /\ pending' = Without(pending, stale)
             /\ UNCHANGED cmds
    BY <1>2 DEF TrackInflightSubscribe
  <2>5. Registry(Without(pending, stale))
    BY <2>3, WithoutType
  <2>6. /\ active' \in [Ids -> Entry]
        /\ nextGen' \in Nat \ {0}
        /\ Registry(pending')
        /\ cmds' \in Seq(Command)
    <3>1. CASE CanSend /\ IncActive(i)
      <4>1. active' \in [Ids -> Entry] /\ nextGen' \in Nat \ {0} /\ active'[i].gen \in Nat
        BY <3>1, <2>2, IncActiveType
      <4>2. Registry(Correlate(Without(pending, stale), r, i, active'[i].gen))
        BY <4>1, <2>2, <2>5, CorrelateType
      <4>3. pending' = Correlate(Without(pending, stale), r, i, active'[i].gen)
        BY <3>1, <2>4
      <4>4. cmds' \in Seq(Command)
        <5>1. cmds' = Append(cmds, [op |-> "sub", sub |-> i, req |-> r])
          BY <3>1, <2>4
        <5>2. cmds \in Seq(Command)
          BY DEF TypeOK
        <5>3. QED BY <5>1, <5>2, <2>2, AppendType
      <4>5. QED BY <4>1, <4>2, <4>3, <4>4
    <3>2. CASE ~CanSend /\ RollBack(i) /\ pending' = Without(pending, stale) /\ UNCHANGED cmds
      <4>1. active' \in [Ids -> Entry] /\ nextGen' \in Nat \ {0} /\ cmds' \in Seq(Command)
        BY <3>2 DEF RollBack, TypeOK
      <4>2. QED BY <3>2, <4>1, <2>5
    <3>3. QED BY <3>1, <3>2, <2>4
  <2>7. call' \in [Callers -> Request \cup {Idle}]
    BY <1>2 DEF TrackInflightSubscribe, TypeOK
  <2>8. DOMAIN pending' \subseteq Nat /\ pending' \in [DOMAIN pending' -> Correlation]
    BY <2>6 DEF Registry
  <2>9. QED BY <1>2, <2>6, <2>7, <2>8 DEF TrackInflightSubscribe, TypeOK
<1>3. CASE SendThenUntrack(c)
  <2>1. call[c].op = "unsub" /\ call[c] \in Request
    BY <1>3 DEF SendThenUntrack, TypeOK, Idle
  <2> DEFINE i == call[c].sub
  <2>2. i \in Ids /\ [op |-> "unsub", sub |-> i, req |-> call[c].req] \in Command
    BY <2>1 DEF Request, Command
  <2>3. call' \in [Callers -> Request \cup {Idle}]
    BY <1>3 DEF SendThenUntrack, TypeOK
  <2>4. CASE CanSend
    <3>1. cmds' \in Seq(Command)
      <4>1. cmds' = Append(cmds, [op |-> "unsub", sub |-> i, req |-> call[c].req])
        BY <1>3, <2>4 DEF SendThenUntrack
      <4>2. cmds \in Seq(Command)
        BY DEF TypeOK
      <4>3. QED BY <4>1, <4>2, <2>2, AppendType
    <3>2. NoEntry \in Entry
      BY DEF NoEntry, Entry
    <3>3. active' \in [Ids -> Entry]
      BY <1>3, <2>4, <3>2 DEF SendThenUntrack, TypeOK
    <3>4. Registry(pending')
      <4>1. pending' = Without(pending, PendingFor(i))
        BY <1>3, <2>4 DEF SendThenUntrack, EvictPendingForIdentity
      <4>2. QED BY <4>1, PendingIsRegistry, WithoutType
    <3>5. DOMAIN pending' \subseteq Nat /\ pending' \in [DOMAIN pending' -> Correlation]
      BY <3>4 DEF Registry
    <3>6. QED BY <1>3, <2>3, <3>1, <3>3, <3>5 DEF SendThenUntrack, TypeOK
  <2>5. CASE ~CanSend
    BY <1>3, <2>3, <2>5 DEF SendThenUntrack, TypeOK
  <2>6. QED BY <2>4, <2>5
<1>4. QED BY <1>1, <1>2, <1>3 DEF CallerStep

LEMMA CloserType ==
  ASSUME TypeOK, CloserStep
  PROVE  TypeOK'
<1> USE DEF vars, flags, tracked, socket, threads
<1>1. CASE CloseFlag
  BY <1>1 DEF CloseFlag, TypeOK
<1>2. CASE CloseSend
  <2>1. [op |-> "shutdown"] \in Command /\ cmds \in Seq(Command)
    BY DEF Command, TypeOK
  <2>2. cmds' \in Seq(Command)
    BY <1>2, <2>1, AppendType DEF CloseSend
  <2>3. QED BY <1>2, <2>2 DEF CloseSend, TypeOK
<1>3. CASE CloseClear
  <2>1. NoEntry \in Entry
    BY DEF NoEntry, Entry
  <2>2. active' \in [Ids -> Entry]
    BY <1>3, <2>1 DEF CloseClear, Clear, TypeOK
  <2>3. QED BY <1>3, <2>2 DEF CloseClear, TypeOK
<1>4. CASE CloseAuth
  BY <1>4 DEF CloseAuth, TypeOK
<1>5. QED BY <1>1, <1>2, <1>3, <1>4 DEF CloserStep

LEMMA SocketLostType ==
  ASSUME SocketLost
  PROVE  toServer' \in Seq(Request) /\ fromServer' \in Seq(Answers) /\ serverSubs' \subseteq Ids
BY DEF SocketLost

\* Writing a queued frame, or failing to, keeps the types of what it touches.
LEMMA WriteType ==
  ASSUME TypeOK, WriteFrame \/ WriteFails
  PROVE  /\ cmds' \in Seq(Command)
         /\ toServer' \in Seq(Request)
         /\ fromServer' \in Seq(Answers)
         /\ serverSubs' \subseteq Ids
<1>1. /\ cmds \in Seq(Command)
      /\ toServer \in Seq(Request)
      /\ fromServer \in Seq(Answers)
      /\ serverSubs \subseteq Ids
  BY DEF TypeOK
<1>2. CASE WriteFrame
  <2>1. Head(cmds) \in Request /\ Tail(cmds) \in Seq(Command)
    BY <1>1, <1>2, HeadTailType, FrameIsRequest DEF WriteFrame
  <2>2. toServer' \in Seq(Request)
    BY <1>1, <1>2, <2>1, AppendType DEF WriteFrame
  <2>3. QED BY <1>1, <1>2, <2>1, <2>2 DEF WriteFrame
<1>3. CASE WriteFails
  BY <1>1, <1>3, HeadTailType, SocketLostType DEF WriteFails
<1>4. QED BY <1>2, <1>3

\* The Shutdown command writes STOP and raises the flag.
LEMMA WriteStopType ==
  ASSUME TypeOK, WriteStop
  PROVE  cmds' \in Seq(Command) /\ stopSent' = TRUE /\ shutdown' = TRUE
<1>1. cmds \in Seq(Command)
  BY DEF TypeOK
<1>2. QED BY <1>1, HeadTailType DEF WriteStop

LEMMA FaultType ==
  ASSUME TypeOK, Fault
  PROVE  faults' \in Nat
BY DEF TypeOK, Fault

LEMMA SessionType ==
  ASSUME TypeOK, SessionStep
  PROVE  TypeOK'
<1> USE DEF vars, flags, tracked, socket, threads
<1>1. CASE IoTop
  BY <1>1 DEF IoTop, TypeOK
<1>2. CASE IoReadResponse
  <2> DEFINE f == Head(fromServer)
  <2>1. fromServer \in Seq(Answers) /\ fromServer # <<>>
    BY <1>2 DEF IoReadResponse, TypeOK
  <2>2. fromServer' \in Seq(Answers)
    BY <1>2, <2>1, HeadTailType DEF IoReadResponse
  <2>3. active' \in [Ids -> Entry] /\ Registry(pending')
    <3>1. CASE f.req \in DOMAIN pending
      <4>1. /\ pending' = Without(pending, {f.req})
            /\ active' = IF f.op = "rejected" THEN DecActive(pending[f.req].sub) ELSE active
        BY <1>2, <3>1 DEF IoReadResponse
      <4>2. pending[f.req].sub \in Ids
        BY <3>1 DEF TypeOK, Correlation
      <4>3. DecActive(pending[f.req].sub) \in [Ids -> Entry]
        BY <4>2, DecActiveType
      <4>4. active' \in [Ids -> Entry]
        BY <4>1, <4>3 DEF TypeOK
      <4>5. QED BY <4>1, <4>4, PendingIsRegistry, WithoutType
    <3>2. CASE f.req \notin DOMAIN pending
      <4>1. UNCHANGED <<pending, active>>
        BY <1>2, <3>2 DEF IoReadResponse
      <4>2. QED BY <4>1, PendingIsRegistry DEF TypeOK
    <3>3. QED BY <3>1, <3>2
  <2>4. DOMAIN pending' \subseteq Nat /\ pending' \in [DOMAIN pending' -> Correlation]
    BY <2>3 DEF Registry
  <2>5. QED BY <1>2, <2>2, <2>3, <2>4 DEF IoReadResponse, TypeOK
<1>3. CASE IoReadOther
  BY <1>3 DEF IoReadOther, TypeOK
<1>4. CASE IoReadMetadata
  BY <1>4 DEF IoReadMetadata, TypeOK
<1>5. CASE IoReadLost
  BY <1>5, SocketLostType, FaultType DEF IoReadLost, TypeOK
<1>6. CASE IoReadPermanent
  BY <1>6, SocketLostType, FaultType DEF IoReadPermanent, TypeOK
<1>7. CASE IoDrain
  <2>1. CASE WriteFrame /\ UNCHANGED <<io, flags, stopSent, faults>>
    BY <1>7, <2>1, WriteType DEF IoDrain, TypeOK
  <2>2. CASE WriteFails /\ authenticated' = FALSE /\ io' = "decide" /\ UNCHANGED <<shutdown, stopSent>>
    <3>1. faults' \in Nat
      BY <2>2, FaultType DEF WriteFails
    <3>2. QED BY <1>7, <2>2, <3>1, WriteType DEF IoDrain, TypeOK
  <2>3. CASE WriteStop /\ io' = "top" /\ UNCHANGED <<authenticated, socket, faults>>
    BY <1>7, <2>3, WriteStopType DEF IoDrain, TypeOK
  <2>4. CASE io' = "top" /\ UNCHANGED <<cmds, flags, stopSent, socket, faults>>
    BY <1>7, <2>4 DEF IoDrain, TypeOK
  <2>5. QED BY <1>7, <2>1, <2>2, <2>3, <2>4 DEF IoDrain
<1>8. QED BY <1>1, <1>2, <1>3, <1>4, <1>5, <1>6, <1>7 DEF SessionStep

LEMMA RedialType ==
  ASSUME TypeOK, RedialStep
  PROVE  TypeOK'
<1> USE DEF vars, flags, tracked, socket, threads
<1>1. CASE IoDecide
  BY <1>1 DEF IoDecide, TypeOK
<1>2. CASE IoCooldown
  <2>1. CASE shutdown
    BY <1>2, <2>1 DEF IoCooldown, TypeOK
  <2>2. CASE ~shutdown
    <3>1. DrainStale
      BY <1>2, <2>2 DEF IoCooldown
    <3>2. cmds' \in Seq(Command) /\ shutdown' \in BOOLEAN
      BY <3>1, DrainStaleType
    <3>3. QED BY <1>2, <2>2, <3>2 DEF IoCooldown, TypeOK
  <2>3. QED BY <2>1, <2>2
<1>3. CASE IoDial
  BY <1>3, FaultType DEF IoDial, TypeOK
<1>4. CASE IoSnapshot
  <2>1. cmds' \in Seq(Command) /\ shutdown' \in BOOLEAN
    BY <1>4, DrainStaleType DEF IoSnapshot
  <2>2. \A i \in Ids : active[i] \in [refs : Nat, gen : Nat] /\ (active[i].refs = 0 <=> active[i].gen = 0)
    BY DEF TypeOK, Entry
  <2>3. active' \in [Ids -> Entry]
    <3>1. \A i \in Ids : active[i].refs > 0 => Collapse(active[i]) \in Entry
      BY <2>2 DEF Collapse, Entry
    <3>2. NoEntry \in Entry
      BY DEF NoEntry, Entry
    <3>3. QED BY <1>4, <3>1, <3>2 DEF IoSnapshot
  <2>4. todo' \subseteq [sub : Ids, gen : Nat]
    BY <1>4, <2>2 DEF IoSnapshot, Tracked
  <2>5. DOMAIN pending' \subseteq Nat /\ pending' \in [DOMAIN pending' -> Correlation]
    BY <1>4 DEF IoSnapshot
  <2>6. QED BY <1>4, <2>1, <2>3, <2>4, <2>5 DEF IoSnapshot, TypeOK
<1>5. CASE IoReplay
  <2>1. PICK e \in todo, outcome \in {"written", "write_failed", "flush_failed"} :
          /\ nextReq' = nextReq + 1
          /\ pending' = IF outcome # "write_failed" /\ SameInstance(e)
                        THEN Correlate(pending, nextReq, e.sub, e.gen)
                        ELSE pending
          /\ IF outcome = "written"
             THEN /\ toServer' = Append(toServer, [op |-> "sub", sub |-> e.sub, req |-> nextReq])
                  /\ todo' = todo \ {e}
                  /\ io' = IF shutdown THEN "exited" ELSE "replay"
                  /\ UNCHANGED <<fromServer, serverSubs, faults>>
             ELSE /\ Fault
                  /\ SocketLost
                  /\ todo' = {}
                  /\ io' = "decide"
    BY <1>5 DEF IoReplay
  <2>2. e.sub \in Ids /\ e.gen \in Nat /\ nextReq \in Nat
    BY DEF TypeOK
  <2>3. Registry(pending')
    BY <2>1, <2>2, CorrelateType, PendingIsRegistry
  <2>4. DOMAIN pending' \subseteq Nat /\ pending' \in [DOMAIN pending' -> Correlation]
    BY <2>3 DEF Registry
  <2>5. CASE outcome = "written"
    <3>1. [op |-> "sub", sub |-> e.sub, req |-> nextReq] \in Request /\ toServer \in Seq(Request)
      BY <2>2 DEF Request, TypeOK
    <3>2. toServer' \in Seq(Request)
      BY <2>1, <2>5, <3>1, AppendType
    <3>3. QED BY <1>5, <2>1, <2>2, <2>4, <2>5, <3>2 DEF IoReplay, TypeOK
  <2>6. CASE outcome # "written"
    BY SMTT(30), <1>5, <2>1, <2>2, <2>4, <2>6, FaultType, SocketLostType DEF IoReplay, TypeOK
  <2>7. QED BY <2>5, <2>6
<1>6. CASE IoReplayDone
  BY <1>6 DEF IoReplayDone, TypeOK
<1>7. CASE IoQueued
  <2>1. CASE WriteFrame /\ UNCHANGED <<io, shutdown, stopSent, faults>>
    BY <1>7, <2>1, WriteType DEF IoQueued, TypeOK
  <2>2. CASE WriteFails /\ io' = "decide" /\ UNCHANGED <<shutdown, stopSent>>
    <3>1. faults' \in Nat
      BY <2>2, FaultType DEF WriteFails
    <3>2. QED BY <1>7, <2>2, <3>1, WriteType DEF IoQueued, TypeOK
  <2>3. CASE WriteStop /\ io' = "exited" /\ UNCHANGED <<socket, faults>>
    BY <1>7, <2>3, WriteStopType DEF IoQueued, TypeOK
  <2>4. CASE /\ io' = IF shutdown THEN "exited" ELSE "announce"
             /\ UNCHANGED <<cmds, shutdown, stopSent, socket, faults>>
    BY <1>7, <2>4 DEF IoQueued, TypeOK
  <2>5. QED BY <1>7, <2>1, <2>2, <2>3, <2>4 DEF IoQueued
<1>8. CASE IoAnnounce
  BY <1>8 DEF IoAnnounce, TypeOK
<1>9. QED
  BY <1>1, <1>2, <1>3, <1>4, <1>5, <1>6, <1>7, <1>8, Zenon DEF RedialStep

LEMMA ServerType ==
  ASSUME TypeOK, ServerReceive
  PROVE  TypeOK'
<1> USE DEF vars, flags, tracked, socket, threads
<1> DEFINE f == Head(toServer)
<1>1. toServer \in Seq(Request) /\ toServer # <<>> /\ fromServer \in Seq(Answers)
  BY DEF ServerReceive, TypeOK
<1>2. f \in Request /\ toServer' \in Seq(Request)
  BY <1>1, HeadTailType DEF ServerReceive
<1>3. \A op \in {"subscribed", "rejected"}, r \in Nat : Answer(op, r) \in Seq(Answers)
  BY <1>1, AppendType DEF Answer, Answers
<1>4. f.sub \in Ids /\ f.req \in Nat /\ NoReq \in Nat
  BY <1>2 DEF Request, NoReq
<1>5. fromServer' \in Seq(Answers) /\ serverSubs' \subseteq Ids
  <2>1. serverSubs \subseteq Ids
    BY DEF TypeOK
  <2>2. CASE f.op = "sub"
    <3>1. PICK r \in {f.req} \cup (IF Uncorrelated THEN {NoReq} ELSE {}) :
            \/ /\ serverSubs' = serverSubs \cup {f.sub}
               /\ fromServer' = Answer("subscribed", r)
            \/ /\ serverSubs' = serverSubs
               /\ fromServer' = Answer("rejected", r)
      BY <2>2 DEF ServerReceive
    <3>2. QED BY <1>3, <1>4, <2>1, <3>1
  <2>3. CASE f.op = "unsub"
    BY <1>1, <2>1, <2>3 DEF ServerReceive
  <2>4. QED BY <1>2, <2>2, <2>3 DEF Request
<1>6. QED BY <1>2, <1>5 DEF ServerReceive, TypeOK

LEMMA InitType == Init => TypeOK
<1>1. NoEntry \in Entry
  BY DEF NoEntry, Entry
<1> SUFFICES ASSUME Init PROVE TypeOK
  OBVIOUS
<1>3. call \in [Callers -> Request \cup {Idle}] /\ active \in [Ids -> Entry]
  BY <1>1 DEF Init
<1>4. /\ DOMAIN pending \subseteq Nat
      /\ pending \in [DOMAIN pending -> Correlation]
  BY DEF Init
<1>5. cmds \in Seq(Command) /\ toServer \in Seq(Request) /\ fromServer \in Seq(Answers)
  BY DEF Init
<1>6. /\ io = "top" /\ closer = "idle"
      /\ shutdown \in BOOLEAN /\ authenticated \in BOOLEAN /\ stopSent \in BOOLEAN
  BY DEF Init
<1>7. /\ nextGen \in Nat \ {0} /\ nextReq \in Nat /\ calls \in Nat /\ faults \in Nat
      /\ todo = {} /\ serverSubs = {}
  BY DEF Init
<1>8. QED BY <1>3, <1>4, <1>5, <1>6, <1>7 DEF TypeOK

LEMMA StutterType ==
  ASSUME TypeOK, UNCHANGED vars
  PROVE  TypeOK'
BY DEF TypeOK, vars, flags, tracked, socket, threads

LEMMA NextType ==
  ASSUME TypeOK, [Next]_vars
  PROVE  TypeOK'
BY CallerType, CloserType, SessionType, RedialType, ServerType, StutterType DEF Next

\* Every variable keeps its type, whatever the threads and the server do; in
\* particular a tracked row never survives its last reference.
THEOREM TypeCorrect == SafetySpec => []TypeOK
<1>1. Init => TypeOK
  BY InitType
<1>2. TypeOK /\ [Next]_vars => TypeOK'
  BY NextType
<1>3. QED BY <1>1, <1>2, PTL DEF SafetySpec

------------------------------------------------------------------------------
(* The accounting of references and correlations.  Books is inductive relative *)
(* to TypeOK; only the steps that touch the tracked set, the registry or the   *)
(* replay list need more than the first lemma below.                           *)

\* Sweeping a finite registry leaves it finite and owes nobody more answers.
LEMMA WithoutCount ==
  ASSUME NEW f, IsFiniteSet(DOMAIN f), NEW S, NEW j
  PROVE  /\ IsFiniteSet(DOMAIN Without(f, S))
         /\ IsFiniteSet(For(f, j))
         /\ For(Without(f, S), j) \subseteq For(f, j)
         /\ Cardinality(For(Without(f, S), j)) <= Cardinality(For(f, j))
<1>1. DOMAIN Without(f, S) \subseteq DOMAIN f /\ For(f, j) \subseteq DOMAIN f
  BY DEF Without, For
<1>2. For(Without(f, S), j) \subseteq For(f, j)
  BY DEF Without, For
<1>3. IsFiniteSet(DOMAIN Without(f, S)) /\ IsFiniteSet(For(f, j))
  BY <1>1, FS_Subset
<1>4. QED BY <1>2, <1>3, FS_Subset

\* Removing one correlation owes its identity exactly one answer less.
LEMMA WithoutOneCount ==
  ASSUME NEW f, IsFiniteSet(DOMAIN f), NEW r \in DOMAIN f
  PROVE  Cardinality(For(Without(f, {r}), f[r].sub)) = Cardinality(For(f, f[r].sub)) - 1
<1>1. For(Without(f, {r}), f[r].sub) = For(f, f[r].sub) \ {r}
  BY DEF Without, For
<1>2. r \in For(f, f[r].sub)
  BY DEF For
<1>3. IsFiniteSet(For(f, f[r].sub))
  BY WithoutCount
<1>4. QED BY <1>1, <1>2, <1>3, FS_RemoveElement

\* Recording a correlation owes one identity at most one answer more, and no
\* other identity any.
LEMMA CorrelateCount ==
  ASSUME NEW f, IsFiniteSet(DOMAIN f), NEW r, NEW i, NEW g, NEW j
  PROVE  /\ IsFiniteSet(DOMAIN Correlate(f, r, i, g))
         /\ Cardinality(For(Correlate(f, r, i, g), j))
              <= IF j = i THEN Cardinality(For(f, j)) + 1 ELSE Cardinality(For(f, j))
<1> DEFINE h == Correlate(f, r, i, g)
<1>1. DOMAIN h = DOMAIN f \cup {r}
  BY DEF Correlate
<1>2. IsFiniteSet(DOMAIN h)
  BY <1>1, FS_AddElement
<1>3. IsFiniteSet(For(f, j))
  BY WithoutCount
<1>4. Cardinality(For(f, j)) \in Nat
  BY <1>3, FS_CardinalityType
<1>5. CASE j = i
  <2>1. For(h, j) \subseteq For(f, j) \cup {r}
    BY DEF Correlate, For
  <2>2. /\ IsFiniteSet(For(f, j) \cup {r})
        /\ Cardinality(For(f, j) \cup {r}) <= Cardinality(For(f, j)) + 1
    BY <1>3, <1>4, FS_AddElement
  <2>3. /\ Cardinality(For(h, j)) <= Cardinality(For(f, j) \cup {r})
        /\ Cardinality(For(h, j)) \in Nat
        /\ Cardinality(For(f, j) \cup {r}) \in Nat
    BY <2>1, <2>2, FS_Subset, FS_CardinalityType
  <2>4. QED BY <1>2, <1>4, <1>5, <2>2, <2>3
<1>6. CASE j # i
  <2>1. For(h, j) \subseteq For(f, j)
    BY <1>6 DEF Correlate, For
  <2>2. QED BY <1>2, <1>3, <1>6, <2>1, FS_Subset
<1>7. QED BY <1>5, <1>6

\* A step that leaves the tracked set, the registry and the replay list alone.
LEMMA BooksUntouched ==
  ASSUME Books,
         UNCHANGED <<active, nextGen, pending, todo, closer>>,
         shutdown => shutdown',
         TodoInReplay'
  PROVE  Books'
BY DEF Books, GensBelow, TodoInReplay, CloserRaisedFlag, RefsCoverPending,
       PendingNamesLiveInstance, ReplayOwed, PendingFor, SameInstance

\* The answers owed to an identity are a natural number.
LEMMA OwedNat ==
  ASSUME Books, NEW i
  PROVE  IsFiniteSet(PendingFor(i)) /\ Cardinality(PendingFor(i)) \in Nat
BY WithoutCount, FS_CardinalityType DEF Books, PendingFor

\* The typing facts every counting argument uses.
Typed == /\ \A j \in Ids : /\ active[j].refs \in Nat
                           /\ active[j].gen \in Nat
                           /\ active[j].refs = 0 <=> active[j].gen = 0
         /\ nextGen \in Nat \ {0}
         /\ \A e \in todo : e.sub \in Ids /\ e.gen \in Nat
         /\ \A r \in DOMAIN pending : pending[r].sub \in Ids /\ pending[r].inst \in Nat

LEMMA AccountTypes == TypeOK => Typed
<1> SUFFICES ASSUME TypeOK PROVE Typed
  OBVIOUS
<1>1. active \in [Ids -> Entry]
  BY DEF TypeOK
<1>2. \A j \in Ids : /\ active[j].refs \in Nat
                     /\ active[j].gen \in Nat
                     /\ active[j].refs = 0 <=> active[j].gen = 0
  BY <1>1 DEF Entry
<1>3. nextGen \in Nat \ {0} /\ todo \subseteq [sub : Ids, gen : Nat]
  BY DEF TypeOK
<1>4. pending \in [DOMAIN pending -> Correlation]
  BY DEF TypeOK
<1>5. \A r \in DOMAIN pending : pending[r].sub \in Ids /\ pending[r].inst \in Nat
  BY <1>4 DEF Correlation
<1>6. QED BY <1>2, <1>3, <1>5 DEF Typed

\* What inc_active does to the entries.
LEMMA IncActiveEffect ==
  ASSUME TypeOK, NEW i \in Ids, IncActive(i)
  PROVE  /\ \A j \in Ids \ {i} : active'[j] = active[j]
         /\ active'[i].refs = active[i].refs + 1
         /\ active'[i].gen = IF active[i].refs > 0 THEN active[i].gen ELSE nextGen
         /\ nextGen' = IF active[i].refs > 0 THEN nextGen ELSE nextGen + 1
<1>1. active \in [Ids -> Entry]
  BY DEF TypeOK
<1>2. active[i] \in [refs : Nat, gen : Nat]
  BY <1>1 DEF Entry
<1>3. CASE active[i].refs > 0
  <2>1. active' = [active EXCEPT ![i] = [active[i] EXCEPT !.refs = active[i].refs + 1]] /\ nextGen' = nextGen
    BY <1>3 DEF IncActive
  <2>2. active'[i] = [active[i] EXCEPT !.refs = active[i].refs + 1]
    BY <1>1, <2>1
  <2>3. \A j \in Ids \ {i} : active'[j] = active[j]
    BY <1>1, <2>1
  <2>4. QED BY <1>2, <1>3, <2>1, <2>2, <2>3
<1>4. CASE ~(active[i].refs > 0)
  <2>1. active' = [active EXCEPT ![i] = [refs |-> 1, gen |-> nextGen]] /\ nextGen' = nextGen + 1
    BY <1>4 DEF IncActive
  <2>2. active'[i] = [refs |-> 1, gen |-> nextGen] /\ active[i].refs = 0
    BY <1>1, <1>2, <1>4, <2>1
  <2>3. \A j \in Ids \ {i} : active'[j] = active[j]
    BY <1>1, <2>1
  <2>4. QED BY <1>4, <2>1, <2>2, <2>3
<1>5. QED BY <1>3, <1>4

LEMMA SubscribeBooks ==
  ASSUME Accounting, NEW c \in Callers, TrackInflightSubscribe(c)
  PROVE  Books'
<1> DEFINE i == call[c].sub
           r == call[c].req
<1>1. TypeOK /\ Books
  BY DEF Accounting
<1>0. Typed
  BY <1>1, AccountTypes
<1>2. i \in Ids
  BY <1>1 DEF TrackInflightSubscribe, TypeOK, Idle, Request
<1>3. PICK stale \in SUBSET Abandoned :
        \/ /\ IncActive(i)
           /\ pending' = Correlate(Without(pending, stale), r, i, active'[i].gen)
        \/ /\ RollBack(i)
           /\ pending' = Without(pending, stale)
  BY DEF TrackInflightSubscribe
<1> DEFINE f == Without(pending, stale)
<1>4. UNCHANGED <<io, todo, closer, shutdown>>
  BY DEF TrackInflightSubscribe, flags
<1>5. /\ IsFiniteSet(DOMAIN f)
      /\ \A j : Cardinality(For(f, j)) \in Nat /\ Cardinality(For(f, j)) <= Cardinality(PendingFor(j))
  <2>1. IsFiniteSet(DOMAIN pending)
    BY <1>1 DEF Books
  <2>2. QED BY <2>1, WithoutCount, FS_CardinalityType DEF PendingFor
<1>6. \A q \in DOMAIN f : q \in DOMAIN pending /\ f[q] = pending[q]
  BY DEF Without
<1>7. \A j : Cardinality(PendingFor(j)) \in Nat
  BY <1>1, OwedNat
<1>8. CASE /\ IncActive(i)
           /\ pending' = Correlate(f, r, i, active'[i].gen)
  <2>1. /\ \A j \in Ids \ {i} : active'[j] = active[j]
        /\ active'[i].refs = active[i].refs + 1
        /\ active'[i].gen = IF active[i].refs > 0 THEN active[i].gen ELSE nextGen
        /\ nextGen' = IF active[i].refs > 0 THEN nextGen ELSE nextGen + 1
    BY <1>1, <1>2, <1>8, IncActiveEffect
  <2>2. IsFiniteSet(DOMAIN pending')
    BY <1>5, <1>8, CorrelateCount
  <2>3. \A j : /\ Cardinality(PendingFor(j)') \in Nat
              /\ Cardinality(PendingFor(j)') <= IF j = i THEN Cardinality(PendingFor(j)) + 1
                                                        ELSE Cardinality(PendingFor(j))
    <3> TAKE j
    <3>1. /\ Cardinality(For(pending', j)) <= IF j = i THEN Cardinality(For(f, j)) + 1
                                                       ELSE Cardinality(For(f, j))
          /\ Cardinality(For(pending', j)) \in Nat
      BY <1>5, <1>8, <2>2, CorrelateCount, WithoutCount, FS_CardinalityType
    <3>2. QED BY <3>1, <1>5, <1>7 DEF PendingFor
  <2>4. GensBelow'
    BY <1>1, <1>2, <1>4, <2>1, <1>0 DEF Typed, Books, GensBelow
  <2>5. TodoInReplay' /\ CloserRaisedFlag'
    BY <1>1, <1>4 DEF Books, TodoInReplay, CloserRaisedFlag
  <2>6. RefsCoverPending'
    BY <1>1, <1>2, <1>4, <1>7, <2>1, <2>3, <1>0 DEF Typed, Books, RefsCoverPending
  <2>7. PendingNamesLiveInstance'
    <3> SUFFICES ASSUME ~shutdown, NEW q \in DOMAIN pending'
                 PROVE  /\ active'[pending'[q].sub].refs > 0
                        /\ active'[pending'[q].sub].gen = pending'[q].inst
      BY <1>4 DEF PendingNamesLiveInstance
    <3>1. CASE q = r
      <4>1. pending'[q].sub = i /\ pending'[q].inst = active'[i].gen
        BY <1>8, <3>1 DEF Correlate
      <4>2. QED BY <1>1, <1>2, <2>1, <4>1, <1>0 DEF Typed
    <3>2. CASE q # r
      <4>1. q \in DOMAIN pending /\ pending'[q] = pending[q]
        BY <1>6, <1>8, <3>2 DEF Correlate
      <4>2. /\ pending[q].sub \in Ids
            /\ active[pending[q].sub].refs > 0
            /\ active[pending[q].sub].gen = pending[q].inst
        BY <1>1, <4>1, <1>0 DEF Typed, Books, PendingNamesLiveInstance
      <4>3. QED BY <1>1, <1>2, <2>1, <4>1, <4>2, <1>0 DEF Typed
    <3>3. QED BY <3>1, <3>2
  <2>8. ReplayOwed'
    <3> SUFFICES ASSUME ~shutdown, NEW e \in todo, SameInstance(e)'
                 PROVE  Cardinality(PendingFor(e.sub)') < active'[e.sub].refs
      BY <1>4 DEF ReplayOwed
    <3>1. e.sub \in Ids /\ e.gen \in Nat /\ e.gen < nextGen
      BY <1>1, <1>0 DEF Typed, Books, GensBelow
    <3>2. active'[e.sub].refs > 0 /\ active'[e.sub].gen = e.gen
      BY DEF SameInstance
    <3>3. active[e.sub].refs > 0 /\ active[e.sub].gen = e.gen
      BY <1>1, <2>1, <3>1, <3>2, <1>0 DEF Typed
    <3>4. Cardinality(PendingFor(e.sub)) < active[e.sub].refs
      BY <1>1, <3>3 DEF Books, ReplayOwed, SameInstance
    <3>5. QED BY <1>1, <1>7, <2>1, <2>3, <3>1, <3>4, <1>0 DEF Typed
  <2>9. QED BY <2>2, <2>4, <2>5, <2>6, <2>7, <2>8 DEF Books
<1>9. CASE RollBack(i) /\ pending' = f
  <2>1. active' = active /\ nextGen' \in Nat /\ nextGen' >= nextGen
    BY <1>1, <1>9, <1>0 DEF Typed, RollBack
  <2>2. \A j : /\ Cardinality(PendingFor(j)') \in Nat
              /\ Cardinality(PendingFor(j)') <= Cardinality(PendingFor(j))
    BY <1>5, <1>9 DEF PendingFor
  <2>3. GensBelow' /\ TodoInReplay' /\ CloserRaisedFlag'
    BY <1>1, <1>4, <2>1, <1>0 DEF Typed, Books, GensBelow, TodoInReplay, CloserRaisedFlag
  <2>4. RefsCoverPending'
    BY <1>1, <1>4, <1>7, <2>1, <2>2, <1>0 DEF Typed, Books, RefsCoverPending
  <2>5. PendingNamesLiveInstance'
    BY <1>1, <1>4, <1>6, <1>9, <2>1 DEF Books, PendingNamesLiveInstance
  <2>6. ReplayOwed'
    <3> SUFFICES ASSUME ~shutdown, NEW e \in todo, SameInstance(e)'
                 PROVE  Cardinality(PendingFor(e.sub)') < active'[e.sub].refs
      BY <1>4 DEF ReplayOwed
    <3>1. SameInstance(e)
      BY <2>1 DEF SameInstance
    <3>2. Cardinality(PendingFor(e.sub)) < active[e.sub].refs
      BY <1>1, <3>1 DEF Books, ReplayOwed
    <3>3. QED BY <1>1, <1>7, <2>1, <2>2, <3>2, <1>0 DEF Typed
  <2>7. QED BY <1>5, <1>9, <2>3, <2>4, <2>5, <2>6 DEF Books
<1>10. QED BY <1>3, <1>8, <1>9

LEMMA UnsubscribeBooks ==
  ASSUME Accounting, NEW c \in Callers, SendThenUntrack(c)
  PROVE  Books'
<1>1. TypeOK /\ Books
  BY DEF Accounting
<1>0. Typed
  BY <1>1, AccountTypes
<1>2. PICK i \in Ids : i = call[c].sub
  BY <1>1 DEF SendThenUntrack, TypeOK, Idle, Request
<1>3. UNCHANGED <<io, todo, closer, shutdown, nextGen>>
  BY DEF SendThenUntrack, flags
<1>4. CASE ~CanSend
  <2>1. UNCHANGED <<active, pending>>
    BY <1>4 DEF SendThenUntrack
  <2>2. TodoInReplay'
    BY <1>1, <1>3 DEF Books, TodoInReplay
  <2>3. QED BY <1>1, <1>3, <2>1, <2>2, BooksUntouched
<1>5. CASE CanSend
  <2>1. /\ active' = [active EXCEPT ![i] = NoEntry]
        /\ pending' = Without(pending, PendingFor(i))
    BY <1>2, <1>5 DEF SendThenUntrack, EvictPendingForIdentity
  <2>2. /\ \A j \in Ids \ {i} : active'[j] = active[j]
        /\ active'[i].refs = 0 /\ active'[i].gen = 0
    BY <1>1, <1>2, <2>1 DEF TypeOK, NoEntry
  <2>3. IsFiniteSet(DOMAIN pending')
    BY <1>1, <2>1, WithoutCount DEF Books
  <2>4. \A q \in DOMAIN pending' : /\ q \in DOMAIN pending
                                   /\ pending'[q] = pending[q]
                                   /\ pending[q].sub # i
    BY <2>1 DEF Without, PendingFor, For
  <2>5. \A j : /\ Cardinality(PendingFor(j)') \in Nat
              /\ Cardinality(PendingFor(j)) \in Nat
              /\ Cardinality(PendingFor(j)') <= Cardinality(PendingFor(j))
    <3>1. IsFiniteSet(DOMAIN pending)
      BY <1>1 DEF Books
    <3>2. QED BY <2>1, <3>1, WithoutCount, FS_CardinalityType DEF PendingFor
  <2>6. Cardinality(PendingFor(i)') = 0
    <3>1. PendingFor(i)' = {}
      BY <2>4 DEF PendingFor, For
    <3>2. QED BY <3>1, FS_EmptySet
  <2>7. GensBelow' /\ TodoInReplay' /\ CloserRaisedFlag'
    BY <1>1, <1>0, <1>2, <1>3, <2>2 DEF Typed, Books, GensBelow, TodoInReplay, CloserRaisedFlag
  <2>8. RefsCoverPending'
    BY <1>1, <1>0, <1>2, <1>3, <2>2, <2>5, <2>6 DEF Typed, Books, RefsCoverPending
  <2>9. PendingNamesLiveInstance'
    <3> SUFFICES ASSUME ~shutdown, NEW q \in DOMAIN pending'
                 PROVE  /\ active'[pending'[q].sub].refs > 0
                        /\ active'[pending'[q].sub].gen = pending'[q].inst
      BY <1>3 DEF PendingNamesLiveInstance
    <3>1. /\ pending[q].sub \in Ids \ {i}
          /\ active[pending[q].sub].refs > 0
          /\ active[pending[q].sub].gen = pending[q].inst
      BY <1>1, <1>0, <2>4 DEF Typed, Books, PendingNamesLiveInstance
    <3>2. QED BY <2>2, <2>4, <3>1
  <2>10. ReplayOwed'
    <3> SUFFICES ASSUME ~shutdown, NEW e \in todo, SameInstance(e)'
                 PROVE  Cardinality(PendingFor(e.sub)') < active'[e.sub].refs
      BY <1>3 DEF ReplayOwed
    <3>1. e.sub \in Ids \ {i} /\ active'[e.sub] = active[e.sub]
      BY <1>0, <2>2 DEF Typed, SameInstance
    <3>2. SameInstance(e)
      BY <3>1 DEF SameInstance
    <3>3. Cardinality(PendingFor(e.sub)) < active[e.sub].refs
      BY <1>1, <3>2 DEF Books, ReplayOwed
    <3>4. QED BY <1>0, <2>5, <3>1, <3>3 DEF Typed
  <2>11. QED BY <2>3, <2>7, <2>8, <2>9, <2>10 DEF Books
<1>6. QED BY <1>4, <1>5

\* shutdown() only touches the tracked set after it raised the flag.
LEMMA CloserBooks ==
  ASSUME Accounting, CloserStep
  PROVE  Books'
<1>1. TypeOK /\ Books
  BY DEF Accounting
<1>0. Typed
  BY <1>1, AccountTypes
<1>2. shutdown' = TRUE
  BY <1>1 DEF Books, CloserRaisedFlag, CloserStep, CloseFlag, CloseSend, CloseClear, CloseAuth, flags
<1>3. UNCHANGED <<io, nextGen, pending, todo>>
  BY DEF CloserStep, CloseFlag, CloseSend, CloseClear, CloseAuth, tracked
<1>4. \A i \in Ids : active'[i] = active[i] \/ active'[i] = NoEntry
  BY DEF CloserStep, CloseFlag, CloseSend, CloseClear, CloseAuth, Clear, tracked
<1>5. GensBelow'
  BY <1>0, <1>1, <1>3, <1>4 DEF Typed, Books, GensBelow, NoEntry
<1>6. QED
  BY <1>1, <1>2, <1>3, <1>5 DEF Books, TodoInReplay, CloserRaisedFlag, RefsCoverPending,
     PendingNamesLiveInstance, ReplayOwed

\* An answer consumes its correlation and, if it is a rejection, the reference
\* that correlation stands for; nothing is being replayed meanwhile.
LEMMA ReadResponseBooks ==
  ASSUME Accounting, IoReadResponse
  PROVE  Books'
<1>1. TypeOK /\ Books
  BY DEF Accounting
<1>0. Typed
  BY <1>1, AccountTypes
<1>2. UNCHANGED <<nextGen, todo, closer, shutdown>> /\ io = "read"
  BY DEF IoReadResponse, flags, threads
<1>3. todo = {}
  BY <1>1, <1>2 DEF Books, TodoInReplay
<1>4. GensBelow' /\ TodoInReplay' /\ CloserRaisedFlag' /\ ReplayOwed'
  <2>1. \A j \in Ids : active'[j].gen \in {active[j].gen, 0}
    <3>1. active' = active \/ \E k \in Ids : active' = DecActive(k)
      BY <1>0 DEF IoReadResponse, Typed
    <3>2. \A k, j \in Ids : DecActive(k)[j].gen \in {active[j].gen, 0}
      <4>1. active \in [Ids -> Entry]
        BY <1>1 DEF TypeOK
      <4>2. QED BY <4>1 DEF DecActive, NoEntry
    <3>3. QED BY <3>1, <3>2
  <2>2. QED
    BY <1>0, <1>1, <1>2, <1>3, <2>1 DEF Typed, Books, GensBelow, TodoInReplay, CloserRaisedFlag, ReplayOwed
<1>5. PICK r : r = Head(fromServer).req
  OBVIOUS
<1>6. CASE r \notin DOMAIN pending
  <2>1. UNCHANGED <<active, pending>>
    BY <1>6, <1>5 DEF IoReadResponse
  <2>2. QED BY <1>1, <1>2, <1>4, <2>1, BooksUntouched
<1>7. CASE r \in DOMAIN pending
  <2>6. PICK i \in Ids : i = pending[r].sub
    BY <1>0, <1>7 DEF Typed
  <2>1. pending' = Without(pending, {r})
    BY <1>7, <1>5 DEF IoReadResponse
  <2>2. IsFiniteSet(DOMAIN pending) /\ IsFiniteSet(DOMAIN pending')
    BY <1>1, <2>1, WithoutCount DEF Books
  <2>3. \A j : /\ Cardinality(PendingFor(j)') \in Nat
              /\ Cardinality(PendingFor(j)) \in Nat
              /\ Cardinality(PendingFor(j)') <= Cardinality(PendingFor(j))
    BY <2>1, <2>2, WithoutCount, FS_CardinalityType DEF PendingFor
  <2>4. Cardinality(PendingFor(i)') = Cardinality(PendingFor(i)) - 1
    BY <1>7, <2>1, <2>2, <2>6, WithoutOneCount DEF PendingFor
  <2>5. \A q \in DOMAIN pending' : q \in DOMAIN pending /\ pending'[q] = pending[q]
    BY <2>1 DEF Without
  <2>7. CASE active' = active
    <3>1. RefsCoverPending'
      BY <1>0, <1>1, <1>2, <2>3, <2>7 DEF Typed, Books, RefsCoverPending
    <3>2. PendingNamesLiveInstance'
      BY <1>1, <1>2, <2>5, <2>7 DEF Books, PendingNamesLiveInstance
    <3>3. QED BY <1>4, <2>2, <3>1, <3>2 DEF Books
  <2>8. CASE active' = DecActive(i)
    <3>1. /\ \A j \in Ids \ {i} : active'[j] = active[j]
          /\ active'[i] = IF active[i].refs > 1
                         THEN [refs |-> active[i].refs - 1, gen |-> active[i].gen]
                         ELSE NoEntry
      BY <1>1, <2>6, <2>8 DEF DecActive, TypeOK
    <3>2. ~shutdown => Cardinality(PendingFor(i)) <= active[i].refs
      BY <1>1, <2>6 DEF Books, RefsCoverPending
    <3>3. RefsCoverPending'
      BY <1>0, <1>1, <1>2, <2>3, <2>4, <2>6, <3>1, <3>2 DEF Typed, Books, RefsCoverPending, NoEntry
    <3>4. PendingNamesLiveInstance'
      <4> SUFFICES ASSUME ~shutdown, NEW q \in DOMAIN pending'
                   PROVE  /\ active'[pending'[q].sub].refs > 0
                          /\ active'[pending'[q].sub].gen = pending'[q].inst
        BY <1>2 DEF PendingNamesLiveInstance
      <4>1. /\ pending[q].sub \in Ids
            /\ active[pending[q].sub].refs > 0
            /\ active[pending[q].sub].gen = pending[q].inst
        BY <1>0, <1>1, <2>5 DEF Typed, Books, PendingNamesLiveInstance
      <4>2. CASE pending[q].sub = i
        <5>1. q \in PendingFor(i)'
          BY <2>5, <4>2 DEF PendingFor, For
        <5>2. IsFiniteSet(PendingFor(i)')
          BY <2>2, WithoutCount DEF PendingFor
        <5>3. Cardinality(PendingFor(i)') # 0
          BY <5>1, <5>2, FS_EmptySet
        <5>4. active[i].refs > 1
          BY <1>0, <2>3, <2>4, <2>6, <3>2, <5>3 DEF Typed
        <5>5. QED BY <1>0, <2>5, <2>6, <3>1, <4>1, <4>2, <5>4 DEF Typed
      <4>3. CASE pending[q].sub # i
        BY <2>5, <3>1, <4>1, <4>3
      <4>4. QED BY <4>2, <4>3
    <3>5. QED BY <1>4, <2>2, <3>3, <3>4 DEF Books
  <2>9. QED BY <1>7, <1>5, <2>6, <2>7, <2>8 DEF IoReadResponse
<1>8. QED BY <1>6, <1>7

LEMMA SnapshotBooks ==
  ASSUME Accounting, IoSnapshot
  PROVE  Books'
<1>1. TypeOK /\ Books
  BY DEF Accounting
<1>0. Typed
  BY <1>1, AccountTypes
<1>2. /\ active' = [i \in Ids |-> IF active[i].refs > 0 THEN Collapse(active[i]) ELSE NoEntry]
      /\ todo' = {[sub |-> i, gen |-> active[i].gen] : i \in Tracked}
      /\ pending' = <<>>
      /\ io' \in {"exited", "replay"}
      /\ UNCHANGED <<nextGen, closer>>
      /\ shutdown => shutdown'
  BY DEF IoSnapshot, DrainStale, threads
<1>3. \A i \in Ids : /\ active'[i].refs = IF active[i].refs > 0 THEN 1 ELSE 0
                     /\ active'[i].gen = active[i].gen
  <2>1. \A i \in Ids : active[i] \in [refs : Nat, gen : Nat]
    BY <1>1 DEF TypeOK, Entry
  <2>2. QED BY <1>0, <1>2, <2>1 DEF Collapse, NoEntry, Typed
<1>4. \A j : Cardinality(PendingFor(j)') = 0 /\ IsFiniteSet(DOMAIN pending')
  <2>1. DOMAIN pending' = {}
    BY <1>2
  <2>2. \A j : PendingFor(j)' = {}
    BY <2>1 DEF PendingFor, For
  <2>3. QED BY <2>1, <2>2, FS_EmptySet
<1>5. IsFiniteSet(DOMAIN pending')
  BY <1>4
<1>6. GensBelow'
  <2>1. \A e \in todo' : \E i \in Ids : e.gen = active[i].gen
    BY <1>2 DEF Tracked
  <2>2. QED BY <1>0, <1>1, <1>2, <1>3, <2>1 DEF Typed, Books, GensBelow
<1>7. TodoInReplay' /\ CloserRaisedFlag'
  BY <1>1, <1>2 DEF Books, TodoInReplay, CloserRaisedFlag
<1>8. RefsCoverPending' /\ PendingNamesLiveInstance'
  BY <1>2, <1>3, <1>4 DEF RefsCoverPending, PendingNamesLiveInstance
<1>9. ReplayOwed'
  <2> SUFFICES ASSUME NEW e \in todo', SameInstance(e)'
               PROVE  Cardinality(PendingFor(e.sub)') < active'[e.sub].refs
    BY DEF ReplayOwed
  <2>1. PICK i \in Tracked : e = [sub |-> i, gen |-> active[i].gen]
    BY <1>2
  <2>2. i \in Ids /\ e.sub = i /\ active[i].refs > 0
    BY <2>1 DEF Tracked
  <2>3. QED BY <1>3, <1>4, <2>2
<1>10. QED BY <1>5, <1>6, <1>7, <1>8, <1>9 DEF Books

\* A re-subscribe is owed an answer only for the instance of the snapshot, whose
\* one uncovered reference it uses up.
LEMMA ReplayBooks ==
  ASSUME Accounting, IoReplay
  PROVE  Books'
<1>1. TypeOK /\ Books
  BY DEF Accounting
<1>0. Typed
  BY <1>1, AccountTypes
<1>2. PICK e \in todo, outcome \in {"written", "write_failed", "flush_failed"} :
        /\ pending' = IF outcome # "write_failed" /\ SameInstance(e)
                      THEN Correlate(pending, nextReq, e.sub, e.gen)
                      ELSE pending
        /\ IF outcome = "written"
           THEN todo' = todo \ {e} /\ io' = IF shutdown THEN "exited" ELSE "replay"
           ELSE todo' = {} /\ io' = "decide"
  BY DEF IoReplay
<1>3. UNCHANGED <<active, nextGen, closer, shutdown>>
  BY DEF IoReplay, flags, threads
<1>4. todo' \subseteq todo \ {e} /\ TodoInReplay'
  BY <1>2 DEF TodoInReplay
<1>5. GensBelow' /\ CloserRaisedFlag'
  BY <1>1, <1>3, <1>4 DEF Books, GensBelow, CloserRaisedFlag
<1>6. CASE pending' = pending
  <2>1. RefsCoverPending' /\ PendingNamesLiveInstance' /\ ReplayOwed'
    BY <1>1, <1>3, <1>4, <1>6 DEF Books, RefsCoverPending, PendingNamesLiveInstance, ReplayOwed,
       PendingFor, SameInstance
  <2>2. QED BY <1>1, <1>4, <1>5, <1>6, <2>1 DEF Books
<1>7. CASE SameInstance(e) /\ pending' = Correlate(pending, nextReq, e.sub, e.gen)
  <2>1. PICK i, g, r : i \in Ids /\ g \in Nat /\ i = e.sub /\ g = e.gen /\ r = nextReq
    BY <1>0 DEF Typed
  <2>2. pending' = Correlate(pending, r, i, g)
    BY <1>7, <2>1
  <2>3. IsFiniteSet(DOMAIN pending) /\ IsFiniteSet(DOMAIN pending')
    BY <1>1, <2>2, CorrelateCount DEF Books
  <2>4. \A j : /\ Cardinality(PendingFor(j)') \in Nat
              /\ Cardinality(PendingFor(j)) \in Nat
              /\ Cardinality(PendingFor(j)') <= IF j = i THEN Cardinality(PendingFor(j)) + 1
                                                        ELSE Cardinality(PendingFor(j))
    BY <2>2, <2>3, CorrelateCount, WithoutCount, FS_CardinalityType DEF PendingFor
  <2>5. /\ active[i].refs > 0 /\ active[i].gen = g
        /\ ~shutdown => Cardinality(PendingFor(i)) < active[i].refs
    BY <1>1, <1>7, <2>1 DEF Books, ReplayOwed, SameInstance
  <2>6. RefsCoverPending'
    BY <1>0, <1>1, <1>3, <2>4, <2>5 DEF Typed, Books, RefsCoverPending
  <2>7. PendingNamesLiveInstance'
    <3> SUFFICES ASSUME ~shutdown, NEW q \in DOMAIN pending'
                 PROVE  /\ active[pending'[q].sub].refs > 0
                        /\ active[pending'[q].sub].gen = pending'[q].inst
      BY <1>3 DEF PendingNamesLiveInstance
    <3>1. CASE q = r
      BY <2>2, <2>5, <3>1 DEF Correlate
    <3>2. CASE q # r
      <4>1. q \in DOMAIN pending /\ pending'[q] = pending[q]
        BY <2>2, <3>2 DEF Correlate
      <4>2. QED BY <1>1, <4>1 DEF Books, PendingNamesLiveInstance
    <3>3. QED BY <3>1, <3>2
  <2>8. ReplayOwed'
    <3> SUFFICES ASSUME ~shutdown, NEW x \in todo', SameInstance(x)'
                 PROVE  Cardinality(PendingFor(x.sub)') < active[x.sub].refs
      BY <1>3 DEF ReplayOwed
    <3>1. x \in todo /\ x # e /\ SameInstance(x)
      BY <1>3, <1>4 DEF SameInstance
    <3>2. x.sub # i
      <4>1. x \in [sub : Ids, gen : Nat] /\ e \in [sub : Ids, gen : Nat]
        BY <1>1, <3>1 DEF TypeOK
      <4>2. QED BY <2>1, <2>5, <3>1, <4>1 DEF SameInstance
    <3>3. Cardinality(PendingFor(x.sub)) < active[x.sub].refs
      BY <1>1, <3>1 DEF Books, ReplayOwed
    <3>4. QED BY <1>0, <2>4, <3>1, <3>2, <3>3 DEF Typed
  <2>9. QED BY <1>4, <1>5, <2>3, <2>6, <2>7, <2>8 DEF Books
<1>8. QED BY <1>2, <1>6, <1>7

\* Every other step leaves the books alone.
LEMMA OtherBooks ==
  ASSUME Accounting,
         \/ \E c \in Callers : CallStart(c)
         \/ IoTop \/ IoReadOther \/ IoReadMetadata \/ IoReadLost \/ IoReadPermanent \/ IoDrain
         \/ IoDecide \/ IoCooldown \/ IoDial \/ IoReplayDone \/ IoQueued \/ IoAnnounce
         \/ ServerReceive
         \/ UNCHANGED vars
  PROVE  Books'
<1> USE DEF vars, flags, tracked, threads
<1>1. TypeOK /\ Books
  BY DEF Accounting
<1>2. UNCHANGED <<active, nextGen, pending, todo, closer>>
  BY DEF CallStart, IoTop, IoReadOther, IoReadMetadata, IoReadLost, IoReadPermanent, IoDrain,
     IoDecide, IoCooldown, IoDial, IoReplayDone, IoQueued, IoAnnounce, ServerReceive
<1>3. shutdown => shutdown'
  BY DEF CallStart, IoTop, IoReadOther, IoReadMetadata, IoReadLost, IoReadPermanent, IoDrain,
     IoDecide, IoCooldown, IoDial, IoReplayDone, IoQueued, IoAnnounce, ServerReceive, WriteStop,
     DrainStale
<1>4. TodoInReplay'
  <2>1. io \notin {"replay", "exited"} => todo = {}
    BY <1>1 DEF Books, TodoInReplay
  <2>2. \/ io \notin {"replay", "exited"}
        \/ io' = io
        \/ todo = {}
    BY DEF CallStart, IoTop, IoReadOther, IoReadMetadata, IoReadLost, IoReadPermanent, IoDrain,
       IoDecide, IoCooldown, IoDial, IoReplayDone, IoQueued, IoAnnounce, ServerReceive
  <2>3. QED BY <1>1, <1>2, <2>1, <2>2 DEF Books, TodoInReplay
<1>5. QED BY <1>1, <1>2, <1>3, <1>4, BooksUntouched

LEMMA InitBooks == Init => Books
<1> SUFFICES ASSUME Init PROVE Books
  OBVIOUS
<1>1. DOMAIN pending = {} /\ todo = {} /\ closer = "idle" /\ nextGen = 1
  BY DEF Init
<1>2. \A j : PendingFor(j) = {}
  BY <1>1 DEF PendingFor, For
<1>3. IsFiniteSet(DOMAIN pending) /\ \A j : Cardinality(PendingFor(j)) = 0
  BY <1>1, <1>2, FS_EmptySet
<1>4. \A i \in Ids : active[i].refs = 0 /\ active[i].gen = 0
  BY DEF Init, NoEntry
<1>5. QED
  BY <1>1, <1>3, <1>4 DEF Books, GensBelow, TodoInReplay, CloserRaisedFlag, RefsCoverPending,
     PendingNamesLiveInstance, ReplayOwed

LEMMA NextBooks ==
  ASSUME Accounting, [Next]_vars
  PROVE  Accounting'
<1>1. TypeOK'
  BY NextType DEF Accounting
<1>2. Books'
  <2>1. CASE \E c \in Callers : CallerStep(c)
    BY <2>1, SubscribeBooks, UnsubscribeBooks, OtherBooks DEF CallerStep
  <2>2. CASE CloserStep
    BY <2>2, CloserBooks
  <2>3. CASE SessionStep
    BY <2>3, ReadResponseBooks, OtherBooks DEF SessionStep
  <2>4. CASE RedialStep
    BY <2>4, SnapshotBooks, ReplayBooks, OtherBooks DEF RedialStep
  <2>5. CASE ServerReceive \/ UNCHANGED vars
    BY <2>5, OtherBooks
  <2>6. QED BY <2>1, <2>2, <2>3, <2>4, <2>5 DEF Next
<1>3. QED BY <1>1, <1>2 DEF Accounting

\* The inductive invariant holds in every reachable state.
THEOREM AccountingInvariant == SafetySpec => []Accounting
<1>1. Init => Accounting
  BY InitType, InitBooks DEF Accounting
<1>2. Accounting /\ [Next]_vars => Accounting'
  BY NextBooks
<1>3. QED BY <1>1, <1>2, PTL DEF SafetySpec

\* A resident correlation names the tracked instance it was recorded for, so a
\* rejection never drops a subscription made after the one it answers.
THEOREM CorrelationsNameLiveInstances == SafetySpec => []PendingNamesLiveInstance
<1>1. Accounting => PendingNamesLiveInstance
  BY DEF Accounting, Books
<1>2. QED BY <1>1, AccountingInvariant, PTL

\* An identity holds at least as many references as it is owed answers.
THEOREM ReferencesCoverAnswers == SafetySpec => []RefsCoverPending
<1>1. Accounting => RefsCoverPending
  BY DEF Accounting, Books
<1>2. QED BY <1>1, AccountingInvariant, PTL

------------------------------------------------------------------------------
(* When a session may look live.  The flag is inductive by itself.             *)

LEMMA LiveStep ==
  ASSUME NotLiveBeforeReplay, [Next]_vars
  PROVE  NotLiveBeforeReplay'
<1> USE DEF NotLiveBeforeReplay, flags
<1>1. CASE \E c \in Callers : CallerStep(c)
  BY <1>1 DEF CallerStep, CallStart, TrackInflightSubscribe, SendThenUntrack
<1>2. CASE CloserStep
  BY <1>2 DEF CloserStep, CloseFlag, CloseSend, CloseClear, CloseAuth
<1>3. CASE SessionStep
  <2>1. CASE IoTop
    BY <2>1 DEF IoTop
  <2>2. CASE IoReadResponse
    BY <2>2 DEF IoReadResponse
  <2>3. CASE IoReadOther
    BY <2>3 DEF IoReadOther
  <2>4. CASE IoReadMetadata
    BY <2>4 DEF IoReadMetadata
  <2>5. CASE IoReadLost
    BY <2>5 DEF IoReadLost
  <2>6. CASE IoReadPermanent
    BY <2>6 DEF IoReadPermanent
  <2>7. CASE IoDrain
    BY <2>7 DEF IoDrain
  <2>8. QED BY <1>3, <2>1, <2>2, <2>3, <2>4, <2>5, <2>6, <2>7 DEF SessionStep
<1>4. CASE RedialStep
  <2>1. CASE IoDecide
    BY <2>1 DEF IoDecide
  <2>2. CASE IoCooldown
    BY <2>2 DEF IoCooldown
  <2>3. CASE IoDial
    BY <2>3 DEF IoDial
  <2>4. CASE IoSnapshot
    BY <2>4 DEF IoSnapshot
  <2>5. CASE IoReplay
    BY <2>5 DEF IoReplay
  <2>6. CASE IoReplayDone
    BY <2>6 DEF IoReplayDone
  <2>7. CASE IoQueued
    BY <2>7 DEF IoQueued
  <2>8. CASE IoAnnounce
    BY <2>8 DEF IoAnnounce
  <2>9. QED BY <1>4, <2>1, <2>2, <2>3, <2>4, <2>5, <2>6, <2>7, <2>8 DEF RedialStep
<1>5. CASE ServerReceive \/ UNCHANGED vars
  BY <1>5 DEF ServerReceive, vars
<1>6. QED BY <1>1, <1>2, <1>3, <1>4, <1>5 DEF Next

\* Callers see a live session only on a socket whose replay, and the commands
\* queued meanwhile, are written: never while the thread redials or replays.
THEOREM LiveAfterReplay == SafetySpec => []NotLiveBeforeReplay
<1>1. Init => NotLiveBeforeReplay
  BY DEF Init, NotLiveBeforeReplay
<1>2. QED BY <1>1, LiveStep, PTL DEF SafetySpec

------------------------------------------------------------------------------
(* Request ids are fresh: nextReq is above every id in use, so a correlation   *)
(* recorded for a new id overwrites none.  The counter of the model does not   *)
(* wrap; the code's wraps after 2^31 ids.                                      *)

Fresh == /\ \A r \in DOMAIN pending : r < nextReq
         /\ \A c \in Callers : call[c].op # "idle" => call[c].req < nextReq

LEMMA FreshStep ==
  ASSUME TypeOK, Fresh, [Next]_vars
  PROVE  Fresh'
<1>1. /\ nextReq \in Nat
      /\ DOMAIN pending \subseteq Nat
      /\ call \in [Callers -> Request \cup {Idle}]
  BY DEF TypeOK
<1>2. \A c \in Callers : call[c].op # "idle" => call[c].req \in Nat
  BY <1>1 DEF Request, Idle
<1>3. CASE \E c \in Callers : CallStart(c)
  <2>1. PICK c \in Callers : CallStart(c)
    BY <1>3
  <2>2. pending' = pending /\ nextReq' = nextReq + 1
    BY <2>1 DEF CallStart, tracked
  <2>3. /\ \A d \in Callers \ {c} : call'[d] = call[d]
        /\ call'[c].req = nextReq
    BY <1>1, <2>1 DEF CallStart
  <2>4. QED BY <1>1, <1>2, <2>2, <2>3 DEF Fresh
<1>4. CASE \E c \in Callers : TrackInflightSubscribe(c)
  <2>1. PICK c \in Callers : TrackInflightSubscribe(c)
    BY <1>4
  <2>2. nextReq' = nextReq /\ call' = [call EXCEPT ![c] = Idle] /\ call[c].op = "sub"
    BY <2>1 DEF TrackInflightSubscribe
  <2>3. DOMAIN pending' \subseteq DOMAIN pending \cup {call[c].req}
    BY <2>1 DEF TrackInflightSubscribe, Correlate, Without
  <2>4. \A d \in Callers : call'[d] = call[d] \/ call'[d].op = "idle"
    BY <1>1, <2>2 DEF Idle
  <2>5. QED BY <1>1, <1>2, <2>2, <2>3, <2>4 DEF Fresh
<1>5. CASE \E c \in Callers : SendThenUntrack(c)
  <2>1. PICK c \in Callers : SendThenUntrack(c)
    BY <1>5
  <2>2. nextReq' = nextReq /\ call' = [call EXCEPT ![c] = Idle]
    BY <2>1 DEF SendThenUntrack
  <2>3. DOMAIN pending' \subseteq DOMAIN pending
    BY <2>1 DEF SendThenUntrack, EvictPendingForIdentity, Without
  <2>4. \A d \in Callers : call'[d] = call[d] \/ call'[d].op = "idle"
    BY <1>1, <2>2 DEF Idle
  <2>5. QED BY <1>1, <1>2, <2>2, <2>3, <2>4 DEF Fresh
<1>6. CASE IoReplay
  <2>1. nextReq' = nextReq + 1 /\ call' = call
    BY <1>6 DEF IoReplay, threads
  <2>2. DOMAIN pending' \subseteq DOMAIN pending \cup {nextReq}
    BY <1>6 DEF IoReplay, Correlate
  <2>3. QED BY <1>1, <1>2, <2>1, <2>2 DEF Fresh
<1>7. CASE IoReadResponse \/ IoSnapshot
  <2>1. nextReq' = nextReq /\ call' = call
    BY <1>7 DEF IoReadResponse, IoSnapshot, threads
  <2>2. DOMAIN pending' \subseteq DOMAIN pending
    BY <1>7 DEF IoReadResponse, IoSnapshot, Without
  <2>3. QED BY <1>1, <1>2, <2>1, <2>2 DEF Fresh
<1>8. CASE UNCHANGED <<pending, nextReq, call>>
  BY <1>8 DEF Fresh
<1>9. QED
  BY <1>3, <1>4, <1>5, <1>6, <1>7, <1>8 DEF Next, CallerStep, CloserStep, SessionStep, RedialStep,
     CloseFlag, CloseSend, CloseClear, CloseAuth, IoTop, IoReadOther, IoReadMetadata, IoReadLost,
     IoReadPermanent, IoDrain, IoDecide, IoCooldown, IoDial, IoReplayDone, IoQueued, IoAnnounce,
     ServerReceive, vars, tracked, threads

LEMMA FreshIds == SafetySpec => []Fresh
<1>1. Init => Fresh
  BY DEF Init, Fresh, Idle
<1>2. TypeOK /\ Fresh /\ [Next]_vars => Fresh'
  BY FreshStep
<1>3. QED BY <1>1, <1>2, TypeCorrect, PTL DEF SafetySpec

------------------------------------------------------------------------------
(* The tracked set implements the ledger.  What a step does to an account is   *)
(* shown identity by identity; the lemmas of this part turn that into an       *)
(* operation of SubscriptionLedger.                                            *)

Held == [i \in Ids |-> IF shutdown THEN 0 ELSE active[i].refs]
Owed == [i \in Ids |-> IF shutdown THEN 0 ELSE Cardinality(PendingFor(i))]

\* A raised flag closes the ledger, and stays raised.
LEMMA FlagStays ==
  ASSUME [Next]_vars, shutdown
  PROVE  shutdown'
<1>1. CASE \E c \in Callers : CallerStep(c)
  BY <1>1 DEF CallerStep, CallStart, TrackInflightSubscribe, SendThenUntrack, flags
<1>2. CASE CloserStep
  BY <1>2 DEF CloserStep, CloseFlag, CloseSend, CloseClear, CloseAuth, flags
<1>3. CASE SessionStep
  BY <1>3 DEF SessionStep, IoTop, IoReadResponse, IoReadOther, IoReadMetadata, IoReadLost,
     IoReadPermanent, IoDrain, WriteStop, flags
<1>4. CASE RedialStep
  BY <1>4 DEF RedialStep, IoDecide, IoCooldown, IoDial, IoSnapshot, IoReplay, IoReplayDone,
     IoQueued, IoAnnounce, WriteStop, DrainStale, flags
<1>5. CASE ServerReceive \/ UNCHANGED vars
  BY <1>5 DEF ServerReceive, vars, flags
<1>6. QED BY <1>1, <1>2, <1>3, <1>4, <1>5 DEF Next

LEMMA CloseIsLedgerStep ==
  ASSUME shutdown' = TRUE
  PROVE  Ledger!Next
<1>1. Held' = [i \in Ids |-> 0] /\ Owed' = [i \in Ids |-> 0]
  BY DEF Held, Owed
<1>2. QED BY <1>1 DEF Ledger!Next, Held, Owed

\* What an open ledger holds.
LEMMA OpenAccounts ==
  ASSUME ~shutdown
  PROVE  /\ Held = [i \in Ids |-> active[i].refs]
         /\ Owed = [i \in Ids |-> Cardinality(PendingFor(i))]
BY DEF Held, Owed

LEMMA OpenAccountsNext ==
  ASSUME ~shutdown'
  PROVE  /\ Held' = [i \in Ids |-> active'[i].refs]
         /\ Owed' = [i \in Ids |-> Cardinality(PendingFor(i)')]
BY DEF Held, Owed

LEMMA UntouchedIsStutter ==
  ASSUME UNCHANGED <<active, pending, shutdown>>
  PROVE  UNCHANGED Ledger!ledger
<1>1. Held' = Held /\ Owed' = Owed
  BY DEF Held, Owed, PendingFor
<1>2. QED BY <1>1 DEF Ledger!ledger, Held, Owed

LEMMA SubscribeIsLedgerStep ==
  ASSUME Accounting, NEW c \in Callers, TrackInflightSubscribe(c), ~shutdown, ~shutdown'
  PROVE  Ledger!Next
<1>1. TypeOK /\ Books
  BY DEF Accounting
<1>2. PICK i, r : i \in Ids /\ i = call[c].sub /\ r = call[c].req
  BY <1>1 DEF TrackInflightSubscribe, TypeOK, Idle, Request
<1>3. PICK stale \in SUBSET Abandoned :
        \/ /\ IncActive(i)
           /\ pending' = Correlate(Without(pending, stale), r, i, active'[i].gen)
        \/ /\ active' = active
           /\ pending' = Without(pending, stale)
  BY <1>2 DEF TrackInflightSubscribe, RollBack
<1> DEFINE f == Without(pending, stale)
<1>4. shutdown' = shutdown
  BY DEF TrackInflightSubscribe, flags
<1>5. /\ IsFiniteSet(DOMAIN f)
      /\ \A j : /\ Cardinality(For(f, j)) \in Nat
                /\ Cardinality(PendingFor(j)) \in Nat
                /\ Cardinality(For(f, j)) <= Cardinality(PendingFor(j))
  <2>1. IsFiniteSet(DOMAIN pending)
    BY <1>1 DEF Books
  <2>2. QED BY <2>1, WithoutCount, FS_CardinalityType DEF PendingFor
<1>6. CASE IncActive(i) /\ pending' = Correlate(f, r, i, active'[i].gen)
  <2>1. /\ \A j \in Ids \ {i} : active'[j] = active[j]
        /\ active'[i].refs = active[i].refs + 1
    BY <1>1, <1>2, <1>6, IncActiveEffect
  <2>2. IsFiniteSet(DOMAIN pending')
    BY <1>5, <1>6, CorrelateCount
  <2>3. \A j : /\ Cardinality(PendingFor(j)') \in Nat
              /\ Cardinality(PendingFor(j)') <= IF j = i THEN Cardinality(PendingFor(j)) + 1
                                                        ELSE Cardinality(PendingFor(j))
    <3> TAKE j
    <3>1. /\ Cardinality(For(pending', j)) <= IF j = i THEN Cardinality(For(f, j)) + 1
                                                       ELSE Cardinality(For(f, j))
          /\ Cardinality(For(pending', j)) \in Nat
      BY <1>5, <1>6, <2>2, CorrelateCount, WithoutCount, FS_CardinalityType
    <3>2. QED BY <3>1, <1>5 DEF PendingFor
  <2>4. Cardinality(PendingFor(i)') # 0
    <3>1. r \in PendingFor(i)'
      BY <1>6 DEF PendingFor, For, Correlate
    <3>2. IsFiniteSet(PendingFor(i)')
      BY <2>2, WithoutCount DEF PendingFor
    <3>3. QED BY <3>1, <3>2, FS_EmptySet
  <2>5. Held' = [Held EXCEPT ![i] = @ + 1]
    BY <1>2, <2>1, OpenAccounts, OpenAccountsNext
  <2>6. Owed'[i] \in 1..(Owed[i] + 1) /\ \A j \in Ids \ {i} : Owed'[j] \in 0..Owed[j]
    BY <1>2, <1>5, <2>3, <2>4, OpenAccounts, OpenAccountsNext
  <2>7. Ledger!Subscribe(i)
    BY <2>5, <2>6 DEF Ledger!Subscribe, Held, Owed
  <2>8. Ledger!Operate
    BY <1>2, <2>7 DEF Ledger!Operate
  <2>9. QED BY <1>4, <2>8 DEF Ledger!Next
<1>7. CASE active' = active /\ pending' = f
  <2>1. \A j : Cardinality(PendingFor(j)') \in 0..Cardinality(PendingFor(j))
    BY <1>5, <1>7 DEF PendingFor
  <2>2. Held' = Held /\ \A j \in Ids : Owed'[j] \in 0..Owed[j]
    BY <1>7, <2>1, OpenAccounts, OpenAccountsNext
  <2>3. Ledger!WriteOff
    BY <2>2 DEF Ledger!WriteOff, Held, Owed
  <2>4. QED BY <1>4, <2>3 DEF Ledger!Next, Ledger!Operate
<1>8. QED BY <1>3, <1>6, <1>7

LEMMA UnsubscribeIsLedgerStep ==
  ASSUME Accounting, NEW c \in Callers, SendThenUntrack(c), ~shutdown, ~shutdown'
  PROVE  [Ledger!Next]_(Ledger!ledger)
<1>1. TypeOK /\ Books
  BY DEF Accounting
<1>2. PICK i \in Ids : i = call[c].sub
  BY <1>1 DEF SendThenUntrack, TypeOK, Idle, Request
<1>3. shutdown' = shutdown
  BY DEF SendThenUntrack, flags
<1>4. CASE ~CanSend
  <2>1. UNCHANGED <<active, pending>>
    BY <1>4 DEF SendThenUntrack
  <2>2. QED BY <1>3, <2>1, UntouchedIsStutter
<1>5. CASE CanSend
  <2>1. /\ active' = [active EXCEPT ![i] = NoEntry]
        /\ pending' = Without(pending, PendingFor(i))
    BY <1>2, <1>5 DEF SendThenUntrack, EvictPendingForIdentity
  <2>2. /\ \A j \in Ids \ {i} : active'[j] = active[j]
        /\ active'[i].refs = 0
    BY <1>1, <2>1 DEF TypeOK, NoEntry
  <2>3. \A j \in Ids \ {i} : PendingFor(j)' = PendingFor(j)
    BY <2>1 DEF PendingFor, For, Without
  <2>4. Cardinality(PendingFor(i)') = 0
    <3>1. PendingFor(i)' = {}
      BY <2>1 DEF PendingFor, For, Without
    <3>2. QED BY <3>1, FS_EmptySet
  <2>5. Held' = [Held EXCEPT ![i] = 0]
    BY <2>2, OpenAccounts, OpenAccountsNext
  <2>6. Owed' = [Owed EXCEPT ![i] = 0]
    BY <2>3, <2>4, OpenAccounts, OpenAccountsNext
  <2>7. Ledger!Unsubscribe(i)
    BY <2>5, <2>6 DEF Ledger!Unsubscribe, Held, Owed
  <2>8. Ledger!Operate
    BY <2>7 DEF Ledger!Operate
  <2>9. QED BY <1>3, <2>8 DEF Ledger!Next
<1>6. QED BY <1>4, <1>5

\* An answer settles one of the answers owed, and a rejection takes back a
\* reference that is held.
LEMMA AnswerIsLedgerStep ==
  ASSUME Accounting, IoReadResponse, ~shutdown, ~shutdown'
  PROVE  [Ledger!Next]_(Ledger!ledger)
<1>1. TypeOK /\ Books
  BY DEF Accounting
<1>0. Typed
  BY <1>1, AccountTypes
<1>2. shutdown' = shutdown
  BY DEF IoReadResponse, flags
<1>3. PICK r : r = Head(fromServer).req
  OBVIOUS
<1>4. CASE r \notin DOMAIN pending
  <2>1. UNCHANGED <<active, pending>>
    BY <1>3, <1>4 DEF IoReadResponse
  <2>2. QED BY <1>2, <2>1, UntouchedIsStutter
<1>5. CASE r \in DOMAIN pending
  <2>1. PICK i \in Ids : i = pending[r].sub
    BY <1>0, <1>5 DEF Typed
  <2>2. /\ pending' = Without(pending, {r})
        /\ active' = active \/ active' = DecActive(i)
    BY <1>3, <1>5, <2>1 DEF IoReadResponse
  <2>3. IsFiniteSet(DOMAIN pending)
    BY <1>1 DEF Books
  <2>4. Cardinality(PendingFor(i)') = Cardinality(PendingFor(i)) - 1
    BY <1>5, <2>1, <2>2, <2>3, WithoutOneCount DEF PendingFor
  <2>5. \A j \in Ids \ {i} : PendingFor(j)' = PendingFor(j)
    BY <2>1, <2>2 DEF PendingFor, For, Without
  <2>6. Cardinality(PendingFor(i)) \in Nat /\ Cardinality(PendingFor(i)) > 0
    <3>1. r \in PendingFor(i)
      BY <1>5, <2>1 DEF PendingFor, For
    <3>2. IsFiniteSet(PendingFor(i)) /\ Cardinality(PendingFor(i)) \in Nat
      BY <1>1, OwedNat
    <3>3. Cardinality(PendingFor(i)) # 0
      BY <3>1, <3>2, FS_EmptySet
    <3>4. QED BY <3>2, <3>3
  <2>7. Owed[i] > 0 /\ Owed' = [Owed EXCEPT ![i] = @ - 1]
    BY <2>4, <2>5, <2>6, OpenAccounts, OpenAccountsNext
  <2>8. CASE active' = active
    <3>1. Held' = Held
      BY <2>8, OpenAccounts, OpenAccountsNext
    <3>2. Ledger!Accepted(i)
      BY <2>7, <3>1 DEF Ledger!Accepted, Held, Owed
    <3>3. Ledger!Operate
      BY <3>2 DEF Ledger!Operate
    <3>4. QED BY <1>2, <3>3 DEF Ledger!Next
  <2>9. CASE active' = DecActive(i)
    <3>1. /\ \A j \in Ids \ {i} : active'[j] = active[j]
          /\ active'[i] = IF active[i].refs > 1
                         THEN [refs |-> active[i].refs - 1, gen |-> active[i].gen]
                         ELSE NoEntry
      BY <1>1, <2>9 DEF DecActive, TypeOK
    <3>2. active[i].refs \in Nat /\ active[i].refs > 0
      BY <1>0, <1>1, <2>6 DEF Typed, Books, RefsCoverPending
    <3>3. active'[i].refs = active[i].refs - 1
      BY <3>1, <3>2 DEF NoEntry
    <3>4. Held' = [Held EXCEPT ![i] = @ - 1]
      BY <3>1, <3>3, OpenAccounts, OpenAccountsNext
    <3>5. Ledger!Rejected(i)
      BY <2>7, <3>4 DEF Ledger!Rejected, Held, Owed
    <3>6. Ledger!Operate
      BY <3>5 DEF Ledger!Operate
    <3>7. QED BY <1>2, <3>6 DEF Ledger!Next
  <2>10. QED BY <2>2, <2>8, <2>9
<1>6. QED BY <1>4, <1>5

LEMMA SnapshotIsLedgerStep ==
  ASSUME Accounting, IoSnapshot, ~shutdown, ~shutdown'
  PROVE  Ledger!Next
<1>1. Typed
  BY AccountTypes DEF Accounting
<1>2. /\ active' = [i \in Ids |-> IF active[i].refs > 0 THEN Collapse(active[i]) ELSE NoEntry]
      /\ pending' = <<>>
  BY DEF IoSnapshot
<1>3. \A i \in Ids : active'[i].refs = IF active[i].refs > 0 THEN 1 ELSE 0
  <2>1. \A i \in Ids : active[i] \in [refs : Nat, gen : Nat]
    BY DEF Accounting, TypeOK, Entry
  <2>2. QED BY <1>2, <2>1 DEF Collapse, NoEntry
<1>4. \A i \in Ids : Cardinality(PendingFor(i)') = 0
  <2>1. \A i \in Ids : PendingFor(i)' = {}
    BY <1>2 DEF PendingFor, For
  <2>2. QED BY <2>1, FS_EmptySet
<1>5. /\ Held' = [i \in Ids |-> IF Held[i] > 0 THEN 1 ELSE 0]
      /\ Owed' = [i \in Ids |-> 0]
  BY <1>3, <1>4, OpenAccounts, OpenAccountsNext
<1>6. Ledger!NewSession
  BY <1>5 DEF Ledger!NewSession, Held, Owed
<1>7. shutdown' = shutdown
  BY DEF IoSnapshot, DrainStale
<1>8. QED BY <1>6, <1>7 DEF Ledger!Next, Ledger!Operate

\* The replay asks again for a reference nothing is owed for: the id it asks
\* under is fresh, so the answers owed grow by exactly one.
LEMMA ReplayIsLedgerStep ==
  ASSUME Accounting, Fresh, IoReplay, ~shutdown, ~shutdown'
  PROVE  [Ledger!Next]_(Ledger!ledger)
<1>1. TypeOK /\ Books
  BY DEF Accounting
<1>0. Typed
  BY <1>1, AccountTypes
<1>2. PICK e \in todo :
        \/ pending' = pending
        \/ SameInstance(e) /\ pending' = Correlate(pending, nextReq, e.sub, e.gen)
  BY DEF IoReplay
<1>3. UNCHANGED <<active, shutdown>>
  BY DEF IoReplay, flags
<1>4. CASE pending' = pending
  BY <1>3, <1>4, UntouchedIsStutter
<1>5. CASE SameInstance(e) /\ pending' = Correlate(pending, nextReq, e.sub, e.gen)
  <2>1. PICK i, r : i \in Ids /\ i = e.sub /\ r = nextReq
    BY <1>0 DEF Typed
  <2>2. pending' = Correlate(pending, r, i, e.gen)
    BY <1>5, <2>1
  <2>3. r \notin DOMAIN pending
    BY <1>1, <2>1 DEF Fresh, TypeOK
  <2>4. PendingFor(i)' = PendingFor(i) \cup {r} /\ r \notin PendingFor(i)
    BY <2>2, <2>3 DEF PendingFor, For, Correlate
  <2>5. \A j \in Ids \ {i} : PendingFor(j)' = PendingFor(j)
    BY <2>2, <2>3 DEF PendingFor, For, Correlate
  <2>6. IsFiniteSet(PendingFor(i)) /\ Cardinality(PendingFor(i)) \in Nat
    BY <1>1, OwedNat
  <2>7. Cardinality(PendingFor(i)') = Cardinality(PendingFor(i)) + 1
    BY <2>4, <2>6, FS_AddElement
  <2>8. Cardinality(PendingFor(i)) < active[i].refs
    BY <1>1, <1>5, <2>1 DEF Books, ReplayOwed
  <2>9. Held' = Held /\ Owed[i] < Held[i] /\ Owed' = [Owed EXCEPT ![i] = @ + 1]
    BY <1>3, <2>1, <2>5, <2>7, <2>8, OpenAccounts, OpenAccountsNext
  <2>10. Ledger!Resubscribe(i)
    BY <2>9 DEF Ledger!Resubscribe, Held, Owed
  <2>11. Ledger!Operate
    BY <2>1, <2>10 DEF Ledger!Operate
  <2>12. QED BY <1>3, <2>11 DEF Ledger!Next
<1>6. QED BY <1>2, <1>4, <1>5

LEMMA LedgerStep ==
  ASSUME Accounting, Fresh, [Next]_vars
  PROVE  [Ledger!Next]_(Ledger!ledger)
<1>1. shutdown \in BOOLEAN /\ shutdown' \in BOOLEAN
  <2>1. TypeOK /\ TypeOK'
    BY NextType DEF Accounting
  <2>2. QED BY <2>1 DEF TypeOK
<1>2. CASE shutdown'
  BY <1>1, <1>2, CloseIsLedgerStep
<1>3. CASE ~shutdown'
  <2>1. ~shutdown /\ shutdown' = shutdown
    BY <1>1, <1>3, FlagStays
  <2>2. CASE \E c \in Callers : TrackInflightSubscribe(c)
    BY <1>3, <2>1, <2>2, SubscribeIsLedgerStep
  <2>3. CASE \E c \in Callers : SendThenUntrack(c)
    BY <1>3, <2>1, <2>3, UnsubscribeIsLedgerStep
  <2>4. CASE IoReadResponse
    BY <1>3, <2>1, <2>4, AnswerIsLedgerStep
  <2>5. CASE IoSnapshot
    BY <1>3, <2>1, <2>5, SnapshotIsLedgerStep
  <2>6. CASE IoReplay
    BY <1>3, <2>1, <2>6, ReplayIsLedgerStep
  <2>7. CASE CloserStep
    <3>1. Books
      BY DEF Accounting
    <3>2. CASE closer = "idle"
      BY <1>3, <2>7, <3>2 DEF CloserStep, CloseFlag, CloseSend, CloseClear, CloseAuth
    <3>3. CASE closer # "idle"
      BY <2>1, <3>1, <3>3 DEF Books, CloserRaisedFlag
    <3>4. QED BY <3>2, <3>3
  <2>8. CASE UNCHANGED <<active, pending>>
    BY <2>1, <2>8, UntouchedIsStutter
  <2>9. QED
    BY <2>2, <2>3, <2>4, <2>5, <2>6, <2>7, <2>8 DEF Next, CallerStep, SessionStep, RedialStep,
       CallStart, IoTop, IoReadOther, IoReadMetadata, IoReadLost, IoReadPermanent, IoDrain,
       IoDecide, IoCooldown, IoDial, IoReplayDone, IoQueued, IoAnnounce, ServerReceive,
       vars, tracked
<1>4. QED BY <1>2, <1>3

LEMMA LedgerInit == Init => Ledger!Init
<1> SUFFICES ASSUME Init PROVE Ledger!Init
  OBVIOUS
<1>1. ~shutdown /\ shutdown = FALSE /\ \A i \in Ids : active[i].refs = 0
  BY DEF Init, NoEntry
<1>2. \A i \in Ids : Cardinality(PendingFor(i)) = 0
  <2>1. \A i \in Ids : PendingFor(i) = {}
    BY DEF Init, PendingFor, For
  <2>2. QED BY <2>1, FS_EmptySet
<1>3. Held = [i \in Ids |-> 0] /\ Owed = [i \in Ids |-> 0]
  BY <1>1, <1>2 DEF Held, Owed
<1>4. QED BY <1>1, <1>3 DEF Ledger!Init, Held, Owed

\* The tracked set, its correlations and its critical sections implement the
\* ledger: whatever the threads, the reconnects and the server do, a rejection
\* takes back only a reference that is held, an unsubscribe settles the account,
\* and a new session starts with one reference per identity and nothing owed.
THEOREM TrackingImplementsLedger == SafetySpec => ImplementsLedger
<1>1. Init => Ledger!Init
  BY LedgerInit
<1>2. Accounting /\ Fresh /\ [Next]_vars => [Ledger!Next]_(Ledger!ledger)
  BY LedgerStep
<1>3. QED
  BY <1>1, <1>2, FreshIds, AccountingInvariant, PTL DEF SafetySpec, ImplementsLedger, Ledger!Spec

------------------------------------------------------------------------------
(* What is on its way to the server.  First the queues: commands that carry a  *)
(* request id, and what each way of moving a queue does to them.               *)

\* Commands of q that carry a request id carry different ones.
Frame(q, k) == q[k].op # "shutdown"
Distinct(q) ==
    \A k, m \in DOMAIN q : Frame(q, k) /\ Frame(q, m) /\ q[k].req = q[m].req => k = m

\* Every subscribe frame of q is correlated by f, or withdrawn by a later unsubscribe.
Withdrawn(q, k) == \E m \in k+1..Len(q) : q[m].op = "unsub" /\ q[m].sub = q[k].sub
Correlated(q, f) ==
    \A k \in DOMAIN q : q[k].op = "sub" => q[k].req \in DOMAIN f \/ Withdrawn(q, k)

\* A correlation of a subscribe frame of q names the identity the frame does.
Named(q, f) ==
    \A k \in DOMAIN q : q[k].op = "sub" /\ q[k].req \in DOMAIN f => f[q[k].req].sub = q[k].sub

LEMMA AppendDistinct ==
  ASSUME NEW T, NEW q \in Seq(T), NEW x \in T, Distinct(q),
         x.op # "shutdown" => x.req \notin Carried(q)
  PROVE  /\ Distinct(Append(q, x))
         /\ Carried(Append(q, x)) \subseteq Carried(q) \cup {x.req}
<1> DEFINE h == Append(q, x)
<1>1. /\ DOMAIN q = 1..Len(q) /\ Len(q) \in Nat
      /\ DOMAIN h = 1..(Len(q) + 1)
      /\ \A k \in 1..Len(q) : h[k] = q[k]
      /\ h[Len(q) + 1] = x
  BY AppendProperties, LenProperties
<1>2. \A k \in DOMAIN h : (k \in DOMAIN q /\ h[k] = q[k]) \/ (k = Len(q) + 1 /\ h[k] = x)
  BY <1>1
<1>3. \A k \in DOMAIN q : Frame(q, k) => q[k].req \in Carried(q)
  BY DEF Carried, Frame
<1> HIDE DEF h
<1>4. Distinct(h)
  BY <1>2, <1>3 DEF Distinct, Frame
<1>5. Carried(h) \subseteq Carried(q) \cup {x.req}
  BY <1>2, <1>3 DEF Carried, Frame
<1>6. QED BY <1>4, <1>5 DEF h

LEMMA TailDistinct ==
  ASSUME NEW T, NEW q \in Seq(T), q # <<>>, Distinct(q)
  PROVE  /\ Distinct(Tail(q))
         /\ Carried(Tail(q)) \subseteq Carried(q)
         /\ Head(q).op # "shutdown" => /\ Head(q).req \in Carried(q)
                                       /\ Head(q).req \notin Carried(Tail(q))
<1> DEFINE h == Tail(q)
<1>1. /\ Len(q) \in Nat \ {0} /\ DOMAIN q = 1..Len(q)
      /\ DOMAIN h = 1..(Len(q) - 1)
      /\ \A k \in 1..(Len(q) - 1) : h[k] = q[k + 1]
  BY HeadTailProperties, LenProperties, EmptySeq
<1>2. Head(q) = q[1]
  BY <1>1
<1>3. \A k \in DOMAIN h : k \in Nat /\ k >= 1 /\ k + 1 \in DOMAIN q /\ h[k] = q[k + 1]
  BY <1>1
<1>4. 1 \in DOMAIN q
  BY <1>1
<1> HIDE DEF h
<1>5. Distinct(h)
  <2> SUFFICES ASSUME NEW k \in DOMAIN h, NEW m \in DOMAIN h, Frame(h, k), Frame(h, m),
                      h[k].req = h[m].req
               PROVE  k = m
    BY DEF Distinct
  <2>1. k + 1 = m + 1
    BY <1>3 DEF Distinct, Frame
  <2>2. QED BY <1>3, <2>1
<1>6. Carried(h) \subseteq Carried(q)
  <2> SUFFICES ASSUME NEW k \in DOMAIN h, h[k].op # "shutdown" PROVE h[k].req \in Carried(q)
    BY DEF Carried
  <2>1. QED BY <1>3 DEF Carried
<1>7. ASSUME Head(q).op # "shutdown"
      PROVE  Head(q).req \in Carried(q) /\ Head(q).req \notin Carried(h)
  <2>1. Head(q).req \in Carried(q)
    BY <1>2, <1>4, <1>7 DEF Carried
  <2>2. ASSUME NEW k \in DOMAIN h, h[k].op # "shutdown", h[k].req = Head(q).req PROVE FALSE
    <3>1. k + 1 = 1
      BY <1>2, <1>3, <1>4, <1>7, <2>2 DEF Distinct, Frame
    <3>2. QED BY <1>3, <3>1
  <2>3. QED BY <2>1, <2>2 DEF Carried
<1>8. QED BY <1>5, <1>6, <1>7 DEF h

LEMMA AppendCorrelated ==
  ASSUME NEW q \in Seq(Command), NEW x \in Command, NEW f, NEW g,
         Correlated(q, f),
         \A k \in DOMAIN q : q[k].op = "sub" /\ q[k].req \in DOMAIN f =>
            q[k].req \in DOMAIN g \/ (x.op = "unsub" /\ x.sub = q[k].sub),
         x.op = "sub" => x.req \in DOMAIN g
  PROVE  Correlated(Append(q, x), g)
<1> DEFINE h == Append(q, x)
<1>1. /\ DOMAIN q = 1..Len(q) /\ Len(q) \in Nat
      /\ DOMAIN h = 1..(Len(q) + 1) /\ Len(h) = Len(q) + 1
      /\ \A k \in 1..Len(q) : h[k] = q[k]
      /\ h[Len(q) + 1] = x
  BY AppendProperties, LenProperties
<1> HIDE DEF h
<1>2. ASSUME NEW k \in DOMAIN h, h[k].op = "sub" PROVE h[k].req \in DOMAIN g \/ Withdrawn(h, k)
  <2>1. CASE k = Len(q) + 1
    BY <1>1, <1>2, <2>1
  <2>2. CASE k # Len(q) + 1
    <3>1. k \in DOMAIN q /\ h[k] = q[k]
      BY <1>1, <2>2
    <3>2. CASE Withdrawn(q, k)
      <4>1. PICK m \in k+1..Len(q) : q[m].op = "unsub" /\ q[m].sub = q[k].sub
        BY <3>2 DEF Withdrawn
      <4>2. m \in k+1..Len(h) /\ h[m] = q[m]
        BY <1>1, <3>1
      <4>3. QED BY <3>1, <4>1, <4>2 DEF Withdrawn
    <3>3. CASE q[k].req \in DOMAIN g
      BY <3>1, <3>3
    <3>4. CASE x.op = "unsub" /\ x.sub = q[k].sub
      <4>1. Len(q) + 1 \in k+1..Len(h)
        BY <1>1, <3>1
      <4>2. QED BY <1>1, <3>1, <3>4, <4>1 DEF Withdrawn
    <3>5. QED BY <1>2, <3>1, <3>2, <3>3, <3>4 DEF Correlated
  <2>3. QED BY <2>1, <2>2
<1>3. QED BY <1>2 DEF Correlated, h

LEMMA TailCorrelated ==
  ASSUME NEW q \in Seq(Command), q # <<>>, NEW f, Correlated(q, f), Named(q, f)
  PROVE  Correlated(Tail(q), f) /\ Named(Tail(q), f)
<1> DEFINE h == Tail(q)
<1>1. /\ Len(q) \in Nat \ {0} /\ DOMAIN q = 1..Len(q)
      /\ DOMAIN h = 1..(Len(q) - 1) /\ Len(h) = Len(q) - 1
      /\ \A k \in 1..(Len(q) - 1) : h[k] = q[k + 1]
  BY HeadTailProperties, LenProperties, EmptySeq
<1>2. \A k \in DOMAIN h : k \in Nat /\ k + 1 \in DOMAIN q /\ h[k] = q[k + 1]
  BY <1>1
<1> HIDE DEF h
<1>3. ASSUME NEW k \in DOMAIN h, h[k].op = "sub" PROVE h[k].req \in DOMAIN f \/ Withdrawn(h, k)
  <2>1. q[k + 1].req \in DOMAIN f \/ Withdrawn(q, k + 1)
    BY <1>2, <1>3 DEF Correlated
  <2>2. CASE Withdrawn(q, k + 1)
    <3>1. PICK m \in (k+1)+1..Len(q) : q[m].op = "unsub" /\ q[m].sub = q[k + 1].sub
      BY <2>2 DEF Withdrawn
    <3>2. m - 1 \in k+1..Len(h) /\ h[m - 1] = q[m]
      BY <1>1, <1>2
    <3>3. QED BY <1>2, <3>1, <3>2 DEF Withdrawn
  <2>3. QED BY <1>2, <2>1, <2>2
<1>4. Named(h, f)
  BY <1>2 DEF Named
<1>5. QED BY <1>3, <1>4 DEF Correlated, h

\* A frame put between s and t, as the replay writes before what is queued.
LEMMA InsertWire ==
  ASSUME NEW s \in Seq(Command), NEW t \in Seq(Command), NEW x \in Command, x.op = "sub",
         Distinct(s \o t), x.req \notin Carried(s \o t),
         NEW f, NEW g, Correlated(s \o t, f), Named(s \o t, f),
         DOMAIN f \subseteq DOMAIN g,
         \A r \in DOMAIN f : r # x.req => g[r] = f[r],
         x.req \in DOMAIN g => g[x.req].sub = x.sub,
         \A r \in DOMAIN g : r \in DOMAIN f \/ r = x.req,
         x.req \in DOMAIN g \/ \E m \in DOMAIN t : t[m].op = "unsub" /\ t[m].sub = x.sub
  PROVE  /\ Distinct(Append(s, x) \o t)
         /\ Carried(Append(s, x) \o t) \subseteq Carried(s \o t) \cup {x.req}
         /\ Correlated(Append(s, x) \o t, g)
         /\ Named(Append(s, x) \o t, g)
<1> DEFINE q == s \o t
           h == Append(s, x) \o t
           old(k) == IF k <= Len(s) THEN k ELSE k - 1
           new(k) == IF k <= Len(s) THEN k ELSE k + 1
<1>1. /\ Len(s) \in Nat /\ Len(t) \in Nat /\ DOMAIN t = 1..Len(t)
      /\ DOMAIN q = 1..(Len(s) + Len(t)) /\ Len(q) = Len(s) + Len(t)
      /\ \A k \in 1..(Len(s) + Len(t)) : q[k] = IF k <= Len(s) THEN s[k] ELSE t[k - Len(s)]
  BY ConcatProperties, LenProperties
<1>2. /\ Append(s, x) \in Seq(Command) /\ Len(Append(s, x)) = Len(s) + 1
      /\ \A k \in 1..Len(s) : Append(s, x)[k] = s[k]
      /\ Append(s, x)[Len(s) + 1] = x
  BY AppendProperties
<1>3. /\ DOMAIN h = 1..(Len(s) + 1 + Len(t)) /\ Len(h) = Len(s) + 1 + Len(t)
      /\ \A k \in 1..(Len(s) + 1 + Len(t)) :
           h[k] = IF k <= Len(s) + 1 THEN Append(s, x)[k] ELSE t[k - (Len(s) + 1)]
  BY <1>2, ConcatProperties, LenProperties
<1>4. \A k \in DOMAIN h : /\ k \in Nat
                          /\ \/ k = Len(s) + 1 /\ h[k] = x
                             \/ k # Len(s) + 1 /\ old(k) \in DOMAIN q /\ h[k] = q[old(k)]
  BY <1>1, <1>2, <1>3
<1>5. \A k \in DOMAIN q : new(k) \in DOMAIN h /\ h[new(k)] = q[k]
  BY <1>1, <1>2, <1>3
<1>6. \A k, m \in Nat : k # Len(s) + 1 /\ m # Len(s) + 1 /\ old(k) = old(m) => k = m
  BY <1>1
<1>7. \A k \in DOMAIN q : Frame(q, k) => q[k].req \in Carried(q)
  BY DEF Carried, Frame
<1> HIDE DEF q, h
<1>8. Distinct(h)
  <2> SUFFICES ASSUME NEW k \in DOMAIN h, NEW m \in DOMAIN h, Frame(h, k), Frame(h, m),
                      h[k].req = h[m].req
               PROVE  k = m
    BY DEF Distinct
  <2> HIDE DEF old
  <2>1. CASE k = Len(s) + 1 /\ m = Len(s) + 1
    BY <2>1
  <2>2. CASE k # Len(s) + 1 /\ m # Len(s) + 1
    <3>1. old(k) = old(m)
      BY <1>4, <2>2 DEF Distinct, Frame, q
    <3>2. QED BY <1>4, <1>6, <2>2, <3>1
  <2>3. CASE k = Len(s) + 1 /\ m # Len(s) + 1
    BY <1>4, <1>7, <2>3 DEF Frame, q
  <2>4. CASE k # Len(s) + 1 /\ m = Len(s) + 1
    BY <1>4, <1>7, <2>4 DEF Frame, q
  <2>5. QED BY <2>1, <2>2, <2>3, <2>4
<1>9. Carried(h) \subseteq Carried(q) \cup {x.req}
  <2> HIDE DEF old
  <2> SUFFICES ASSUME NEW k \in DOMAIN h, h[k].op # "shutdown"
               PROVE  h[k].req \in Carried(q) \cup {x.req}
    BY DEF Carried
  <2>1. QED BY <1>4, <1>7 DEF Frame
<1>10. ASSUME NEW k \in DOMAIN h, h[k].op = "sub" PROVE h[k].req \in DOMAIN g \/ Withdrawn(h, k)
  <2>1. CASE k = Len(s) + 1
    <3>1. CASE x.req \in DOMAIN g
      BY <1>4, <2>1, <3>1
    <3>2. CASE \E m \in DOMAIN t : t[m].op = "unsub" /\ t[m].sub = x.sub
      <4>1. PICK m \in DOMAIN t : t[m].op = "unsub" /\ t[m].sub = x.sub
        BY <3>2
      <4>2. m + Len(s) + 1 \in k+1..Len(h) /\ h[m + Len(s) + 1] = t[m]
        BY <1>1, <1>3, <2>1
      <4>3. QED BY <1>4, <2>1, <4>1, <4>2 DEF Withdrawn
    <3>3. QED BY <3>1, <3>2
  <2>2. CASE k # Len(s) + 1
    <3>1. old(k) \in DOMAIN q /\ h[k] = q[old(k)] /\ k \in Nat
      BY <1>4, <2>2
    <3>2. q[old(k)].req \in DOMAIN f \/ Withdrawn(q, old(k))
      <4> HIDE DEF old
      <4>1. QED BY <1>10, <3>1 DEF Correlated, q
    <3>3. CASE Withdrawn(q, old(k))
      <4>1. PICK m \in old(k)+1..Len(q) : q[m].op = "unsub" /\ q[m].sub = q[old(k)].sub
        BY <3>3 DEF Withdrawn
      <4>2. m \in DOMAIN q
        BY <1>1, <3>1, <4>1
      <4>3. new(m) \in k+1..Len(h)
        BY <1>1, <1>3, <2>2, <3>1, <4>1
      <4>4. h[new(m)] = q[m]
        BY <1>5, <4>2
      <4> HIDE DEF old, new
      <4>5. QED BY <3>1, <4>1, <4>3, <4>4 DEF Withdrawn
    <3>4. QED BY <3>1, <3>2, <3>3
  <2>3. QED BY <2>1, <2>2
<1>11. Named(h, g)
  <2> SUFFICES ASSUME NEW k \in DOMAIN h, h[k].op = "sub", h[k].req \in DOMAIN g
               PROVE  g[h[k].req].sub = h[k].sub
    BY DEF Named
  <2> HIDE DEF old
  <2>1. CASE k = Len(s) + 1
    BY <1>4, <2>1
  <2>2. CASE k # Len(s) + 1
    <3>1. q[old(k)].req \in Carried(q)
      BY <1>4, <1>7, <2>2 DEF Frame
    <3>2. q[old(k)].req # x.req
      BY <3>1 DEF q
    <3>3. QED BY <1>4, <2>2, <3>2 DEF Named, q
  <2>3. QED BY <2>1, <2>2
<1>12. QED BY <1>8, <1>9, <1>10, <1>11 DEF Correlated, q, h
\* The first part of a queue may be lost with its socket.
LEMMA RestDistinct ==
  ASSUME NEW s \in Seq(Command), NEW t \in Seq(Command), Distinct(s \o t)
  PROVE  Distinct(t) /\ Carried(t) \subseteq Carried(s \o t)
<1> DEFINE q == s \o t
<1>1. /\ Len(s) \in Nat /\ Len(t) \in Nat /\ DOMAIN t = 1..Len(t)
      /\ DOMAIN q = 1..(Len(s) + Len(t))
      /\ \A k \in 1..(Len(s) + Len(t)) : q[k] = IF k <= Len(s) THEN s[k] ELSE t[k - Len(s)]
  BY ConcatProperties, LenProperties
<1>2. \A k \in DOMAIN t : k \in Nat /\ k + Len(s) \in DOMAIN q /\ t[k] = q[k + Len(s)]
  BY <1>1
<1>3. \A k, m \in Nat : k + Len(s) = m + Len(s) => k = m
  BY <1>1
<1> HIDE DEF q
<1>4. Distinct(t)
  <2> SUFFICES ASSUME NEW k \in DOMAIN t, NEW m \in DOMAIN t, Frame(t, k), Frame(t, m),
                      t[k].req = t[m].req
               PROVE  k = m
    BY DEF Distinct
  <2>1. k + Len(s) = m + Len(s)
    BY SMTT(30), <1>2 DEF Distinct, Frame, q
  <2>2. QED BY <1>2, <1>3, <2>1
<1>5. Carried(t) \subseteq Carried(q)
  <2> SUFFICES ASSUME NEW k \in DOMAIN t, t[k].op # "shutdown" PROVE t[k].req \in Carried(q)
    BY DEF Carried
  <2>1. QED BY <1>2 DEF Carried
<1>6. QED BY <1>4, <1>5 DEF q

\* The ways the pipeline moves.
LEMMA PipelineTypes ==
  ASSUME TypeOK
  PROVE  /\ toServer \in Seq(Command) /\ cmds \in Seq(Command)
         /\ Pipeline \in Seq(Command)
<1>1. Request \subseteq Command
  BY DEF Command
<1>2. toServer \in Seq(Request) /\ cmds \in Seq(Command)
  BY DEF TypeOK
<1>3. toServer \in Seq(Command)
  BY <1>1, <1>2, SeqMonotonic
<1>4. QED BY <1>2, <1>3, ConcatProperties DEF Pipeline

LEMMA QueueLast ==
  ASSUME TypeOK, NEW x \in Command, cmds' = Append(cmds, x), toServer' = toServer
  PROVE  Pipeline' = Append(Pipeline, x)
<1>1. toServer \in Seq(Command) /\ cmds \in Seq(Command) /\ Pipeline \in Seq(Command)
  BY PipelineTypes
<1>2. cmds' = cmds \o <<x>> /\ Append(Pipeline, x) = Pipeline \o <<x>> /\ <<x>> \in Seq(Command)
  BY <1>1, AppendIsConcat
<1>3. QED BY <1>1, <1>2, ConcatAssociative DEF Pipeline

LEMMA FirstArrives ==
  ASSUME NEW s \in Seq(Command), s # <<>>, NEW t \in Seq(Command)
  PROVE  /\ s \o t # <<>> /\ Tail(s) \o t = Tail(s \o t)
         /\ Head(s \o t) = Head(s)
<1> DEFINE q == s \o t
           a == Tail(s)
           h == a \o t
           z == Tail(q)
<1>1. /\ q \in Seq(Command) /\ Len(q) = Len(s) + Len(t)
      /\ Len(s) \in Nat \ {0} /\ Len(t) \in Nat
      /\ \A k \in 1..(Len(s) + Len(t)) : q[k] = IF k <= Len(s) THEN s[k] ELSE t[k - Len(s)]
  BY ConcatProperties, EmptySeq, LenProperties
<1>2. a \in Seq(Command) /\ Len(a) = Len(s) - 1 /\ \A k \in 1..Len(a) : a[k] = s[k + 1]
  BY HeadTailProperties
<1>3. q # <<>>
  BY <1>1, EmptySeq
<1>4. z \in Seq(Command) /\ Len(z) = Len(q) - 1 /\ \A k \in 1..Len(z) : z[k] = q[k + 1]
  BY <1>1, <1>3, HeadTailProperties
<1>5. /\ h \in Seq(Command) /\ Len(h) = Len(a) + Len(t)
      /\ \A k \in 1..(Len(a) + Len(t)) : h[k] = IF k <= Len(a) THEN a[k] ELSE t[k - Len(a)]
  BY <1>2, ConcatProperties
<1>6. Head(q) = q[1] /\ Head(s) = s[1] /\ q[1] = s[1]
  BY <1>1
<1> HIDE DEF q, a, h, z
<1>7. Len(h) = Len(z) /\ \A k \in 1..Len(h) : h[k] = z[k]
  BY <1>1, <1>2, <1>4, <1>5
<1>8. h = z
  BY <1>4, <1>5, <1>7, SeqEqual
<1>9. QED BY <1>3, <1>6, <1>8 DEF q, a, h, z

LEMMA WriteMovesNothing ==
  ASSUME NEW s \in Seq(Command), NEW t \in Seq(Command), t # <<>>
  PROVE  Append(s, Head(t)) \o Tail(t) = s \o t
<1> DEFINE q == s \o t
           a == Append(s, Head(t))
           b == Tail(t)
           h == a \o b
<1>1. /\ q \in Seq(Command) /\ Len(q) = Len(s) + Len(t)
      /\ Len(s) \in Nat /\ Len(t) \in Nat \ {0}
      /\ \A k \in 1..(Len(s) + Len(t)) : q[k] = IF k <= Len(s) THEN s[k] ELSE t[k - Len(s)]
  BY ConcatProperties, EmptySeq, LenProperties
<1>2. /\ b \in Seq(Command) /\ Len(b) = Len(t) - 1 /\ \A k \in 1..Len(b) : b[k] = t[k + 1]
      /\ Head(t) \in Command /\ Head(t) = t[1]
  BY HeadTailProperties
<1>3. /\ a \in Seq(Command) /\ Len(a) = Len(s) + 1
      /\ \A k \in 1..Len(s) : a[k] = s[k]
      /\ a[Len(s) + 1] = t[1]
  BY <1>2, AppendProperties
<1>4. /\ h \in Seq(Command) /\ Len(h) = Len(a) + Len(b)
      /\ \A k \in 1..(Len(a) + Len(b)) : h[k] = IF k <= Len(a) THEN a[k] ELSE b[k - Len(a)]
  BY <1>2, <1>3, ConcatProperties
<1> HIDE DEF q, a, b, h
<1>5. Len(h) = Len(q)
  BY <1>1, <1>2, <1>3, <1>4
<1>6. ASSUME NEW k \in 1..Len(h) PROVE h[k] = q[k]
  <2>1. CASE k <= Len(s)
    <3>1. h[k] = a[k] /\ a[k] = s[k]
      BY <1>1, <1>2, <1>3, <1>4, <2>1
    <3>2. q[k] = s[k]
      BY <1>1, <1>2, <1>3, <1>4, <2>1
    <3>3. QED BY <3>1, <3>2
  <2>2. CASE k = Len(s) + 1
    <3>1. h[k] = t[1]
      BY <1>1, <1>2, <1>3, <1>4, <2>2
    <3>2. q[k] = t[k - Len(s)] /\ k - Len(s) = 1
      BY <1>1, <2>2
    <3>3. QED BY <3>1, <3>2
  <2>3. CASE k > Len(s) + 1
    <3>1. h[k] = b[k - (Len(s) + 1)] /\ k - (Len(s) + 1) \in 1..Len(b)
      BY <1>1, <1>2, <1>3, <1>4, <2>3
    <3>2. q[k] = t[k - Len(s)] /\ k - (Len(s) + 1) + 1 = k - Len(s)
      BY <1>1, <1>2, <1>3, <1>4, <2>3
    <3>3. QED BY <1>2, <3>1, <3>2
  <2>4. QED BY <1>1, <2>1, <2>2, <2>3
<1>7. h = q
  BY <1>1, <1>4, <1>5, <1>6, SeqEqual
<1>8. QED BY <1>7 DEF q, a, b, h

------------------------------------------------------------------------------
Busy(c) == call[c].op # "idle"

\* A request id is above all others when it is drawn, and belongs to one call, one
\* frame or one answer at a time.
IdsBooked ==
    /\ nextReq > 0
    /\ Distinct(Pipeline)
    /\ Carried(Pipeline) \cap Carried(fromServer) = {}
    /\ \A r \in Carried(Pipeline) : r > 0 /\ r < nextReq
    /\ \A r \in Carried(fromServer) : r < nextReq
    /\ \A c \in Callers : Busy(c) => /\ call[c].req > 0
                                     /\ call[c].req < nextReq
                                     /\ call[c].req \notin Carried(Pipeline)
                                     /\ call[c].req \notin Carried(fromServer)
    /\ \A c, d \in Callers : c # d /\ Busy(c) /\ Busy(d) => call[c].req # call[d].req

Between == {"decide", "cooldown", "dial", "snapshot"}

\* An entry that changed after the snapshot was withdrawn by a queued unsubscribe.
ReplayWithdrawn ==
    io = "replay" =>
      \A e \in todo : \/ SameInstance(e)
                      \/ \E m \in DOMAIN cmds : cmds[m].op = "unsub" /\ cmds[m].sub = e.sub

WireBooks ==
    /\ IdsBooked
    /\ io \in Between => toServer = <<>>
    /\ Established => Correlated(Pipeline, pending) /\ Named(Pipeline, pending)
    /\ ReplayWithdrawn

Wired == /\ io = "last_drain" => shutdown
         /\ ~shutdown => WireBooks

\* What a step needs that draws no id and sends none.
LEMMA NoNewId ==
  ASSUME TypeOK, IdsBooked, Distinct(Pipeline'),
         Carried(Pipeline') \subseteq Carried(Pipeline),
         Carried(fromServer') \subseteq Carried(fromServer),
         \A c \in Callers : call'[c] = call[c] \/ call'[c].op = "idle",
         nextReq' = nextReq
  PROVE  IdsBooked'
<1>1. Carried(Pipeline)' = Carried(Pipeline') /\ Carried(fromServer)' = Carried(fromServer')
      /\ Distinct(Pipeline)' = Distinct(Pipeline')
  BY DEF Carried, Distinct, Frame
<1>2. \A c \in Callers : Busy(c)' => Busy(c) /\ call'[c] = call[c]
  BY DEF Busy
<1>3. QED BY <1>1, <1>2 DEF IdsBooked

LEMMA QuietWire ==
  ASSUME TypeOK, WireBooks,
         UNCHANGED <<toServer, cmds, fromServer, call, nextReq, pending, active, todo>>,
         io' \in Between => io \in Between,
         Established' => Established,
         io' = "replay" => io = "replay"
  PROVE  WireBooks'
<1>1. Pipeline' = Pipeline
  BY DEF Pipeline
<1>2. IdsBooked'
  BY <1>1, NoNewId DEF WireBooks, IdsBooked
<1>3. ReplayWithdrawn'
  BY DEF WireBooks, ReplayWithdrawn, SameInstance
<1>4. QED BY <1>1, <1>2, <1>3 DEF WireBooks

\* Request ids are numbers, and the pipeline carries what its two queues do.
LEMMA RequestIds ==
  ASSUME TypeOK
  PROVE  /\ Carried(Pipeline) \subseteq Nat
         /\ Carried(fromServer) \subseteq Nat
         /\ \A c \in Callers : Busy(c) => call[c].req \in Nat
<1>1. Pipeline \in Seq(Command)
  BY PipelineTypes
<1>2. \A k \in DOMAIN Pipeline : Pipeline[k] \in Command
  BY <1>1, LenProperties, ElementOfSeq
<1>3. \A x \in Command : x.op # "shutdown" => x.req \in Nat
  BY DEF Command, Request
<1>4. fromServer \in Seq(Answers)
  BY DEF TypeOK
<1>5. \A k \in DOMAIN fromServer : fromServer[k] \in Answers
  BY <1>4, LenProperties, ElementOfSeq
<1>6. \A x \in Answers : x.req \in Nat
  BY DEF Answers
<1>7. call \in [Callers -> Request \cup {Idle}]
  BY DEF TypeOK
<1>8. \A c \in Callers : Busy(c) => call[c].req \in Nat
  BY <1>7 DEF Busy, Request, Idle
<1>9. Carried(Pipeline) \subseteq Nat
  BY <1>2, <1>3 DEF Carried
<1>10. Carried(fromServer) \subseteq Nat
  BY <1>5, <1>6 DEF Carried
<1>11. QED BY <1>8, <1>9, <1>10

LEMMA PipelineCarries ==
  ASSUME TypeOK
  PROVE  Carried(Pipeline) \subseteq Carried(toServer) \cup Carried(cmds)
<1>1. toServer \in Seq(Command) /\ cmds \in Seq(Command)
  BY PipelineTypes
<1>2. /\ DOMAIN Pipeline = 1..(Len(toServer) + Len(cmds))
      /\ \A k \in 1..(Len(toServer) + Len(cmds)) :
           Pipeline[k] = IF k <= Len(toServer) THEN toServer[k] ELSE cmds[k - Len(toServer)]
      /\ DOMAIN toServer = 1..Len(toServer) /\ DOMAIN cmds = 1..Len(cmds)
      /\ Len(toServer) \in Nat /\ Len(cmds) \in Nat
  BY <1>1, ConcatProperties, LenProperties DEF Pipeline
<1> SUFFICES ASSUME NEW k \in DOMAIN Pipeline, Pipeline[k].op # "shutdown"
             PROVE  Pipeline[k].req \in Carried(toServer) \cup Carried(cmds)
  BY DEF Carried
<1>3. CASE k <= Len(toServer)
  <2>1. k \in DOMAIN toServer /\ Pipeline[k] = toServer[k]
    BY <1>2, <1>3
  <2>2. QED BY <2>1 DEF Carried
<1>4. CASE ~(k <= Len(toServer))
  <2>1. k - Len(toServer) \in DOMAIN cmds /\ Pipeline[k] = cmds[k - Len(toServer)]
    BY <1>2, <1>4
  <2>2. QED BY <2>1 DEF Carried
<1>5. QED BY <1>3, <1>4

LEMMA AppendNamed ==
  ASSUME NEW q \in Seq(Command), NEW x \in Command, NEW f, NEW g, Named(q, f),
         \A k \in DOMAIN q : q[k].op = "sub" /\ q[k].req \in DOMAIN g =>
            q[k].req \in DOMAIN f /\ g[q[k].req] = f[q[k].req],
         x.op = "sub" /\ x.req \in DOMAIN g => g[x.req].sub = x.sub
  PROVE  Named(Append(q, x), g)
<1> DEFINE h == Append(q, x)
<1>1. /\ DOMAIN q = 1..Len(q) /\ Len(q) \in Nat
      /\ DOMAIN h = 1..(Len(q) + 1)
      /\ \A k \in 1..Len(q) : h[k] = q[k]
      /\ h[Len(q) + 1] = x
  BY AppendProperties, LenProperties
<1>2. \A k \in DOMAIN h : (k \in DOMAIN q /\ h[k] = q[k]) \/ h[k] = x
  BY <1>1
<1> HIDE DEF h
<1>3. QED BY <1>2 DEF Named, h

\* What was queued stays queued when a command is added behind it.
LEMMA StillQueued ==
  ASSUME NEW q \in Seq(Command), NEW x \in Command
  PROVE  /\ \A m \in DOMAIN q : m \in DOMAIN Append(q, x) /\ Append(q, x)[m] = q[m]
         /\ \E m \in DOMAIN Append(q, x) : Append(q, x)[m] = x
<1>1. /\ DOMAIN q = 1..Len(q) /\ Len(q) \in Nat
      /\ DOMAIN Append(q, x) = 1..(Len(q) + 1)
      /\ \A k \in 1..Len(q) : Append(q, x)[k] = q[k]
      /\ Append(q, x)[Len(q) + 1] = x
  BY AppendProperties, LenProperties
<1>2. QED BY <1>1

LEMMA CallStartWire ==
  ASSUME TypeOK, WireBooks, NEW c \in Callers, CallStart(c)
  PROVE  WireBooks'
<1>1. /\ call \in [Callers -> Request \cup {Idle}]
      /\ nextReq \in Nat
  BY DEF TypeOK
<1>2. /\ UNCHANGED <<io, toServer, cmds, fromServer, pending, active, todo>>
      /\ nextReq' = nextReq + 1
      /\ call[c] = Idle
  BY DEF CallStart, tracked, socket
<1>3. /\ \A d \in Callers \ {c} : call'[d] = call[d]
      /\ call'[c].req = nextReq
  BY <1>1 DEF CallStart
<1>4. Pipeline' = Pipeline
  BY <1>2 DEF Pipeline
<1>5. IdsBooked
  BY DEF WireBooks
<1>6. \A d \in Callers \ {c} : Busy(d)' <=> Busy(d)
  BY <1>3 DEF Busy
<1>7. IdsBooked'
  <2>1. /\ nextReq' > 0 /\ nextReq < nextReq'
        /\ \A r \in Carried(Pipeline) \cup Carried(fromServer) : r < nextReq
    BY <1>1, <1>2, <1>5 DEF IdsBooked
  <2>2. /\ Distinct(Pipeline') /\ Carried(Pipeline') \cap Carried(fromServer') = {}
    BY <1>2, <1>4, <1>5 DEF IdsBooked
  <2>3. \A r \in Carried(Pipeline) : r > 0 /\ r < nextReq'
    BY <1>1, <1>2, <1>5, RequestIds DEF IdsBooked
  <2>4. \A r \in Carried(fromServer) : r < nextReq'
    BY <1>1, <1>2, <1>5, RequestIds DEF IdsBooked
  <2>5. \A d \in Callers : Busy(d)' => /\ call'[d].req > 0
                                       /\ call'[d].req < nextReq'
                                       /\ call'[d].req \notin Carried(Pipeline)
                                       /\ call'[d].req \notin Carried(fromServer)
    <3> TAKE d \in Callers
    <3>1. CASE d = c
      BY <1>1, <1>2, <1>3, <1>5, <2>1, <3>1 DEF IdsBooked
    <3>2. CASE d # c
      BY <1>1, <1>2, <1>3, <1>5, <1>6, <3>2, RequestIds DEF IdsBooked
    <3>3. QED BY <3>1, <3>2
  <2>6. \A d, e \in Callers : d # e /\ Busy(d)' /\ Busy(e)' => call'[d].req # call'[e].req
    <3> TAKE d, e \in Callers
    <3>1. CASE d # c /\ e # c
      BY <1>3, <1>5, <1>6, <3>1 DEF IdsBooked
    <3>2. CASE d = c /\ e # c
      BY <1>1, <1>3, <1>5, <1>6, <3>2, RequestIds DEF IdsBooked
    <3>3. CASE d # c /\ e = c
      BY <1>1, <1>3, <1>5, <1>6, <3>3, RequestIds DEF IdsBooked
    <3>4. QED BY <3>1, <3>2, <3>3
  <2>7. QED BY <1>2, <1>4, <2>1, <2>2, <2>3, <2>4, <2>5, <2>6 DEF IdsBooked
<1>8. ReplayWithdrawn'
  BY <1>2 DEF WireBooks, ReplayWithdrawn, SameInstance
<1>9. QED BY <1>2, <1>4, <1>7, <1>8 DEF WireBooks, Established

\* The frame of a call goes out under the id of the call, which is done.
LEMMA SendBooks ==
  ASSUME TypeOK, IdsBooked, NEW c \in Callers, Busy(c), NEW x \in Command,
         x.op # "shutdown", x.req = call[c].req,
         cmds' = Append(cmds, x), UNCHANGED <<toServer, fromServer, nextReq>>,
         call' = [call EXCEPT ![c] = Idle]
  PROVE  IdsBooked' /\ Pipeline' = Append(Pipeline, x)
<1>1. call \in [Callers -> Request \cup {Idle}]
  BY DEF TypeOK
<1>2. Pipeline' = Append(Pipeline, x) /\ Pipeline \in Seq(Command)
  BY QueueLast, PipelineTypes
<1>3. call[c].req \notin Carried(Pipeline)
  BY DEF IdsBooked
<1>4. Distinct(Pipeline') /\ Carried(Pipeline') \subseteq Carried(Pipeline) \cup {call[c].req}
  BY <1>2, <1>3, AppendDistinct DEF IdsBooked
<1>5. /\ \A d \in Callers \ {c} : call'[d] = call[d]
      /\ call'[c].op = "idle"
  BY <1>1 DEF Idle
<1>6. \A d \in Callers : Busy(d)' => d # c /\ Busy(d) /\ call'[d] = call[d]
  BY <1>5 DEF Busy
<1>7. IdsBooked'
  BY <1>4, <1>6 DEF IdsBooked
<1>8. QED BY <1>2, <1>7

LEMMA SubscribeWire ==
  ASSUME Accounting, WireBooks, ~shutdown, NEW c \in Callers, TrackInflightSubscribe(c)
  PROVE  WireBooks'
<1>1. TypeOK /\ Books /\ IdsBooked
  BY DEF Accounting, WireBooks
<1>2. PICK i, r : i \in Ids /\ r \in Nat /\ i = call[c].sub /\ r = call[c].req
  BY <1>1 DEF TrackInflightSubscribe, TypeOK, Idle, Request
<1>3. UNCHANGED <<io, toServer, fromServer, nextReq, todo>>
  BY DEF TrackInflightSubscribe, socket
<1>4. call' = [call EXCEPT ![c] = Idle] /\ call[c].op = "sub" /\ Busy(c)
  BY DEF TrackInflightSubscribe, Busy
<1>5. PICK stale \in SUBSET Abandoned :
        \/ /\ IncActive(i)
           /\ pending' = Correlate(Without(pending, stale), r, i, active'[i].gen)
           /\ cmds' = Append(cmds, [op |-> "sub", sub |-> i, req |-> r])
        \/ /\ active' = active
           /\ pending' = Without(pending, stale)
           /\ cmds' = cmds
  BY <1>2 DEF TrackInflightSubscribe, RollBack
<1> DEFINE f == Without(pending, stale)
<1>6. \A k \in DOMAIN Pipeline : Pipeline[k].op = "sub" => Pipeline[k].req \notin stale
  <2>1. ASSUME NEW k \in DOMAIN Pipeline, Pipeline[k].op = "sub"
        PROVE  Pipeline[k].req \in Carried(toServer) \cup Carried(cmds)
    <3>1. Pipeline[k].req \in Carried(Pipeline)
      BY <2>1 DEF Carried
    <3>2. QED BY <1>1, <3>1, PipelineCarries
  <2>2. QED BY <2>1 DEF Abandoned
<1>7. \A k \in DOMAIN Pipeline :
        Pipeline[k].op = "sub" /\ Pipeline[k].req \in DOMAIN pending => Pipeline[k].req \in DOMAIN f
  BY <1>6 DEF Without
<1>8. \A q \in DOMAIN f : q \in DOMAIN pending /\ f[q] = pending[q]
  BY DEF Without
<1> HIDE DEF f
<1>9. CASE /\ IncActive(i)
           /\ pending' = Correlate(f, r, i, active'[i].gen)
           /\ cmds' = Append(cmds, [op |-> "sub", sub |-> i, req |-> r])
  <2>1. PICK x : x = [op |-> "sub", sub |-> i, req |-> r]
    OBVIOUS
  <2>2. x \in Command /\ x.op = "sub" /\ x.req = r /\ x.sub = i
    BY <1>2, <2>1 DEF Command, Request
  <2>3. IdsBooked' /\ Pipeline' = Append(Pipeline, x)
    BY <1>1, <1>2, <1>3, <1>4, <1>9, <2>1, <2>2, SendBooks
  <2>4. Pipeline \in Seq(Command) /\ cmds \in Seq(Command)
    BY <1>1, PipelineTypes
  <2>5. /\ DOMAIN pending' = DOMAIN f \cup {r}
        /\ pending'[r].sub = i
        /\ \A q \in DOMAIN f : q # r => pending'[q] = pending[q]
    BY <1>8, <1>9 DEF Correlate
  <2>6. \A k \in DOMAIN Pipeline : Pipeline[k].op = "sub" => Pipeline[k].req # r
    <3>1. r \notin Carried(Pipeline)
      BY <1>1, <1>2, <1>4 DEF IdsBooked
    <3>2. QED BY <3>1 DEF Carried
  <2>7. Established => Correlated(Pipeline', pending') /\ Named(Pipeline', pending')
    <3> SUFFICES ASSUME Established
                 PROVE  Correlated(Pipeline', pending') /\ Named(Pipeline', pending')
      OBVIOUS
    <3>1. Correlated(Pipeline, pending) /\ Named(Pipeline, pending)
      BY DEF WireBooks
    <3>2. \A k \in DOMAIN Pipeline : Pipeline[k].op = "sub" /\ Pipeline[k].req \in DOMAIN pending =>
            Pipeline[k].req \in DOMAIN pending'
      BY <1>7, <2>5
    <3>3. \A k \in DOMAIN Pipeline : Pipeline[k].op = "sub" /\ Pipeline[k].req \in DOMAIN pending' =>
            /\ Pipeline[k].req \in DOMAIN pending
            /\ pending'[Pipeline[k].req] = pending[Pipeline[k].req]
      BY <1>8, <2>5, <2>6
    <3>4. Correlated(Pipeline', pending')
      BY <2>2, <2>3, <2>4, <2>5, <3>1, <3>2, AppendCorrelated
    <3>5. x.op = "sub" /\ x.req \in DOMAIN pending' => pending'[x.req].sub = x.sub
      BY <2>2, <2>5
    <3>6. Named(Append(Pipeline, x), pending')
      BY <2>2, <2>4, <3>1, <3>3, <3>5, AppendNamed
    <3>7. QED BY <2>3, <3>4, <3>6
  <2>8. ReplayWithdrawn'
    <3> SUFFICES ASSUME io = "replay", NEW e \in todo
                 PROVE  \/ SameInstance(e)'
                        \/ \E m \in DOMAIN cmds' : cmds'[m].op = "unsub" /\ cmds'[m].sub = e.sub
      BY <1>3 DEF ReplayWithdrawn
    <3>1. CASE SameInstance(e)
      <4>1. /\ \A j \in Ids \ {i} : active'[j] = active[j]
            /\ active'[i].refs = active[i].refs + 1
            /\ active'[i].gen = IF active[i].refs > 0 THEN active[i].gen ELSE nextGen
        BY <1>1, <1>2, <1>9, IncActiveEffect
      <4>2. e.sub \in Ids /\ active[i].refs \in Nat
        BY <1>1, <1>2, AccountTypes DEF Typed
      <4>3. QED BY <3>1, <4>1, <4>2 DEF SameInstance
    <3>2. CASE \E m \in DOMAIN cmds : cmds[m].op = "unsub" /\ cmds[m].sub = e.sub
      BY ZenonT(60), <1>9, <2>1, <2>2, <2>4, <3>2, StillQueued
    <3>3. QED BY <3>1, <3>2 DEF WireBooks, ReplayWithdrawn
  <2>9. QED BY <1>3, <2>3, <2>7, <2>8 DEF WireBooks, Established
<1>10. CASE /\ active' = active
            /\ pending' = f
            /\ cmds' = cmds
  <2>1. Pipeline' = Pipeline
    BY <1>3, <1>10 DEF Pipeline
  <2>2. \A d \in Callers : call'[d] = call[d] \/ call'[d].op = "idle"
    <3>1. call \in [Callers -> Request \cup {Idle}]
      BY <1>1 DEF TypeOK
    <3>2. QED BY <1>4, <3>1 DEF Idle
  <2>3. IdsBooked'
    BY <1>1, <1>3, <2>1, <2>2, NoNewId DEF IdsBooked
  <2>4. Established => Correlated(Pipeline, pending') /\ Named(Pipeline, pending')
    BY <1>7, <1>8, <1>10 DEF WireBooks, Correlated, Named
  <2>5. ReplayWithdrawn'
    BY <1>3, <1>10 DEF WireBooks, ReplayWithdrawn, SameInstance
  <2>6. QED BY <1>3, <2>1, <2>3, <2>4, <2>5 DEF WireBooks, Established
<1>11. QED BY <1>5, <1>9, <1>10 DEF f

LEMMA UnsubscribeWire ==
  ASSUME Accounting, WireBooks, NEW c \in Callers, SendThenUntrack(c)
  PROVE  WireBooks'
<1>1. TypeOK /\ Books /\ IdsBooked
  BY DEF Accounting, WireBooks
<1>2. PICK i, r : i \in Ids /\ r \in Nat /\ i = call[c].sub /\ r = call[c].req
  BY <1>1 DEF SendThenUntrack, TypeOK, Idle, Request
<1>3. UNCHANGED <<io, toServer, fromServer, nextReq, todo>>
  BY DEF SendThenUntrack, socket
<1>4. call' = [call EXCEPT ![c] = Idle] /\ Busy(c)
  BY DEF SendThenUntrack, Busy
<1>5. CASE CanSend
  <2>1. PICK x : x = [op |-> "unsub", sub |-> i, req |-> r]
    OBVIOUS
  <2>2. x \in Command /\ x.op = "unsub" /\ x.req = r /\ x.sub = i
    BY <1>2, <2>1 DEF Command, Request
  <2>3. /\ cmds' = Append(cmds, x)
        /\ active' = [active EXCEPT ![i] = NoEntry]
        /\ pending' = Without(pending, PendingFor(i))
    BY <1>2, <1>5, <2>1 DEF SendThenUntrack, EvictPendingForIdentity
  <2>4. IdsBooked' /\ Pipeline' = Append(Pipeline, x)
    BY <1>1, <1>2, <1>3, <1>4, <2>2, <2>3, SendBooks
  <2>5. Pipeline \in Seq(Command) /\ cmds \in Seq(Command)
    BY <1>1, PipelineTypes
  <2>6. Established => Correlated(Pipeline', pending') /\ Named(Pipeline', pending')
    <3> SUFFICES ASSUME Established
                 PROVE  Correlated(Pipeline', pending') /\ Named(Pipeline', pending')
      OBVIOUS
    <3>1. Correlated(Pipeline, pending) /\ Named(Pipeline, pending)
      BY DEF WireBooks
    <3>2. \A k \in DOMAIN Pipeline : Pipeline[k].op = "sub" /\ Pipeline[k].req \in DOMAIN pending =>
            Pipeline[k].req \in DOMAIN pending' \/ (x.op = "unsub" /\ x.sub = Pipeline[k].sub)
      BY <2>2, <2>3, <3>1 DEF Named, Without, PendingFor, For
    <3>3. \A k \in DOMAIN Pipeline : Pipeline[k].op = "sub" /\ Pipeline[k].req \in DOMAIN pending' =>
            /\ Pipeline[k].req \in DOMAIN pending
            /\ pending'[Pipeline[k].req] = pending[Pipeline[k].req]
      BY <2>3 DEF Without
    <3>4. Correlated(Pipeline', pending')
      BY <2>2, <2>4, <2>5, <3>1, <3>2, AppendCorrelated
    <3>5. x.op = "sub" /\ x.req \in DOMAIN pending' => pending'[x.req].sub = x.sub
      BY <2>2
    <3>6. Named(Append(Pipeline, x), pending')
      BY ZenonT(60), <2>2, <2>5, <3>1, <3>3, <3>5, AppendNamed
    <3>7. QED BY <2>4, <3>4, <3>6
  <2>7. ReplayWithdrawn'
    <3> SUFFICES ASSUME io = "replay", NEW e \in todo
                 PROVE  \/ SameInstance(e)'
                        \/ \E m \in DOMAIN cmds' : cmds'[m].op = "unsub" /\ cmds'[m].sub = e.sub
      BY <1>3 DEF ReplayWithdrawn
    <3>1. CASE e.sub = i
      <4>1. PICK m \in DOMAIN Append(cmds, x) : Append(cmds, x)[m] = x
        BY <2>2, <2>5, StillQueued
      <4>2. QED BY <2>2, <2>3, <3>1, <4>1
    <3>2. CASE e.sub # i /\ SameInstance(e)
      <4>1. e.sub \in Ids
        BY <1>1, AccountTypes DEF Typed
      <4>2. active'[e.sub] = active[e.sub]
        BY <1>1, <2>3, <3>2, <4>1 DEF TypeOK
      <4>3. QED BY <3>2, <4>2 DEF SameInstance
    <3>3. CASE \E m \in DOMAIN cmds : cmds[m].op = "unsub" /\ cmds[m].sub = e.sub
      BY <2>2, <2>3, <2>5, <3>3, StillQueued
    <3>4. QED BY <3>1, <3>2, <3>3 DEF WireBooks, ReplayWithdrawn
  <2>8. QED BY <1>3, <2>4, <2>6, <2>7 DEF WireBooks, Established
<1>6. CASE ~CanSend
  <2>1. UNCHANGED <<cmds, active, pending>>
    BY <1>6 DEF SendThenUntrack
  <2>2. Pipeline' = Pipeline
    BY <1>3, <2>1 DEF Pipeline
  <2>3. \A d \in Callers : call'[d] = call[d] \/ call'[d].op = "idle"
    <3>1. call \in [Callers -> Request \cup {Idle}]
      BY <1>1 DEF TypeOK
    <3>2. QED BY <1>4, <3>1 DEF Idle
  <2>4. IdsBooked'
    BY <1>1, <1>3, <2>2, <2>3, NoNewId DEF IdsBooked
  <2>5. ReplayWithdrawn'
    BY <1>3, <2>1 DEF WireBooks, ReplayWithdrawn, SameInstance
  <2>6. QED BY <1>3, <2>1, <2>2, <2>4, <2>5 DEF WireBooks, Established
<1>7. QED BY <1>5, <1>6

\* No frame carries the id an answer comes back with.
LEMMA AnswerWire ==
  ASSUME TypeOK, WireBooks, IoReadResponse
  PROVE  WireBooks'
<1>1. UNCHANGED <<toServer, cmds, call, nextReq, todo>> /\ io = "read" /\ io' = "drain"
  BY DEF IoReadResponse, threads
<1>2. IdsBooked
  BY DEF WireBooks
<1>3. Pipeline' = Pipeline
  BY <1>1 DEF Pipeline
<1>4. PICK r : r = Head(fromServer).req
  OBVIOUS
<1>5. /\ r \in Carried(fromServer)
      /\ Carried(fromServer') \subseteq Carried(fromServer)
  <2>1. fromServer \in Seq(Answers) /\ fromServer # <<>> /\ fromServer' = Tail(fromServer)
    BY DEF TypeOK, IoReadResponse
  <2>2. /\ \A k \in DOMAIN fromServer' : k + 1 \in DOMAIN fromServer
                                         /\ fromServer'[k] = fromServer[k + 1]
        /\ 1 \in DOMAIN fromServer /\ Head(fromServer) = fromServer[1]
    BY <2>1, HeadTailProperties, LenProperties, EmptySeq
  <2>3. fromServer[1].op # "shutdown"
    <3>1. fromServer[1] \in Answers
      BY <2>1, <2>2, LenProperties, ElementOfSeq
    <3>2. QED BY <3>1 DEF Answers
  <2>4. r \in Carried(fromServer)
    BY <1>4, <2>2, <2>3 DEF Carried
  <2>5. Carried(fromServer') \subseteq Carried(fromServer)
    <3> SUFFICES ASSUME NEW k \in DOMAIN fromServer', fromServer'[k].op # "shutdown"
                 PROVE  fromServer'[k].req \in Carried(fromServer)
      BY DEF Carried
    <3>1. QED BY <2>2 DEF Carried
  <2>6. QED BY <2>4, <2>5
<1>6. IdsBooked'
  BY <1>1, <1>2, <1>3, <1>5, NoNewId DEF IdsBooked
<1>7. pending' = pending \/ pending' = Without(pending, {r})
  BY <1>4 DEF IoReadResponse
<1>8. \A k \in DOMAIN Pipeline : Pipeline[k].op = "sub" => Pipeline[k].req # r
  <2>1. r \notin Carried(Pipeline)
    BY <1>2, <1>5 DEF IdsBooked
  <2>2. QED BY <2>1 DEF Carried
<1>9. Correlated(Pipeline, pending) /\ Named(Pipeline, pending)
  BY <1>1 DEF WireBooks, Established
<1>10. Correlated(Pipeline, pending') /\ Named(Pipeline, pending')
  BY <1>7, <1>8, <1>9 DEF Correlated, Named, Without
<1>11. QED BY <1>1, <1>3, <1>6, <1>10 DEF WireBooks, ReplayWithdrawn, Between

\* The socket is gone, and with it what was on it; what was queued may be
\* discarded, or its first command lost in the write that failed.
LEMMA LossWire ==
  ASSUME TypeOK, WireBooks, toServer' = <<>>,
         fromServer' = <<>> \/ fromServer' = fromServer,
         \/ cmds' = cmds
         \/ cmds # <<>> /\ cmds' = Tail(cmds)
         \/ cmds' = <<>>,
         nextReq' = nextReq \/ nextReq' = nextReq + 1,
         call' = call,
         io' \notin {"top", "read", "drain", "replay", "queued", "announce"}
  PROVE  WireBooks'
<1>1. IdsBooked
  BY DEF WireBooks
<1>2. toServer \in Seq(Command) /\ cmds \in Seq(Command)
  BY PipelineTypes
<1>3. Distinct(cmds) /\ Carried(cmds) \subseteq Carried(Pipeline)
  BY <1>1, <1>2, RestDistinct DEF IdsBooked, Pipeline
<1>4. Distinct(cmds') /\ Carried(cmds') \subseteq Carried(Pipeline) /\ cmds' \in Seq(Command)
  <2>1. CASE cmds' = cmds
    BY <1>2, <1>3, <2>1
  <2>2. CASE cmds # <<>> /\ cmds' = Tail(cmds)
    BY <1>2, <1>3, <2>2, TailDistinct, HeadTailProperties
  <2>3. CASE cmds' = <<>>
    BY <1>2, <2>3, EmptySeq DEF Distinct, Carried
  <2>4. QED BY <2>1, <2>2, <2>3
<1>5. Pipeline' = cmds'
  BY <1>4, ConcatEmptySeq DEF Pipeline
<1>6. Carried(fromServer') \subseteq Carried(fromServer)
  BY DEF Carried
<1>7. IdsBooked'
  <2>1. CASE nextReq' = nextReq
    BY <1>1, <1>4, <1>5, <1>6, <2>1, NoNewId
  <2>2. CASE nextReq' = nextReq + 1
    <3>1. nextReq \in Nat
      BY DEF TypeOK
    <3>2. \A c \in Callers : Busy(c)' <=> Busy(c)
      BY DEF Busy
    <3>3. /\ Carried(Pipeline) \subseteq Nat /\ Carried(fromServer) \subseteq Nat
          /\ \A c \in Callers : Busy(c) => call[c].req \in Nat
      BY RequestIds
    <3>4. QED BY <1>1, <1>4, <1>5, <1>6, <2>2, <3>1, <3>2, <3>3 DEF IdsBooked
  <2>3. QED BY <2>1, <2>2
<1>8. QED BY <1>7 DEF WireBooks, Established, ReplayWithdrawn

\* A command written moves from one queue to the other.
LEMMA WriteWire ==
  ASSUME TypeOK, WireBooks, cmds # <<>>, cmds' = Tail(cmds),
         toServer' = Append(toServer, Head(cmds)),
         UNCHANGED <<fromServer, call, nextReq, pending, active, todo, io>>,
         io \in {"drain", "queued"}
  PROVE  WireBooks'
<1>1. Pipeline' = Pipeline
  BY PipelineTypes, WriteMovesNothing DEF Pipeline
<1>2. IdsBooked'
  BY <1>1, NoNewId DEF WireBooks, IdsBooked
<1>3. QED BY <1>1, <1>2 DEF WireBooks, ReplayWithdrawn, Established, Between

LEMMA SnapshotWire ==
  ASSUME TypeOK, Accounting, WireBooks, IoSnapshot, ~shutdown'
  PROVE  WireBooks'
<1>1. /\ UNCHANGED <<toServer, fromServer, call, nextReq>>
      /\ io = "snapshot" /\ io' = "replay"
      /\ pending' = <<>> /\ cmds' = <<>>
  BY DEF IoSnapshot, DrainStale, socket, threads
<1>2. IdsBooked /\ toServer = <<>>
  BY <1>1 DEF WireBooks, Between
<1>3. Pipeline' = <<>>
  BY <1>1, <1>2
     DEF Pipeline
<1>4. Distinct(<<>>) /\ Carried(<<>>) = {}
  BY DEF Distinct, Carried
<1>5. IdsBooked'
  BY <1>1, <1>2, <1>3, <1>4, NoNewId DEF IdsBooked
<1>6. Correlated(<<>>, pending') /\ Named(<<>>, pending')
  BY DEF Correlated, Named
<1>7. ReplayWithdrawn'
  <2> SUFFICES ASSUME NEW e \in todo' PROVE SameInstance(e)'
    BY DEF ReplayWithdrawn
  <2>1. PICK i \in Tracked : e = [sub |-> i, gen |-> active[i].gen]
    BY DEF IoSnapshot
  <2>2. i \in Ids /\ active[i].refs > 0 /\ e.sub = i /\ e.gen = active[i].gen
    BY <2>1 DEF Tracked
  <2>3. active'[i] = [active[i] EXCEPT !.refs = 1] /\ active[i] \in [refs : Nat, gen : Nat]
    BY <2>2 DEF IoSnapshot, Collapse, TypeOK, Entry
  <2>4. QED BY <2>2, <2>3 DEF SameInstance
<1>8. QED BY <1>1, <1>3, <1>5, <1>6, <1>7 DEF WireBooks, Between

\* A replayed frame goes out ahead of what is queued: correlated, or withdrawn by
\* the unsubscribe that made its entry another instance.
LEMMA ReplayWire ==
  ASSUME TypeOK, Accounting, Fresh, WireBooks, IoReplay, ~shutdown
  PROVE  WireBooks'
<1>1. IdsBooked /\ ReplayWithdrawn /\ Typed
  BY AccountTypes DEF WireBooks
<1>2. nextReq' = nextReq + 1 /\ nextReq \in Nat
  BY DEF IoReplay, TypeOK
<1>3. UNCHANGED <<active, cmds, call>> /\ io = "replay"
  BY DEF IoReplay, threads
<1>4. PICK e \in todo, outcome \in {"written", "write_failed", "flush_failed"} :
        /\ pending' = IF outcome # "write_failed" /\ SameInstance(e)
                      THEN Correlate(pending, nextReq, e.sub, e.gen)
                      ELSE pending
        /\ IF outcome = "written"
           THEN /\ toServer' = Append(toServer, [op |-> "sub", sub |-> e.sub, req |-> nextReq])
                /\ todo' = todo \ {e}
                /\ io' = IF shutdown THEN "exited" ELSE "replay"
                /\ UNCHANGED fromServer
           ELSE /\ SocketLost
                /\ io' = "decide"
  BY DEF IoReplay
<1>5. CASE outcome # "written"
  <2>1. toServer' = <<>> /\ fromServer' = <<>> /\ io' = "decide"
    BY <1>4, <1>5 DEF SocketLost
  <2>2. QED BY <1>2, <1>3, <2>1, LossWire
<1>6. CASE outcome = "written"
  <2>1. PICK x : x = [op |-> "sub", sub |-> e.sub, req |-> nextReq]
    OBVIOUS
  <2>2. /\ e.sub \in Ids
        /\ x \in Command /\ x.op = "sub" /\ x.sub = e.sub /\ x.req = nextReq
    BY <1>1, <1>2, <2>1 DEF Command, Request, Typed
  <2>3. /\ toServer' = Append(toServer, x)
        /\ todo' \subseteq todo
        /\ io' = "replay"
        /\ fromServer' = fromServer
        /\ pending' = IF SameInstance(e) THEN Correlate(pending, nextReq, e.sub, e.gen) ELSE pending
    BY <1>4, <1>6, <2>1
  <2>4. toServer \in Seq(Command) /\ cmds \in Seq(Command)
    BY PipelineTypes
  <2>5. Correlated(Pipeline, pending) /\ Named(Pipeline, pending) /\ Distinct(Pipeline)
    BY <1>1, <1>3 DEF WireBooks, Established, IdsBooked
  <2>6. /\ Carried(Pipeline) \subseteq Nat /\ Carried(fromServer) \subseteq Nat
        /\ \A c \in Callers : Busy(c) => call[c].req \in Nat
    BY RequestIds
  <2>7. x.req \notin Carried(Pipeline)
    BY <1>1, <1>2, <2>2, <2>6 DEF IdsBooked
  <2>8. /\ DOMAIN pending \subseteq DOMAIN pending'
        /\ \A r \in DOMAIN pending : r # x.req => pending'[r] = pending[r]
        /\ \A r \in DOMAIN pending' : r \in DOMAIN pending \/ r = x.req
        /\ SameInstance(e) => x.req \in DOMAIN pending' /\ pending'[x.req].sub = x.sub
    BY <2>2, <2>3 DEF Correlate
  <2>9. x.req \in DOMAIN pending' => pending'[x.req].sub = x.sub
    <3>1. x.req \notin DOMAIN pending
      BY <1>2, <2>2 DEF Fresh, TypeOK
    <3>2. CASE SameInstance(e)
      BY <2>8, <3>2
    <3>3. CASE ~SameInstance(e)
      BY <2>3, <3>1, <3>3
    <3>4. QED BY <3>2, <3>3
  <2>10. x.req \in DOMAIN pending' \/ \E m \in DOMAIN cmds : cmds[m].op = "unsub" /\ cmds[m].sub = x.sub
    BY <1>1, <1>3, <2>2, <2>8 DEF ReplayWithdrawn
  <2>11. Pipeline' = Append(toServer, x) \o cmds
    BY <1>3, <2>3 DEF Pipeline
  <2>12. /\ Distinct(Pipeline')
         /\ Carried(Pipeline') \subseteq Carried(Pipeline) \cup {nextReq}
         /\ Correlated(Pipeline', pending') /\ Named(Pipeline', pending')
    BY ZenonT(60), <2>2, <2>4, <2>5, <2>7, <2>8, <2>9, <2>10, <2>11, InsertWire DEF Pipeline
  <2>13. IdsBooked'
    <3>1. \A c \in Callers : Busy(c)' <=> Busy(c)
      BY <1>3 DEF Busy
    <3>2. /\ nextReq' > 0 /\ Distinct(Pipeline')
          /\ \A r \in Carried(fromServer') : r < nextReq'
      BY <1>1, <1>2, <2>3, <2>6, <2>12 DEF IdsBooked
    <3>3. \A r \in Carried(Pipeline') : r > 0 /\ r < nextReq'
      BY <1>1, <1>2, <2>6, <2>12 DEF IdsBooked
    <3>4. Carried(Pipeline') \cap Carried(fromServer') = {}
      BY <1>1, <1>2, <2>3, <2>6, <2>12 DEF IdsBooked
    <3>5. \A c \in Callers : Busy(c)' => /\ call'[c].req > 0
                                         /\ call'[c].req < nextReq'
                                         /\ call'[c].req \notin Carried(Pipeline')
                                         /\ call'[c].req \notin Carried(fromServer')
      BY <1>1, <1>2, <1>3, <2>3, <2>6, <2>12, <3>1 DEF IdsBooked
    <3>6. \A c, d \in Callers : c # d /\ Busy(c)' /\ Busy(d)' => call'[c].req # call'[d].req
      BY <1>1, <1>3, <3>1 DEF IdsBooked
    <3>7. QED BY <3>2, <3>3, <3>4, <3>5, <3>6 DEF IdsBooked
  <2>14. ReplayWithdrawn'
    BY <1>1, <1>3, <2>3 DEF ReplayWithdrawn, SameInstance
  <2>15. QED BY <2>3, <2>12, <2>13, <2>14 DEF WireBooks, Between
<1>7. QED BY <1>5, <1>6

\* A frame the server reads leaves the pipeline with its id.
LEMMA ServerWire ==
  ASSUME TypeOK, WireBooks, ServerReceive
  PROVE  WireBooks'
<1>1. /\ UNCHANGED <<io, cmds, call, nextReq, pending, active, todo>>
      /\ toServer # <<>> /\ toServer' = Tail(toServer)
  BY DEF ServerReceive, tracked, threads
<1>2. IdsBooked /\ toServer \in Seq(Command) /\ cmds \in Seq(Command) /\ Pipeline \in Seq(Command)
  BY PipelineTypes DEF WireBooks
<1>3. /\ Pipeline # <<>> /\ Pipeline' = Tail(Pipeline)
      /\ Head(Pipeline) = Head(toServer)
  BY <1>1, <1>2, FirstArrives DEF Pipeline
<1>4. PICK r : r = Head(toServer).req
  OBVIOUS
<1>5. /\ Distinct(Pipeline') /\ Carried(Pipeline') \subseteq Carried(Pipeline)
      /\ Head(toServer).op # "shutdown" => r \in Carried(Pipeline) /\ r \notin Carried(Pipeline')
  BY <1>2, <1>3, <1>4, TailDistinct DEF IdsBooked
<1>6. Head(toServer).op # "shutdown"
  <2>1. toServer \in Seq(Request)
    BY DEF TypeOK
  <2>2. Head(toServer) \in Request
    BY <1>1, <2>1, HeadTailProperties
  <2>3. QED BY <2>2 DEF Request
<1>7. Carried(fromServer') \subseteq Carried(fromServer) \cup {r, NoReq}
  <2>1. CASE fromServer' = fromServer
    BY <2>1
  <2>2. CASE \E a : a \in Answers /\ a.req \in {r, NoReq} /\ fromServer' = Append(fromServer, a)
    <3>1. PICK a : a \in Answers /\ a.req \in {r, NoReq} /\ fromServer' = Append(fromServer, a)
      BY <2>2
    <3>2. fromServer \in Seq(Answers)
      BY DEF TypeOK
    <3>3. \A k \in DOMAIN fromServer' : (k \in DOMAIN fromServer /\ fromServer'[k] = fromServer[k])
                                        \/ fromServer'[k] = a
      BY <3>1, <3>2, AppendProperties, LenProperties
    <3> SUFFICES ASSUME NEW k \in DOMAIN fromServer', fromServer'[k].op # "shutdown"
                 PROVE  fromServer'[k].req \in Carried(fromServer) \cup {r, NoReq}
      BY DEF Carried
    <3>4. QED BY <3>1, <3>3 DEF Carried
  <2>3. fromServer' = fromServer \/ \E o \in {"subscribed", "rejected"}, q \in {r, NoReq} :
                                       fromServer' = Append(fromServer, [op |-> o, req |-> q])
    BY <1>4 DEF ServerReceive, Answer
  <2>4. r \in Nat
    BY <1>2, <1>5, <1>6, RequestIds
  <2>5. \A o \in {"subscribed", "rejected"}, q \in {r, NoReq} : [op |-> o, req |-> q] \in Answers
    BY <2>4 DEF Answers, NoReq
  <2>6. QED BY <2>1, <2>2, <2>3, <2>5
<1>8. IdsBooked'
  <2>1. /\ Carried(Pipeline) \subseteq Nat /\ Carried(fromServer) \subseteq Nat /\ nextReq \in Nat
        /\ \A c \in Callers : Busy(c) => call[c].req \in Nat
    BY RequestIds DEF TypeOK
  <2>2. \A c \in Callers : Busy(c)' <=> Busy(c)
    BY <1>1 DEF Busy
  <2>3. \A q \in Carried(fromServer') : q < nextReq'
    BY <1>1, <1>2, <1>5, <1>6, <1>7, <2>1 DEF IdsBooked, NoReq
  <2>4. Carried(Pipeline') \cap Carried(fromServer') = {}
    BY <1>2, <1>5, <1>6, <1>7, <2>1 DEF IdsBooked, NoReq
  <2>5. \A c \in Callers : Busy(c) => call[c].req \notin Carried(fromServer')
    <3> SUFFICES ASSUME NEW c \in Callers, Busy(c)
                 PROVE  call[c].req \notin Carried(fromServer')
      OBVIOUS
    <3>1. /\ call[c].req # 0 /\ call[c].req # r
          /\ call[c].req \notin Carried(fromServer)
      BY <1>2, <1>5, <1>6, <2>1 DEF IdsBooked
    <3>2. QED BY <1>7, <3>1 DEF NoReq
  <2>6. QED BY <1>1, <1>2, <1>5, <2>1, <2>2, <2>3, <2>4, <2>5 DEF IdsBooked
<1>9. Established => Correlated(Pipeline', pending') /\ Named(Pipeline', pending')
  BY <1>1, <1>2, <1>3, TailCorrelated DEF WireBooks
<1>10. ReplayWithdrawn'
  BY <1>1 DEF WireBooks, ReplayWithdrawn, SameInstance
<1>11. io' \in Between => toServer' = <<>>
  BY <1>1 DEF WireBooks
<1>12. QED BY <1>1, <1>8, <1>9, <1>10, <1>11 DEF WireBooks, Established

LEMMA WireStep ==
  ASSUME Accounting, Fresh, WireBooks, ~shutdown, ~shutdown', io # "last_drain", Next
  PROVE  WireBooks'
<1>1. TypeOK
  BY DEF Accounting
<1>2. CASE \E c \in Callers : CallerStep(c)
  BY <1>1, <1>2, CallStartWire, SubscribeWire, UnsubscribeWire DEF CallerStep
<1>3. CASE CloserStep
  <2>1. closer # "idle" => shutdown
    BY DEF Accounting, Books, CloserRaisedFlag
  <2>2. QED BY <1>3, <2>1 DEF CloserStep, CloseFlag, CloseSend, CloseClear, CloseAuth
<1>4. CASE SessionStep
  <2>1. CASE IoReadResponse
    BY <1>1, <2>1, AnswerWire
  <2>2. CASE IoReadLost
    <3>1. /\ toServer' = <<>> /\ fromServer' = <<>> /\ io' = "decide"
          /\ UNCHANGED <<cmds, nextReq, call>>
      BY <2>2 DEF IoReadLost, SocketLost, threads
    <3>2. QED BY <1>1, <3>1, LossWire
  <2>3. CASE IoReadPermanent
    BY <2>3 DEF IoReadPermanent
  <2>4. CASE IoDrain
    <3>1. UNCHANGED <<active, pending, nextReq, call, todo>> /\ io = "drain"
      BY <2>4 DEF IoDrain, tracked, threads
    <3>2. CASE WriteFrame /\ UNCHANGED io
      BY <1>1, <3>1, <3>2, WriteWire DEF WriteFrame
    <3>3. CASE WriteFails /\ io' = "decide"
      <4>1. toServer' = <<>> /\ fromServer' = <<>> /\ cmds # <<>> /\ cmds' = Tail(cmds)
        BY <3>3 DEF WriteFails, SocketLost
      <4>2. QED BY <1>1, <3>1, <3>3, <4>1, LossWire
    <3>4. CASE io' = "top" /\ UNCHANGED <<cmds, socket>>
      BY <1>1, <3>1, <3>4, QuietWire DEF Established, Between, socket
    <3>5. QED BY <2>4, <3>2, <3>3, <3>4 DEF IoDrain, WriteStop
  <2>5. CASE IoTop
    BY <1>1, <2>5, QuietWire DEF IoTop, Established, Between, socket, tracked, threads
  <2>6. CASE IoReadOther
    BY <1>1, <2>6, QuietWire DEF IoReadOther, Established, Between, socket, tracked, threads
  <2>7. CASE IoReadMetadata
    BY <1>1, <2>7, QuietWire DEF IoReadMetadata, Established, Between, socket, tracked, threads
  <2>8. QED BY <1>4, <2>1, <2>2, <2>3, <2>4, <2>5, <2>6, <2>7 DEF SessionStep
<1>5. CASE RedialStep
  <2>1. CASE IoDecide
    BY <1>1, <2>1, QuietWire DEF IoDecide, Established, Between, socket, tracked, threads
  <2>2. CASE IoCooldown
    <3>1. /\ UNCHANGED <<toServer, fromServer, nextReq, call>>
          /\ io = "cooldown" /\ io' = "dial" /\ cmds' = <<>>
      BY <2>2 DEF IoCooldown, DrainStale, socket, threads
    <3>2. toServer' = <<>>
      BY <3>1 DEF WireBooks, Between
    <3>3. QED BY <1>1, <3>1, <3>2, LossWire
  <2>3. CASE IoDial
    BY <1>1, <2>3, QuietWire DEF IoDial, Established, Between, socket, tracked, threads
  <2>4. CASE IoSnapshot
    BY <1>1, <2>4, SnapshotWire
  <2>5. CASE IoReplay
    BY <1>1, <2>5, ReplayWire
  <2>6. CASE IoReplayDone
    BY <1>1, <2>6, QuietWire DEF IoReplayDone, Established, Between, socket, tracked, threads
  <2>7. CASE IoQueued
    <3>1. UNCHANGED <<active, pending, nextReq, call, todo>> /\ io = "queued"
      BY <2>7 DEF IoQueued, tracked, threads
    <3>2. CASE WriteFrame /\ UNCHANGED io
      BY <1>1, <3>1, <3>2, WriteWire DEF WriteFrame
    <3>3. CASE WriteFails /\ io' = "decide"
      <4>1. toServer' = <<>> /\ fromServer' = <<>> /\ cmds # <<>> /\ cmds' = Tail(cmds)
        BY <3>3 DEF WriteFails, SocketLost
      <4>2. QED BY <1>1, <3>1, <3>3, <4>1, LossWire
    <3>4. CASE io' = "announce" /\ UNCHANGED <<cmds, socket>>
      BY <1>1, <3>1, <3>4, QuietWire DEF Established, Between, socket
    <3>5. QED BY <2>7, <3>2, <3>3, <3>4 DEF IoQueued, WriteStop
  <2>8. CASE IoAnnounce
    BY <1>1, <2>8, QuietWire DEF IoAnnounce, Established, Between, socket, tracked, threads
  <2>9. QED BY <1>5, <2>1, <2>2, <2>3, <2>4, <2>5, <2>6, <2>7, <2>8 DEF RedialStep
<1>6. CASE ServerReceive
  BY <1>1, <1>6, ServerWire
<1>7. QED BY <1>2, <1>3, <1>4, <1>5, <1>6 DEF Next

LEMMA LastDrainStays ==
  ASSUME io = "last_drain" => shutdown, [Next]_vars
  PROVE  io' = "last_drain" => shutdown'
<1>1. CASE \E c \in Callers : CallerStep(c)
  BY <1>1 DEF CallerStep, CallStart, TrackInflightSubscribe, SendThenUntrack, flags
<1>2. CASE CloserStep
  BY <1>2 DEF CloserStep, CloseFlag, CloseSend, CloseClear, CloseAuth, flags
<1>3. CASE SessionStep
  BY <1>3 DEF SessionStep, IoTop, IoReadResponse, IoReadOther, IoReadMetadata, IoReadLost,
     IoReadPermanent, IoDrain, flags
<1>4. CASE RedialStep
  BY <1>4 DEF RedialStep, IoDecide, IoCooldown, IoDial, IoSnapshot, IoReplay, IoReplayDone,
     IoQueued, IoAnnounce
<1>5. CASE ServerReceive \/ UNCHANGED vars
  BY <1>5 DEF ServerReceive, vars, flags
<1>6. QED BY <1>1, <1>2, <1>3, <1>4, <1>5 DEF Next

LEMMA WiredStep ==
  ASSUME Accounting, Fresh, Wired, [Next]_vars
  PROVE  Wired'
<1>1. io' = "last_drain" => shutdown'
  BY LastDrainStays DEF Wired
<1>2. ASSUME ~shutdown' PROVE WireBooks'
  <2>1. ~shutdown /\ WireBooks /\ io # "last_drain"
    BY <1>2, FlagStays DEF Wired
  <2>2. CASE Next
    BY <1>2, <2>1, <2>2, WireStep
  <2>3. CASE UNCHANGED vars
    <3>1. TypeOK
      BY DEF Accounting
    <3>2. UNCHANGED <<io, toServer, cmds, fromServer, call, nextReq, pending, active, todo>>
      BY <2>3 DEF vars, tracked, socket, threads
    <3>3. QED BY <2>1, <3>1, <3>2, QuietWire DEF Established
  <2>4. QED BY <2>2, <2>3
<1>3. QED BY <1>1, <1>2 DEF Wired

LEMMA InitWired == Init => Wired
<1> SUFFICES ASSUME Init PROVE Wired
  OBVIOUS
<1>1. /\ io = "top" /\ toServer = <<>> /\ cmds = <<>> /\ fromServer = <<>>
      /\ nextReq = 1 /\ \A c \in Callers : ~Busy(c)
  BY DEF Init, Busy, Idle
<1>2. Pipeline = <<>>
  BY <1>1 DEF Pipeline
<1>3. IdsBooked
  BY <1>1, <1>2 DEF IdsBooked, Distinct, Carried
<1>4. Correlated(Pipeline, pending) /\ Named(Pipeline, pending)
  BY <1>2 DEF Correlated, Named
<1>5. QED BY <1>1, <1>3, <1>4 DEF Wired, WireBooks, ReplayWithdrawn, Between

\* No subscribe frame is live but uncorrelated on the wire: until it is answered it
\* can be rejected by its req_id, unless an unsubscribe follows it; whatever the
\* threads, the replays and the sweeps of stale correlations do.
THEOREM SubscribesAreCorrelated == SafetySpec => []NoUncorrelatedSubscribe
<1>1. Init => Wired
  BY InitWired
<1>2. Accounting /\ Fresh /\ Wired /\ [Next]_vars => Wired'
  BY WiredStep
<1>3. Wired => NoUncorrelatedSubscribe
  BY DEF Wired, WireBooks, Correlated, Withdrawn, NoUncorrelatedSubscribe
<1>4. QED BY <1>1, <1>2, <1>3, FreshIds, AccountingInvariant, PTL DEF SafetySpec

------------------------------------------------------------------------------
(* The agreement with the server.  What the queues hold, as sets: the ids and  *)
(* identities asked for, the identities withdrawn, the ids refused.            *)

Items(q) == {q[k] : k \in DOMAIN q}
SubIds(q)  == {x.req : x \in {y \in Items(q) : y.op = "sub"}}
Asked(q)   == {x.sub : x \in {y \in Items(q) : y.op = "sub"}}
Unsubs(q)  == {x.sub : x \in {y \in Items(q) : y.op = "unsub"}}
Refused(q) == {x.req : x \in {y \in Items(q) : y.op = "rejected"}}

LEMMA ItemsEmpty == Items(<<>>) = {}
BY DEF Items

LEMMA ItemsAppend ==
  ASSUME NEW T, NEW q \in Seq(T), NEW x \in T
  PROVE  Items(Append(q, x)) = Items(q) \cup {x}
<1>1. /\ DOMAIN q = 1..Len(q) /\ Len(q) \in Nat
      /\ DOMAIN Append(q, x) = 1..(Len(q) + 1)
      /\ \A k \in 1..Len(q) : Append(q, x)[k] = q[k]
      /\ Append(q, x)[Len(q) + 1] = x
  BY AppendProperties, LenProperties
<1>2. \A k \in DOMAIN Append(q, x) : \/ k \in DOMAIN q /\ Append(q, x)[k] = q[k]
                                     \/ Append(q, x)[k] = x
  BY <1>1
<1>3. \A k \in DOMAIN q : k \in DOMAIN Append(q, x) /\ Append(q, x)[k] = q[k]
  BY <1>1
<1>4. Len(q) + 1 \in DOMAIN Append(q, x)
  BY <1>1
<1>5. Items(Append(q, x)) \subseteq Items(q) \cup {x}
  BY <1>2 DEF Items
<1>6. Items(q) \cup {x} \subseteq Items(Append(q, x))
  BY <1>1, <1>3, <1>4 DEF Items
<1>7. QED BY <1>5, <1>6

LEMMA ItemsTail ==
  ASSUME NEW T, NEW q \in Seq(T), q # <<>>
  PROVE  Items(q) = {Head(q)} \cup Items(Tail(q))
<1>1. /\ Len(q) \in Nat \ {0} /\ DOMAIN q = 1..Len(q)
      /\ DOMAIN Tail(q) = 1..(Len(q) - 1)
      /\ \A k \in 1..(Len(q) - 1) : Tail(q)[k] = q[k + 1]
      /\ Head(q) = q[1]
  BY HeadTailProperties, LenProperties, EmptySeq
<1>2. ASSUME NEW k \in DOMAIN q PROVE q[k] \in {Head(q)} \cup Items(Tail(q))
  <2>1. CASE k = 1
    BY <1>1, <2>1
  <2>2. CASE k # 1
    <3>1. k - 1 \in DOMAIN Tail(q) /\ Tail(q)[k - 1] = q[k]
      BY <1>1, <2>2
    <3>2. QED BY <3>1 DEF Items
  <2>3. QED BY <2>1, <2>2
<1>3. ASSUME NEW k \in DOMAIN Tail(q) PROVE Tail(q)[k] \in Items(q)
  <2>1. k + 1 \in DOMAIN q /\ Tail(q)[k] = q[k + 1]
    BY <1>1
  <2>2. QED BY <2>1 DEF Items
<1>4. Head(q) \in Items(q)
  BY <1>1 DEF Items
<1>5. Items(q) \subseteq {Head(q)} \cup Items(Tail(q))
  BY <1>2 DEF Items
<1>6. Items(Tail(q)) \subseteq Items(q)
  BY <1>3 DEF Items
<1>7. QED BY <1>4, <1>5, <1>6

LEMMA ItemsConcat ==
  ASSUME NEW T, NEW s \in Seq(T), NEW t \in Seq(T)
  PROVE  Items(s \o t) = Items(s) \cup Items(t)
<1> DEFINE q == s \o t
<1>1. /\ Len(s) \in Nat /\ Len(t) \in Nat
      /\ DOMAIN t = 1..Len(t) /\ DOMAIN s = 1..Len(s)
      /\ DOMAIN q = 1..(Len(s) + Len(t))
      /\ \A k \in 1..(Len(s) + Len(t)) : q[k] = IF k <= Len(s) THEN s[k] ELSE t[k - Len(s)]
  BY ConcatProperties, LenProperties
<1> HIDE DEF q
<1>2. ASSUME NEW k \in DOMAIN q PROVE q[k] \in Items(s) \cup Items(t)
  <2>1. CASE k <= Len(s)
    <3>1. k \in DOMAIN s /\ q[k] = s[k]
      BY <1>1, <2>1
    <3>2. QED BY <3>1 DEF Items
  <2>2. CASE ~(k <= Len(s))
    <3>1. k - Len(s) \in DOMAIN t /\ q[k] = t[k - Len(s)]
      BY <1>1, <2>2
    <3>2. QED BY <3>1 DEF Items
  <2>3. QED BY <2>1, <2>2
<1>3. \A k \in DOMAIN s : k \in DOMAIN q /\ q[k] = s[k]
  BY <1>1
<1>4. ASSUME NEW k \in DOMAIN t PROVE t[k] \in Items(q)
  <2>1. k + Len(s) \in DOMAIN q /\ q[k + Len(s)] = t[k]
    BY <1>1
  <2>2. QED BY <2>1 DEF Items
<1>5. Items(q) \subseteq Items(s) \cup Items(t)
  BY <1>2 DEF Items
<1>6. Items(s) \subseteq Items(q)
  BY <1>3 DEF Items
<1>7. Items(t) \subseteq Items(q)
  BY <1>4 DEF Items
<1>8. QED BY <1>5, <1>6, <1>7 DEF q

\* The pipeline and the parts it is made of.
LEMMA PipelineItems ==
  ASSUME TypeOK
  PROVE  Items(Pipeline) = Items(toServer) \cup Items(cmds)
BY PipelineTypes, ItemsConcat DEF Pipeline

LEMMA IdsCarried ==
  ASSUME NEW q
  PROVE  SubIds(q) \subseteq Carried(q) /\ Refused(q) \subseteq Carried(q)
BY DEF SubIds, Refused, Carried, Items

\* A correlated frame of a sequence names the identity it asks for.
LEMMA NamedBy ==
  ASSUME NEW q, NEW f, Named(q, f), NEW x \in Items(q), x.op = "sub", x.req \in DOMAIN f
  PROVE  f[x.req].sub = x.sub
BY DEF Items, Named

------------------------------------------------------------------------------
\* A subscribe that an unsubscribe follows is not correlated any more.
Forgotten(q, f) ==
    \A k \in DOMAIN q : q[k].op = "sub" /\ Withdrawn(q, k) => q[k].req \notin DOMAIN f

LEMMA AppendForgotten ==
  ASSUME NEW q \in Seq(Command), NEW x \in Command, NEW f, NEW g, Forgotten(q, f),
         \A k \in DOMAIN q : q[k].op = "sub" /\ q[k].req \in DOMAIN g =>
            q[k].req \in DOMAIN f /\ ~(x.op = "unsub" /\ x.sub = q[k].sub)
  PROVE  Forgotten(Append(q, x), g)
<1> DEFINE h == Append(q, x)
<1>1. /\ DOMAIN q = 1..Len(q) /\ Len(q) \in Nat
      /\ DOMAIN h = 1..(Len(q) + 1) /\ Len(h) = Len(q) + 1
      /\ \A k \in 1..Len(q) : h[k] = q[k]
      /\ h[Len(q) + 1] = x
  BY AppendProperties, LenProperties
<1> HIDE DEF h
<1>2. ASSUME NEW k \in DOMAIN h, h[k].op = "sub", Withdrawn(h, k) PROVE h[k].req \notin DOMAIN g
  <2>1. PICK m \in k+1..Len(h) : h[m].op = "unsub" /\ h[m].sub = h[k].sub
    BY <1>2 DEF Withdrawn
  <2>2. k \in DOMAIN q /\ h[k] = q[k]
    BY <1>1, <2>1
  <2>3. CASE m = Len(q) + 1
    BY <1>1, <1>2, <2>1, <2>2, <2>3
  <2>4. CASE m # Len(q) + 1
    <3>1. m \in k+1..Len(q) /\ h[m] = q[m]
      BY <1>1, <2>1, <2>2, <2>4
    <3>2. Withdrawn(q, k)
      BY <2>1, <2>2, <3>1 DEF Withdrawn
    <3>3. QED BY <1>2, <2>2, <3>2 DEF Forgotten
  <2>5. QED BY <2>3, <2>4
<1>3. QED BY <1>2 DEF Forgotten, h

LEMMA TailForgotten ==
  ASSUME NEW q \in Seq(Command), q # <<>>, NEW f, Forgotten(q, f)
  PROVE  /\ Forgotten(Tail(q), f)
         /\ Head(q).op = "sub" /\ Head(q).sub \in Unsubs(Tail(q)) => Head(q).req \notin DOMAIN f
<1> DEFINE h == Tail(q)
<1>1. /\ Len(q) \in Nat \ {0} /\ DOMAIN q = 1..Len(q)
      /\ DOMAIN h = 1..(Len(q) - 1) /\ Len(h) = Len(q) - 1
      /\ \A k \in 1..(Len(q) - 1) : h[k] = q[k + 1]
      /\ Head(q) = q[1]
  BY HeadTailProperties, LenProperties, EmptySeq
<1> HIDE DEF h
<1>2. ASSUME NEW k \in DOMAIN h, h[k].op = "sub", Withdrawn(h, k) PROVE h[k].req \notin DOMAIN f
  <2>1. PICK m \in k+1..Len(h) : h[m].op = "unsub" /\ h[m].sub = h[k].sub
    BY <1>2 DEF Withdrawn
  <2>2. k \in Nat /\ k + 1 \in DOMAIN q /\ h[k] = q[k + 1]
    BY <1>1
  <2>3. m + 1 \in (k+1)+1..Len(q) /\ h[m] = q[m + 1]
    BY <1>1, <2>1, <2>2
  <2>4. Withdrawn(q, k + 1)
    BY <2>1, <2>2, <2>3 DEF Withdrawn
  <2>5. QED BY <1>2, <2>2, <2>4 DEF Forgotten
<1>3. ASSUME Head(q).op = "sub", Head(q).sub \in Unsubs(h) PROVE Head(q).req \notin DOMAIN f
  <2>1. PICK k \in DOMAIN h : h[k].op = "unsub" /\ h[k].sub = Head(q).sub
    BY <1>3 DEF Unsubs, Items
  <2>2. k + 1 \in 1+1..Len(q) /\ h[k] = q[k + 1] /\ 1 \in DOMAIN q
    BY <1>1
  <2>3. Withdrawn(q, 1)
    BY <1>1, <2>1, <2>2 DEF Withdrawn
  <2>4. QED BY <1>1, <1>3, <2>2, <2>3 DEF Forgotten
<1>4. QED BY <1>2, <1>3 DEF Forgotten, h

LEMMA InsertForgotten ==
  ASSUME NEW s \in Seq(Command), NEW t \in Seq(Command), NEW x \in Command, x.op = "sub",
         NEW f, NEW g, Forgotten(s \o t, f),
         \A k \in DOMAIN (s \o t) : (s \o t)[k].req \in DOMAIN g /\ (s \o t)[k].op = "sub" =>
            (s \o t)[k].req \in DOMAIN f,
         x.req \in DOMAIN g => x.sub \notin Unsubs(t)
  PROVE  Forgotten(Append(s, x) \o t, g)
<1> DEFINE q == s \o t
           h == Append(s, x) \o t
           old(k) == IF k <= Len(s) THEN k ELSE k - 1
<1>1. /\ Len(s) \in Nat /\ Len(t) \in Nat /\ DOMAIN t = 1..Len(t)
      /\ DOMAIN q = 1..(Len(s) + Len(t)) /\ Len(q) = Len(s) + Len(t)
      /\ \A k \in 1..(Len(s) + Len(t)) : q[k] = IF k <= Len(s) THEN s[k] ELSE t[k - Len(s)]
  BY ConcatProperties, LenProperties
<1>2. /\ Append(s, x) \in Seq(Command) /\ Len(Append(s, x)) = Len(s) + 1
      /\ \A k \in 1..Len(s) : Append(s, x)[k] = s[k]
      /\ Append(s, x)[Len(s) + 1] = x
  BY AppendProperties
<1>3. /\ DOMAIN h = 1..(Len(s) + 1 + Len(t)) /\ Len(h) = Len(s) + 1 + Len(t)
      /\ \A k \in 1..(Len(s) + 1 + Len(t)) :
           h[k] = IF k <= Len(s) + 1 THEN Append(s, x)[k] ELSE t[k - (Len(s) + 1)]
  BY <1>2, ConcatProperties, LenProperties
<1>4. \A k \in DOMAIN h : /\ k \in Nat
                          /\ \/ k = Len(s) + 1 /\ h[k] = x
                             \/ k # Len(s) + 1 /\ old(k) \in DOMAIN q /\ h[k] = q[old(k)]
  BY SMTT(30), <1>1, <1>2, <1>3
<1>5. ASSUME NEW k \in DOMAIN h, NEW m \in k+1..Len(h), k # Len(s) + 1, m # Len(s) + 1
      PROVE  old(m) \in old(k)+1..Len(q) /\ m \in DOMAIN h
  BY <1>1, <1>3, <1>5
<1>6. ASSUME NEW m \in (Len(s)+1)+1..Len(h)
      PROVE  m - (Len(s) + 1) \in DOMAIN t /\ h[m] = t[m - (Len(s) + 1)]
  BY <1>1, <1>3, <1>6
<1> HIDE DEF q, h, old
<1>7. ASSUME NEW k \in DOMAIN h, h[k].op = "sub", Withdrawn(h, k) PROVE h[k].req \notin DOMAIN g
  <2>1. PICK m \in k+1..Len(h) : h[m].op = "unsub" /\ h[m].sub = h[k].sub
    BY <1>7 DEF Withdrawn
  <2>2. CASE k = Len(s) + 1
    <3>1. h[k] = x
      BY <1>4, <2>2
    <3>2. PICK n \in DOMAIN t : t[n].op = "unsub" /\ t[n].sub = x.sub
      BY <1>6, <2>1, <2>2, <3>1
    <3>3. x.sub \in Unsubs(t)
      BY <3>2 DEF Unsubs, Items
    <3>4. QED BY <3>1, <3>3
  <2>3. CASE k # Len(s) + 1
    <3>1. m \in DOMAIN h
      BY <1>1, <1>3, <1>4, <2>1
    <3>2. m # Len(s) + 1
      <4>1. h[m] # x
        BY <2>1
      <4>2. QED BY <1>2, <1>3, <1>1, <4>1
    <3>3. old(m) \in old(k)+1..Len(q) /\ h[m] = q[old(m)]
      BY <1>4, <1>5, <2>3, <3>1, <3>2
    <3>4. old(k) \in DOMAIN q /\ h[k] = q[old(k)]
      BY <1>4, <2>3
    <3>5. Withdrawn(q, old(k))
      BY <2>1, <3>3, <3>4 DEF Withdrawn
    <3>6. q[old(k)].req \notin DOMAIN f
      BY <1>7, <3>4, <3>5 DEF Forgotten, q
    <3>7. QED BY <1>7, <3>4, <3>6 DEF q
  <2>4. QED BY <2>2, <2>3
<1>8. QED BY <1>7 DEF Forgotten, h

------------------------------------------------------------------------------
\* The correlations of an identity that a refusal may still come back for.
Risky(i) == PendingFor(i) \cap (SubIds(Pipeline) \cup Refused(fromServer))

\* The server streams the identity, and nothing on its way will stop that.
Streams(i) == i \in serverSubs /\ i \notin Unsubs(Pipeline)

\* One, if the identity is still to be replayed.
Due(i) == IF \E e \in todo : e.sub = i /\ SameInstance(e) THEN 1 ELSE 0

\* An identity that is streamed has a reference no refusal can take; one that is
\* not has none but those that may be refused, or are still to be asked for.
Fits(i) ==
    /\ Streams(i) => Cardinality(Risky(i)) < active[i].refs
    /\ ~Uncorrelated => (Streams(i) \/ active[i].refs <= Cardinality(Risky(i)) + Due(i))

\* An entry of the replay list has not been asked for on this socket, has no other
\* entry, and is another instance if it was withdrawn.
ReplayAhead ==
    /\ \A x, e \in todo : x.sub = e.sub => x = e
    /\ io = "replay" =>
         \A e \in todo : /\ e.sub \notin serverSubs
                         /\ e.sub \notin Asked(toServer)
                         /\ SameInstance(e) => e.sub \notin Unsubs(cmds)

AgreeBooks ==
    /\ Established => \A i \in Ids : Fits(i)
    /\ Established => Forgotten(Pipeline, pending)
    /\ io \in Between => fromServer = <<>> /\ serverSubs = {}
    /\ ReplayAhead
    /\ ~Uncorrelated => Distinct(fromServer)
    /\ 0 \notin DOMAIN pending

\* The refusals at risk are among the answers owed.
LEMMA RiskyCount ==
  ASSUME Books, NEW i
  PROVE  /\ Risky(i) \subseteq PendingFor(i)
         /\ IsFiniteSet(Risky(i))
         /\ Cardinality(Risky(i)) \in Nat
         /\ Cardinality(Risky(i)) <= Cardinality(PendingFor(i))
         /\ Cardinality(PendingFor(i)) \in Nat
         /\ Due(i) \in {0, 1}
<1>1. IsFiniteSet(PendingFor(i)) /\ Cardinality(PendingFor(i)) \in Nat
  BY OwedNat
<1>2. Risky(i) \subseteq PendingFor(i)
  BY DEF Risky
<1>3. QED BY <1>1, <1>2, FS_Subset, FS_CardinalityType DEF Due

\* An identity that a step does not concern keeps fitting.
LEMMA FitsKept ==
  ASSUME NEW i \in Ids, Fits(i),
         active'[i].refs = active[i].refs, Risky(i)' = Risky(i),
         Streams(i)' <=> Streams(i), Due(i)' = Due(i)
  PROVE  Fits(i)'
BY DEF Fits

LEMMA QuietAgree ==
  ASSUME AgreeBooks,
         UNCHANGED <<toServer, cmds, fromServer, serverSubs, pending, active, todo>>,
         io' \in Between => io \in Between,
         Established' => Established,
         io' = "replay" => io = "replay"
  PROVE  AgreeBooks'
<1>1. Pipeline' = Pipeline
  BY DEF Pipeline
<1>2. \A i \in Ids : /\ Risky(i)' = Risky(i) /\ (Streams(i)' <=> Streams(i)) /\ Due(i)' = Due(i)
                     /\ active'[i].refs = active[i].refs
  BY <1>1 DEF Risky, Streams, Due, SameInstance, PendingFor
<1>3. Established' => \A i \in Ids : Fits(i)'
  BY <1>2, FitsKept DEF AgreeBooks
<1>4. ReplayAhead'
  BY DEF AgreeBooks, ReplayAhead, SameInstance
<1>5. QED BY <1>1, <1>3, <1>4 DEF AgreeBooks

LEMMA LossAgree ==
  ASSUME AgreeBooks, fromServer' = <<>>, serverSubs' = {}, todo' \subseteq todo,
         0 \notin DOMAIN pending',
         io' \notin {"top", "read", "drain", "replay", "queued", "announce"}
  PROVE  AgreeBooks'
<1>1. Distinct(<<>>)
  BY DEF Distinct
<1>2. ReplayAhead'
  BY DEF AgreeBooks, ReplayAhead
<1>3. QED BY <1>1, <1>2 DEF AgreeBooks, Established

LEMMA WriteAgree ==
  ASSUME TypeOK, AgreeBooks, cmds # <<>>, cmds' = Tail(cmds),
         toServer' = Append(toServer, Head(cmds)),
         UNCHANGED <<fromServer, serverSubs, pending, active, todo, io>>,
         io \in {"drain", "queued"}
  PROVE  AgreeBooks'
<1>1. Pipeline' = Pipeline
  BY PipelineTypes, WriteMovesNothing DEF Pipeline
<1>2. \A i \in Ids : /\ Risky(i)' = Risky(i) /\ (Streams(i)' <=> Streams(i)) /\ Due(i)' = Due(i)
                     /\ active'[i].refs = active[i].refs
  BY <1>1 DEF Risky, Streams, Due, SameInstance, PendingFor
<1>3. \A i \in Ids : Fits(i)'
  BY <1>2, FitsKept DEF AgreeBooks, Established
<1>4. ReplayAhead'
  BY DEF AgreeBooks, ReplayAhead
<1>5. QED BY <1>1, <1>3, <1>4 DEF AgreeBooks, Established, Between

\* A subscribe adds a reference and a refusal that may come back for it.
LEMMA SubscribeAgree ==
  ASSUME Accounting, WireBooks, AgreeBooks, NEW c \in Callers, TrackInflightSubscribe(c)
  PROVE  AgreeBooks'
<1>1. TypeOK /\ Books /\ IdsBooked /\ Typed
  BY AccountTypes DEF Accounting, WireBooks
<1>2. PICK i, r : i \in Ids /\ r \in Nat /\ i = call[c].sub /\ r = call[c].req
  BY <1>1 DEF TrackInflightSubscribe, TypeOK, Idle, Request
<1>3. UNCHANGED <<io, toServer, fromServer, serverSubs, todo>>
  BY DEF TrackInflightSubscribe, socket
<1>4. call[c].op = "sub" /\ Busy(c)
  BY DEF TrackInflightSubscribe, Busy
<1>5. PICK stale \in SUBSET Abandoned :
        \/ /\ IncActive(i)
           /\ pending' = Correlate(Without(pending, stale), r, i, active'[i].gen)
           /\ cmds' = Append(cmds, [op |-> "sub", sub |-> i, req |-> r])
        \/ /\ active' = active
           /\ pending' = Without(pending, stale)
           /\ cmds' = cmds
  BY <1>2 DEF TrackInflightSubscribe, RollBack
<1>6. \A q \in SubIds(Pipeline) \cup Refused(fromServer) : q \notin stale
  <2>1. SubIds(Pipeline) \cup Refused(fromServer) \subseteq Carried(Pipeline) \cup Carried(fromServer)
    BY IdsCarried
  <2>2. QED BY <1>1, <2>1, PipelineCarries DEF Abandoned
<1>7. /\ r \notin SubIds(Pipeline) \cup Refused(fromServer)
      /\ r # 0
      /\ \A k \in DOMAIN Pipeline : Pipeline[k].op = "sub" => Pipeline[k].req # r
  <2>1. r \notin Carried(Pipeline) /\ r \notin Carried(fromServer) /\ r > 0
    BY <1>1, <1>2, <1>4 DEF IdsBooked
  <2>2. \A k \in DOMAIN Pipeline : Pipeline[k].op = "sub" => Pipeline[k].req \in Carried(Pipeline)
    BY DEF Carried
  <2>3. QED BY <1>2, <2>1, <2>2, IdsCarried
<1>8. ~Uncorrelated => Distinct(fromServer')
  BY <1>3 DEF AgreeBooks
<1>9. CASE /\ IncActive(i)
           /\ pending' = Correlate(Without(pending, stale), r, i, active'[i].gen)
           /\ cmds' = Append(cmds, [op |-> "sub", sub |-> i, req |-> r])
  <2>1. PICK x : x = [op |-> "sub", sub |-> i, req |-> r]
    OBVIOUS
  <2>2. x \in Command /\ x.op = "sub" /\ x.req = r /\ x.sub = i
    BY <1>2, <2>1 DEF Command, Request
  <2>3. Pipeline' = Append(Pipeline, x) /\ Pipeline \in Seq(Command) /\ cmds \in Seq(Command)
    BY <1>1, <1>3, <1>9, <2>1, <2>2, QueueLast, PipelineTypes
  <2>4. Items(Pipeline') = Items(Pipeline) \cup {x} /\ Items(cmds') = Items(cmds) \cup {x}
    BY <1>9, <2>1, <2>2, <2>3, ItemsAppend
  <2>5. /\ SubIds(Pipeline') = SubIds(Pipeline) \cup {r}
        /\ Unsubs(Pipeline') = Unsubs(Pipeline)
        /\ Unsubs(cmds') = Unsubs(cmds)
    BY <2>2, <2>4 DEF SubIds, Unsubs
  <2>6. /\ DOMAIN pending' = (DOMAIN pending \ stale) \cup {r}
        /\ pending'[r].sub = i
        /\ \A q \in DOMAIN pending \ stale : q # r => pending'[q] = pending[q]
    BY <1>9 DEF Correlate, Without
  <2>7. /\ \A j \in Ids \ {i} : active'[j] = active[j]
        /\ active'[i].refs = active[i].refs + 1
        /\ active'[i].gen = IF active[i].refs > 0 THEN active[i].gen ELSE nextGen
    BY <1>1, <1>2, <1>9, IncActiveEffect
  <2>8. \A e \in todo : SameInstance(e)' <=> SameInstance(e)
    <3> SUFFICES ASSUME NEW e \in todo PROVE SameInstance(e)' <=> SameInstance(e)
      OBVIOUS
    <3>1. e.sub \in Ids /\ e.gen \in Nat /\ e.gen < nextGen
      BY <1>1 DEF Typed, Books, GensBelow
    <3>2. QED BY <1>1, <1>2, <2>7, <3>1 DEF SameInstance, Typed
  <2>9. \A j \in Ids : Due(j)' = Due(j) /\ (Streams(j)' <=> Streams(j))
    BY <1>3, <2>5, <2>8 DEF Due, Streams
  <2>10. \A j \in Ids \ {i} : Risky(j)' = Risky(j)
    <3> TAKE j \in Ids \ {i}
    <3>1. PendingFor(j)' \cap (SubIds(Pipeline) \cup {r} \cup Refused(fromServer))
            = PendingFor(j) \cap (SubIds(Pipeline) \cup Refused(fromServer))
      BY <1>6, <1>7, <2>6 DEF PendingFor, For
    <3>2. QED BY <1>3, <2>5, <3>1 DEF Risky
  <2>11. Risky(i)' = Risky(i) \cup {r} /\ r \notin Risky(i)
    <3>1. PendingFor(i)' \cap (SubIds(Pipeline) \cup {r} \cup Refused(fromServer))
            = (PendingFor(i) \cap (SubIds(Pipeline) \cup Refused(fromServer))) \cup {r}
      BY <1>6, <1>7, <2>6 DEF PendingFor, For
    <3>2. QED BY <1>3, <1>7, <2>5, <3>1 DEF Risky
  <2>12. /\ Cardinality(Risky(i)') = Cardinality(Risky(i)) + 1
         /\ Cardinality(Risky(i)) \in Nat /\ Due(i) \in {0, 1}
    BY <1>1, <2>11, RiskyCount, FS_AddElement
  <2>13. Established => \A j \in Ids : Fits(j)'
    <3> SUFFICES ASSUME Established, NEW j \in Ids PROVE Fits(j)'
      OBVIOUS
    <3>1. Fits(j)
      BY DEF AgreeBooks
    <3>2. CASE j # i
      BY <2>7, <2>9, <2>10, <3>1, <3>2, FitsKept
    <3>3. CASE j = i
      <4>1. /\ Streams(i) => Cardinality(Risky(i)) < active[i].refs
            /\ ~Uncorrelated => (Streams(i) \/ active[i].refs <= Cardinality(Risky(i)) + Due(i))
            /\ active[i].refs \in Nat
        BY <1>1, <1>2, <3>1, <3>3 DEF Fits, Typed
      <4>2. /\ Streams(i)' => Cardinality(Risky(i)') < active'[i].refs
            /\ ~Uncorrelated => (Streams(i)' \/ active'[i].refs <= Cardinality(Risky(i)') + Due(i)')
        BY <1>2, <2>7, <2>9, <2>12, <4>1
      <4>3. QED BY <3>3, <4>2 DEF Fits
    <3>4. QED BY <3>2, <3>3
  <2>14. Established => Forgotten(Pipeline', pending')
    <3>1. \A k \in DOMAIN Pipeline : Pipeline[k].op = "sub" /\ Pipeline[k].req \in DOMAIN pending' =>
            Pipeline[k].req \in DOMAIN pending /\ ~(x.op = "unsub" /\ x.sub = Pipeline[k].sub)
      BY <1>7, <2>2, <2>6
    <3>2. ASSUME Forgotten(Pipeline, pending) PROVE Forgotten(Append(Pipeline, x), pending')
      BY <2>2, <2>3, <3>1, <3>2, AppendForgotten
    <3>3. Established => Forgotten(Pipeline, pending)
      BY DEF AgreeBooks
    <3>4. QED BY <2>3, <3>2, <3>3
  <2>15. ReplayAhead'
    BY <1>3, <2>5, <2>8 DEF AgreeBooks, ReplayAhead
  <2>16. 0 \notin DOMAIN pending'
    BY <1>7, <2>6 DEF AgreeBooks
  <2>17. QED BY <1>3, <1>8, <2>13, <2>14, <2>15, <2>16 DEF AgreeBooks, Established
<1>10. CASE /\ active' = active
            /\ pending' = Without(pending, stale)
            /\ cmds' = cmds
  <2>1. Pipeline' = Pipeline
    BY <1>3, <1>10 DEF Pipeline
  <2>2. /\ DOMAIN pending' = DOMAIN pending \ stale
        /\ \A q \in DOMAIN pending \ stale : pending'[q] = pending[q]
    BY <1>10 DEF Without
  <2>3. \A j \in Ids : Risky(j)' = Risky(j)
    <3> TAKE j \in Ids
    <3>1. PendingFor(j)' \cap (SubIds(Pipeline) \cup Refused(fromServer))
            = PendingFor(j) \cap (SubIds(Pipeline) \cup Refused(fromServer))
      BY <1>6, <2>2 DEF PendingFor, For
    <3>2. QED BY <1>3, <2>1, <3>1 DEF Risky
  <2>4. \A j \in Ids : Due(j)' = Due(j) /\ (Streams(j)' <=> Streams(j)) /\ active'[j].refs = active[j].refs
    BY <1>3, <1>10, <2>1 DEF Due, Streams, SameInstance
  <2>5. Established => \A j \in Ids : Fits(j)'
    BY <2>3, <2>4, FitsKept DEF AgreeBooks
  <2>6. Established => Forgotten(Pipeline', pending')
    BY <2>1, <2>2 DEF AgreeBooks, Forgotten
  <2>7. ReplayAhead'
    BY <1>3, <1>10 DEF AgreeBooks, ReplayAhead, SameInstance
  <2>8. QED BY <1>3, <1>8, <2>2, <2>5, <2>6, <2>7 DEF AgreeBooks, Established
<1>11. QED BY <1>5, <1>9, <1>10

\* An unsubscribe settles the account: no reference, no answer owed, and the server
\* will stop streaming.
LEMMA UnsubscribeAgree ==
  ASSUME Accounting, WireBooks, AgreeBooks, NEW c \in Callers, SendThenUntrack(c)
  PROVE  AgreeBooks'
<1>1. TypeOK /\ Books /\ Typed
  BY AccountTypes DEF Accounting
<1>2. PICK i, r : i \in Ids /\ r \in Nat /\ i = call[c].sub /\ r = call[c].req
  BY <1>1 DEF SendThenUntrack, TypeOK, Idle, Request
<1>3. UNCHANGED <<io, toServer, fromServer, serverSubs, todo>>
  BY DEF SendThenUntrack, socket
<1>4. CASE ~CanSend
  <2>1. UNCHANGED <<cmds, active, pending>>
    BY <1>4 DEF SendThenUntrack
  <2>2. QED BY <1>3, <2>1, QuietAgree DEF Established
<1>5. CASE CanSend
  <2>1. PICK x : x = [op |-> "unsub", sub |-> i, req |-> r]
    OBVIOUS
  <2>2. x \in Command /\ x.op = "unsub" /\ x.req = r /\ x.sub = i
    BY <1>2, <2>1 DEF Command, Request
  <2>3. /\ cmds' = Append(cmds, x)
        /\ active' = [active EXCEPT ![i] = NoEntry]
        /\ pending' = Without(pending, PendingFor(i))
    BY <1>2, <1>5, <2>1 DEF SendThenUntrack, EvictPendingForIdentity
  <2>4. Pipeline' = Append(Pipeline, x) /\ Pipeline \in Seq(Command) /\ cmds \in Seq(Command)
    BY <1>1, <1>3, <2>2, <2>3, QueueLast, PipelineTypes
  <2>5. Items(Pipeline') = Items(Pipeline) \cup {x} /\ Items(cmds') = Items(cmds) \cup {x}
    BY <2>2, <2>3, <2>4, ItemsAppend
  <2>6. /\ SubIds(Pipeline') = SubIds(Pipeline)
        /\ Unsubs(Pipeline') = Unsubs(Pipeline) \cup {i}
        /\ Unsubs(cmds') = Unsubs(cmds) \cup {i}
    BY <2>2, <2>5 DEF SubIds, Unsubs
  <2>7. /\ \A j \in Ids \ {i} : active'[j] = active[j]
        /\ active'[i].refs = 0
    BY <1>1, <1>2, <2>3 DEF TypeOK, NoEntry
  <2>8. /\ \A j \in Ids \ {i} : PendingFor(j)' = PendingFor(j)
        /\ PendingFor(i)' = {}
        /\ \A q \in DOMAIN pending' : q \in DOMAIN pending /\ pending'[q] = pending[q]
                                      /\ pending[q].sub # i
    BY <2>3 DEF PendingFor, For, Without
  <2>9. \A e \in todo : e.sub \in Ids /\ (SameInstance(e)' <=> (e.sub # i /\ SameInstance(e)))
    BY <1>1, <2>7 DEF SameInstance, Typed
  <2>10. \A j \in Ids \ {i} : /\ Risky(j)' = Risky(j) /\ Due(j)' = Due(j)
                              /\ (Streams(j)' <=> Streams(j))
    <3> TAKE j \in Ids \ {i}
    <3>1. Risky(j)' = Risky(j)
      BY <1>3, <2>6, <2>8 DEF Risky
    <3>2. (\E e \in todo' : e.sub = j /\ SameInstance(e)') <=> (\E e \in todo : e.sub = j /\ SameInstance(e))
      BY <1>3, <2>9
    <3>3. Due(j)' = Due(j)
      BY <3>2 DEF Due
    <3>4. QED BY <1>3, <2>6, <3>1, <3>3 DEF Streams
  <2>11. Fits(i)'
    <3>1. ~Streams(i)'
      BY <2>6 DEF Streams
    <3>2. Risky(i)' = {}
      BY <2>8 DEF Risky
    <3>3. Cardinality(Risky(i)') = 0
      BY <3>2, FS_EmptySet
    <3>4. Due(i)' \in {0, 1}
      BY DEF Due
    <3>5. QED BY <2>7, <3>1, <3>3, <3>4 DEF Fits
  <2>12. Established => \A j \in Ids : Fits(j)'
    <3> SUFFICES ASSUME Established, NEW j \in Ids PROVE Fits(j)'
      OBVIOUS
    <3>1. Fits(j)
      BY DEF AgreeBooks
    <3>2. CASE j # i
      BY <2>7, <2>10, <3>1, <3>2, FitsKept
    <3>3. QED BY <2>11, <3>2
  <2>13. Established => Forgotten(Pipeline', pending')
    <3> SUFFICES ASSUME Established PROVE Forgotten(Append(Pipeline, x), pending')
      BY <2>4
    <3>1. Named(Pipeline, pending) /\ Forgotten(Pipeline, pending)
      BY DEF WireBooks, AgreeBooks
    <3>2. \A k \in DOMAIN Pipeline :
            Pipeline[k].op = "sub" /\ Pipeline[k].req \in DOMAIN pending' =>
            Pipeline[k].req \in DOMAIN pending /\ ~(x.op = "unsub" /\ x.sub = Pipeline[k].sub)
      BY <2>2, <2>8, <3>1 DEF Named
    <3>3. QED BY ZenonT(60), <2>2, <2>4, <3>1, <3>2, AppendForgotten
  <2>14. ReplayAhead'
    BY <1>3, <2>6, <2>9 DEF AgreeBooks, ReplayAhead
  <2>15. 0 \notin DOMAIN pending'
    BY <2>8 DEF AgreeBooks
  <2>16. QED BY <1>3, <2>12, <2>13, <2>14, <2>15 DEF AgreeBooks, Established
<1>6. QED BY <1>4, <1>5

\* An answer settles what it answers: an acceptance nothing at risk, a refusal one
\* reference and one correlation at risk.
LEMMA AnswerAgree ==
  ASSUME Accounting, WireBooks, AgreeBooks, ~shutdown, IoReadResponse
  PROVE  AgreeBooks'
<1>1. TypeOK /\ Books /\ Typed /\ IdsBooked
  BY AccountTypes DEF Accounting, WireBooks
<1>2. UNCHANGED <<toServer, cmds, serverSubs, todo>> /\ io = "read" /\ io' = "drain"
  BY DEF IoReadResponse
<1>3. todo = {} /\ \A i : Due(i) = 0 /\ Due(i)' = 0
  BY <1>1, <1>2 DEF Books, TodoInReplay, Due
<1>4. Pipeline' = Pipeline
  BY <1>2 DEF Pipeline
<1>5. fromServer \in Seq(Answers) /\ fromServer # <<>> /\ fromServer' = Tail(fromServer)
  BY <1>1 DEF IoReadResponse, TypeOK
<1>6. PICK a, r : a = Head(fromServer) /\ r = a.req /\ a \in Answers
  BY <1>5, HeadTailProperties
<1>7. /\ Items(fromServer) = {a} \cup Items(fromServer')
      /\ a.op \in {"subscribed", "rejected"}
  BY <1>5, <1>6, ItemsTail DEF Answers
<1>8. /\ Refused(fromServer') \subseteq Refused(fromServer)
      /\ Refused(fromServer) \subseteq Refused(fromServer') \cup {r}
      /\ a.op = "rejected" => r \in Refused(fromServer)
      /\ a.op = "subscribed" => Refused(fromServer) = Refused(fromServer')
  BY <1>6, <1>7 DEF Refused
<1>9. ~Uncorrelated => /\ Distinct(fromServer')
                       /\ r \notin Carried(fromServer')
  BY <1>5, <1>6, <1>7, TailDistinct DEF AgreeBooks
<1>10. r \notin SubIds(Pipeline)
  <2>1. r \in Carried(fromServer)
    BY <1>6, <1>7 DEF Carried, Items
  <2>2. r \notin Carried(Pipeline)
    BY <1>1, <2>1 DEF IdsBooked
  <2>3. QED BY <2>2, IdsCarried
<1>11. Forgotten(Pipeline, pending) /\ \A i \in Ids : Fits(i)
  BY <1>2 DEF AgreeBooks, Established
<1>12. \A i : Streams(i)' <=> Streams(i)
  BY <1>2, <1>4 DEF Streams
<1>13. CASE r \notin DOMAIN pending
  <2>1. UNCHANGED <<active, pending>>
    BY <1>6, <1>13 DEF IoReadResponse
  <2>2. \A i \in Ids : Risky(i)' = Risky(i)
    <3> TAKE i \in Ids
    <3>1. PendingFor(i)' = PendingFor(i) /\ r \notin PendingFor(i)
      BY <1>13, <2>1 DEF PendingFor, For
    <3>2. QED BY <1>4, <1>8, <3>1 DEF Risky
  <2>3. \A i \in Ids : Fits(i)'
    BY <1>3, <1>11, <1>12, <2>1, <2>2, FitsKept
  <2>4. QED BY <1>2, <1>3, <1>4, <1>9, <1>11, <2>1, <2>3 DEF AgreeBooks, ReplayAhead, Between
<1>14. CASE r \in DOMAIN pending
  <2>1. PICK i \in Ids : i = pending[r].sub
    BY <1>1, <1>14 DEF Typed
  <2>2. /\ pending' = Without(pending, {r})
        /\ active' = IF a.op = "rejected" THEN DecActive(i) ELSE active
    BY <1>6, <1>14, <2>1 DEF IoReadResponse
  <2>3. /\ \A j \in Ids \ {i} : PendingFor(j)' = PendingFor(j) /\ r \notin PendingFor(j)
        /\ PendingFor(i)' = PendingFor(i) \ {r} /\ r \in PendingFor(i)
        /\ \A q \in DOMAIN pending' : q \in DOMAIN pending
    BY <1>14, <2>1, <2>2 DEF PendingFor, For, Without
  <2>4. \A j \in Ids \ {i} : Risky(j)' = Risky(j)
    <3> TAKE j \in Ids \ {i}
    <3>1. PendingFor(j)' = PendingFor(j) /\ r \notin PendingFor(j)
      BY <2>3
    <3>2. QED BY <1>4, <1>8, <3>1 DEF Risky
  <2>5. Risky(i)' = Risky(i) \ {r}
    BY <1>4, <1>8, <2>3 DEF Risky
  <2>6. /\ Cardinality(Risky(i)) \in Nat /\ IsFiniteSet(Risky(i))
        /\ active[i].refs \in Nat
    BY <1>1, RiskyCount DEF Typed
  <2>7. Fits(i)
    BY <1>11
  <2>8. CASE a.op = "subscribed"
    <3>1. active' = active
      BY <2>2, <2>8
    <3>2. /\ Cardinality(Risky(i)') <= Cardinality(Risky(i))
          /\ Cardinality(Risky(i)') \in Nat
      BY <2>5, <2>6, FS_Subset, FS_CardinalityType
    <3>3. ~Uncorrelated => Risky(i)' = Risky(i)
      <4>1. ~Uncorrelated => r \notin Refused(fromServer')
        BY <1>9, IdsCarried
      <4>2. ~Uncorrelated => r \notin Risky(i)
        BY <1>8, <1>10, <2>8, <4>1 DEF Risky
      <4>3. QED BY <2>5, <4>2
    <3>4. Fits(i)'
      BY <1>3, <1>12, <2>6, <2>7, <3>1, <3>2, <3>3 DEF Fits
    <3>5. \A j \in Ids : Fits(j)'
      BY <1>3, <1>11, <1>12, <2>4, <3>1, <3>4, FitsKept
    <3>6. QED BY <1>2, <1>3, <1>4, <1>9, <1>11, <2>3, <3>5 DEF AgreeBooks, ReplayAhead, Between, Forgotten
  <2>9. CASE a.op = "rejected"
    <3>1. /\ \A j \in Ids \ {i} : active'[j] = active[j]
          /\ active'[i] = IF active[i].refs > 1
                         THEN [refs |-> active[i].refs - 1, gen |-> active[i].gen]
                         ELSE NoEntry
      BY <1>1, <2>1, <2>2, <2>9 DEF DecActive, TypeOK
    <3>2. active[i].refs > 0
      BY <1>1, <1>14, <2>1 DEF Books, PendingNamesLiveInstance
    <3>3. active'[i].refs = active[i].refs - 1
      BY <2>6, <3>1, <3>2 DEF NoEntry
    <3>4. r \in Risky(i)
      BY <1>8, <2>3, <2>9 DEF Risky
    <3>5. Cardinality(Risky(i)') = Cardinality(Risky(i)) - 1
      BY <2>5, <2>6, <3>4, FS_RemoveElement
    <3>6. Fits(i)'
      BY <1>3, <1>12, <2>6, <2>7, <3>3, <3>5 DEF Fits
    <3>7. \A j \in Ids : Fits(j)'
      BY <1>3, <1>11, <1>12, <2>4, <3>1, <3>6, FitsKept
    <3>8. QED BY <1>2, <1>3, <1>4, <1>9, <1>11, <2>3, <3>7 DEF AgreeBooks, ReplayAhead, Between, Forgotten
  <2>10. QED BY <1>7, <2>8, <2>9
<1>15. QED BY <1>13, <1>14

LEMMA SnapshotAgree ==
  ASSUME Accounting, WireBooks, AgreeBooks, IoSnapshot, ~shutdown'
  PROVE  AgreeBooks'
<1>1. Typed /\ TypeOK
  BY AccountTypes DEF Accounting
<1>2. /\ active' = [i \in Ids |-> IF active[i].refs > 0 THEN Collapse(active[i]) ELSE NoEntry]
      /\ todo' = {[sub |-> i, gen |-> active[i].gen] : i \in Tracked}
      /\ pending' = <<>> /\ cmds' = <<>>
      /\ UNCHANGED <<toServer, fromServer, serverSubs>>
      /\ io = "snapshot" /\ io' = "replay"
  BY DEF IoSnapshot, DrainStale, socket
<1>3. toServer = <<>> /\ fromServer = <<>> /\ serverSubs = {}
  BY <1>2 DEF WireBooks, AgreeBooks, Between
<1>4. Pipeline' = <<>>
  BY <1>2, <1>3 DEF Pipeline
<1>5. /\ Items(<<>>) = {} /\ Asked(<<>>) = {} /\ Unsubs(<<>>) = {}
      /\ Forgotten(<<>>, pending') /\ Distinct(<<>>)
  BY ItemsEmpty DEF Asked, Unsubs, Forgotten, Distinct
<1>6. \A i \in Ids : /\ active'[i].refs = IF active[i].refs > 0 THEN 1 ELSE 0
                     /\ active'[i].gen = active[i].gen
  <2>1. \A i \in Ids : active[i] \in [refs : Nat, gen : Nat]
    BY <1>1 DEF TypeOK, Entry
  <2>2. QED BY <1>1, <1>2, <2>1 DEF Collapse, NoEntry, Typed
<1>7. \A i \in Ids : Fits(i)'
  <2> TAKE i \in Ids
  <2>1. ~Streams(i)'
    BY <1>2, <1>3 DEF Streams
  <2>2. Risky(i)' = {}
    BY <1>2 DEF Risky, PendingFor, For
  <2>3. Cardinality(Risky(i)') = 0
    BY <2>2, FS_EmptySet
  <2>4. CASE active[i].refs > 0
    <3>1. PICK e : e = [sub |-> i, gen |-> active[i].gen]
      OBVIOUS
    <3>2. e \in todo' /\ e.sub = i /\ e.gen = active[i].gen
      BY <1>2, <2>4, <3>1 DEF Tracked
    <3>3. SameInstance(e)'
      BY <1>6, <2>4, <3>2 DEF SameInstance
    <3>4. Due(i)' = 1
      BY <3>2, <3>3 DEF Due
    <3>5. QED BY <1>6, <2>1, <2>3, <2>4, <3>4 DEF Fits
  <2>5. CASE ~(active[i].refs > 0)
    <3>1. Due(i)' \in {0, 1}
      BY DEF Due
    <3>2. QED BY <1>6, <2>1, <2>3, <2>5, <3>1 DEF Fits
  <2>6. QED BY <2>4, <2>5
<1>8. ReplayAhead'
  <2>1. \A x, e \in todo' : x.sub = e.sub => x = e
    BY <1>2
  <2>2. QED BY <1>2, <1>3, <1>5, <2>1 DEF ReplayAhead
<1>9. 0 \notin DOMAIN pending'
  BY <1>2
<1>10. QED BY <1>2, <1>3, <1>4, <1>5, <1>7, <1>8, <1>9 DEF AgreeBooks, Between

\* A replayed frame puts the reference it asks for at risk, or changes nothing for
\* an identity that is another instance by now.
LEMMA ReplayAgree ==
  ASSUME Accounting, Fresh, WireBooks, AgreeBooks, IoReplay, ~shutdown
  PROVE  AgreeBooks'
<1>1. TypeOK /\ Books /\ Typed /\ IdsBooked /\ ReplayAhead
  BY AccountTypes DEF Accounting, WireBooks, AgreeBooks
<1>2. nextReq \in Nat /\ nextReq > 0 /\ nextReq # 0
  BY <1>1 DEF TypeOK, IdsBooked
<1>3. UNCHANGED <<active, cmds>> /\ io = "replay"
  BY DEF IoReplay
<1>4. PICK e \in todo, outcome \in {"written", "write_failed", "flush_failed"} :
        /\ pending' = IF outcome # "write_failed" /\ SameInstance(e)
                      THEN Correlate(pending, nextReq, e.sub, e.gen)
                      ELSE pending
        /\ IF outcome = "written"
           THEN /\ toServer' = Append(toServer, [op |-> "sub", sub |-> e.sub, req |-> nextReq])
                /\ todo' = todo \ {e}
                /\ io' = IF shutdown THEN "exited" ELSE "replay"
                /\ UNCHANGED <<fromServer, serverSubs>>
           ELSE /\ SocketLost
                /\ todo' = {}
                /\ io' = "decide"
  BY DEF IoReplay
<1>5. 0 \notin DOMAIN pending'
  BY <1>2, <1>4 DEF AgreeBooks, Correlate
<1>6. CASE outcome # "written"
  <2>1. fromServer' = <<>> /\ serverSubs' = {} /\ todo' = {} /\ io' = "decide"
    BY <1>4, <1>6 DEF SocketLost
  <2>2. QED BY <1>5, <2>1, LossAgree
<1>7. CASE outcome = "written"
  <2>1. PICK x, i, r : x = [op |-> "sub", sub |-> e.sub, req |-> nextReq] /\ i = e.sub /\ r = nextReq
    OBVIOUS
  <2>2. /\ i \in Ids
        /\ x \in Command /\ x.op = "sub" /\ x.sub = i /\ x.req = r
    BY <1>1, <1>2, <2>1 DEF Command, Request, Typed
  <2>3. /\ toServer' = Append(toServer, x)
        /\ todo' = todo \ {e}
        /\ io' = "replay"
        /\ fromServer' = fromServer /\ serverSubs' = serverSubs
        /\ pending' = IF SameInstance(e) THEN Correlate(pending, r, i, e.gen) ELSE pending
    BY <1>4, <1>7, <2>1
  <2>4. /\ toServer \in Seq(Command) /\ cmds \in Seq(Command)
        /\ toServer' \in Seq(Command)
    BY <1>1, <2>2, <2>3, PipelineTypes, AppendProperties
  <2>5. Pipeline' = Append(toServer, x) \o cmds /\ Pipeline = toServer \o cmds
    BY <1>3, <2>3 DEF Pipeline
  <2>6. /\ Items(toServer') = Items(toServer) \cup {x}
        /\ Items(Pipeline') = Items(Pipeline) \cup {x}
    <3>1. Items(toServer') = Items(toServer) \cup {x}
      BY <2>2, <2>3, <2>4, ItemsAppend
    <3>2. Items(Pipeline) = Items(toServer) \cup Items(cmds)
      BY <2>4, <2>5, ItemsConcat
    <3>3. Items(Pipeline') = Items(toServer') \cup Items(cmds)
      BY <2>3, <2>4, <2>5, ItemsConcat
    <3>4. QED BY <3>1, <3>2, <3>3
  <2>7. /\ SubIds(Pipeline') = SubIds(Pipeline) \cup {r}
        /\ Unsubs(Pipeline') = Unsubs(Pipeline)
        /\ Asked(toServer') = Asked(toServer) \cup {i}
    BY <2>2, <2>6 DEF SubIds, Unsubs, Asked
  <2>8. /\ r \notin SubIds(Pipeline) \cup Refused(fromServer)
        /\ r \notin DOMAIN pending
        /\ \A k \in DOMAIN Pipeline : Pipeline[k].op = "sub" => Pipeline[k].req # r
    <3>1. Carried(Pipeline) \subseteq Nat /\ Carried(fromServer) \subseteq Nat /\ DOMAIN pending \subseteq Nat
      BY <1>1, RequestIds DEF TypeOK
    <3>2. r \notin Carried(Pipeline) /\ r \notin Carried(fromServer)
      BY <1>1, <1>2, <2>1, <3>1 DEF IdsBooked
    <3>3. r \notin DOMAIN pending
      BY <1>2, <2>1, <3>1 DEF Fresh
    <3>4. \A k \in DOMAIN Pipeline : Pipeline[k].op = "sub" => Pipeline[k].req \in Carried(Pipeline)
      BY DEF Carried
    <3>5. QED BY <3>2, <3>3, <3>4, IdsCarried
  <2>9. \A j : Streams(j)' <=> Streams(j)
    BY <2>3, <2>7 DEF Streams
  <2>10. ~Streams(i)
    BY <1>1, <1>3, <2>1 DEF ReplayAhead, Streams
  <2>11. \A y : SameInstance(y)' <=> SameInstance(y)
    BY <1>3 DEF SameInstance
  <2>12. \A j : j # i => Due(j)' = Due(j)
    BY <2>1, <2>3, <2>11 DEF Due
  <2>13. Due(i) = (IF SameInstance(e) THEN 1 ELSE 0) /\ Due(i)' = 0
    <3>1. \A y \in todo : y.sub = i => y = e
      BY <1>1, <2>1 DEF ReplayAhead
    <3>2. QED BY <2>1, <2>3, <2>11, <3>1 DEF Due
  <2>14. \A j \in Ids : Fits(j)
    BY <1>3 DEF AgreeBooks, Established
  <2>15. \A j \in Ids : Fits(j)'
    <3>1. CASE SameInstance(e)
      <4>1. /\ \A j : j # i => PendingFor(j)' = PendingFor(j)
            /\ PendingFor(i)' = PendingFor(i) \cup {r}
        BY <2>3, <2>8, <3>1 DEF Correlate, PendingFor, For
      <4>2. \A j \in Ids \ {i} : Risky(j)' = Risky(j)
        <5> TAKE j \in Ids \ {i}
        <5>1. r \notin PendingFor(j) /\ PendingFor(j)' = PendingFor(j)
          BY <2>8, <4>1 DEF PendingFor, For
        <5>2. QED BY <2>3, <2>7, <5>1 DEF Risky
      <4>3. Risky(i)' = Risky(i) \cup {r} /\ r \notin Risky(i)
        BY <2>3, <2>7, <2>8, <4>1 DEF Risky
      <4>4. /\ Cardinality(Risky(i)') = Cardinality(Risky(i)) + 1
            /\ Cardinality(Risky(i)) \in Nat
        BY <1>1, <4>3, RiskyCount, FS_AddElement
      <4>5. Fits(i)'
        <5>1. ~Uncorrelated => active[i].refs <= Cardinality(Risky(i)) + 1
          BY <2>2, <2>10, <2>13, <2>14, <3>1 DEF Fits
        <5>2. ~Uncorrelated => active'[i].refs <= Cardinality(Risky(i)') + Due(i)'
          BY <1>3, <2>13, <4>4, <5>1
        <5>3. QED BY <2>9, <2>10, <5>2 DEF Fits
      <4>6. QED BY <1>3, <2>9, <2>12, <2>14, <4>2, <4>5, FitsKept
    <3>2. CASE ~SameInstance(e)
      <4>1. pending' = pending
        BY <2>3, <3>2
      <4>2. \A j \in Ids : Risky(j)' = Risky(j)
        <5> TAKE j \in Ids
        <5>1. r \notin PendingFor(j) /\ PendingFor(j)' = PendingFor(j)
          BY <2>8, <4>1 DEF PendingFor, For
        <5>2. QED BY <2>3, <2>7, <5>1 DEF Risky
      <4>3. \A j \in Ids : Due(j)' = Due(j)
        BY <2>12, <2>13, <3>2
      <4>4. QED BY <1>3, <2>9, <2>14, <4>2, <4>3, FitsKept
    <3>3. QED BY <3>1, <3>2
  <2>16. Forgotten(Pipeline', pending')
    <3>1. Forgotten(toServer \o cmds, pending)
      BY <1>3, <2>5 DEF AgreeBooks, Established
    <3>2. \A k \in DOMAIN (toServer \o cmds) :
            (toServer \o cmds)[k].req \in DOMAIN pending' /\ (toServer \o cmds)[k].op = "sub" =>
            (toServer \o cmds)[k].req \in DOMAIN pending
      BY <2>3, <2>5, <2>8 DEF Correlate
    <3>3. x.req \in DOMAIN pending' => x.sub \notin Unsubs(cmds)
      <4>1. SameInstance(e) => i \notin Unsubs(cmds)
        BY <1>1, <1>3, <2>1 DEF ReplayAhead
      <4>2. QED BY <2>2, <2>3, <2>8, <4>1
    <3>4. QED BY <2>2, <2>4, <2>5, <3>1, <3>2, <3>3, InsertForgotten
  <2>17. ReplayAhead'
    <3>1. \A y \in todo' : y.sub # i
      BY <1>1, <2>1, <2>3 DEF ReplayAhead
    <3>2. QED BY <1>1, <1>3, <2>3, <2>7, <2>11, <3>1 DEF ReplayAhead
  <2>18. QED BY <1>5, <2>3, <2>15, <2>16, <2>17 DEF AgreeBooks, Between
<1>8. QED BY <1>6, <1>7

\* The oldest frame is correlated, unless a later one withdraws it.
LEMMA HeadCorrelated ==
  ASSUME NEW q \in Seq(Command), q # <<>>, NEW f, Correlated(q, f), Head(q).op = "sub"
  PROVE  Head(q).req \in DOMAIN f \/ Head(q).sub \in Unsubs(Tail(q))
<1>1. /\ Len(q) \in Nat \ {0} /\ DOMAIN q = 1..Len(q)
      /\ DOMAIN Tail(q) = 1..(Len(q) - 1)
      /\ \A k \in 1..(Len(q) - 1) : Tail(q)[k] = q[k + 1]
      /\ Head(q) = q[1]
  BY HeadTailProperties, LenProperties, EmptySeq
<1>2. 1 \in DOMAIN q
  BY <1>1
<1>3. CASE Withdrawn(q, 1)
  <2>1. PICK m \in 1+1..Len(q) : q[m].op = "unsub" /\ q[m].sub = q[1].sub
    BY <1>3 DEF Withdrawn
  <2>2. m - 1 \in DOMAIN Tail(q) /\ Tail(q)[m - 1] = q[m]
    BY <1>1
  <2>3. QED BY <1>1, <2>1, <2>2 DEF Unsubs, Items
<1>4. QED BY <1>1, <1>2, <1>3 DEF Correlated

\* The server takes a frame: a stream it starts has a reference that only this
\* answer could have released, a refusal leaves the reference at risk.
LEMMA ServerAgree ==
  ASSUME Accounting, WireBooks, AgreeBooks, ServerReceive, ~shutdown
  PROVE  AgreeBooks'
<1>1. TypeOK /\ Books /\ Typed /\ IdsBooked /\ ReplayAhead
  BY AccountTypes DEF Accounting, WireBooks, AgreeBooks
<1>2. /\ UNCHANGED <<io, cmds, pending, active, todo>>
      /\ toServer # <<>> /\ toServer' = Tail(toServer)
  BY DEF ServerReceive, tracked
<1>3. /\ toServer \in Seq(Command) /\ cmds \in Seq(Command) /\ Pipeline \in Seq(Command)
      /\ toServer \in Seq(Request) /\ fromServer \in Seq(Answers)
  BY <1>1, PipelineTypes DEF TypeOK
<1>4. /\ Pipeline # <<>> /\ Pipeline' = Tail(Pipeline)
      /\ Head(Pipeline) = Head(toServer)
  BY <1>2, <1>3, FirstArrives DEF Pipeline
<1>5. PICK f, r, i : f = Head(toServer) /\ r = f.req /\ i = f.sub
  OBVIOUS
<1>6. /\ f.op \in {"sub", "unsub"} /\ i \in Ids /\ r \in Nat
  <2>1. f \in Request
    BY <1>2, <1>3, <1>5, HeadTailProperties
  <2>2. QED BY <1>5, <2>1 DEF Request
<1>7. /\ Items(toServer) = {f} \cup Items(toServer')
      /\ Items(Pipeline) = {f} \cup Items(Pipeline')
  BY <1>2, <1>3, <1>4, <1>5, ItemsTail
<1>8. /\ r \notin Carried(Pipeline') /\ r \notin Carried(fromServer) /\ r # 0
  <2>1. r \in Carried(Pipeline) /\ r \notin Carried(Pipeline')
    <3>1. Distinct(Pipeline) /\ Head(Pipeline).op # "shutdown"
      BY <1>1, <1>4, <1>5, <1>6 DEF IdsBooked
    <3>2. QED BY <1>3, <1>4, <1>5, <3>1, TailDistinct
  <2>2. r > 0
    BY <1>1, <2>1 DEF IdsBooked
  <2>3. r \notin Carried(fromServer)
    BY <1>1, <2>1 DEF IdsBooked
  <2>4. QED BY <1>6, <2>1, <2>2, <2>3
<1>9. io \notin Between
  BY <1>2 DEF WireBooks
<1>10. /\ \A j : PendingFor(j)' = PendingFor(j)
       /\ \A e : SameInstance(e)' <=> SameInstance(e)
       /\ \A j : Due(j)' = Due(j)
  BY <1>2 DEF PendingFor, SameInstance, Due
<1>11. 0 \notin DOMAIN pending
  BY DEF AgreeBooks
<1>12. ASSUME Established PROVE Forgotten(Pipeline', pending)
  BY <1>3, <1>4, <1>12, TailForgotten DEF AgreeBooks
<1>13. Asked(toServer') \subseteq Asked(toServer)
  BY <1>7 DEF Asked
<1>14. CASE f.op = "unsub"
  <2>1. serverSubs' = serverSubs \ {i} /\ fromServer' = fromServer
    BY <1>5, <1>14 DEF ServerReceive
  <2>2. /\ SubIds(Pipeline') = SubIds(Pipeline)
        /\ Unsubs(Pipeline) = {i} \cup Unsubs(Pipeline')
    BY <1>5, <1>7, <1>14 DEF SubIds, Unsubs
  <2>3. \A j : Risky(j)' = Risky(j)
    BY <1>10, <2>1, <2>2 DEF Risky
  <2>4. \A j : Streams(j)' <=> Streams(j)
    BY <2>1, <2>2 DEF Streams
  <2>5. ASSUME Established PROVE \A j \in Ids : Fits(j)'
    BY <1>2, <1>10, <2>3, <2>4, <2>5, FitsKept DEF AgreeBooks
  <2>6. ReplayAhead'
    BY <1>1, <1>2, <1>10, <1>13, <2>1 DEF ReplayAhead
  <2>7. QED BY <1>2, <1>9, <1>12, <2>1, <2>5, <2>6 DEF AgreeBooks, Established
<1>15. CASE f.op = "sub"
  <2>1. PICK op \in {"subscribed", "rejected"}, q \in {r, 0} :
          /\ serverSubs' = IF op = "subscribed" THEN serverSubs \cup {i} ELSE serverSubs
          /\ fromServer' = Append(fromServer, [op |-> op, req |-> q])
          /\ ~Uncorrelated => q = r
    BY <1>5, <1>15 DEF ServerReceive, Answer, NoReq
  <2>2. PICK a : a = [op |-> op, req |-> q]
    OBVIOUS
  <2>3. a \in Answers /\ a.op = op /\ a.req = q /\ fromServer' = Append(fromServer, a)
    BY <1>6, <2>1, <2>2 DEF Answers
  <2>4. Items(fromServer') = Items(fromServer) \cup {a}
    BY <1>3, <2>3, ItemsAppend
  <2>5. /\ SubIds(Pipeline) = SubIds(Pipeline') \cup {r}
        /\ Unsubs(Pipeline') = Unsubs(Pipeline)
        /\ r \notin SubIds(Pipeline')
    <3>1. r \notin SubIds(Pipeline')
      BY <1>8, IdsCarried
    <3>2. QED BY <1>5, <1>7, <1>15, <3>1 DEF SubIds, Unsubs
  <2>6. ~Uncorrelated => Distinct(fromServer')
    BY <1>3, <1>8, <2>1, <2>3, AppendDistinct DEF AgreeBooks
  <2>7. i \in Asked(toServer)
    BY <1>5, <1>7, <1>15 DEF Asked
  <2>8. ReplayAhead'
    BY <1>1, <1>2, <1>10, <1>13, <2>1, <2>7 DEF ReplayAhead
  <2>9. ASSUME Established PROVE \A j \in Ids : Fits(j)'
    <3>1. \A j \in Ids : Fits(j)
      BY <2>9 DEF AgreeBooks
    <3>2. r \in DOMAIN pending => pending[r].sub = i
      <4>1. Named(Pipeline, pending) /\ f \in Items(Pipeline)
        BY <1>7, <2>9 DEF WireBooks
      <4>2. QED BY <1>5, <1>15, <4>1, NamedBy
    <3>3. \A j : j # i => r \notin PendingFor(j)
      BY <3>2 DEF PendingFor, For
    <3>4. CASE op = "rejected"
      <4>1. Refused(fromServer') = Refused(fromServer) \cup {q}
        BY <2>3, <2>4, <3>4 DEF Refused
      <4>2. \A j : Streams(j)' <=> Streams(j)
        BY <2>1, <2>5, <3>4 DEF Streams
      <4>3. \A j : q \in PendingFor(j) => q = r
        BY <1>11, <2>1 DEF PendingFor, For
      <4>4. ASSUME NEW j \in Ids PROVE Fits(j)'
        <5>1. Risky(j)' \subseteq Risky(j)
          BY <1>10, <2>5, <4>1, <4>3 DEF Risky
        <5>2. ~Uncorrelated => Risky(j)' = Risky(j)
          BY <1>10, <2>1, <2>5, <4>1 DEF Risky
        <5>3. /\ Cardinality(Risky(j)') <= Cardinality(Risky(j))
              /\ Cardinality(Risky(j)') \in Nat /\ Cardinality(Risky(j)) \in Nat
          BY <1>1, <5>1, RiskyCount, FS_Subset, FS_CardinalityType
        <5>4. active[j].refs \in Nat /\ Fits(j)
          BY <1>1, <3>1 DEF Typed
        <5>5. Streams(j)' => Cardinality(Risky(j)') < active'[j].refs
          BY <1>2, <4>2, <5>3, <5>4 DEF Fits
        <5>6. ~Uncorrelated => (Streams(j)' \/ active'[j].refs <= Cardinality(Risky(j)') + Due(j)')
          BY <1>2, <1>10, <4>2, <5>2, <5>4 DEF Fits
        <5>7. QED BY <5>5, <5>6 DEF Fits
      <4>5. QED BY <4>4
    <3>5. CASE op = "subscribed"
      <4>1. Refused(fromServer') = Refused(fromServer)
        BY <2>3, <2>4, <3>5 DEF Refused
      <4>2. \A j : j # i => (Streams(j)' <=> Streams(j)) /\ Risky(j)' = Risky(j)
        <5> SUFFICES ASSUME NEW j, j # i
                     PROVE  (Streams(j)' <=> Streams(j)) /\ Risky(j)' = Risky(j)
          OBVIOUS
        <5>1. Streams(j)' <=> Streams(j)
          BY <2>1, <2>5, <3>5 DEF Streams
        <5>2. r \notin PendingFor(j)
          BY <3>3
        <5>3. Risky(j)' = Risky(j)
          BY <1>10, <2>5, <4>1, <5>2 DEF Risky
        <5>4. QED BY <5>1, <5>3
      <4>3. Fits(i)'
        <5>1. CASE i \in Unsubs(Pipeline')
          <6>1. r \notin DOMAIN pending
            BY <1>3, <1>4, <1>5, <1>15, <2>9, <5>1, TailForgotten DEF AgreeBooks
          <6>2. r \notin PendingFor(i)
            BY <6>1 DEF PendingFor, For
          <6>3. Risky(i)' = Risky(i)
            BY <1>10, <2>5, <4>1, <6>2 DEF Risky
          <6>4. ~Streams(i) /\ ~Streams(i)'
            BY <2>5, <5>1 DEF Streams
          <6>5. QED BY <1>2, <1>6, <1>10, <3>1, <6>3, <6>4, FitsKept
        <5>2. CASE i \notin Unsubs(Pipeline')
          <6>1. r \in PendingFor(i)
            <7>1. Correlated(Pipeline, pending)
              BY <2>9 DEF WireBooks
            <7>2. r \in DOMAIN pending
              BY <1>3, <1>4, <1>5, <1>15, <5>2, <7>1, HeadCorrelated
            <7>3. QED BY <3>2, <7>2 DEF PendingFor, For
          <6>2. r \notin Refused(fromServer)
            BY <1>8, IdsCarried
          <6>3. Risky(i)' \subseteq PendingFor(i) \ {r}
            BY <1>10, <2>5, <4>1, <6>2 DEF Risky
          <6>4. /\ IsFiniteSet(PendingFor(i)) /\ Cardinality(PendingFor(i)) \in Nat
                /\ Cardinality(PendingFor(i)) <= active[i].refs
            BY <1>1, <1>6, OwedNat DEF Books, RefsCoverPending
          <6>5. Cardinality(PendingFor(i) \ {r}) = Cardinality(PendingFor(i)) - 1
                /\ IsFiniteSet(PendingFor(i) \ {r})
            BY <6>1, <6>4, FS_RemoveElement
          <6>6. /\ Cardinality(Risky(i)') <= Cardinality(PendingFor(i) \ {r})
                /\ Cardinality(Risky(i)') \in Nat
            BY <6>3, <6>5, FS_Subset, FS_CardinalityType
          <6>7. Cardinality(Risky(i)') < active'[i].refs
            <7>1. active[i].refs \in Nat
              BY <1>1, <1>6 DEF Typed
            <7>2. QED BY <1>2, <6>4, <6>5, <6>6, <7>1
          <6>8. Streams(i)'
            BY <2>1, <3>5, <5>2 DEF Streams
          <6>9. QED BY <6>7, <6>8 DEF Fits
        <5>3. QED BY <5>1, <5>2
      <4>4. QED BY <1>2, <1>10, <3>1, <4>2, <4>3, FitsKept
    <3>6. QED BY <3>4, <3>5
  <2>10. QED BY <1>2, <1>9, <1>11, <1>12, <2>6, <2>8, <2>9 DEF AgreeBooks, Established
<1>16. QED BY <1>6, <1>14, <1>15

------------------------------------------------------------------------------
LEMMA AgreeStep ==
  ASSUME Accounting, Fresh, WireBooks, AgreeBooks, ~shutdown, ~shutdown',
         io # "last_drain", Next
  PROVE  AgreeBooks'
<1>1. TypeOK /\ TodoInReplay
  BY DEF Accounting, Books
<1>2. CASE \E c \in Callers : CallerStep(c)
  <2>1. PICK c \in Callers : CallerStep(c)
    BY <1>2
  <2>2. CASE CallStart(c)
    BY <2>2, QuietAgree DEF CallStart, socket, tracked, Established
  <2>3. CASE TrackInflightSubscribe(c)
    BY <2>3, SubscribeAgree
  <2>4. CASE SendThenUntrack(c)
    BY <2>4, UnsubscribeAgree
  <2>5. QED BY <2>1, <2>2, <2>3, <2>4 DEF CallerStep
<1>3. CASE CloserStep
  <2>1. closer # "idle" => shutdown
    BY DEF Accounting, Books, CloserRaisedFlag
  <2>2. QED BY <1>3, <2>1 DEF CloserStep, CloseFlag, CloseSend, CloseClear, CloseAuth
<1>4. CASE SessionStep
  <2>1. CASE IoReadResponse
    BY <2>1, AnswerAgree
  <2>2. CASE IoReadLost
    <3>1. /\ fromServer' = <<>> /\ serverSubs' = {} /\ io' = "decide"
          /\ UNCHANGED <<pending, todo>>
      BY <2>2 DEF IoReadLost, SocketLost, tracked
    <3>2. QED BY <3>1, LossAgree DEF AgreeBooks
  <2>3. CASE IoReadPermanent
    BY <2>3 DEF IoReadPermanent
  <2>4. CASE IoDrain
    <3>1. UNCHANGED <<active, pending, todo>> /\ io = "drain"
      BY <2>4 DEF IoDrain, tracked
    <3>2. CASE WriteFrame /\ UNCHANGED io
      BY <1>1, <3>1, <3>2, WriteAgree DEF WriteFrame
    <3>3. CASE WriteFails /\ io' = "decide"
      BY <3>1, <3>3, LossAgree DEF WriteFails, SocketLost, AgreeBooks
    <3>4. CASE io' = "top" /\ UNCHANGED <<cmds, socket>>
      BY <3>1, <3>4, QuietAgree DEF Established, Between, socket
    <3>5. QED BY <2>4, <3>2, <3>3, <3>4 DEF IoDrain, WriteStop
  <2>5. CASE IoTop
    BY <2>5, QuietAgree DEF IoTop, Established, Between, socket, tracked
  <2>6. CASE IoReadOther
    BY <2>6, QuietAgree DEF IoReadOther, Established, Between, socket, tracked
  <2>7. CASE IoReadMetadata
    BY <2>7, QuietAgree DEF IoReadMetadata, Established, Between, socket, tracked
  <2>8. QED BY <1>4, <2>1, <2>2, <2>3, <2>4, <2>5, <2>6, <2>7 DEF SessionStep
<1>5. CASE RedialStep
  <2>1. CASE IoDecide
    BY <2>1, QuietAgree DEF IoDecide, Established, Between, socket, tracked
  <2>2. CASE IoCooldown
    <3>1. /\ UNCHANGED <<fromServer, serverSubs, pending, todo>>
          /\ io = "cooldown" /\ io' = "dial"
      BY <2>2 DEF IoCooldown, DrainStale, socket, tracked
    <3>2. fromServer' = <<>> /\ serverSubs' = {}
      BY <3>1 DEF AgreeBooks, Between
    <3>3. QED BY <3>1, <3>2, LossAgree DEF AgreeBooks
  <2>3. CASE IoDial
    BY <2>3, QuietAgree DEF IoDial, Established, Between, socket, tracked
  <2>4. CASE IoSnapshot
    BY <2>4, SnapshotAgree
  <2>5. CASE IoReplay
    BY <2>5, ReplayAgree
  <2>6. CASE IoReplayDone
    BY <2>6, QuietAgree DEF IoReplayDone, Established, Between, socket, tracked
  <2>7. CASE IoQueued
    <3>1. UNCHANGED <<active, pending, todo>> /\ io = "queued"
      BY <2>7 DEF IoQueued, tracked
    <3>2. CASE WriteFrame /\ UNCHANGED io
      BY <1>1, <3>1, <3>2, WriteAgree DEF WriteFrame
    <3>3. CASE WriteFails /\ io' = "decide"
      BY <3>1, <3>3, LossAgree DEF WriteFails, SocketLost, AgreeBooks
    <3>4. CASE io' = "announce" /\ UNCHANGED <<cmds, socket>>
      BY <3>1, <3>4, QuietAgree DEF Established, Between, socket
    <3>5. QED BY <2>7, <3>2, <3>3, <3>4 DEF IoQueued, WriteStop
  <2>8. CASE IoAnnounce
    BY <2>8, QuietAgree DEF IoAnnounce, Established, Between, socket, tracked
  <2>9. QED BY <1>5, <2>1, <2>2, <2>3, <2>4, <2>5, <2>6, <2>7, <2>8 DEF RedialStep
<1>6. CASE ServerReceive
  BY <1>6, ServerAgree
<1>7. QED BY <1>2, <1>3, <1>4, <1>5, <1>6 DEF Next

\* Until a shutdown, the agreement invariant.
Agreed == ~shutdown => AgreeBooks

LEMMA AgreedStep ==
  ASSUME Accounting, Fresh, Wired, Agreed, [Next]_vars
  PROVE  Agreed'
<1> SUFFICES ASSUME ~shutdown' PROVE AgreeBooks'
  BY DEF Agreed
<1>1. ~shutdown /\ WireBooks /\ AgreeBooks /\ io # "last_drain"
  BY FlagStays DEF Wired, Agreed
<1>2. CASE Next
  BY <1>1, <1>2, AgreeStep
<1>3. CASE UNCHANGED vars
  <2>1. UNCHANGED <<io, toServer, cmds, fromServer, serverSubs, pending, active, todo>>
    BY <1>3 DEF vars, tracked, socket
  <2>2. QED BY <1>1, <2>1, QuietAgree DEF Established
<1>4. QED BY <1>2, <1>3

LEMMA InitAgreed == Init => Agreed
<1> SUFFICES ASSUME Init PROVE AgreeBooks
  BY DEF Agreed
<1>1. /\ io = "top" /\ toServer = <<>> /\ cmds = <<>> /\ fromServer = <<>> /\ serverSubs = {}
      /\ active = [i \in Ids |-> NoEntry] /\ pending = <<>> /\ todo = {}
  BY DEF Init
<1>2. Pipeline = <<>>
  BY <1>1 DEF Pipeline
<1>3. \A i \in Ids : Fits(i)
  <2> TAKE i \in Ids
  <2>1. Risky(i) = {} /\ ~Streams(i) /\ Due(i) = 0 /\ active[i].refs = 0
    BY <1>1 DEF Risky, PendingFor, For, Streams, Due, NoEntry
  <2>2. Cardinality(Risky(i)) = 0
    BY <2>1, FS_EmptySet
  <2>3. QED BY <2>1, <2>2 DEF Fits
<1>4. Forgotten(Pipeline, pending) /\ Distinct(fromServer) /\ 0 \notin DOMAIN pending
  BY <1>1, <1>2 DEF Forgotten, Distinct
<1>5. ReplayAhead
  BY <1>1 DEF ReplayAhead
<1>6. QED BY <1>1, <1>3, <1>4, <1>5 DEF AgreeBooks, Between

LEMMA AgreedInvariant == SafetySpec => [](Accounting /\ Wired /\ Agreed)
<1>1. Init => Wired /\ Agreed
  BY InitWired, InitAgreed
<1>2. Accounting /\ Fresh /\ Wired /\ Agreed /\ [Next]_vars => Wired' /\ Agreed'
  BY WiredStep, AgreedStep
<1>3. QED BY <1>1, <1>2, FreshIds, AccountingInvariant, PTL DEF SafetySpec

\* With nothing in flight no refusal is at risk, and every stream starts or stops
\* where the server says.
LEMMA NothingInFlight ==
  ASSUME Accounting, Agreed, Settled, NEW i \in Ids
  PROVE  /\ Fits(i) /\ active[i].refs \in Nat
         /\ Streams(i) <=> i \in serverSubs
         /\ Cardinality(Risky(i)) = 0 /\ Due(i) = 0
<1>1. Typed /\ TodoInReplay /\ AgreeBooks
  BY AccountTypes DEF Accounting, Books, Agreed, Settled
<1>2. Fits(i) /\ active[i].refs \in Nat
  BY <1>1 DEF AgreeBooks, Settled, Established, Typed
<1>3. todo = {}
  BY <1>1 DEF TodoInReplay, Settled
<1>4. Items(<<>>) = {}
  BY ItemsEmpty
<1>5. Risky(i) = {} /\ (Streams(i) <=> i \in serverSubs)
  BY <1>4 DEF Settled, Risky, Streams, SubIds, Refused, Unsubs
<1>6. QED BY <1>2, <1>3, <1>5, FS_EmptySet DEF Due

\* When nothing is in flight, every stream the server sends is tracked, so that a
\* reconnect replays it; even for a server that answers without a req_id.
THEOREM StreamsAreTracked == SafetySpec => []SettledStreamsAreTracked
<1>1. ASSUME Accounting, Agreed, Settled, NEW i \in serverSubs PROVE i \in Tracked
  <2>1. i \in Ids
    BY <1>1 DEF Accounting, TypeOK
  <2>2. QED BY <1>1, <2>1, NothingInFlight DEF Fits, Tracked
<1>2. Accounting /\ Agreed => SettledStreamsAreTracked
  BY <1>1 DEF SettledStreamsAreTracked
<1>3. QED BY <1>2, AgreedInvariant, PTL

\* When nothing is in flight, the client tracks exactly what the server streams,
\* provided the server answers each subscribe by its req_id.
THEOREM AgreesWhenSettled ==
  ASSUME ~Uncorrelated
  PROVE  SafetySpec => []SettledAgreement
<1>1. ASSUME Accounting, Agreed, Settled, NEW i \in Ids PROVE i \in Tracked <=> i \in serverSubs
  BY <1>1, NothingInFlight DEF Fits, Tracked
<1>2. Accounting => serverSubs \subseteq Ids /\ Tracked \subseteq Ids
  BY DEF Accounting, TypeOK, Tracked
<1>3. Accounting /\ Agreed => SettledAgreement
  BY <1>1, <1>2 DEF SettledAgreement
<1>4. QED BY <1>3, AgreedInvariant, PTL

\* A tracked identity is never stranded, whatever calls, refusals, duplicates and
\* reconnects came before: it is streamed, asked for, to be replayed, or about to
\* be untracked; provided the server answers each subscribe by its req_id.
THEOREM TrackedNeverStranded ==
  ASSUME ~Uncorrelated
  PROVE  SafetySpec => []TrackedIsDriven
<1>1. ASSUME Accounting, Wired, Agreed PROVE TrackedIsDriven
  <2> SUFFICES ASSUME Established, ~shutdown, NEW i \in Ids, active[i].refs > 0,
                      i \notin serverSubs, \A e \in todo : e.sub # i
               PROVE  \/ \E k \in DOMAIN Pipeline : Pipeline[k].op = "sub" /\ Pipeline[k].sub = i
                      \/ \E k \in DOMAIN fromServer :
                           fromServer[k].op = "rejected" /\ fromServer[k].req \in PendingFor(i)
    BY DEF TrackedIsDriven, Tracked
  <2>1. Fits(i) /\ Named(Pipeline, pending)
    BY <1>1 DEF Agreed, AgreeBooks, Wired, WireBooks
  <2>2. ~Streams(i) /\ Due(i) = 0
    BY DEF Streams, Due
  <2>3. active[i].refs \in Nat
    BY <1>1, AccountTypes DEF Accounting, Typed
  <2>4. Cardinality(Risky(i)) # 0
    <3>1. Books
      BY <1>1 DEF Accounting
    <3>2. Cardinality(Risky(i)) \in Nat
      BY <3>1, RiskyCount
    <3>3. QED BY <2>1, <2>2, <2>3, <3>2 DEF Fits
  <2>5. PICK r : r \in Risky(i)
    BY <2>4, FS_EmptySet
  <2>6. r \in PendingFor(i) /\ r \in DOMAIN pending /\ pending[r].sub = i
    BY <2>5 DEF Risky, PendingFor, For
  <2>7. CASE r \in SubIds(Pipeline)
    <3>1. PICK k \in DOMAIN Pipeline : Pipeline[k].op = "sub" /\ Pipeline[k].req = r
      BY <2>7 DEF SubIds, Items
    <3>2. Pipeline[k].sub = i
      BY <2>1, <2>6, <3>1 DEF Named
    <3>3. QED BY <3>1, <3>2
  <2>8. CASE r \in Refused(fromServer)
    BY <2>6, <2>8 DEF Refused, Items
  <2>9. QED BY <2>5, <2>7, <2>8 DEF Risky
<1>2. QED BY <1>1, AgreedInvariant, PTL

------------------------------------------------------------------------------
(* After the flag *)

\* What is left for the I/O thread to do once the shutdown flag is raised, and for a
\* shutdown() under way.
IoLeft ==
    [exited |-> 0, top |-> 1, decide |-> 1, cooldown |-> 1, drain |-> 2, last_drain |-> 2,
     announce |-> 2, read |-> 3, queued |-> 3, replay |-> 4, snapshot |-> 5, dial |-> 6][io]
CloserLeft ==
    [idle |-> 5, flagged |-> 4, sent |-> 3, contracts_cleared |-> 2, cleared |-> 1,
     done |-> 0][closer]

\* A step ends a call that had begun, or else it is one of the shutdown(), or else it brings
\* the I/O thread nearer to its exit, or empties the queue of commands, or that of the
\* server.
Winds ==
    \/ \E c \in Callers : call[c] # Idle /\ call' = [call EXCEPT ![c] = Idle]
    \/ /\ UNCHANGED call
       /\ \/ CloserLeft' < CloserLeft
          \/ UNCHANGED closer /\ IoLeft' < IoLeft
          \/ UNCHANGED <<closer, io>> /\ Len(cmds') < Len(cmds)
          \/ UNCHANGED <<closer, io, cmds>> /\ Len(toServer') < Len(toServer)

\* One step of the I/O thread: its place alone, or one command from the queue.
IoMoves ==
    /\ UNCHANGED <<call, closer>>
    /\ IoLeft' < IoLeft \/ (UNCHANGED io /\ Len(cmds') < Len(cmds))

\* The moves between places that are left once the flag is up.
LEMMA IoMovesDown ==
  ASSUME UNCHANGED <<call, closer>>,
         <<io, io'>> \in {"dial"} \X {"decide", "exited", "snapshot"}
                  \cup {"snapshot"} \X {"exited", "replay"}
                  \cup {"replay"} \X {"exited", "decide", "queued"}
                  \cup {"queued"} \X {"decide", "exited", "announce"}
                  \cup {"announce"} \X {"top"}
                  \cup {"read"} \X {"drain", "decide", "last_drain"}
                  \cup {"drain", "last_drain"} \X {"decide", "top"}
                  \cup {"top", "decide", "cooldown"} \X {"exited"}
  PROVE  IoMoves
BY SMT DEF IoMoves, IoLeft

\* A frame that was taken from the queue.
LEMMA OneCommandLess ==
  ASSUME TypeOK, cmds # <<>>, cmds' = Tail(cmds)
  PROVE  Len(cmds') < Len(cmds)
<1>1. cmds \in Seq(Command)
  BY Zenon DEF TypeOK
<1> QED
  BY <1>1, SMT

LEMMA SessionWinds ==
  ASSUME TypeOK, shutdown, SessionStep
  PROVE  shutdown' /\ IoMoves
<1>1. CASE IoTop
  BY <1>1, IoMovesDown, Zenon DEF IoTop, flags, threads
<1>2. CASE IoReadResponse
  BY <1>2, IoMovesDown, SMT DEF IoReadResponse, flags, threads
<1>3. CASE IoReadOther
  BY <1>3, IoMovesDown, SMT DEF IoReadOther, flags, threads
<1>4. CASE IoReadMetadata
  BY <1>4, IoMovesDown, SMT DEF IoReadMetadata, threads
<1>5. CASE IoReadLost
  BY <1>5, IoMovesDown, SMT DEF IoReadLost, threads
<1>6. CASE IoReadPermanent
  BY <1>6, IoMovesDown, SMT DEF IoReadPermanent, threads
<1>7. CASE IoDrain
  <2>1. io \in {"drain", "last_drain"} /\ UNCHANGED <<call, closer>>
    BY <1>7, Zenon DEF IoDrain, threads
  <2>2. CASE WriteFrame /\ UNCHANGED <<io, flags>>
    <3>1. Len(cmds') < Len(cmds)
      BY <2>2, OneCommandLess, Zenon DEF WriteFrame
    <3> QED
      BY <2>1, <2>2, <3>1, Zenon DEF IoMoves, flags
  <2>3. CASE io' \in {"decide", "top"} /\ shutdown'
    BY <2>1, <2>3, IoMovesDown, SMT
  <2>4. \/ WriteFrame /\ UNCHANGED <<io, flags>>
        \/ io' = "decide" /\ UNCHANGED shutdown
        \/ io' = "top" /\ (shutdown' = TRUE \/ UNCHANGED shutdown)
    BY <1>7, Zenon DEF IoDrain, WriteStop, flags
  <2>5. io' = "decide" \/ io' = "top" => io' \in {"decide", "top"}
    OBVIOUS
  <2> QED
    BY <2>2, <2>3, <2>4, <2>5, Zenon
<1> QED
  BY <1>1, <1>2, <1>3, <1>4, <1>5, <1>6, <1>7, Zenon DEF SessionStep

LEMMA RedialWinds ==
  ASSUME TypeOK, shutdown, RedialStep
  PROVE  shutdown' /\ IoMoves
<1>0. DrainStale => shutdown'
  BY Zenon DEF DrainStale
<1>1. CASE IoDecide
  BY <1>1, IoMovesDown, SMT DEF IoDecide, flags, threads
<1>2. CASE IoCooldown
  BY <1>2, IoMovesDown, SMT DEF IoCooldown, threads
<1>3. CASE IoDial
  <2>1. io = "dial" /\ UNCHANGED <<call, closer>> /\ shutdown'
        /\ (io' = "decide" \/ io' = "exited" \/ io' = "snapshot")
    BY <1>3, Zenon DEF IoDial, threads
  <2> QED
    BY <2>1, IoMovesDown, SMT
<1>4. CASE IoSnapshot
  BY <1>0, <1>4, IoMovesDown, SMT DEF IoSnapshot, threads
<1>5. CASE IoReplay
  <2>1. io = "replay" /\ io' \in {"exited", "decide"} /\ UNCHANGED <<call, closer, shutdown>>
    BY <1>5, Zenon DEF IoReplay, flags, threads
  <2> QED
    BY <2>1, IoMovesDown, SMT
<1>6. CASE IoReplayDone
  BY <1>6, IoMovesDown, SMT DEF IoReplayDone, flags, threads
<1>7. CASE IoQueued
  <2>1. io = "queued" /\ UNCHANGED <<call, closer>>
    BY <1>7, Zenon DEF IoQueued, threads
  <2>2. CASE WriteFrame /\ UNCHANGED <<io, shutdown>>
    <3>1. Len(cmds') < Len(cmds)
      BY <2>2, OneCommandLess, Zenon DEF WriteFrame
    <3> QED
      BY <2>1, <2>2, <3>1, Zenon DEF IoMoves
  <2>3. CASE io' \in {"decide", "exited", "announce"} /\ shutdown'
    BY <2>1, <2>3, IoMovesDown, SMT
  <2>4. \/ WriteFrame /\ UNCHANGED <<io, shutdown>>
        \/ io' \in {"decide", "exited", "announce"} /\ (shutdown' = TRUE \/ UNCHANGED shutdown)
    <3>1. \/ WriteFrame /\ UNCHANGED <<io, shutdown>>
          \/ io' = "decide" /\ UNCHANGED shutdown
          \/ io' = "exited" /\ shutdown' = TRUE
          \/ io' = "exited" /\ UNCHANGED shutdown
          \/ io' = "announce" /\ UNCHANGED shutdown
      BY <1>7, Zenon DEF IoQueued, WriteStop
    <3> QED
      BY <3>1
  <2> QED
    BY <2>2, <2>3, <2>4, Zenon
<1>8. CASE IoAnnounce
  BY <1>8, IoMovesDown, SMT DEF IoAnnounce, threads
<1> QED
  BY <1>1, <1>2, <1>3, <1>4, <1>5, <1>6, <1>7, <1>8, Zenon DEF RedialStep

\* Threads that call, or shut down, and the server.
LEMMA OthersWind ==
  ASSUME TypeOK, shutdown,
         (\E c \in Callers : CallerStep(c)) \/ CloserStep \/ ServerReceive
  PROVE  shutdown' /\ Winds
<1>1. ASSUME NEW c \in Callers, CallerStep(c) PROVE shutdown' /\ Winds
  <2>1. CASE TrackInflightSubscribe(c) \/ SendThenUntrack(c)
    <3>1. call[c].op \in {"sub", "unsub"} /\ shutdown'
      BY <2>1, Zenon DEF TrackInflightSubscribe, SendThenUntrack, flags
    <3>2. call' = [call EXCEPT ![c] = Idle]
      BY <2>1, Zenon DEF TrackInflightSubscribe, SendThenUntrack
    <3>3. call[c] # Idle
      BY <3>1, SMT DEF Idle
    <3> QED
      BY <3>1, <3>2, <3>3, Zenon DEF Winds
  <2> QED
    BY <1>1, <2>1, Zenon DEF CallerStep, CallStart
<1>2. CASE CloserStep
  <2>1. UNCHANGED call /\ shutdown'
    BY <1>2, Zenon DEF CloserStep, CloseFlag, CloseSend, CloseClear, CloseAuth, flags
  <2>2. <<closer, closer'>> \in {<<"flagged", "sent">>, <<"sent", "contracts_cleared">>,
                                 <<"contracts_cleared", "cleared">>, <<"cleared", "done">>}
    BY <1>2, Zenon DEF CloserStep, CloseFlag, CloseSend, CloseClear, CloseAuth
  <2>3. CloserLeft' < CloserLeft
    BY <2>2, SMT DEF CloserLeft
  <2> QED
    BY <2>1, <2>3, Zenon DEF Winds
<1>3. CASE ServerReceive
  <2>1. toServer \in Seq(Request)
    BY Zenon DEF TypeOK
  <2>2. toServer # <<>> /\ toServer' = Tail(toServer)
        /\ UNCHANGED <<call, closer, io, cmds, shutdown>>
    BY <1>3, Zenon DEF ServerReceive, flags, threads
  <2>3. Len(toServer') < Len(toServer)
    BY <2>1, <2>2, SMT
  <2> QED
    BY <2>2, <2>3, Zenon DEF Winds
<1> QED
  BY <1>1, <1>2, <1>3

\* Once the flag is raised it stays raised and no call begins, and every step of anybody
\* ends a call, goes on with a shutdown(), or brings the I/O thread nearer to its exit: a
\* reconnection under way is not completed but to be left (fpss/mod.rs:2376,
\* io_loop/mod.rs:1143).
THEOREM ShutdownWinds == SafetySpec => [][shutdown => shutdown' /\ Winds]_vars
<1>1. TypeOK /\ [Next]_vars => [shutdown => shutdown' /\ Winds]_vars
  <2> SUFFICES ASSUME TypeOK, Next, shutdown PROVE shutdown' /\ Winds
    OBVIOUS
  <2>1. ASSUME IoMoves PROVE Winds
    BY <2>1, Zenon DEF IoMoves, Winds
  <2> QED
    BY <2>1, SessionWinds, RedialWinds, OthersWind, Zenon DEF Next
<1> QED
  BY <1>1, TypeCorrect, PTL DEF SafetySpec
==============================================================================
