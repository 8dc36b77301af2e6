---------------------------- MODULE ShardedQuery ----------------------------
(***************************************************************************)
(* One history query that is cut into bands and fetched by one request per *)
(* band: buffered, where each band is a task and the bands are joined in   *)
(* order and merged, or streamed, where all bands hand their rows to one   *)
(* async handler.                                                          *)
(*                                                                         *)
(* A row belongs to a contract and a day or time.  The server sends the    *)
(* rows of a contract in time order and the contracts in any.  A chunk is  *)
(* one row; a chunk without rows changes nothing.  Of the retry loop only  *)
(* what the bands add is here, the rest is the business of MddsRequests,   *)
(* as is a query that stays on a single stream.                            *)
(***************************************************************************)
EXTENDS ShardPlan, FiniteSets, SequencesExt

CONSTANTS
    Queries,       \* the queries that may be made
    Contracts,     \* contracts of a chain
    Pool,          \* size of the channel pool and of the request semaphore
    Widths,        \* bands it may be allowed: the pool, or a narrower shard_concurrency
    Left,          \* permits that the other calls of the client may leave
    MaxRows,       \* bound: rows the server holds
    MaxShards,     \* bound: a fan-out of more bands is planned and not run
    MaxAttempts    \* RetryPolicy::max_attempts

ASSUME QueryAssumption ==
    /\ \A q \in Queries : IsQuery(q)
    /\ Contracts \in Nat \ {0}
    /\ Pool \in Nat \ {0}
    /\ Widths \subseteq 1..Pool
    /\ Left \subseteq 1..Pool
    /\ MaxRows \in Nat
    /\ MaxShards \in Nat
    /\ MaxAttempts \in Nat

VARIABLES
    query, mode, plan, data,   \* what is asked, how, of whom: never changes
    permits,   \* those that the other calls leave: does not change
    pc,        \* each band: waiting for its permit, in an attempt, or how it ended
    tries,     \* its attempt
    sent,      \* rows it was sent in this attempt
    got,       \* rows it has gathered, or handed to the handler
    some,      \* band_produced, or delivered: has any attempt brought rows?
    handling,  \* band whose row the handler works on, 0 if none
    nested,    \* a request awaited inside the handler
    next,      \* buffered: the band the join awaits
    result     \* what the call returned

fixed == <<query, mode, plan, data, permits>>
bands == <<pc, tries, sent, got, some>>
vars  == <<fixed, bands, handling, nested, next, result>>

Endings == {"ok", "notfound", "error", "aborted"}
Shards == DOMAIN plan

------------------------------------------------------------------------------
(* Rows *)

Keys(q) ==
    IF q.contract = "chain" THEN (1..Contracts) \X RightsAsked(q) ELSE {<<0, Call>>}

AskedOf == [q \in Queries |-> Asked(q)]
Cells(q) == [key : Keys(q), at : AskedOf[q]]

InBand(r, band) ==
    Covers(band, r.at) /\ (band.right = Own \/ band.right = r.key[2])

RowsOf(k) == {r \in data : InBand(r, plan[k])}

\* Rows that may come next: the earliest of each contract.
Upcoming(k) ==
    {r \in RowsOf(k) \ sent[k] :
       \A s \in RowsOf(k) \ sent[k] : s.key = r.key => AtMost(r.at, s.at)}

------------------------------------------------------------------------------
Init ==
    /\ query \in Queries
    /\ data \in {D \in SUBSET Cells(query) : Cardinality(D) <= MaxRows}
    /\ mode \in {"buffered", "streamed"}
    /\ permits \in Left
    /\ \E width \in Widths : plan = PlanQuery(query, width)
    /\ pc = [k \in Shards |-> IF Len(plan) > MaxShards THEN "aborted" ELSE "permit"]
    /\ tries = [k \in Shards |-> 0]
    /\ sent = [k \in Shards |-> {}]
    /\ got = [k \in Shards |-> <<>>]
    /\ some = [k \in Shards |-> FALSE]
    /\ handling = 0
    /\ nested = "none"
    /\ next = 1
    /\ result = IF plan = <<>> THEN "single"
                ELSE IF Len(plan) > MaxShards THEN "notrun" ELSE "running"

Working(k) == pc[k] \in {"permit", "attempt"}

Taken ==
    Cardinality({k \in Shards : pc[k] = "attempt"})
      + (IF nested = "running" THEN 1 ELSE 0)

\* The future of a streamed call, with its bands, is dropped when it has a result; the
\* tasks of a buffered one go on until they notice.
Polled == mode = "buffered" \/ result = "running"

------------------------------------------------------------------------------
(* A band *)

\* Variant: it is let in without a permit of its own.
AcquireAnyhow(k) ==
    /\ pc[k] = "permit" /\ Polled
    /\ pc' = [pc EXCEPT ![k] = "attempt"]
    /\ tries' = [tries EXCEPT ![k] = 1]
    /\ UNCHANGED <<fixed, sent, got, some, handling, nested, next, result>>
Acquire(k) ==
    /\ pc[k] = "permit" /\ Polled
    /\ Taken < permits
    /\ pc' = [pc EXCEPT ![k] = "attempt"]
    /\ tries' = [tries EXCEPT ![k] = 1]
    /\ UNCHANGED <<fixed, sent, got, some, handling, nested, next, result>>

\* A streamed row waits for the handler, which is locked while it runs.
Chunk(k) ==
    /\ pc[k] = "attempt" /\ Polled
    /\ handling = 0
    /\ \E r \in Upcoming(k) :
         /\ sent' = [sent EXCEPT ![k] = @ \cup {r}]
         /\ got' = [got EXCEPT ![k] = Append(@, r)]
    /\ some' = [some EXCEPT ![k] = TRUE]
    /\ handling' = IF mode = "streamed" THEN k ELSE 0
    /\ UNCHANGED <<fixed, pc, tries, nested, next, result>>

\* The attempt is over, and with it the band and its permit.
Ends(k, ending) ==
    /\ pc[k] = "attempt" /\ Polled
    /\ handling # k
    /\ pc' = [pc EXCEPT ![k] = ending]
    /\ UNCHANGED <<fixed, tries, sent, got, some, handling, nested, next, result>>

Completes(k) == sent[k] = RowsOf(k) /\ Ends(k, "ok")

\* The server says there is nothing; the code is prepared for it to say so late.
NothingFound(k) == (RowsOf(k) = {} \/ sent[k] # {}) /\ Ends(k, "notfound")

Fails(k) == Ends(k, "error")

\* Variant: rows that reached the handler are not in the way of another attempt.
MayReplayAnyhow(k) == tries[k] < MaxAttempts
MayReplay(k) == tries[k] < MaxAttempts /\ (mode = "streamed" => ~some[k])

\* A transient error: the rows of the attempt are dropped and it is made again.
Replay(k) ==
    /\ pc[k] = "attempt" /\ Polled
    /\ handling # k
    /\ MayReplay(k)
    /\ tries' = [tries EXCEPT ![k] = @ + 1]
    /\ sent' = [sent EXCEPT ![k] = {}]
    /\ got' = IF mode = "buffered" THEN [got EXCEPT ![k] = <<>>] ELSE got
    /\ UNCHANGED <<fixed, pc, some, handling, nested, next, result>>

\* The task of a buffered band whose call is over is aborted.
Aborts(k) ==
    /\ mode = "buffered"
    /\ result # "running"
    /\ Working(k)
    /\ pc' = [pc EXCEPT ![k] = "aborted"]
    /\ UNCHANGED <<fixed, tries, sent, got, some, handling, nested, next, result>>

BandStep(k) ==
    \/ Acquire(k) \/ Chunk(k) \/ Completes(k) \/ NothingFound(k) \/ Fails(k) \/ Replay(k)
    \/ Aborts(k)

------------------------------------------------------------------------------
(* The handler, once for each row *)

HandlerReturns ==
    /\ handling # 0
    /\ nested \in {"none", "over"}
    /\ handling' = 0
    /\ nested' = "none"
    /\ UNCHANGED <<fixed, bands, next, result>>

HandlerAsks ==
    /\ handling # 0
    /\ nested = "none"
    /\ nested' = "asks"
    /\ UNCHANGED <<fixed, bands, handling, next, result>>

\* A request made inside the handler never waits for a permit, and never fans out.
\* Variant: it waits.
NestedWaits ==
    /\ nested = "asks"
    /\ Taken < permits
    /\ nested' = "running"
    /\ UNCHANGED <<fixed, bands, handling, next, result>>
NestedAcquires ==
    /\ nested = "asks"
    /\ nested' = IF Taken < permits THEN "running" ELSE "over"
    /\ UNCHANGED <<fixed, bands, handling, next, result>>

NestedEnds ==
    /\ nested = "running"
    /\ nested' = "over"
    /\ UNCHANGED <<fixed, bands, handling, next, result>>

HandlerStep == HandlerReturns \/ NestedAcquires \/ NestedEnds

------------------------------------------------------------------------------
(* join_shards *)

Folds(k) == pc[k] = "notfound" /\ ~some[k]

JoinsNext ==
    /\ mode = "buffered"
    /\ result = "running"
    /\ next \in Shards
    /\ ~Working(next)
    /\ IF pc[next] = "ok" \/ Folds(next)
       THEN next' = next + 1 /\ UNCHANGED result
       ELSE result' = "failed" /\ UNCHANGED next
    /\ UNCHANGED <<fixed, bands, handling, nested>>

JoinsAll ==
    /\ mode = "buffered"
    /\ result = "running"
    /\ next = Len(plan) + 1
    /\ result' = IF /\ \E k \in Shards : pc[k] = "notfound"
                    /\ \A k \in Shards : pc[k] = "ok" => got[k] = <<>>
                 THEN "notfound" ELSE "ok"
    /\ UNCHANGED <<fixed, bands, handling, nested, next>>

\* merge_typed_in_order: a stable sort by contract of the rows of all bands.  Rows of one
\* contract stay in the order of the bands, and within a band as they came.
Before(a, b) == a[1] < b[1] \/ (a[1] = b[1] /\ a[2] < b[2])

Places(rows) == UNION {{k} \X DOMAIN rows[k] : k \in DOMAIN rows}
RowAt(rows, p) == rows[p[1]][p[2]]

Precedes(rows, p, q) ==
    \/ Before(RowAt(rows, p).key, RowAt(rows, q).key)
    \/ RowAt(rows, p).key = RowAt(rows, q).key /\ Before(p, q)

PlaceOf(rows, p) == Cardinality({q \in Places(rows) : Precedes(rows, q, p)}) + 1

Merged(rows) ==
    [i \in 1..Cardinality(Places(rows)) |->
       RowAt(rows, CHOOSE p \in Places(rows) : PlaceOf(rows, p) = i)]

------------------------------------------------------------------------------
(* join_streaming_shards *)

Failed == {k \in Shards : pc[k] = "error" \/ (pc[k] = "notfound" /\ ~Folds(k))}

\* Every band runs to its own end.
Drained == \A k \in Shards : ~Working(k)

Joins ==
    /\ mode = "streamed"
    /\ result = "running"
    /\ Drained
    /\ result' =
         IF Failed # {} THEN (IF \E k \in Shards : some[k] THEN "partial" ELSE "failed")
         ELSE IF (\E k \in Shards : pc[k] = "notfound") /\ \A k \in Shards : ~some[k]
         THEN "notfound" ELSE "ok"
    /\ UNCHANGED <<fixed, bands, handling, nested, next>>

JoinStep == JoinsNext \/ JoinsAll \/ Joins

------------------------------------------------------------------------------
\* The deadline drops the call.
Timeout ==
    /\ result = "running"
    /\ result' = "timeout"
    /\ IF mode = "buffered"
       THEN UNCHANGED <<pc, handling, nested>>
       ELSE /\ pc' = [k \in Shards |-> IF Working(k) THEN "aborted" ELSE pc[k]]
            /\ handling' = 0
            /\ nested' = "none"
    /\ UNCHANGED <<fixed, tries, sent, got, some, next>>

Next ==
    \/ \E k \in Shards : BandStep(k)
    \/ HandlerAsks \/ HandlerStep \/ JoinStep
    \/ Timeout

SafetySpec == Init /\ [][Next]_vars

\* Attempts end, handlers return and tasks are polled.
Fairness ==
    /\ WF_vars(\E k \in Shards : BandStep(k))
    /\ WF_vars(HandlerStep)
    /\ WF_vars(JoinStep)

Spec == SafetySpec /\ Fairness

------------------------------------------------------------------------------
(* Properties *)

\* The type of every variable; the client has no more requests under way than permits,
\* and the handler is at work on one row at a time.
TypeOK ==
    /\ query \in Queries
    /\ mode \in {"buffered", "streamed"}
    /\ permits \in Left
    /\ data \subseteq Cells(query)
    /\ pc \in [Shards -> {"permit", "attempt"} \cup Endings]
    /\ tries \in [Shards -> 0..Greater(1, MaxAttempts)]
    /\ sent \in [Shards -> SUBSET data]
    /\ got \in [Shards -> Seq(data)]
    /\ some \in [Shards -> BOOLEAN]
    /\ handling \in Shards \cup {0}
    /\ handling # 0 => mode = "streamed" /\ pc[handling] = "attempt"
    /\ nested \in {"none", "asks", "running", "over"}
    /\ nested # "none" => handling # 0
    /\ next \in 1..(Len(plan) + 1)
    /\ result \in {"running", "single", "ok", "notfound", "failed", "partial", "timeout",
                   "notrun"}
    /\ Taken <= permits

\* Every contract and every day or time that a query asks for is in one band and no
\* more, no band asks for anything else or for what the server does not give in one
\* answer, and the bands fit the pool unless they have to be single days.
BandsAreSound ==
    plan # <<>> =>
      /\ \A at \in AskedOf[query] : \A right \in RightsAsked(query) :
           Cardinality({k \in Shards : InBand([key |-> <<0, right>>, at |-> at], plan[k])}) = 1
      /\ \A k \in Shards : {plan[k].from, plan[k].to} \subseteq AskedOf[query]
      /\ IF SingleDayTickChain(query) /\ SelectAxis(query) = "date"
         THEN \A k \in Shards : plan[k].from = plan[k].to
         ELSE Len(plan) <= Pool

\* A range cut into chunks is covered once, and no chunk is longer than the server takes.
ChunksAreSound ==
    \A q \in {r \in Queries : r.days # Absent} :
      LET chunks == Chunks(q.days[1], q.days[2])
      IN /\ \A d \in Days(q) :
              Cardinality({k \in DOMAIN chunks : Covers(chunks[k], d)}) = 1
         /\ \A k \in DOMAIN chunks :
              /\ {chunks[k].from, chunks[k].to} \subseteq Days(q)
              /\ Cardinality({d \in Days(q) : Covers(chunks[k], d)}) <= MaxSpanDays

\* However a query is cut, by the calendar and the clock nothing of it is lost or asked
\* for twice (mdds/shard.rs:224, 706, 736, 980).
PlanIsSound == BandsAreSound /\ ChunksAreSound

\* A band has all its rows once, or some of them, none twice.
Exact(k) == IsInjective(got[k]) /\ ToSet(got[k]) = RowsOf(k)
Clean(k) == IsInjective(got[k]) /\ ToSet(got[k]) \subseteq RowsOf(k)

\* Success means every row of every band once; "no data" that there is none; a partial
\* fetch that only the bands it names are short; a wholesale failure of a streamed query
\* that the handler saw nothing.  No handler is given a row twice.
BandsAreTruthful ==
    /\ result = "ok" => \A k \in Shards : Exact(k)
    /\ result = "notfound" => \A k \in Shards : RowsOf(k) = {}
    /\ result = "partial" => Failed # {} /\ \A k \in Shards \ Failed : Exact(k)
    /\ mode = "streamed" =>
         /\ \A k \in Shards : Clean(k)
         /\ result = "failed" => \A k \in Shards : got[k] = <<>>

RowBefore(a, b) ==
    Before(a.key, b.key) \/ (a.key = b.key /\ a.at # b.at /\ AtMost(a.at, b.at))

\* What a call reports is what the bands brought, however they ended and were tried
\* again; and a buffered query that succeeds returns the rows of the whole query, by
\* contract and then in time, however it was cut and in whatever order bands and
\* contracts came (mdds/shard.rs:1102-1123, 1206-1237, 1486-1500).
AnswersAreTruthful ==
    /\ BandsAreTruthful
    /\ mode = "buffered" /\ result = "ok" =>
         LET answer == Merged(got)
         IN /\ ToSet(answer) = data
            /\ \A i, j \in DOMAIN answer : i < j => RowBefore(answer[i], answer[j])

\* Every query ends and gives all its permits back, however few the other calls leave
\* it and whether or not its handler makes requests (mdds/client.rs:340).
EveryQueryEnds ==
    result = "running" ~> result # "running" /\ \A k \in Shards : ~Working(k)
==============================================================================
