# A verification development for thetadx

TLA+ models of the concurrent core of the ThetaData Rust SDK
(`thetadatadx-rs/src`), TLC runs on small instances, and theorems checked by
TLAPS. The modules follow the code operation by operation; `PROJECT.json` maps
every definition to its lines. Paths below are relative to
`src/thetadatadx-rs/src/`.

## The system

thetadx is a client SDK. One process holds a session token obtained from the
login service (`auth/`), a request/response client for historical data over
gRPC (`mdds/`, `grpc/`), a streaming client over a TLS socket (`fpss/`), a
flat-file downloader (`flatfiles/`) and a facade that owns them
(`client.rs`). FFI, Python, TypeScript and C++ bindings, a WebSocket/HTTP
server and an MCP tool wrap the facade.

| component | state it keeps | operations | hard behaviour |
|---|---|---|---|
| subscription tracking (`fpss/mod.rs`, `fpss/io_loop/mod.rs`) | reference-counted tracked sets with generations, `req_id` correlations, command channel, `shutdown` and `authenticated` flags | subscribe, unsubscribe, shutdown, server answers, session loop, replay after a reconnect | callers, `shutdown()` and the I/O thread interleave; frames queued for a dead session; late, refused or uncorrelated answers; faults half-way through a replay |
| reconnection driver (`fpss/io_loop/mod.rs`, `config/reconnect.rs`, `backoff.rs`, `fpss/connection.rs`) | attempt counters per class, stable-window and envelope anchors, carried reason, current and pinned host | session end, decision (Auto, Manual, Custom), cooldown, dial, login | flapping sessions, failing redials, throttling, clocks, what is reset when |
| event ring and pollers (`fpss/ring.rs`, `fpss/mod.rs`) | disruptor cursors, poller slot, outcome | try_publish, next_event, poll_batch, for_each | full ring, drain against shutdown, two drainers |
| batch reader (`fpss/batch_reader.rs`) | bounded queue of batches, closed / failed / finished flags, waker | on_event, flush, finish, fail, next, close | Block back-pressure against close, lost wake-ups, one terminal outcome after the data |
| decoding (`fpss/decode.rs`, `fpss/delta.rs`) | contract cache, last row per contract | decode_frame, clear on reconnect | deltas of a dead session |
| ping thread (`fpss/io_loop/ping.rs`) | none of its own | one heartbeat per interval | when it ends |
| client life cycle (`client.rs`) | live streaming client, dispatcher, generations, drained flags | start, stop, reconnect, await_drain | stop from inside a callback, a stale dispatcher, stacked drains, save/stop/start/restore |
| session token (`auth/session.rs`) | token, version, attempts, last failure | snapshot, refresh | N concurrent 401s, cancellation |
| retry loops (`mdds/macros.rs`, `config/retry.rs`) | attempt and elapsed budgets of a call | unary and streaming retry | retry after partial delivery, one refresh per call |
| request permits, sharding (`mdds/shard.rs`, `mdds/client.rs`, `grpc/pool.rs`) | shard tasks, permits, pool cursor | plan, fan out, join, merge, abort | failing shard, cancelled caller, re-entrant request |
| flat files, configuration, codecs, bindings, tools | | | sequential or thin; not planned, see below |

The streaming components share one I/O thread. Callers talk to it through the
bounded command channel and two atomic flags, and share the tracked sets with
it under `pending_subs`; it publishes events on the ring, which a dispatcher of
`client.rs` or the user drains. The request side shares only the session token.

What makes each component correct:

* tracking: a server answer only ever acts on the subscription it answers; what
  the client tracks is what the server streams once nothing is in flight; the
  session is announced as live only when it is;
* reconnection: budgets, envelope and throttle floor bind in every mixture of
  failures; recovery ends, says so, and goes back to the stable host;
* ring, reader: no event published before the end is lost to the drain, and
  exactly one terminal outcome is delivered after the data;
* decoding: a row is never built on a row of another session or contract;
* life cycle: at most one generation is live, a stop is never waited for by the
  thread that has to make it, a report of an old generation is ignored;
* token: one login per wave of rejections, nobody is told a failure that was
  not his; retries: nothing is delivered twice, budgets bind;
* permits: a call made inside a handler never waits for what its own call holds;
* sharding: a result is complete or an error; shards partition the range.

## Modules

### FpssSubscriptions

Actors: `Callers` (application threads), the thread in `shutdown()` (`closer`),
the I/O thread (`io` is its program counter) and, external, the server.

| model | code |
|---|---|
| `active[i]` = references and generation | `active_subs` and `active_full_subs`, `inc_active`, `dec_active` |
| `pending` | `pending_subs`; the field `inst` is history, no guard reads it |
| `cmds` | the `sync_channel` of commands |
| `CallStart`, then `TrackInflightSubscribe` / `SendThenUntrack` | `check_connected` and the `req_id`, then the critical section |
| `CloseFlag`, `CloseSend`, `CloseClear` (twice), `CloseAuth` | the statements of `shutdown()` |
| `IoTop`, `IoRead*`, `IoDrain` | one turn of the session loop |
| `IoDecide`, `IoCooldown`, `IoDial`, `IoSnapshot`, `IoReplay`, `IoReplayDone`, `IoQueued`, `IoAnnounce` | the reconnect, phase by phase |

A critical section of `pending_subs` is one action; everything between two of
them can interleave. `check_connected` reads two flags and the request id is
drawn right after: the three are one step. The cooldown's flag check and the
drain that follows are one step. Left out because they touch none of this
state: market data, pings, events on the ring, errors of contract validation.
A write error stands for any write or flush that fails, whenever the kernel
reports it. The 300 s sweep (`Abandoned`) may only take correlations whose
answer can no longer come, which is the assumption its comment states. The
permanent exit for oversized credentials needs a first connect that would have
failed already, and is left out. The server, which is not in the repository, answers each
subscribe in order, accepts or refuses it freely (a duplicate included), and
with `Uncorrelated` may use the `-1` sentinel.

### SubscriptionLedger

The abstract specification: per identity, references held and answers that may
still take one back. `FpssSubscriptions` implements it (`ImplementsLedger`) with
`refs` the reference counts and `owed` the number of resident correlations of
the identity, both zero once the shutdown flag is up (the code promises nothing
about the sets after that).

### FpssReconnect

One I/O thread and its clock. `SessionEnds`, `SessionRefused`, `AfterSession`,
`DecideAuto` / `DecideManual` / `DecideCustom`, `CooldownEnds`, `DialFails`,
`LoginRejected`, `LoginAccepted` are the code's steps in order. Instants are
kept as ages (`upFor` for `last_data_at`, `burst` for `burst_started_at`) and
stop growing at the largest value the code compares them with. `history` is not
in the code; it records what really happened (reconnects since a stable
session, time since the first of them, last word of the server, hosts), and the
properties compare the code's books with it. One reason stands for each class.
A cooldown ends on the tick it is due, so the envelope and the throttle floor
are checked up to scheduling delay, which the code does not bound either.

### MddsRequests

Historical requests of one client. Each is a task; `pc` names the await it is
at. The request semaphore, the session token with its `refresh_lock`, and the
retry loop of each call are modelled together because they interact: a permit
is held over all attempts of a call, a refresh happens inside the loop, and a
deadline drops the whole future at whatever it awaits, releasing permit and
lock.

| model | code |
|---|---|
| `version`, `attempts`, `lastFailure` | `auth/session.rs::Inner`; the uuid changes with the version and only with it |
| `lock`, `pool`, `holders` | `refresh_lock`, the size of `request_semaphore`, its permits |
| `Start`, `Acquire`, `Timeout` | the endpoint macros, `acquire_request_permit`, `run_with_optional_deadline` |
| `Deliver`, `HandlerCalls` | `deliver_chunk_slices_async` and a handler that awaits a call of its own |
| `Snapshot`, `Attempt*`, `BackoffEnds`, `EnvelopeEnds` | one turn of `run_unary_retry_loop` or `run_streaming_retry_loop`, which differ in `delivered` only |
| `RefreshEnter`, `RefreshGate`, `LoginSucceeds`, `LoginFails` | `SessionToken::refresh`, split where it awaits |
| `Revoke`, `accepted` | external: the server stops accepting a token |

Taking the refresh lock and the second look at the token are one step: only the
holder of the lock changes what is looked at. `rejected` and `logins` are not in
the code; they record what the server refused and which logins completed.
A login that a deadline drops is not counted, as in the code: the service may
have performed it, and the next waiter logs in again, although the comment at
`auth/session.rs:221` says a burst enters the login at most once. Left out:
durations (an envelope runs out at any time after the permit), the permits of a
fanned-out query (`ShardedQuery`), counters at 2^64, and `current_uuid`, which reads
what `snapshot` reads.

### EventRing and BatchReader

`EventRing` is the ring between the I/O thread and the one thread that drains
it: `Publish` never waits and counts what a full ring drops, a slot is free
again when the whole batch taken has been worked through, and the end of the
ring is seen when it is empty and the producer gone. On a panic the fault guard
drops first (`IoUnwinds`), then the producer (`ProducerDrops`).

`BatchReader` extends it with the columnar reader. Actors: the dispatcher
(`pc`), the pullers (`pull`: threads blocked in `next_blocking`, or one async
task with its waker) and two teardowns (`teardown`: `close_shared` and
`stop_streaming` or drop).

| model | code |
|---|---|
| `Poll`, `OnEvent`, `Release`, `Linger`, `Recheck` | `poll_batch` inside `BatchSink::scope_drain`, with `on_event` for each event |
| `Push`, `PushBlocks`, `PushParks` | the critical section of `flush`; the wait on a full queue is two steps, test and sleep |
| `End`, `MarkTerminal` | `finish` and `fail` |
| `PullBatch`, `PullError`, `PullEnd`, `PullWaits`, `PullParks` | the arms of `next_blocking` and `poll_next_inner` |
| `Close`, `Quiesce`, `HookFires`, `Join` | `close_and_wake`, `quiesce_if_owned` or `quiesce`, `join_dispatcher_with_wake` |

A thread between its test and its wait holds the mutex (`MutexFree`), which is
why a flag stored outside it loses a wake-up. `delivered`, `lost`, `panicked`,
`cleanEnd` and `errorsTold` are not in the code. Left out: column layout, the
builder error that the code calls unreachable, the wait strategies, the staged
events of `next_event`, and its check for a second drainer.

### RowStream

The abstract specification of the reader: rows are decoded, told, dropped, and
the stream ends; no threads, queue, batches or ring. `Tell` hands out all that
is undecided up to some row, oldest first, so a row can be neither overtaken nor
told twice; `DropOldest` drops all that is undecided up to some row and counts
it; `Discard` is what `Block` may do after a close; `End` needs nothing
undecided. `BatchReader` implements it (`ImplementsStream`) with `told` the rows
handed out, `gone` those lost at the ring or at the queue, and `ended` an end
that was reported before any close and without a panic of the dispatcher.

### ClientLifecycle

The slot (`live`), `stop_generation`, the dispatcher session, its mutex
(`holder`) and `prev_drained` (`registered`) of the unified client. Agents are
user threads and the dispatchers themselves, which make calls from inside a
callback. A call is a program counter (`pc`) and what it carries (`client`,
`handle`, `target`, `saved`).

| model | code |
|---|---|
| `Stop`, `Close`, then `Retire`, `Extract`, `Shutdown`, `Join`, `Report` | `quiesce`, `quiesce_if_owned`: `extract_for_teardown_locked` and `run_teardown`; `LeaveAlone` when the generation moved |
| `Start`, then `Refuse`, `ConnectFails`, `Connect`, `Install`, `Publish` | `start_dispatcher`, which keeps the mutex throughout |
| `Reconnect`, then a retirement, a start, `Restore` | `reconnect_streaming_scoped` and `restore_subscriptions` |
| `AwaitDrain` | one look of `await_drain` |
| `CallbackBegins` / `Returns`, `DispatcherEnds` / `Fails`, `RecordFailed`, `Drain` | the dispatcher thread, `record_dispatcher_failed_if_current`, the drop of the last reference |

The subscription protocol of a session is that of `FpssSubscriptions`, the
wake-up hook of a teardown that of `BatchReader`. The drop of a `Client` is a
stop made by a thread of its own. `Idle` and `Stopped` are one, and the second
generation check of `install_live` cannot fail: the generation moves under the
mutex the start holds, so `Install` always succeeds. Read-only getters and the
pacing of a restore are left out.

What the model also shows, and no property forbids. The slot is swapped before
the drain flag is registered: a thread that sees `is_streaming()` false without
the mutex and calls `await_drain` at once may be told true while a callback
runs; `DrainIsTruthful` speaks of stops that are past that point. A session
whose I/O loop gave up cleanly stays in the slot until somebody stops it. Two
reconnects at the same time may lose every subscription, the second having
saved an empty set, so `ReconnectKeepsSubscriptions` asks for a reconnect that
no other teardown crosses.

### ShardPlan and ShardedQuery

`ShardPlan` holds pure operators and no state: the calendar (`ToOrd`,
`FromOrd`), the clock, `split_date_range` (`Chunks`), the cut points (`Cut`) and
`plan_query` for both axes, with and without the split by right. The server is
external and compares days and times field by field, so the plan is checked
against the calendar and not against the arithmetic it was made with.

`ShardedQuery` runs a plan: each band waits for a permit of its own, is tried
again, and ends `ok`, `notfound`, with an error or aborted. A buffered query
joins its tasks in order and merges their rows (`JoinsNext`, `JoinsAll`,
`Merged`); a streamed one polls all bands to their ends while one async handler,
which may make a request itself, gets the rows (`Chunk`, `HandlerReturns`,
`HandlerAsks`, `NestedAcquires`, `Joins`). `Timeout` drops the call: streamed
bands go with it, buffered tasks are aborted when they next yield (`Aborts`).
The refresh of a token inside a band is the business of `MddsRequests`. Left
out: which channel a band takes, root and symbol columns, header drift, texts
that do not parse, ranges with one end missing. A request made inside a
delivery handler, a pool of one and `BulkFetchPolicy::Off` stay on a single
stream and are calls of `MddsRequests`.

## Runs

| run | what it checks | instance |
|---|---|---|
| `safety` | types, `PendingNamesLiveInstance`, `NoUncorrelatedSubscribe`, `TrackedIsDriven`, `SettledAgreement`, `NotLiveBeforeReplay`, `ImplementsLedger` | 2 threads, 1 stream, channel of 2, 4 calls, 2 faults |
| `sentinel` | `SettledStreamsAreTracked` with `-1` answers | 2 threads, 1 per-contract and 1 full stream, 3 calls, 1 fault |
| `liveness` | `Converges`, `ShutdownStops` | 2 threads, 1 stream, 3 calls, 1 fault |
| `recovery` | types, `BudgetHonoured`, `GivesUpWhenSpent`, `StopsAreAnnounced`, `AutoReturnsToStableHost`, `EnvelopeHonoured`, `ThrottleHonoured`, `RecoveryEnds` | all policies, budgets 3/2/2, envelope 6, window 3, 2 hosts, counters saturating at 4 |
| `requests` | types, `LoginsAreCalledFor`, `OneLoginPerBurst`, `FailuresAreOwn`, `DeliveredOnce`, `AttemptsBounded`, `RejectionsAreRecovered`, `EveryCallEnds` | a unary, a streaming and a nested call, 1 or 2 permits, 2 attempts, 2 revocations, 2 kinds of login failure |
| `batches` | types, `ImplementsStream`, `EndIsTruthful`, `TeardownEnds`, `PullsAreServed` | ring of 2, 3 events, batches of 2, queue of 1, a thread or a task, both back-pressure modes |
| `lifecycle` | types, `SessionsAreOwned`, `DrainIsTruthful`, `ReconnectKeepsSubscriptions`, `CallsReturn` | 1 user, 2 sessions with their dispatchers, 1 stream, 3 calls |
| `shards` | types, `PlanIsSound`, `AnswersAreTruthful`, `EveryQueryEnds` | 8 queries, widths 1, 2 and 5, up to 2 rows, 1 or 5 permits, 2 attempts |
| `auth`, `stop`, `terminal`, `pin` | four statements of the documentation the code does not keep | the smallest instance that shows it |

Why these bounds are enough to be interesting. Streams do not interact except
through the channel and the replay order, so one stream shows every race on a
tracked entry and two show the channel and the order. Two threads are what a
race needs; four calls are a subscribe, a duplicate, an unsubscribe and a
re-subscribe. A channel of two is full with two queued commands, so refused
sends and their roll-back happen. Two faults are a drop and a failure during
the recovery from it. In `recovery` the window, the floor and the envelope are
small but distinct multiples of a tick, each budget is exhausted, the envelope
trips with budget left and the counters reach their ceiling. In `requests`
three calls are what a refresh needs: one logs in, one waits for it, and one
starts in between; one permit makes the nested call meet an exhausted pool and
two let calls meet at the refresh; two revocations make a call meet a second
rejection after its refresh. Each call is made once.

In `batches` three events overflow a ring of two, fill a batch and leave a
partial one, and a queue of one is full with the first batch: the dispatcher
blocks or drops, and all of close, stop, hook, linger and panic meet it there.
In `lifecycle` the dispatchers call the client too, so two sessions are three
agents; three calls are a start, a reconnect and one that crosses them. Two
users with three calls (2.0 million states) and three sessions with four calls
(4.6 million) were checked for the invariants too and are too long to keep.
In `shards` a day has few milliseconds and few rows: `MinBand`,
`MinGridRows`, `SessionWindow` and `MaxSpanDays` stand for the constants of
`shard.rs`, so that both sides of each threshold are met; days run over 29
February 2024, the end of February 2100, the turn of a year and 1 January 1970, times over
noon. Plans of more than `MaxShards` bands are checked as plans and not run.

`CHECK_DEADLOCK FALSE` appears in every configuration because a client that was
shut down, or gave up, and a query that was answered, really stop. Symmetry (callers) is used in runs without
liveness only.

### Fairness

`FpssSubscriptions`: the I/O thread always has an enabled step and its reads
and writes time out (`WF` on its steps together); a caller inside its critical
section and a thread inside `shutdown()` go on (`WF` each); the server reads
its socket (`WF`). Nobody has to call anything, and faults are never forced.
`FpssReconnect`: the thread's own steps, a dial (bounded by the connect and
login timeouts) and the clock during a cooldown; no session ever has to end, so
`RecoveryEnds` allows a session that lasts.
`MddsRequests`: the steps of a call (`WF`): permits and the lock are handed on
in turn, attempts and logins end (the transport and the HTTP client have
timeouts), sleeps are finite, and the runtime polls ready tasks. Deadlines,
revocations and deliveries are never forced.
`BatchReader`: the dispatcher, a puller inside a call, a teardown under way and
the linger clock go on; an I/O thread that was told to stop does (`ShutdownStops`).
Nobody has to pull, close or publish.
`ClientLifecycle`: calls go on, callbacks return, and the dispatcher of a client
that was told to stop reaches the end of a finite ring however many callbacks
come in between (`SF`).
`ShardedQuery`: attempts end, the handler and the nested request return, the
runtime polls ready tasks; no deadline is forced.

### What the code does that its documentation does not say

* `auth`: after `shutdown()` returned, `is_authenticated()` can be true for good.
* `stop`: `shutdown()` of a live session may end without a STOP frame.
* `terminal`: a permanent `DISCONNECTED` in a live session publishes no
  `ReconnectsExhausted`; the decision's own permanent arms are unreachable
  (`TypeOK` of `FpssReconnect` says so, and it is proved).
* `pin`: a Custom policy never pins the last stable host.

## Proofs

`FpssSubscriptionsProofs`, for any threads, streams, channel capacity and
bounds (`ConstantsAssumption`): `TypeCorrect`, `AccountingInvariant`,
`CorrelationsNameLiveInstances`, `ReferencesCoverAnswers`, `LiveAfterReplay`,
`TrackingImplementsLedger`, `SubscribesAreCorrelated`, `StreamsAreTracked`, and,
for a server that answers each subscribe by its `req_id` (`~Uncorrelated`),
`AgreesWhenSettled` and `TrackedNeverStranded`; and `ShutdownWinds`. That a correlation
names a live instance is not inductive by itself. A rejection consumes one
correlation and one reference; it may remove the entry while another
correlation of it is resident unless references cover correlations
(`RefsCoverPending`). A replay adds a correlation without a reference, so an
entry still to be replayed must have one to spare (`ReplayOwed`), and that its
snapshot generation is not reused needs generations below the counter
(`GensBelow`). `Books` is the conjunction; each action has a lemma, and the
counting is done by three lemmas on the cardinality of `PendingFor`.
`TrackingImplementsLedger` maps each step to an operation of the ledger: a
subscribe to `Subscribe` or `WriteOff`, an answer to `Accepted` or `Rejected`
(the reference is there to take back because of `RefsCoverPending`), the copy of
the tracked set to `NewSession`, a replayed frame to `Resubscribe` (`ReplayOwed`,
and `Fresh`: the id it is sent under is above every id in use, so one answer
more is owed and none is overwritten), a raised flag to the closed ledger.

`SubscribesAreCorrelated` and the three after it are about the queues. `WireBooks` says that a request id
belongs to one call, one frame or one answer at a time (`IdsBooked`), that each
subscribe on its way is correlated or withdrawn by a later unsubscribe
(`Correlated`), under its own identity (`Named`), and that an entry which changed
while the replay ran was withdrawn by an unsubscribe still queued behind the
replay (`ReplayWithdrawn`). On this rests the agreement with the server
(`AgreeBooks`). `Risky` are the answers owed to an identity that may still turn
out to be refusals: the subscribe is under way, or its refusal is. An identity
that the server streams, with no unsubscribe on its way, has a reference that no
refusal can take; one that it does not stream has no reference but those at risk
and the one still to be replayed (`Fits`). That the server may stop a stream only
for a frame whose subscribes are forgotten is `Forgotten`; that a replayed frame
is the first of its identity on the socket is `ReplayAhead`. When nothing is in
flight nothing is at risk, and `Fits` is the agreement. The second half of `Fits`
fails for a server that uses the `-1` sentinel (a refusal releases no
reference), which is why two of the theorems assume `~Uncorrelated`; the first
half does not need it.

`ShutdownWinds` is the safety half of `ShutdownStops`: with the flag raised no call
begins, and every step ends a call, goes on with a `shutdown()`, brings the I/O
thread to a place nearer to its exit (`IoLeft`: a dial or replay under way is
completed only to be left at the next look at the flag), or empties the queue of
commands or that of the server. Types are all it needs, because every loop of the
I/O thread looks at the flag before it goes round.

`FpssReconnectProofs`, for any budgets, envelope, windows, delays and hosts
(`ReconnectAssumption`, the ranges the configuration validates):
`RecoveryTypes`, `RecoverySound`, `BudgetsBind`, `EnvelopeBinds`,
`ThrottleBinds`, `StopsAnnounced`, `GivesUpSpent`, `AutoReturns`, `RecoveriesSettle`. The invariant `Sound` says that counters, envelope anchor and
pin are equal to the history, except between the end of a stable session and
the decision that resets them, when the history is already reset; that a
redialling thread has consumed its anchor; and that a cooldown ends inside the
envelope and not before the floor. The two action properties then need only
that a dial starts with no cooldown left. Why a thread stopped needs that the
event is its last word and that a raised flag has a reason (`LastWord`,
`StopHasReason`); that it gave up because something was spent, that no budget
is the largest value of the counter, which saturates before it exceeds it; and
where it dials, that the pin is the history's stable host when the dial begins.
`RecoveriesSettle`, under the same condition on the budgets, is the safety half of
`RecoveryEnds`: what the budgets still allow (`TriesLeft`, a number because of
`BudgetHonoured`) goes up only when a stable session ends, never by sessions that
flap, and each step outside a session uses up an attempt, comes nearer to the end
of the one under way or shortens its cooldown.

`MddsRequestsProofs`, for any set of calls, pool, budget and number of
revocations (`RequestsAssumption`): `RequestTypes`, `RequestsSound`, and from
it `LoginsAreJustified`, `RefreshesCoalesce`, `CoalescedFailuresAreOwn`,
`NothingIsDeliveredTwice`, `RetriesAreBounded`, `RejectionsRecover`,
`PermitsAreReturned`, `CallsNeverDeadlock`, `CallsSettle`. `Sound`
adds to the properties that completed logins are numbered by `attempts` and
move the version on when they succeed (`LoginBooks`), that no call remembers a
future token or login (`Remembers`), that under the lock nothing has moved
since the call entered its refresh, and that when only the login count moved
the recorded failure belongs to a login for the same token (`Refreshing`), and
that a call about to try again has delivered nothing, has an attempt left, and
has at most one older refusal behind it (`Trying`). Steps that complete no
login are dealt with call by call, the other calls being untouched; the two
that do are the only ones that move the books. `PermitsAreReturned`: a call holds a
permit exactly while it has been let in and is not over (`PermitsAreHeld`).
`CallsNeverDeadlock` follows from it and from two facts about who waits: the lock
is with a call at its login, which goes on; and a call that waits for its handler
is streaming and its handler's request is not (`HandlersStream`), so that request
waits for no handler, and not for a permit either. `CallsSettle` is the safety half
of `EveryCallEnds`: each step of a call uses up an attempt or comes nearer to the end
of the one under way, and puts no other call back; the measure is bounded by
`AttemptsBounded`.

`ClientLifecycleProofs`, for any user threads, streams, sessions and calls
(`LifecycleAssumption`): `LifecycleTyped`, `LifecycleSound`, `SessionsOwned`,
`DrainsTruthful`, `ReconnectsKeep`, `JoinsAreOrdered`, `NobodyBlocksNobody`. `Sound` is the types with these parts: who
may hold a client and that it was really connected (`ClientsHeld`); a thread
behind the gate belongs to the start that holds the mutex (`Gated`); slot and
session agree, also in the middle of an extraction or a start (`SlotAgrees`,
`FailedIsOver`); a reader's generation is in the past unless its session is the
live one (`GenerationsMove`); `NoOrphans`; a session retired with callbacks is
in the drain list until its flag is set, and the flag is set when its thread is
over (`DrainsAreWatched`); what a reconnect owes is what it has saved, restored
or noted as failed (`ReconnectsRemember`). One lemma for each action; one for
the steps that leave most of it alone.

The last two theorems are about calls made from inside callbacks. The session that
runs is the last that was made (`LastRuns`), so what a call extracts and joins is
never older than the session whose callback makes it; with `JoinedAreTold` (the
client behind a joined thread was told to stop) this is `JoinsAreOrdered`.
`NobodyBlocksNobody`, the safety half of `CallsReturn`, argues by contradiction:
were everybody in a call to wait for a join, take the largest session joined; its
thread is not over, so it is in a callback that makes a call, which joins a
larger one. That a finite set of sessions has a largest is `OneIsLargest`.

`CalendarProofs` and `ShardPlanProofs` are about operators and hold for every
query and every year (`PlanAssumption`): `RoundTripOfDate`, `EveryOrdIsADate`
and `DatesInOrder` say that dates and ordinals correspond one to one and in
order, by way of years that begin in March, so that a leap day ends one and
all months before it start on the same day of every year; `RoundTripOfTime`,
`EveryMsIsATime`, `TimesInOrder` say the same of the clock. `CutsPartition`
needs only how quotients compare: x lies between the cuts around its band and
no others, and where there are at least as many members as bands no band is
empty. With the calendar this gives `BandsPartition` in terms of what the server
compares, and `PlansAreBands` shows that whatever `plan_query` returns is such
a cut of the whole range.

`ShardedQueryProofs`, for any queries, rows, permits and attempts
(`QueryAssumption`): `ChunksPartition`, `ChunksAreShort`, `PlansAreSound`,
`TypeCorrect`, `AnswersAreTrue`, `QueriesSettle`, `QueriesAreNeverStuck`. Nothing changes a plan, so `PlanIsSound`
needs no strengthening but that the plan is the query's (`Planned`). For the
answers `Sound` adds that what a band has gathered is what it was sent in its
attempt, each row once, which for a streamed band rests on the rule that one
whose handler saw a row is not tried again (`BandSound`); and that the join
only passes bands that are complete or empty, so that a result is about bands
that have ended (`JoinSound`). `TypeOK` contains the count of permits. That the
merged answer is the whole query in order needs three things more: rows of one
contract are gathered in the order of time (`BandInOrder`, from the order in
which the server sends them); what one band of a right covers is before what a
later band of it covers (`BandsAscend`, from the cuts and the calendar); and a
stable sort puts each row in one place (`Ranking`, `MergedIsSorted`: in a finite
total order a member's place is one more than the number of those before it,
which is how `Merged` is written). `QueriesSettle` and `QueriesAreNeverStuck` are the
safety half of `EveryQueryEnds`. Every step brings some band nearer to its end
(its place, its attempts, its rows) and none back, or else the handler or the join;
that the rows of a band are finitely many comes from the calendar (`AskedIsFinite`:
what is asked is the image of an interval of ordinals). And until there is a result
and all bands are over some step may be made: a permit that is missing is held by
a band at its attempt, and a nested request of a handler waits for no permit.

`BatchReaderProofs`, for any threads, ring, batch size and capacity
(`RingAssumption`, `BatchAssumption`): `TypeCorrect`, `RowsAccounted`,
`EndsTruthful`, `NobodyWaitsInVain`, `ReaderStreams`, `ClosedReadersWind`. A flush keeps its place in
`return`, so the invariant speaks of `Place`, where the dispatcher stands when
the flush is over (`Control`): outside a batch nothing is taken, outside a flush
nothing is in hand. That the rows are in order needs in addition only that all of
the ring is in the past. For the ends: while nobody closed and nothing panicked an
outcome other than `Drained` means the ring has ended, which is for good
(`OutcomeIsTrue`); the error is set at the marker and told at most once
(`ErrorIsOnce`); and nothing comes after an end that was reported (`EndIsLast`).
`NobodyWaitsInVain` is the safety half of `PullsAreServed` and is what the mutex is
for: every step that gives somebody something to do, or closes, is taken with the
mutex free and wakes all who wait (`AllWoken`), so a wait whose reason is gone does
not exist in any state; nor do a waiting reader and a blocked dispatcher together,
the one needing an empty queue and the other a full one. The refinement
`ReaderStreams` needs that no batch is empty, so that every batch has a last row,
and that a row once dropped is nowhere else (`Apart`); then what is on its way is
exactly what the stream calls undecided (`WhereRowsAre`), the oldest batch is all of
it up to some row (`UpToIs`), and every step is one of the stream's or moves no row
(`Quiet`). `ClosedReadersWind` is the safety half of `TeardownEnds`: once closed, each
step of the dispatcher brings it nearer to its end (the place where it stands or goes
on after a flush, the events of its batch, the flush), publishing and pulling do
not take it back, and a teardown joins a dispatcher that was told or whose grace
period is not over.

Model-checked only: liveness (`Converges`, `ShutdownStops`, `RecoveryEnds`,
`EveryCallEnds`, `TeardownEnds`, `PullsAreServed`, `CallsReturn`,
`EveryQueryEnds`), because fairness and ENABLED are out of the prover's reach. Every
safety property that a passing run checks is a theorem, and each of these but
`Converges` has a safety half that is one: measures in the natural numbers that no
step puts back (`ShutdownWinds`, `RecoveriesSettle`, `CallsSettle`,
`ClosedReadersWind`, `QueriesSettle`), or that somebody always may go on
(`CallsNeverDeadlock`, `NobodyBlocksNobody`, `QueriesAreNeverStuck`,
`NobodyWaitsInVain`). What TLC adds is that fair scheduling takes those steps.

## Plan

1. Done: `FpssSubscriptions` with `SubscriptionLedger`; `FpssReconnect`.
2. Done: `MddsRequests`, the session token, the retry loops and the permits.
3. Done: `ClientLifecycle`; `EventRing` with `BatchReader`; `ShardPlan` with
   `ShardedQuery`.
4. Done: the calendar, the plan and the answers of `ShardedQuery`; the rows and
   the ends of `BatchReader`; the ledger and stream refinements; the ends of a
   recovery and the host it goes back to; the agreement with the server; the safety
   halves of the liveness properties.
5. `DeltaState`: rows and contract cache across sessions; the staged events of
   `next_event`; the ping thread.

## Not modelled

The delta decoder keeps the last row of a contract and clears it on a
reconnect; it is the next module of the plan. The ping thread sends one
heartbeat per interval and changes no state of its own. Framing, wire format
and handshakes are blocking byte I/O whose outcomes are choices here. Flat
files are a sequential download with a retry loop of the same shape as the MDDS
one. Configuration is validation, and its bounds are the assumptions of the
modules. Codecs, tick types and generated tables keep no state between calls.
The gRPC pool hands out the channel with the fewest requests, which no result
depends on. Bindings are thin and partly generated. The WebSocket server and
the MCP tool are applications of the SDK.

Of the sources met on the way: `to_ord` of `mdds/shard.rs` says it counts from
0001-01-01 and counts from 1970-01-01, which no caller can tell; the last test
of the date axis (`n < 2`) is never true, because the axis needs two days and the
width is at least two; `stop_streaming` says it returns at once, and joins the
dispatcher unless it is called from it.
