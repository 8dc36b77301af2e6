---------------------------- MODULE FpssReconnect ----------------------------
(***************************************************************************)
(* The reconnection driver of one FPSS streaming client: why a session     *)
(* ends, which attempt budget and cooldown its reason draws on, when the   *)
(* I/O thread stops trying, and which host it dials first.                 *)
(*                                                                         *)
(* Time is counted in ticks.  The code keeps Instants and asks how long    *)
(* ago they were; here the age itself is kept, up to the largest value the *)
(* code compares it with.  A tick passes while the thread waits (in a      *)
(* session, a cooldown or a dial), never in the middle of a decision, and  *)
(* a cooldown ends on the tick it is due.                                  *)
(*                                                                         *)
(* What a session carries is the subject of FpssSubscriptions.             *)
(***************************************************************************)
EXTENDS Integers

CONSTANTS
    Policies,         \* reconnect policies the user may configure
    NumHosts,         \* length of the declared host list
    Budget,           \* attempts allowed, per class
    MaxElapsed,       \* wall-clock envelope of a sequence, 0 for none
    StableWindow,     \* uptime that earns a fresh budget
    DefaultWindow,    \* the same under a Custom policy
    WaitMs,           \* first transient delay
    WaitMaxMs,        \* cap of the transient ladder
    WaitRestartMs,    \* cadence after ServerRestarting
    WaitRateLimited,  \* floor after TooManyRequests
    JitterWindow,     \* what jitter may add to that floor
    CustomMaxDelay,   \* bound: longest delay a Custom closure returns
    CounterMax        \* u32::MAX, where the attempt counters saturate

Classes == {"Transient", "RateLimited", "ServerRestart"}

ASSUME ReconnectAssumption ==
    /\ Policies \subseteq {"auto", "manual", "custom"}
    /\ NumHosts \in Nat \ {0}
    /\ Budget \in [Classes -> 1..CounterMax]
    /\ {MaxElapsed, StableWindow, DefaultWindow, WaitMs, WaitMaxMs, WaitRestartMs,
        WaitRateLimited, JitterWindow, CustomMaxDelay, CounterMax} \subseteq Nat

VARIABLES
    pc,        \* where the I/O thread is
    policy,    \* the configured policy
    shutdown,  \* the shared shutdown flag
    reason,    \* disconnect_reason, or the pending_reason a failed redial carries
    count,     \* ReconnectCounters: attempts per class
    upFor,     \* age of last_data_at: time since the first frame of the session
    burst,     \* age of burst_started_at
    attempt,   \* reconnect_attempt of the current cycle
    sleep,     \* what is left of the cooldown
    pinned,    \* last_known_good_host
    current,   \* current_host
    gaveUp,    \* the ReconnectsExhausted event, once published
    history    \* not in the code: what the properties measure it by

vars == <<pc, policy, shutdown, reason, count, upFor, burst, attempt, sleep,
          pinned, current, gaveUp, history>>
session == <<policy, upFor, burst, pinned, current>>

------------------------------------------------------------------------------
Min(a, b) == IF a < b THEN a ELSE b
Never   == -1
NoHost  == 0
NoEvent == [reason |-> "none", attempts |-> 0]
NoTries == [c \in Classes |-> 0]

\* One reason stands for each group of reasons the code treats alike.
Reasons == {"Unspecified", "TimedOut", "TooManyRequests", "ServerRestarting",
            "InvalidCredentials"}
Class(r) == CASE r = "InvalidCredentials" -> "permanent"
              [] r = "TooManyRequests"    -> "RateLimited"
              [] r = "ServerRestarting"   -> "ServerRestart"
              [] OTHER                    -> "Transient"
Retriable == {r \in Reasons : Class(r) # "permanent"}
ElapsedBudgetApplies(c) == c # "RateLimited"

Window == IF policy = "custom" THEN DefaultWindow ELSE StableWindow
UpMax    == IF StableWindow > DefaultWindow THEN StableWindow ELSE DefaultWindow
BurstMax == MaxElapsed + 1
Older(age, cap) == IF age = Never THEN Never ELSE Min(age + 1, cap)

\* u32 saturating_add.  Variant: a counter that keeps growing.
Unsaturated(n) == n + 1
Increment(n) == Min(n + 1, CounterMax)

CappedExponential(n) == Min(WaitMs * 2^(Min(n - 1, 31)), WaitMaxMs)

\* The jittered delays of an attempt (JitterMode::Full; None is its upper end,
\* or the floor itself after TooManyRequests).
Delays(c, n) ==
    CASE c = "Transient"     -> 0..CappedExponential(n)
      [] c = "ServerRestart" -> 0..WaitRestartMs
      [] c = "RateLimited"   -> WaitRateLimited..(WaitRateLimited + JitterWindow)

Hosts == 1..NumHosts

\* order_hosts puts the pinned host before the declared order; the dial walks it.
Rank(h) == IF h = pinned THEN 0 ELSE h
First(h, up) == h \in up /\ \A k \in up : Rank(h) <= Rank(k)

------------------------------------------------------------------------------
Init ==
    /\ pc = "session"
    /\ policy \in Policies
    /\ shutdown = FALSE
    /\ reason = "Unspecified"
    /\ count = NoTries
    /\ upFor = Never
    /\ burst = Never
    /\ attempt = 0
    /\ sleep = 0
    /\ pinned = NoHost
    /\ current \in Hosts
    /\ gaveUp = NoEvent
    /\ history = [tries      |-> NoTries,   \* reconnects since a stable session
                  span       |-> Never,     \* time since the first of them
                  signal     |-> "none",    \* what the last session or login ended with
                  quiet      |-> 0,         \* time since then, or since the last dial
                  host       |-> current,   \* host of the current or last session
                  stableHost |-> NoHost,    \* host of the last stable session
                  missed     |-> FALSE,     \* was it up when another host was dialled?
                  closed     |-> FALSE,     \* did the user call shutdown()?
                  refused    |-> FALSE]     \* did a live session end for good?

------------------------------------------------------------------------------
(* The session *)

\* shutdown() of the user, at any moment.
Shutdown ==
    /\ ~shutdown
    /\ shutdown' = TRUE
    /\ history' = [history EXCEPT !.closed = TRUE]
    /\ UNCHANGED <<pc, session, reason, count, attempt, sleep, gaveUp>>

SessionTop ==
    /\ pc = "session"
    /\ shutdown
    /\ pc' = "exited"
    /\ UNCHANGED <<session, shutdown, reason, count, attempt, sleep, gaveUp, history>>

\* note_data_received: only the first frame of a session arms the anchor.
Armed == IF upFor = Never THEN 0 ELSE upFor

FirstFrame ==
    /\ pc = "session"
    /\ upFor = Never
    /\ upFor' = Armed
    /\ UNCHANGED <<pc, policy, shutdown, reason, count, burst, attempt, sleep,
                   pinned, current, gaveUp, history>>

\* A session counts as stable when its first frame is a window ago.
RanStable(age) == age # Never /\ age >= Window

Ended(r, age) ==
    IF RanStable(age)
    THEN [history EXCEPT !.tries = NoTries, !.span = Never, !.stableHost = history.host,
                         !.signal = r, !.quiet = 0]
    ELSE [history EXCEPT !.signal = r, !.quiet = 0]

\* The socket dies or goes silent, or the server sends DISCONNECTED with a reason
\* worth retrying; that frame is a frame too.
SessionEnds ==
    /\ pc = "session"
    /\ \/ /\ reason' \in {"Unspecified", "TimedOut"}
          /\ upFor' = upFor
       \/ /\ reason' \in Retriable
          /\ upFor' = Armed
    /\ history' = Ended(reason', upFor')
    /\ pc' = "ended"
    /\ UNCHANGED <<policy, shutdown, count, burst, attempt, sleep, pinned, current, gaveUp>>

\* DISCONNECTED with a permanent reason: the decoder raises the flag, and the
\* loop finds it at its next turn.
SessionRefused ==
    /\ pc = "session"
    /\ shutdown' = TRUE
    /\ pc' = "exited"
    /\ history' = [history EXCEPT !.refused = TRUE]
    /\ UNCHANGED <<session, reason, count, attempt, sleep, gaveUp>>

\* The flag is looked at once more before the decision.
AfterSession ==
    /\ pc = "ended"
    /\ pc' = IF shutdown THEN "exited" ELSE "decide"
    /\ UNCHANGED <<session, shutdown, reason, count, attempt, sleep, gaveUp, history>>

------------------------------------------------------------------------------
(* The decision *)

\* publish_exhausted! and leave.  Variant: only a sequence that tried announces
\* its end.
AnnounceTried(n) == IF n > 0 THEN [reason |-> reason, attempts |-> n] ELSE NoEvent
Announce(n) == [reason |-> reason, attempts |-> n]

GiveUp(n) ==
    /\ pc' = "exited"
    /\ gaveUp' = Announce(n)
    /\ UNCHANGED <<upFor, burst, attempt, sleep, history>>

DecideManual ==
    /\ pc = "decide"
    /\ policy = "manual"
    /\ GiveUp(0)
    /\ UNCHANGED <<policy, shutdown, reason, count, pinned, current>>

\* Variant: any session that delivered a frame earns a fresh budget.
StableAfterFirstFrame == upFor # Never
Stable == upFor # Never /\ upFor >= Window

\* Once per drop the decision consumes the anchor.  Variant: it stays.
AnchorKept == upFor
AnchorAfterDecision == Never

\* The counters and the envelope after maybe_reset_after_stable and record.
Recorded(c) ==
    LET base == IF Stable THEN NoTries ELSE count
    IN [base EXCEPT ![c] = Increment(@)]
BurstAge == IF Stable \/ burst = Never THEN 0 ELSE burst

\* Variants: the last attempt of the budget is not granted; only the envelope ends
\* a sequence.
SpentEarly(c, n) == n >= Budget[c]
SpentByEnvelope(c, n) ==
    ElapsedBudgetApplies(c) /\ MaxElapsed # 0 /\ BurstAge > MaxElapsed
Spent(c, n) ==
    \/ n > Budget[c]
    \/ ElapsedBudgetApplies(c) /\ MaxElapsed # 0 /\ BurstAge > MaxElapsed

\* A cooldown is clipped to what is left of the envelope.  Variant: it is not.
Unclipped(c, d) == d
Clipped(c, d) ==
    IF ElapsedBudgetApplies(c) /\ MaxElapsed # 0 THEN Min(d, MaxElapsed - BurstAge) ELSE d

\* Reconnecting is published, then the thread sleeps.
Cooldown(c, n, d) ==
    /\ pc' = "cooldown"
    /\ attempt' = n
    /\ sleep' = d
    /\ upFor' = AnchorAfterDecision
    /\ burst' = BurstAge
    /\ history' = [history EXCEPT !.tries[c] = Min(@ + 1, CounterMax),
                                  !.span = IF @ = Never THEN 0 ELSE @]
    /\ UNCHANGED gaveUp

\* Permanent reasons are turned away before any budget is consulted.
DecideAuto ==
    /\ pc = "decide"
    /\ policy = "auto"
    /\ IF reason \notin Retriable
       THEN GiveUp(0) /\ UNCHANGED <<count, pinned>>
       ELSE LET c == Class(reason)
                n == Recorded(c)[c]
            IN /\ pinned' = IF Stable THEN current ELSE pinned
               /\ count' = Recorded(c)
               /\ IF Spent(c, n)
                  THEN GiveUp(n - 1)
                  ELSE \E d \in Delays(c, n) : Cooldown(c, n, Clipped(c, d))
    /\ UNCHANGED <<policy, shutdown, reason, current>>

\* The user's closure sees the number of consecutive attempts and answers with a
\* delay or with None; no budget applies, and the reset is not told to the pin.
DecideCustom ==
    /\ pc = "decide"
    /\ policy = "custom"
    /\ IF reason \notin Retriable
       THEN GiveUp(0) /\ UNCHANGED count
       ELSE LET n == Recorded("Transient")["Transient"]
            IN /\ count' = Recorded("Transient")
               /\ \/ GiveUp(n - 1)
                  \/ \E d \in 0..CustomMaxDelay : Cooldown("Transient", n, d)
    /\ UNCHANGED <<policy, shutdown, reason, pinned, current>>

------------------------------------------------------------------------------
(* Cooldown, dial and login *)

CooldownEnds ==
    /\ pc = "cooldown"
    /\ sleep = 0 \/ shutdown
    /\ pc' = IF shutdown THEN "exited" ELSE "dial"
    /\ UNCHANGED <<session, shutdown, reason, count, attempt, sleep, gaveUp, history>>

\* A redial that fails before the session is live carries the reason it was for.
\* Variant: the dead socket is read once more, and times out.
ReasonLost == "TimedOut"
PendingReason == reason

Redialled == [history EXCEPT !.quiet = 0]

\* No host answers, or the login exchange breaks.
DialFails ==
    /\ pc = "dial"
    /\ pc' = "ended"
    /\ reason' = PendingReason
    /\ history' = Redialled
    /\ UNCHANGED <<session, shutdown, count, attempt, sleep, gaveUp>>

\* The server rejects the login with a reason of its own.
LoginRejected ==
    /\ pc = "dial"
    /\ \/ /\ reason' \in Retriable
          /\ pc' = "ended"
          /\ history' = [Redialled EXCEPT !.signal = reason']
          /\ UNCHANGED <<shutdown, gaveUp>>
       \/ /\ reason' \in Reasons \ Retriable
          /\ pc' = "exited"
          /\ gaveUp' = [reason |-> reason', attempts |-> attempt]
          /\ shutdown' = TRUE
          /\ history' = [Redialled EXCEPT !.signal = reason']
    /\ UNCHANGED <<session, count, attempt, sleep>>

\* Variant: the address that accepted the login is not recorded.
HostForgotten(h) == current
HostAfterLogin(h) == h

\* The login is accepted by the first host of the order that is up; the replay
\* that follows may still find the socket broken, or the flag raised.
LoginAccepted ==
    /\ pc = "dial"
    /\ \E up \in SUBSET Hosts, h \in Hosts :
         /\ First(h, up)
         /\ current' = HostAfterLogin(h)
         /\ history' = [Redialled EXCEPT !.host = h,
                         !.missed = history.stableHost \in up /\ h # history.stableHost]
    /\ \/ pc' = "ended" /\ reason' = PendingReason
       \/ pc' = (IF shutdown THEN "exited" ELSE "session") /\ UNCHANGED reason
    /\ UNCHANGED <<policy, shutdown, count, upFor, burst, attempt, sleep, pinned, gaveUp>>

Tick ==
    /\ pc \in {"session", "cooldown", "dial"}
    /\ pc = "cooldown" => sleep > 0
    /\ sleep' = IF pc = "cooldown" THEN sleep - 1 ELSE sleep
    /\ upFor' = Older(upFor, UpMax)
    /\ burst' = Older(burst, BurstMax)
    /\ history' = [history EXCEPT !.span = Older(@, BurstMax),
                                  !.quiet = Older(@, WaitRateLimited)]
    /\ UNCHANGED <<pc, policy, shutdown, reason, count, attempt, pinned, current, gaveUp>>

------------------------------------------------------------------------------
Decide == DecideManual \/ DecideAuto \/ DecideCustom
Dial == DialFails \/ LoginRejected \/ LoginAccepted
Next ==
    \/ Shutdown
    \/ SessionTop \/ FirstFrame \/ SessionEnds \/ SessionRefused \/ AfterSession
    \/ Decide
    \/ CooldownEnds \/ Dial
    \/ Tick

\* The I/O thread takes its own steps, a dial is bounded by its timeouts, and a
\* cooldown is bounded by the clock.  No session has to end.
Fairness ==
    /\ WF_vars(SessionTop \/ AfterSession \/ Decide \/ CooldownEnds)
    /\ WF_vars(Dial)
    /\ WF_vars(Tick /\ pc = "cooldown")

SafetySpec == Init /\ [][Next]_vars
Spec == SafetySpec /\ Fairness

------------------------------------------------------------------------------
(* Properties *)

Tries == [Classes -> 0..CounterMax]
Ages(cap) == {Never} \cup 0..cap
History == [tries : Tries, span : Ages(BurstMax),
            signal : Reasons \cup {"none"}, quiet : 0..WaitRateLimited,
            host : Hosts, stableHost : Hosts \cup {NoHost},
            missed : BOOLEAN, closed : BOOLEAN, refused : BOOLEAN]

\* The type of every variable; a decision is only ever reached with a reason worth
\* retrying, so the two short-circuits for permanent reasons are never taken.
TypeOK ==
    /\ pc \in {"session", "ended", "decide", "cooldown", "dial", "exited"}
    /\ policy \in Policies
    /\ shutdown \in BOOLEAN
    /\ reason \in Reasons
    /\ pc # "exited" => reason \in Retriable
    /\ count \in Tries
    /\ upFor \in Ages(UpMax)
    /\ burst \in Ages(BurstMax)
    /\ attempt \in 0..CounterMax
    /\ sleep \in Nat
    /\ pinned \in Hosts \cup {NoHost}
    /\ current \in Hosts
    /\ gaveUp \in [reason : Reasons \cup {"none"}, attempts : 0..CounterMax]
    /\ history \in History

\* Between two sessions that proved stable, no class is given more reconnects than
\* its budget, however the sessions in between flap and the redials fail.
BudgetHonoured ==
    policy = "auto" => \A c \in Classes : history.tries[c] <= Budget[c]

\* Under an envelope no attempt it governs is dialled later than the envelope after
\* the first attempt of the sequence, the cooldown before it included.
EnvelopeHonoured ==
    [][(/\ pc = "cooldown" /\ pc' = "dial"
        /\ policy = "auto" /\ MaxElapsed # 0
        /\ ElapsedBudgetApplies(Class(reason))) => history.span <= MaxElapsed]_vars

\* While the server's last word is TooManyRequests, no connection attempt comes
\* sooner than the floor after that word or after the previous attempt, whatever
\* made that attempt fail.
ThrottleHonoured ==
    [][(/\ pc = "cooldown" /\ pc' = "dial"
        /\ policy = "auto"
        /\ history.signal = "TooManyRequests") => history.quiet >= WaitRateLimited]_vars

\* An Auto policy gives a retriable reason up only when its budget or the envelope
\* is consumed, and reports the attempts that class really made.
GivesUpWhenSpent ==
    (policy = "auto" /\ gaveUp.reason \in Retriable) =>
      LET c == Class(gaveUp.reason)
      IN /\ gaveUp.attempts = history.tries[c]
         /\ \/ history.tries[c] = Budget[c]
            \/ ElapsedBudgetApplies(c) /\ MaxElapsed # 0 /\ history.span > MaxElapsed

\* A thread that stopped on its own, from any policy, a login rejection included,
\* said so; what a live session ends with for good is the exception (see
\* TerminalEventOnGiveUp).
StopsAreAnnounced ==
    (pc = "exited" /\ ~history.closed /\ ~history.refused) => gaveUp # NoEvent

\* A reconnect goes back to the host of the last session that proved stable, if
\* that host is up, even when other hosts served unstable sessions since.  The
\* docs say so of any policy (config/fpss.rs:100).
ReturnsToStableHost == ~history.missed
AutoReturnsToStableHost == policy = "auto" => ReturnsToStableHost

\* A client that stays down, or whose sessions never last, stops trying: unless it
\* settles in a session or sessions keep proving stable, the thread ends.
RecoveryEnds ==
    \/ policy = "custom"
    \/ <>(pc = "exited")
    \/ <>[](pc = "session")
    \/ []<>(pc = "ended" /\ RanStable(upFor))

\* ReconnectsExhausted is emitted "when a permanent disconnect reason (bad
\* credentials, account conflict) short-circuits recovery" (fpss/events.rs:252).
TerminalEventOnGiveUp ==
    (pc = "exited" /\ ~history.closed) => gaveUp # NoEvent
==============================================================================
