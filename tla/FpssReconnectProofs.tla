------------------------- MODULE FpssReconnectProofs -------------------------
(***************************************************************************)
(* Proofs about FpssReconnect: for any budgets, envelope, windows, delays  *)
(* and hosts an Auto policy honours its budgets, its envelope and the      *)
(* throttle floor, and dials the last stable host first.                   *)
(*                                                                         *)
(* The inductive invariant Sound relates what the code keeps (counters,    *)
(* anchors, pin) to what really happened (the history): they agree, except *)
(* between the end of a stable session and the decision that resets them.  *)
(* From the budgets it follows that a recovery runs out.                   *)
(***************************************************************************)
EXTENDS FpssReconnect, TLAPS

Redialling == pc \in {"cooldown", "dial"}

\* Before the decision of a stable session's end the history has moved on and the
\* code has not; at any other time an Auto policy's books are the history.
Agreement ==
    policy = "auto" =>
      IF RanStable(upFor)
      THEN pc \in {"ended", "decide"} =>
             /\ history.tries = NoTries
             /\ history.span = Never
             /\ history.stableHost = current
      ELSE pc # "exited" => /\ count = history.tries
                            /\ burst = history.span
                            /\ pinned = history.stableHost

\* What a redial knows: the reason is the last one heard, the anchor is spent, the
\* sequence has begun.
RedialBooks ==
    /\ current = history.host
    /\ pc \in {"ended", "decide", "cooldown", "dial"} => history.signal = reason
    /\ Redialling => upFor = Never

\* A cooldown ends inside the envelope and not before the throttle floor.
CooldownFits ==
    (pc = "cooldown" /\ policy = "auto") =>
      /\ (MaxElapsed # 0 /\ ElapsedBudgetApplies(Class(reason))) =>
           history.span + sleep <= MaxElapsed
      /\ history.signal = "TooManyRequests" => history.quiet + sleep >= WaitRateLimited

Sound == TypeOK /\ Agreement /\ RedialBooks /\ CooldownFits /\ BudgetHonoured
------------------------------------------------------------------------------
(* Types *)

LEMMA ConstantTypes ==
    /\ MaxElapsed \in Nat /\ StableWindow \in Nat /\ DefaultWindow \in Nat
    /\ WaitRateLimited \in Nat /\ CounterMax \in Nat
    /\ UpMax \in Nat /\ BurstMax \in Nat /\ Window \in Nat /\ Window <= UpMax
    /\ Hosts \subseteq Nat /\ 1 \in Hosts /\ NoHost \notin Hosts
    /\ Budget \in [Classes -> 1..CounterMax]
BY ReconnectAssumption DEF UpMax, BurstMax, Window, Hosts, NoHost

LEMMA CounterPositive == CounterMax \in Nat /\ CounterMax >= 1
BY ConstantTypes DEF Classes

LEMMA IncrementType ==
    ASSUME NEW n \in 0..CounterMax
    PROVE  Increment(n) \in 1..CounterMax
BY CounterPositive DEF Increment, Min

LEMMA OlderType ==
    ASSUME NEW cap \in Nat, NEW age \in Ages(cap)
    PROVE  Older(age, cap) \in Ages(cap)
BY DEF Older, Ages, Min, Never

LEMMA RecordedType ==
    ASSUME TypeOK, NEW c \in Classes
    PROVE  Recorded(c) \in Tries /\ Recorded(c)[c] \in 1..CounterMax
<1>1. NoTries \in Tries
  BY CounterPositive DEF NoTries, Tries
<1>2. DEFINE base == IF Stable THEN NoTries ELSE count
<1>3. base \in Tries
  BY <1>1 DEF TypeOK, History
<1>4. Increment(base[c]) \in 1..CounterMax
  BY <1>3, IncrementType DEF Tries
<1>5. Recorded(c) = [base EXCEPT ![c] = Increment(base[c])]
  BY DEF Recorded
<1> QED
  BY <1>3, <1>4, <1>5 DEF Tries

LEMMA InitType == Init => TypeOK
<1>1. NoTries \in Tries
  BY CounterPositive DEF NoTries, Tries
<1>2. ASSUME Init PROVE history \in History
  <2>1. /\ 0 \in 0..WaitRateLimited /\ Never \in Ages(BurstMax)
        /\ current \in Hosts /\ NoHost \in Hosts \cup {NoHost}
    BY <1>2, ConstantTypes DEF Ages, Init
  <2> QED
    BY <1>1, <1>2, <2>1 DEF Init, History
<1>3. ASSUME Init PROVE gaveUp \in [reason : Reasons \cup {"none"}, attempts : 0..CounterMax]
  BY <1>3, CounterPositive DEF Init, NoEvent
<1>4. "Unspecified" \in Reasons /\ "Unspecified" \in Retriable
  BY DEF Reasons, Retriable, Class
<1>5. ASSUME Init
      PROVE  /\ upFor \in Ages(UpMax) /\ burst \in Ages(BurstMax)
             /\ attempt \in 0..CounterMax /\ sleep \in Nat
  BY <1>5, CounterPositive DEF Init, Ages
<1>6. ASSUME Init PROVE reason \in Reasons /\ reason \in Retriable /\ count \in Tries
  BY <1>1, <1>4, <1>6 DEF Init
<1> QED
  BY <1>2, <1>3, <1>5, <1>6 DEF Init, TypeOK

LEMMA SessionType ==
    ASSUME TypeOK, Shutdown \/ SessionTop \/ FirstFrame \/ SessionEnds
                   \/ SessionRefused \/ AfterSession
    PROVE  TypeOK'
<1>1. CASE Shutdown
  BY <1>1 DEF Shutdown, session, TypeOK, History
<1>2. CASE SessionTop
  BY <1>2 DEF SessionTop, session, TypeOK, History
<1>3. CASE FirstFrame
  BY <1>3, ReconnectAssumption DEF FirstFrame, Armed, Ages, UpMax, TypeOK, History
<1>4. CASE SessionEnds
  <2>1. reason' \in Retriable /\ reason' \in Reasons
    BY <1>4 DEF SessionEnds, Retriable, Reasons, Class
  <2>2. upFor' \in Ages(UpMax)
    BY <1>4, ReconnectAssumption DEF SessionEnds, Armed, Ages, UpMax, TypeOK, History
  <2>3. NoTries \in Tries
    BY CounterPositive DEF NoTries, Tries
  <2>4. history' \in History
    <3>1. /\ 0 \in 0..WaitRateLimited /\ Never \in Ages(BurstMax)
          /\ reason' \in Reasons \cup {"none"}
      BY <2>1, ConstantTypes DEF Ages
    <3>2. history' = IF RanStable(upFor')
                     THEN [history EXCEPT !.tries = NoTries, !.span = Never,
                             !.stableHost = history.host, !.signal = reason', !.quiet = 0]
                     ELSE [history EXCEPT !.signal = reason', !.quiet = 0]
      BY <1>4 DEF SessionEnds, Ended, RanStable, Window
    <3> QED
      BY <2>3, <3>1, <3>2 DEF TypeOK, History
  <2> QED
    BY <1>4, <2>1, <2>2, <2>4 DEF SessionEnds, TypeOK, History
<1>5. CASE SessionRefused
  BY <1>5 DEF SessionRefused, session, TypeOK, History
<1>6. CASE AfterSession
  BY <1>6 DEF AfterSession, session, TypeOK, History
<1> QED
  BY <1>1, <1>2, <1>3, <1>4, <1>5, <1>6

LEMMA GiveUpType ==
    ASSUME TypeOK, NEW n \in 0..CounterMax, GiveUp(n)
    PROVE  /\ gaveUp' \in [reason : Reasons \cup {"none"}, attempts : 0..CounterMax]
           /\ pc' = "exited"
           /\ UNCHANGED <<upFor, burst, attempt, sleep, history>>
BY DEF GiveUp, Announce, TypeOK, History

\* What a decision leaves behind when it gives up.
LEMMA GiveUpKeepsType ==
    ASSUME TypeOK, NEW n \in 0..CounterMax, GiveUp(n), count' \in Tries,
           pinned' \in Hosts \cup {NoHost},
           reason' = reason, shutdown' = shutdown, policy' = policy, current' = current
    PROVE  TypeOK'
BY GiveUpType DEF TypeOK, Retriable

LEMMA BurstAgeType ==
    ASSUME TypeOK
    PROVE  BurstAge \in 0..BurstMax
BY ConstantTypes DEF BurstAge, TypeOK, History, Ages, Never

LEMMA CooldownType ==
    ASSUME TypeOK, reason \in Retriable, NEW c \in Classes, NEW n \in 1..CounterMax,
           NEW d \in Nat, Cooldown(c, n, d)
    PROVE  /\ pc' = "cooldown" /\ attempt' \in 0..CounterMax /\ sleep' \in Nat
           /\ upFor' = Never /\ upFor' \in Ages(UpMax) /\ burst' \in Ages(BurstMax)
           /\ gaveUp' = gaveUp
           /\ history' \in History
<1>1. Min(history.tries[c] + 1, CounterMax) \in 0..CounterMax
  BY CounterPositive DEF TypeOK, History, Tries, Min
<1>2. [history.tries EXCEPT ![c] = Min(history.tries[c] + 1, CounterMax)] \in Tries
  BY <1>1 DEF TypeOK, History, Tries
<1>3. (IF history.span = Never THEN 0 ELSE history.span) \in Ages(BurstMax)
  BY ConstantTypes DEF TypeOK, History, Ages, Never
<1>4. history' = [history EXCEPT
          !.tries = [history.tries EXCEPT ![c] = Min(history.tries[c] + 1, CounterMax)],
          !.span  = IF history.span = Never THEN 0 ELSE history.span]
  BY DEF Cooldown, TypeOK, History
<1>5. history' \in History
  <2> DEFINE t == [history.tries EXCEPT ![c] = Min(history.tries[c] + 1, CounterMax)]
             s == IF history.span = Never THEN 0 ELSE history.span
  <2>1. history' = [history EXCEPT !.tries = t, !.span = s] /\ t \in Tries /\ s \in Ages(BurstMax)
    BY <1>2, <1>3, <1>4
  <2> HIDE DEF t, s
  <2> QED
    BY <2>1 DEF TypeOK, History
<1>6. burst' \in Ages(BurstMax)
  BY BurstAgeType DEF Cooldown, Ages
<1> QED
  BY <1>5, <1>6, CounterPositive DEF Cooldown, AnchorAfterDecision, TypeOK, Ages

LEMMA DelayType ==
    ASSUME TypeOK, NEW c \in Classes, NEW n \in 1..CounterMax, ~Spent(c, n),
           NEW d \in Delays(c, n)
    PROVE  Clipped(c, d) \in Nat
<1>1. d \in Nat
  BY ConstantTypes DEF Delays, Classes
<1> QED
  BY <1>1, BurstAgeType, ConstantTypes DEF Clipped, Spent, Min

LEMMA ClassType == ASSUME reason \in Retriable PROVE Class(reason) \in Classes
BY DEF Retriable, Reasons, Class, Classes

LEMMA DecisionType ==
    ASSUME TypeOK, Decide
    PROVE  TypeOK'
<1>1. reason \in Retriable /\ reason' = reason /\ shutdown' = shutdown /\ policy' = policy
      /\ current' = current
  BY DEF Decide, DecideManual, DecideAuto, DecideCustom, TypeOK, History
<1>2. CASE DecideManual
  BY <1>1, <1>2, GiveUpType, CounterPositive DEF DecideManual, TypeOK, History
<1>3. CASE DecideAuto
  <2>1. Class(reason) \in Classes
    BY <1>1, ClassType
  <2> DEFINE c == Class(reason)
             n == Recorded(c)[c]
  <2>2. count' = Recorded(c) /\ Recorded(c) \in Tries /\ n \in 1..CounterMax
    BY <1>1, <1>3, <2>1, RecordedType DEF DecideAuto
  <2>3. pinned' \in Hosts \cup {NoHost}
    BY <1>1, <1>3 DEF DecideAuto, TypeOK, History
  <2>4. GiveUp(n - 1) \/ \E d \in Delays(c, n) : ~Spent(c, n) /\ Cooldown(c, n, Clipped(c, d))
    BY <1>1, <1>3 DEF DecideAuto
  <2>5. CASE GiveUp(n - 1)
    <3>1. n - 1 \in 0..CounterMax
      BY <2>2, CounterPositive
    <3> HIDE DEF n, c
    <3> QED
      BY <1>1, <2>2, <2>3, <2>5, <3>1, GiveUpKeepsType DEF TypeOK, History
  <2>6. CASE \E d \in Delays(c, n) : ~Spent(c, n) /\ Cooldown(c, n, Clipped(c, d))
    <3>1. PICK d \in Delays(c, n) : ~Spent(c, n) /\ Cooldown(c, n, Clipped(c, d))
      BY <2>6
    <3>2. Clipped(c, d) \in Nat
      BY <2>1, <2>2, <3>1, DelayType
    <3> QED
      BY <1>1, <2>1, <2>2, <2>3, <3>1, <3>2, CooldownType DEF TypeOK, History
  <2> QED
    BY <2>4, <2>5, <2>6
<1>4. CASE DecideCustom
  <2> DEFINE c == "Transient"
             n == Recorded(c)[c]
  <2>1. c \in Classes
    BY DEF Classes
  <2>2. count' = Recorded(c) /\ Recorded(c) \in Tries /\ n \in 1..CounterMax
    BY <1>1, <1>4, <2>1, RecordedType DEF DecideCustom
  <2>3. pinned' = pinned
    BY <1>4 DEF DecideCustom
  <2>4. GiveUp(n - 1) \/ \E d \in 0..CustomMaxDelay : Cooldown(c, n, d)
    BY <1>1, <1>4 DEF DecideCustom
  <2>5. CASE GiveUp(n - 1)
    <3>1. n - 1 \in 0..CounterMax
      BY <2>2, CounterPositive
    <3> HIDE DEF n, c
    <3> QED
      BY <1>1, <2>2, <2>3, <2>5, <3>1, GiveUpKeepsType DEF TypeOK, History
  <2>6. CASE \E d \in 0..CustomMaxDelay : Cooldown(c, n, d)
    BY <1>1, <2>1, <2>2, <2>3, <2>6, CooldownType DEF TypeOK, History
  <2> QED
    BY <2>4, <2>5, <2>6
<1> QED
  BY <1>2, <1>3, <1>4 DEF Decide

LEMMA RedialType ==
    ASSUME TypeOK, CooldownEnds \/ Dial
    PROVE  TypeOK'
<1>1. CASE CooldownEnds
  BY <1>1 DEF CooldownEnds, session, TypeOK, History
<1>2. CASE DialFails
  BY <1>2, ConstantTypes DEF DialFails, PendingReason, Redialled, session, TypeOK, History
<1>3. CASE LoginRejected
  <2>1. reason' \in Reasons /\ (pc' # "exited" => reason' \in Retriable)
    BY <1>3 DEF LoginRejected, Retriable
  <2>2. history' = [history EXCEPT !.quiet = 0, !.signal = reason']
    BY <1>3 DEF LoginRejected, Redialled
  <2> QED
    <3>1. 0 \in 0..WaitRateLimited /\ reason' \in Reasons \cup {"none"}
      BY <2>1, ConstantTypes
    <3>2. history' \in History
      BY <2>2, <3>1 DEF TypeOK, History
    <3>3. gaveUp' \in [reason : Reasons \cup {"none"}, attempts : 0..CounterMax]
      BY <1>3, <3>1 DEF LoginRejected, TypeOK
    <3> QED
      BY <1>3, <2>1, <3>2, <3>3 DEF LoginRejected, session, TypeOK
<1>4. CASE LoginAccepted
  <2>1. PICK h \in Hosts, m \in BOOLEAN :
           /\ current' = h
           /\ history' = [[history EXCEPT !.quiet = 0] EXCEPT !.host = h, !.missed = m]
    BY <1>4 DEF LoginAccepted, Redialled, HostAfterLogin
  <2>2. history' \in History
    <3>1. 0 \in 0..WaitRateLimited
      BY ConstantTypes
    <3> QED
      BY <2>1, <3>1 DEF TypeOK, History
  <2> QED
    BY <1>4, <2>1, <2>2, ConstantTypes
       DEF LoginAccepted, PendingReason, Redialled, HostAfterLogin, TypeOK, History
<1> QED
  BY <1>1, <1>2, <1>3, <1>4 DEF Dial

LEMMA TickType == ASSUME TypeOK, Tick PROVE TypeOK'
<1>1. upFor' \in Ages(UpMax) /\ burst' \in Ages(BurstMax)
  BY OlderType, ConstantTypes DEF Tick, TypeOK, History
<1>2. Older(history.span, BurstMax) \in Ages(BurstMax)
  BY OlderType, ConstantTypes DEF TypeOK, History
<1>3. Older(history.quiet, WaitRateLimited) \in 0..WaitRateLimited
  BY ConstantTypes DEF TypeOK, History, Older, Never, Min
<1>4. sleep' \in Nat
  BY DEF Tick, TypeOK, History
<1> QED
  BY <1>1, <1>2, <1>3, <1>4 DEF Tick, TypeOK, History

LEMMA NextType == ASSUME TypeOK, [Next]_vars PROVE TypeOK'
<1>1. CASE UNCHANGED vars
  BY <1>1 DEF vars, TypeOK, History, Reasons
<1> QED
  BY <1>1, SessionType, DecisionType, RedialType, TickType DEF Next

\* Every variable keeps its type, and no decision is ever taken for a permanent
\* reason (io_loop/mod.rs:1190 and 1289 never short-circuit).
THEOREM RecoveryTypes == SafetySpec => []TypeOK
<1>1. Init => TypeOK
  BY InitType
<1>2. TypeOK /\ [Next]_vars => TypeOK'
  BY NextType
<1> QED
  BY <1>1, <1>2, PTL DEF SafetySpec

------------------------------------------------------------------------------
(* The books *)

LEMMA AnchorSteps ==
    ASSUME TypeOK
    PROVE  /\ ~RanStable(Never)
           /\ RanStable(upFor) => Armed = upFor
           /\ RanStable(upFor) => RanStable(Older(upFor, UpMax))
           /\ Stable = RanStable(upFor)
BY ConstantTypes
   DEF TypeOK, RanStable, Armed, Older, Min, Ages, Never, Stable

LEMMA InitSound == Init => Sound
<1> SUFFICES ASSUME Init PROVE Sound
  OBVIOUS
<1>1. TypeOK
  BY InitType
<1>2. Agreement /\ RedialBooks /\ CooldownFits
  BY DEF Init, Agreement, RedialBooks, Redialling, CooldownFits, RanStable, Never
<1>3. BudgetHonoured
  BY ConstantTypes DEF Init, BudgetHonoured, NoTries
<1> QED
  BY <1>1, <1>2, <1>3 DEF Sound

\* Nothing that happens in a session, or while the flag is looked at, opens a gap.
LEMMA SessionSound ==
    ASSUME Sound, TypeOK',
           Shutdown \/ SessionTop \/ FirstFrame \/ SessionEnds \/ SessionRefused \/ AfterSession
    PROVE  Sound'
<1>1. CASE Shutdown \/ SessionTop \/ SessionRefused \/ AfterSession
  BY <1>1 DEF Sound, Agreement, RedialBooks, Redialling, CooldownFits, BudgetHonoured,
     Shutdown, SessionTop, SessionRefused, AfterSession, session, RanStable, Window,
     TypeOK, History
<1>2. CASE FirstFrame
  BY <1>2 DEF Sound, Agreement, RedialBooks, Redialling, CooldownFits, BudgetHonoured,
     FirstFrame, RanStable, Window, TypeOK, History
<1>3. CASE SessionEnds
  <2>1. /\ pc = "session" /\ pc' = "ended" /\ policy' = policy /\ current' = current
        /\ count' = count /\ burst' = burst /\ pinned' = pinned
        /\ upFor' = upFor \/ upFor' = Armed
        /\ history' = Ended(reason', upFor')
    BY <1>3 DEF SessionEnds
  <2>2. Agreement'
    <3>1. CASE RanStable(upFor')
      BY <2>1, <3>1 DEF Agreement, RanStable, Window, Ended, Sound, RedialBooks, TypeOK, History
    <3>2. CASE ~RanStable(upFor')
      BY <2>1, <3>2, AnchorSteps
         DEF Agreement, RanStable, Window, Ended, Sound, TypeOK, History
    <3> QED
      BY <3>1, <3>2
  <2>3. RedialBooks' /\ CooldownFits'
    BY <2>1 DEF Sound, RedialBooks, Redialling, CooldownFits, Ended, TypeOK, History
  <2>4. BudgetHonoured'
    BY <2>1, ConstantTypes DEF Sound, BudgetHonoured, Ended, NoTries, TypeOK, History
  <2> QED
    BY <2>2, <2>3, <2>4 DEF Sound
<1> QED
  BY <1>1, <1>2, <1>3

\* At a decision both sides restart from nothing or go on from the same numbers.
LEMMA DecisionBooks ==
    ASSUME Sound, pc = "decide", policy = "auto", NEW c \in Classes
    PROVE  /\ Recorded(c)[c] = Min(history.tries[c] + 1, CounterMax)
           /\ Recorded(c) = [history.tries EXCEPT ![c] = Min(history.tries[c] + 1, CounterMax)]
           /\ BurstAge = IF history.span = Never THEN 0 ELSE history.span
           /\ (IF Stable THEN current ELSE pinned) = history.stableHost
<1>1. IF Stable THEN history.tries = NoTries /\ history.span = Never
                     /\ history.stableHost = current
                ELSE count = history.tries /\ burst = history.span
                     /\ pinned = history.stableHost
  BY AnchorSteps DEF Sound, Agreement
<1>2. Recorded(c) = [history.tries EXCEPT ![c] = Increment(history.tries[c])]
  BY <1>1 DEF Recorded
<1>3. history.tries \in Tries
  BY DEF Sound, TypeOK, History
<1> QED
  BY <1>1, <1>2, <1>3 DEF Increment, BurstAge, Tries

LEMMA AutoCooldownSound ==
    ASSUME Sound, TypeOK', pc = "decide", policy = "auto", policy' = policy,
           reason' = reason, current' = current, reason \in Retriable,
           NEW c \in Classes, c = Class(reason), NEW n, n = Recorded(c)[c],
           ~Spent(c, n), NEW d \in Delays(c, n), Cooldown(c, n, Clipped(c, d)),
           count' = Recorded(c), pinned' = (IF Stable THEN current ELSE pinned)
    PROVE  Sound'
<1>1. /\ pc' = "cooldown" /\ upFor' = Never /\ burst' = BurstAge /\ sleep' = Clipped(c, d)
      /\ history' = [history EXCEPT
             !.tries = [history.tries EXCEPT ![c] = Min(history.tries[c] + 1, CounterMax)],
             !.span = IF history.span = Never THEN 0 ELSE history.span]
  BY DEF Cooldown, AnchorAfterDecision
<1>2. /\ history'.tries = Recorded(c) /\ history'.span = BurstAge
      /\ history'.stableHost = history.stableHost /\ history'.signal = history.signal
      /\ history'.host = history.host /\ history'.quiet = history.quiet
  BY <1>1, DecisionBooks DEF Sound, TypeOK, History
<1>3. Agreement'
  BY <1>1, <1>2, DecisionBooks DEF Agreement, RanStable
<1>4. RedialBooks'
  BY <1>1, <1>2 DEF Sound, RedialBooks, Redialling
<1>5. CooldownFits'
  <2>1. d \in Nat /\ BurstAge \in 0..BurstMax /\ history.quiet \in Nat
    BY BurstAgeType, ConstantTypes DEF Delays, Classes, Sound, TypeOK, History
  <2>2. (MaxElapsed # 0 /\ ElapsedBudgetApplies(c)) => BurstAge + sleep' <= MaxElapsed
    BY <1>1, <2>1, ConstantTypes DEF Clipped, Spent, Min
  <2>3. history.signal = "TooManyRequests" => sleep' >= WaitRateLimited
    <3> SUFFICES ASSUME history.signal = "TooManyRequests" PROVE sleep' >= WaitRateLimited
      OBVIOUS
    <3>1. c = "RateLimited"
      BY DEF Sound, RedialBooks, Class
    <3> QED
      BY <1>1, <3>1, <2>1, ConstantTypes DEF Clipped, ElapsedBudgetApplies, Delays
  <2>4. sleep' \in Nat
    BY DEF TypeOK
  <2> QED
    BY <1>2, <2>1, <2>2, <2>3, <2>4, ConstantTypes DEF CooldownFits
<1>6. BudgetHonoured'
  <2>1. Recorded(c) = [history.tries EXCEPT ![c] = n]
    BY DecisionBooks
  <2>2. n <= Budget[c]
    BY RecordedType, ConstantTypes DEF Spent, Sound
  <2> QED
    BY <1>2, <2>1, <2>2 DEF Sound, BudgetHonoured, TypeOK, History, Tries
<1> QED
  BY <1>3, <1>4, <1>5, <1>6 DEF Sound

LEMMA ExitSound ==
    ASSUME Sound, TypeOK', pc' = "exited", history' = history, current' = current,
           policy' = policy
    PROVE  Sound'
BY DEF Sound, Agreement, RedialBooks, Redialling, CooldownFits, BudgetHonoured

LEMMA DecisionSound ==
    ASSUME Sound, TypeOK', Decide
    PROVE  Sound'
<1>1. /\ reason' = reason /\ policy' = policy /\ current' = current
      /\ pc = "decide" /\ reason \in Retriable
  BY DEF Decide, DecideManual, DecideAuto, DecideCustom, Sound, TypeOK
<1>2. CASE \E n \in Int : GiveUp(n)
  BY <1>1, <1>2, ExitSound DEF GiveUp
<1>3. CASE DecideAuto /\ ~\E n \in Int : GiveUp(n)
  <2> DEFINE c == Class(reason)
             n == Recorded(c)[c]
  <2>1. c \in Classes /\ n \in Int
    BY <1>1, ClassType, RecordedType DEF Sound
  <2>2. /\ policy = "auto" /\ count' = Recorded(c)
        /\ pinned' = (IF Stable THEN current ELSE pinned)
        /\ GiveUp(n - 1) \/ \E d \in Delays(c, n) : ~Spent(c, n) /\ Cooldown(c, n, Clipped(c, d))
    BY <1>1, <1>3 DEF DecideAuto
  <2>3. PICK d \in Delays(c, n) : ~Spent(c, n) /\ Cooldown(c, n, Clipped(c, d))
    BY <1>3, <2>1, <2>2
  <2> QED
    BY <1>1, <2>1, <2>2, <2>3, AutoCooldownSound
<1>4. CASE DecideCustom /\ ~\E n \in Int : GiveUp(n)
  <2>1. Recorded("Transient")["Transient"] \in Int
    BY RecordedType DEF Classes, Sound
  <2>2. PICK n \in Int, d \in 0..CustomMaxDelay : Cooldown("Transient", n, d)
    BY <1>1, <1>4, <2>1 DEF DecideCustom
  <2>3. /\ policy' = "custom" /\ upFor' = Never /\ history'.signal = history.signal
        /\ history'.host = history.host /\ pc' = "cooldown"
    BY <1>4, <2>2 DEF DecideCustom, Cooldown, AnchorAfterDecision, Sound, TypeOK, History
  <2> QED
    BY <1>1, <2>3
       DEF Sound, Agreement, RedialBooks, Redialling, CooldownFits, BudgetHonoured
<1>5. CASE DecideManual
  BY <1>5, <1>2 DEF DecideManual
<1> QED
  BY <1>3, <1>2, <1>4, <1>5 DEF Decide

\* A redial that fails carries its reason; one that succeeds starts a session whose
\* anchor is not armed.
LEMMA RedialSound ==
    ASSUME Sound, TypeOK', CooldownEnds \/ Dial
    PROVE  Sound'
<1>1. CASE CooldownEnds
  BY <1>1 DEF CooldownEnds, session, Sound, Agreement, RedialBooks, Redialling,
     CooldownFits, BudgetHonoured, RanStable, Window
<1>2. CASE DialFails
  BY <1>2, AnchorSteps DEF DialFails, PendingReason, Redialled, session, Sound, Agreement,
     RedialBooks, Redialling, CooldownFits, BudgetHonoured, RanStable, Window, TypeOK, History
<1>3. CASE LoginRejected
  <2>1. /\ history' = [history EXCEPT !.quiet = 0, !.signal = reason']
        /\ pc = "dial" /\ pc' \in {"ended", "exited"}
        /\ UNCHANGED <<policy, upFor, burst, pinned, current, count>>
    BY <1>3 DEF LoginRejected, Redialled, session
  <2> QED
    BY <2>1, AnchorSteps DEF Sound, Agreement,
     RedialBooks, Redialling, CooldownFits, BudgetHonoured, RanStable, Window, TypeOK, History
<1>4. CASE LoginAccepted
  <2>1. PICK h \in Hosts, m \in BOOLEAN :
           /\ current' = h
           /\ history' = [[history EXCEPT !.quiet = 0] EXCEPT !.host = h, !.missed = m]
    BY <1>4 DEF LoginAccepted, Redialled, HostAfterLogin
  <2>2. /\ pc = "dial" /\ pc' \in {"ended", "exited", "session"}
        /\ pc' = "ended" => reason' = reason
        /\ UNCHANGED <<policy, upFor, burst, pinned, count>>
    BY <1>4 DEF LoginAccepted, PendingReason
  <2> QED
    BY <2>1, <2>2, AnchorSteps DEF Sound, Agreement,
     RedialBooks, Redialling, CooldownFits, BudgetHonoured, RanStable, Window, TypeOK, History
<1> QED
  BY <1>1, <1>2, <1>3, <1>4 DEF Dial

LEMMA TickSound ==
    ASSUME Sound, TypeOK', Tick
    PROVE  Sound'
<1>1. /\ pc' = pc /\ policy' = policy /\ count' = count /\ pinned' = pinned
      /\ current' = current /\ reason' = reason
      /\ upFor' = Older(upFor, UpMax) /\ burst' = Older(burst, BurstMax)
      /\ history'.tries = history.tries /\ history'.stableHost = history.stableHost
      /\ history'.signal = history.signal /\ history'.host = history.host
      /\ history'.span = Older(history.span, BurstMax)
      /\ history'.quiet = Older(history.quiet, WaitRateLimited)
      /\ pc = "cooldown" => sleep > 0 /\ sleep' = sleep - 1
      /\ pc \in {"session", "cooldown", "dial"}
  BY DEF Tick, Sound, TypeOK, History
<1>2. Agreement'
  BY <1>1, AnchorSteps DEF Sound, Agreement, RanStable, Window
<1>3. RedialBooks'
  BY <1>1 DEF Sound, RedialBooks, Redialling, Older
<1>4. CooldownFits'
  BY <1>1, ConstantTypes
     DEF Sound, CooldownFits, Older, Min, TypeOK, History, Ages, Never, ElapsedBudgetApplies
<1>5. BudgetHonoured'
  BY <1>1 DEF Sound, BudgetHonoured
<1> QED
  BY <1>2, <1>3, <1>4, <1>5 DEF Sound

LEMMA NextSound == ASSUME Sound, [Next]_vars PROVE Sound'
<1>1. TypeOK'
  BY NextType DEF Sound
<1>2. CASE UNCHANGED vars
  BY <1>1, <1>2 DEF vars, Sound, Agreement, RedialBooks, Redialling, CooldownFits,
     BudgetHonoured, RanStable, Window
<1> QED
  BY <1>1, <1>2, SessionSound, DecisionSound, RedialSound, TickSound DEF Next

THEOREM RecoverySound == SafetySpec => []Sound
<1>1. Init => Sound
  BY InitSound
<1>2. Sound /\ [Next]_vars => Sound'
  BY NextSound
<1> QED
  BY <1>1, <1>2, PTL DEF SafetySpec

------------------------------------------------------------------------------
\* Between two stable sessions an Auto policy never reconnects more often, in any
\* class, than its budget allows (io_loop/mod.rs:1198-1231).
THEOREM BudgetsBind == SafetySpec => []BudgetHonoured
<1>1. Sound => BudgetHonoured
  BY DEF Sound
<1> QED
  BY <1>1, RecoverySound, PTL

LEMMA DialInTime ==
    ASSUME Sound, pc = "cooldown", pc' = "dial", [Next]_vars
    PROVE  sleep = 0
BY DEF Next, Shutdown, SessionTop, FirstFrame, SessionEnds, SessionRefused, AfterSession,
   Decide, DecideManual, DecideAuto, DecideCustom, CooldownEnds, Dial, DialFails,
   LoginRejected, LoginAccepted, Tick, vars

\* No attempt the envelope governs starts after the envelope (io_loop/mod.rs:1265).
THEOREM EnvelopeBinds == SafetySpec => EnvelopeHonoured
<1>1. Sound /\ [Next]_vars =>
        [(/\ pc = "cooldown" /\ pc' = "dial" /\ policy = "auto" /\ MaxElapsed # 0
          /\ ElapsedBudgetApplies(Class(reason))) => history.span <= MaxElapsed]_vars
  <2> SUFFICES ASSUME Sound, [Next]_vars, pc = "cooldown", pc' = "dial", policy = "auto",
                      MaxElapsed # 0, ElapsedBudgetApplies(Class(reason))
               PROVE  history.span <= MaxElapsed
    OBVIOUS
  <2>1. sleep = 0 /\ history.span + sleep <= MaxElapsed /\ history.span \in Int
    BY DialInTime, ConstantTypes DEF Sound, CooldownFits, TypeOK, History, Ages, Never
  <2> QED
    BY <2>1, ConstantTypes
<1> QED
  BY <1>1, RecoverySound, PTL DEF SafetySpec, EnvelopeHonoured

\* A throttled client never dials before the floor, whatever made its previous
\* attempts fail (io_loop/mod.rs:830-846).
THEOREM ThrottleBinds == SafetySpec => ThrottleHonoured
<1>1. Sound /\ [Next]_vars =>
        [(/\ pc = "cooldown" /\ pc' = "dial" /\ policy = "auto"
          /\ history.signal = "TooManyRequests") => history.quiet >= WaitRateLimited]_vars
  <2> SUFFICES ASSUME Sound, [Next]_vars, pc = "cooldown", pc' = "dial", policy = "auto",
                      history.signal = "TooManyRequests"
               PROVE  history.quiet >= WaitRateLimited
    OBVIOUS
  <2>1. sleep = 0 /\ history.quiet + sleep >= WaitRateLimited /\ history.quiet \in Int
    BY DialInTime, ConstantTypes DEF Sound, CooldownFits, TypeOK, History
  <2> QED
    BY <2>1, ConstantTypes
<1> QED
  BY <1>1, RecoverySound, PTL DEF SafetySpec, ThrottleHonoured

------------------------------------------------------------------------------
(* The ends of a recovery, and the host it goes back to *)

\* The event is the thread's last word.
LastWord == gaveUp.reason # "none" => pc = "exited"

\* Why the flag is up, and why the thread is gone.
StopHasReason ==
    /\ shutdown => history.closed \/ history.refused \/ gaveUp.reason # "none"
    /\ pc = "exited" => shutdown \/ gaveUp.reason # "none"

\* Only the thread's own end publishes the event or raises the flag.
LEMMA LastWordStays ==
    ASSUME Sound, LastWord, [Next]_vars
    PROVE  LastWord'
<1>1. CASE Decide
  <2>1. pc = "decide" /\ (gaveUp' = gaveUp \/ pc' = "exited")
    BY <1>1 DEF Decide, DecideManual, DecideAuto, DecideCustom, GiveUp, Cooldown
  <2> QED
    BY <2>1 DEF LastWord
<1>2. CASE LoginRejected
  BY <1>2 DEF LoginRejected, LastWord
<1>3. CASE ~Decide /\ ~LoginRejected
  BY <1>3 DEF LastWord, Next, Shutdown, SessionTop, FirstFrame, SessionEnds, SessionRefused,
     AfterSession, CooldownEnds, Dial, DialFails, LoginAccepted, Tick, vars
<1> QED
  BY <1>1, <1>2, <1>3

\* A raised flag, and the end of the thread, keep their reason.
LEMMA ReasonStays ==
    ASSUME Sound, LastWord, StopHasReason, [Next]_vars
    PROVE  StopHasReason'
<1>0. /\ reason \in Reasons /\ "none" \notin Reasons
      /\ history \in History
  BY DEF Sound, TypeOK, Reasons
<1>1. CASE Shutdown
  BY <1>0, <1>1 DEF Shutdown, StopHasReason, session, History
<1>2. CASE SessionRefused
  BY <1>0, <1>2 DEF SessionRefused, StopHasReason, session, History
<1>3. CASE LoginRejected
  <2>1. CASE pc' = "ended" /\ UNCHANGED <<shutdown, gaveUp>>
    BY <1>0, <1>3, <2>1 DEF LoginRejected, Redialled, StopHasReason, History
  <2>2. CASE gaveUp'.reason # "none"
    BY <2>2 DEF StopHasReason
  <2> QED
    BY <1>0, <1>3, <2>1, <2>2 DEF LoginRejected
<1>4. CASE Decide
  <2>1. gaveUp'.reason = reason \/ (pc' = "cooldown" /\ UNCHANGED gaveUp)
    <3>1. CASE DecideManual
      BY <3>1 DEF DecideManual, GiveUp, Announce
    <3>2. CASE DecideAuto
      BY <3>2 DEF DecideAuto, GiveUp, Announce, Cooldown
    <3>3. CASE DecideCustom
      BY <3>3 DEF DecideCustom, GiveUp, Announce, Cooldown
    <3> QED
      BY <1>4, <3>1, <3>2, <3>3 DEF Decide
  <2>2. CASE gaveUp'.reason = reason
    BY <1>0, <2>2 DEF StopHasReason
  <2>3. CASE pc' = "cooldown" /\ UNCHANGED gaveUp
    <3>1. UNCHANGED shutdown /\ history'.closed = history.closed
          /\ history'.refused = history.refused
      BY <1>0, <1>4, <2>3
         DEF Decide, DecideManual, DecideAuto, DecideCustom, GiveUp, Cooldown, History
    <3> QED
      BY <2>3, <3>1 DEF StopHasReason
  <2> QED
    BY <2>1, <2>2, <2>3
<1>5. CASE SessionEnds
  <2>1. history'.closed = history.closed /\ history'.refused = history.refused
    BY <1>0, <1>5 DEF SessionEnds, Ended, History
  <2> QED
    BY <1>5, <2>1 DEF SessionEnds, StopHasReason
<1>6. CASE DialFails \/ LoginAccepted \/ Tick
  <2>1. history'.closed = history.closed /\ history'.refused = history.refused
    BY <1>0, <1>6 DEF DialFails, LoginAccepted, Tick, Redialled, History
  <2>2. /\ UNCHANGED <<shutdown, gaveUp>>
        /\ pc' = "exited" => shutdown \/ pc = "exited"
    BY <1>6 DEF DialFails, LoginAccepted, Tick
  <2> QED
    BY <2>1, <2>2 DEF StopHasReason
<1>7. CASE SessionTop \/ FirstFrame \/ AfterSession \/ CooldownEnds
  BY <1>7 DEF SessionTop, FirstFrame, AfterSession, CooldownEnds, session, StopHasReason
<1>8. CASE UNCHANGED vars
  BY <1>8 DEF vars, StopHasReason
<1> QED
  BY <1>1, <1>2, <1>3, <1>4, <1>5, <1>6, <1>7, <1>8 DEF Next, Dial

\* A thread that stopped on its own, outside a session, said so
\* (io_loop/mod.rs:1154).
THEOREM StopsAnnounced == SafetySpec => []StopsAreAnnounced
<1>1. Init => LastWord /\ StopHasReason
  BY DEF Init, NoEvent, LastWord, StopHasReason
<1>2. Sound /\ LastWord /\ StopHasReason /\ [Next]_vars => LastWord' /\ StopHasReason'
  BY LastWordStays, ReasonStays
<1>3. StopHasReason => StopsAreAnnounced
  BY DEF StopHasReason, StopsAreAnnounced, NoEvent
<1> QED
  BY <1>1, <1>2, <1>3, RecoverySound, PTL DEF SafetySpec

\* The event of an Auto policy reports a budget, or an envelope, that is consumed, and
\* the attempts that were made.  A budget of u32::MAX is none: the counter saturates
\* before it is spent.
THEOREM GivesUpSpent ==
    (\A c \in Classes : Budget[c] < CounterMax) => (SafetySpec => []GivesUpWhenSpent)
<1> SUFFICES ASSUME \A c \in Classes : Budget[c] < CounterMax
             PROVE  SafetySpec => []GivesUpWhenSpent
  OBVIOUS
<1>1. Init => LastWord /\ GivesUpWhenSpent
  BY DEF Init, NoEvent, LastWord, GivesUpWhenSpent, Retriable, Reasons
<1>2. ASSUME Sound, LastWord, GivesUpWhenSpent, [Next]_vars
      PROVE  GivesUpWhenSpent'
  <2>0. history \in History /\ history' \in History /\ policy' = policy
    <3>1. TypeOK /\ TypeOK'
      BY <1>2, NextType DEF Sound
    <3> QED
      BY <1>2, <3>1 DEF TypeOK, Next, Shutdown, SessionTop, FirstFrame, SessionEnds,
         SessionRefused, AfterSession, CooldownEnds, Dial, DialFails, LoginRejected,
         LoginAccepted, Tick, vars, session, Decide, DecideManual, DecideAuto, DecideCustom
  <2>1. "none" \notin Retriable
    BY DEF Retriable, Reasons
  <2>2. CASE gaveUp' = gaveUp /\ gaveUp.reason = "none"
    BY <2>1, <2>2 DEF GivesUpWhenSpent
  <2>3. CASE gaveUp.reason # "none"
    <3>1. pc = "exited"
      BY <1>2, <2>3 DEF LastWord
    <3>2. /\ gaveUp' = gaveUp /\ history'.tries = history.tries
          /\ history'.span = history.span
      BY <1>2, <2>0, <3>1 DEF Next, Shutdown, SessionTop, FirstFrame, SessionEnds,
         SessionRefused, AfterSession, CooldownEnds, Dial, DialFails, LoginRejected,
         LoginAccepted, Tick, vars, session, Decide, DecideManual, DecideAuto, DecideCustom,
         History
    <3> QED
      BY <1>2, <2>0, <3>2 DEF GivesUpWhenSpent
  <2>4. CASE gaveUp.reason = "none" /\ gaveUp' # gaveUp /\ policy = "auto"
    <3>1. DecideAuto \/ LoginRejected
      BY <1>2, <2>4 DEF Next, Shutdown, SessionTop, FirstFrame, SessionEnds,
         SessionRefused, AfterSession, CooldownEnds, Dial, DialFails,
         LoginAccepted, Tick, vars, session, Decide, DecideManual, DecideCustom
    <3>2. CASE LoginRejected
      BY <2>4, <3>2 DEF LoginRejected, GivesUpWhenSpent
    <3>3. CASE DecideAuto
      <4> DEFINE c == Class(reason)
                 n == Recorded(c)[c]
      <4>1. reason \in Retriable /\ c \in Classes
        BY <1>2, <3>3, ClassType DEF DecideAuto, Sound, TypeOK
      <4>2. Spent(c, n) /\ GiveUp(n - 1)
        BY <2>4, <3>3, <4>1 DEF DecideAuto, Cooldown
      <4>3. gaveUp' = [reason |-> reason, attempts |-> n - 1] /\ history' = history
        BY <4>2 DEF GiveUp, Announce
      <4>4. /\ n = Min(history.tries[c] + 1, CounterMax)
            /\ BurstAge = IF history.span = Never THEN 0 ELSE history.span
        BY <1>2, <2>4, <3>3, <4>1, DecisionBooks DEF DecideAuto
      <4>5. history.tries[c] \in Nat /\ history.tries[c] <= Budget[c]
            /\ Budget[c] \in Nat /\ Budget[c] < CounterMax
        BY <1>2, <2>4, <4>1, ConstantTypes DEF Sound, BudgetHonoured, TypeOK, History, Tries
      <4>6. n - 1 = history.tries[c]
        BY <4>4, <4>5, ConstantTypes DEF Min
      <4>7. \/ history.tries[c] = Budget[c]
            \/ ElapsedBudgetApplies(c) /\ MaxElapsed # 0 /\ history.span > MaxElapsed
        <5>1. CASE n > Budget[c]
          <6>1. n = history.tries[c] + 1
            BY <4>4, <4>5, ConstantTypes DEF Min
          <6> QED
            BY <4>5, <5>1, <6>1
        <5>2. CASE ElapsedBudgetApplies(c) /\ MaxElapsed # 0 /\ BurstAge > MaxElapsed
          <6>1. ~(0 > MaxElapsed)
            BY ConstantTypes
          <6> QED
            BY <4>4, <5>2, <6>1
        <5> QED
          BY <4>2, <5>1, <5>2 DEF Spent
      <4> QED
        BY <4>3, <4>6, <4>7 DEF GivesUpWhenSpent
    <3> QED
      BY <3>1, <3>2, <3>3
  <2>5. CASE policy # "auto"
    BY <2>0, <2>5 DEF GivesUpWhenSpent
  <2> QED
    BY <2>2, <2>3, <2>4, <2>5
<1>3. Sound /\ LastWord /\ GivesUpWhenSpent /\ [Next]_vars => LastWord' /\ GivesUpWhenSpent'
  BY <1>2, LastWordStays
<1> QED
  BY <1>1, <1>3, RecoverySound, PTL DEF SafetySpec

\* An Auto policy never dials past the host of the last stable session while that host
\* is up (io_loop/mod.rs:1213, protocol.rs order_hosts).
THEOREM AutoReturns == SafetySpec => []AutoReturnsToStableHost
<1>1. Init => AutoReturnsToStableHost
  BY DEF Init, AutoReturnsToStableHost, ReturnsToStableHost
<1>2. ASSUME Sound, AutoReturnsToStableHost, [Next]_vars
      PROVE  AutoReturnsToStableHost'
  <2>0. history \in History /\ policy' = policy
    BY <1>2 DEF Sound, TypeOK, Next, Shutdown, SessionTop, FirstFrame, SessionEnds,
       SessionRefused, AfterSession, CooldownEnds, Dial, DialFails, LoginRejected,
       LoginAccepted, Tick, vars, session, Decide, DecideManual, DecideAuto, DecideCustom
  <2>1. CASE LoginAccepted
    <3> SUFFICES ASSUME policy = "auto" PROVE ~history'.missed
      BY <2>0 DEF AutoReturnsToStableHost, ReturnsToStableHost
    <3>1. PICK up \in SUBSET Hosts, h \in Hosts :
            /\ First(h, up)
            /\ history' = [Redialled EXCEPT !.host = h,
                             !.missed = history.stableHost \in up /\ h # history.stableHost]
      BY <2>1 DEF LoginAccepted
    <3>2. history'.missed <=> history.stableHost \in up /\ h # history.stableHost
      BY <2>0, <3>1 DEF Redialled, History
    <3>3. pinned = history.stableHost
      <4>1. pc = "dial" /\ upFor = Never
        BY <1>2, <2>1 DEF LoginAccepted, Sound, RedialBooks, Redialling
      <4> QED
        BY <1>2, <4>1, AnchorSteps DEF Sound, Agreement
    <3>4. history.stableHost \in up => h = history.stableHost
      BY <3>1, <3>3, ReconnectAssumption DEF First, Rank, Hosts
    <3> QED
      BY <3>2, <3>4
  <2>2. CASE ~LoginAccepted
    <3>1. history'.missed = history.missed
      BY <1>2, <2>0, <2>2 DEF Next, Shutdown, SessionTop, FirstFrame, SessionEnds, Ended,
         SessionRefused, AfterSession, CooldownEnds, Dial, DialFails, LoginRejected,
         Redialled, Tick, vars, session, Decide, DecideManual, DecideAuto, DecideCustom,
         GiveUp, Cooldown, History
    <3> QED
      BY <1>2, <2>0, <3>1 DEF AutoReturnsToStableHost, ReturnsToStableHost
  <2> QED
    BY <2>1, <2>2
<1>3. Sound /\ AutoReturnsToStableHost /\ [Next]_vars => AutoReturnsToStableHost'
  BY <1>2
<1> QED
  BY <1>1, <1>3, RecoverySound, PTL DEF SafetySpec

------------------------------------------------------------------------------
(* A recovery runs out *)

\* The reconnects that the budgets of an Auto policy still allow, and how far the thread
\* is from the end of an attempt.
TriesLeft ==
    LET left(c) == Budget[c] - history.tries[c]
    IN left("Transient") + left("RateLimited") + left("ServerRestart")
PlaceLeft ==
    [cooldown |-> 4, dial |-> 3, ended |-> 2, decide |-> 1, session |-> 0, exited |-> 0][pc]
MeasuresAreNat == policy = "auto" => {TriesLeft, PlaceLeft, sleep} \subseteq Nat

\* A session that proved stable is over.
Refilled == pc = "session" /\ pc' = "ended" /\ RanStable(upFor')

\* Any other step leaves no more reconnects than there were; outside a session it uses one
\* up, or takes the thread nearer to the end of the attempt, or shortens the cooldown, or
\* else time passes in a dial, or the user calls shutdown().
Settles ==
    policy = "auto" =>
      \/ Refilled
      \/ /\ TriesLeft' <= TriesLeft
         /\ \/ "session" \in {pc, pc'}
            \/ TriesLeft' < TriesLeft
            \/ PlaceLeft' < PlaceLeft
            \/ pc' = pc /\ sleep' < sleep
            \/ pc' = pc /\ sleep' = sleep /\ (pc = "dial" \/ (~shutdown /\ shutdown'))

\* A step that makes no attempt keeps what is left of them.
LEMMA TriesLeftKept ==
    ASSUME history'.tries = history.tries
    PROVE  TriesLeft' = TriesLeft
BY Zenon DEF TriesLeft

\* The measures are numbers.
LEMMA SoundMeasures == Sound => MeasuresAreNat
<1> SUFFICES ASSUME Sound, policy = "auto"
             PROVE  TriesLeft \in Nat /\ PlaceLeft \in Nat /\ sleep \in Nat
  BY DEF MeasuresAreNat
<1>1. \A c \in Classes : history.tries[c] \in Nat /\ Budget[c] \in Nat
                         /\ history.tries[c] <= Budget[c]
  BY ConstantTypes DEF Sound, TypeOK, History, Tries, BudgetHonoured
<1>2. {"Transient", "RateLimited", "ServerRestart"} = Classes
  BY DEF Classes
<1>3. TriesLeft \in Nat
  BY <1>1, <1>2, SMT DEF TriesLeft
<1>4. PlaceLeft \in Nat /\ sleep \in Nat
  BY SMT DEF Sound, TypeOK, PlaceLeft
<1> QED
  BY <1>3, <1>4

\* One attempt more is one less to make.
LEMMA OneAttemptLess ==
    ASSUME Sound, Sound', policy' = "auto", policy = "auto", NEW c \in Classes,
           Budget[c] < CounterMax,
           history' = [history EXCEPT !.tries[c] = Min(@ + 1, CounterMax),
                                      !.span = IF @ = Never THEN 0 ELSE @]
    PROVE  TriesLeft' < TriesLeft /\ TriesLeft' <= TriesLeft
<1>1. history \in History /\ CounterMax \in Nat
  BY ConstantTypes DEF Sound, TypeOK
<1>2. history'.tries = [history.tries EXCEPT ![c] = Min(history.tries[c] + 1, CounterMax)]
  BY <1>1, SMT DEF History
<1>3. \A b \in Classes : history.tries[b] \in Nat /\ Budget[b] \in Nat
  BY <1>1, ConstantTypes DEF History, Tries
<1>4. history'.tries[c] <= Budget[c]
  BY Zenon DEF Sound, BudgetHonoured
<1>5. /\ history'.tries[c] = history.tries[c] + 1
      /\ \A b \in Classes : b # c => history'.tries[b] = history.tries[b]
  BY <1>1, <1>2, <1>3, <1>4, SMT DEF History, Tries, Min
<1> QED
  BY <1>3, <1>5, SMT DEF TriesLeft, Classes

\* Each step of an Auto policy.
LEMMA StepSettles ==
    ASSUME \A c \in Classes : Budget[c] < CounterMax, Sound, Next
    PROVE  Settles
<1> SUFFICES ASSUME policy = "auto", ~Refilled
             PROVE  /\ TriesLeft' <= TriesLeft
                    /\ \/ "session" \in {pc, pc'}
                       \/ TriesLeft' < TriesLeft
                       \/ PlaceLeft' < PlaceLeft
                       \/ pc' = pc /\ sleep' < sleep
                       \/ pc' = pc /\ sleep' = sleep
                          /\ (pc = "dial" \/ (~shutdown /\ shutdown'))
  BY Zenon DEF Settles
<1>1. Sound' /\ MeasuresAreNat
  BY NextSound, SoundMeasures
<1>2. history \in History /\ TriesLeft \in Int /\ sleep \in Nat
  BY <1>1, SMT DEF Sound, TypeOK, MeasuresAreNat
<1>3. ASSUME history'.tries = history.tries PROVE TriesLeft' <= TriesLeft
  BY <1>2, <1>3, TriesLeftKept
<1>4. CASE Shutdown
  BY <1>2, <1>3, <1>4, SMT DEF Shutdown, History
<1>5. CASE SessionTop \/ FirstFrame \/ SessionRefused
  BY <1>2, <1>3, <1>5, SMT DEF SessionTop, FirstFrame, SessionRefused, History
<1>6. CASE SessionEnds
  <2>1. pc = "session" /\ pc' = "ended" /\ history' = Ended(reason', upFor')
    BY <1>6, Zenon DEF SessionEnds
  <2>2. ~RanStable(upFor')
    BY <2>1, Zenon DEF Refilled
  <2>3. history'.tries = history.tries
    BY <1>2, <2>1, <2>2, SMT DEF Ended, History
  <2> QED
    BY <1>3, <2>1, <2>3
<1>7. CASE AfterSession \/ CooldownEnds
  BY <1>2, <1>3, <1>7, SMT DEF AfterSession, CooldownEnds, PlaceLeft
<1>8. CASE Decide
  <2>1. policy' = "auto" /\ DecideAuto
    BY <1>8, Zenon DEF Decide, DecideManual, DecideAuto, DecideCustom
  <2>2. ASSUME NEW n, GiveUp(n) PROVE pc = "decide" /\ pc' = "exited" /\ history' = history
    BY <2>1, <2>2, Zenon DEF DecideAuto, GiveUp
  <2>3. CASE \E n : GiveUp(n)
    BY <1>3, <2>2, <2>3, SMT DEF PlaceLeft
  <2>4. ASSUME NEW c \in Classes, NEW n, NEW d, Cooldown(c, n, d)
      PROVE TriesLeft' < TriesLeft /\ TriesLeft' <= TriesLeft
    BY <1>1, <2>1, <2>4, OneAttemptLess, Zenon DEF Cooldown
  <2>5. CASE \E c \in Classes : \E n, d : Cooldown(c, n, d)
    BY <2>4, <2>5, Zenon
  <2>6. (\E n : GiveUp(n)) \/ (\E c \in Classes : \E n, d : Cooldown(c, n, d))
    BY <2>1, ClassType, Zenon DEF DecideAuto
  <2> QED
    BY <2>3, <2>5, <2>6
<1>9. CASE Dial
  <2>1. /\ pc = "dial"
        /\ pc' = "ended" \/ pc' = "exited" \/ pc' = "session"
    BY <1>9, Zenon DEF Dial, DialFails, LoginRejected, LoginAccepted
  <2>2. /\ Redialled.tries = history.tries
        /\ \A r : [Redialled EXCEPT !.signal = r].tries = history.tries
    BY <1>2, SMT DEF Redialled, History
  <2>3. history'.tries = history.tries
    <3>1. CASE DialFails \/ LoginRejected
      BY <2>2, <3>1, Zenon DEF DialFails, LoginRejected
    <3>2. CASE LoginAccepted
      <4>1. PICK h, up : history' = [Redialled EXCEPT !.host = h,
                            !.missed = history.stableHost \in up /\ h # history.stableHost]
        BY <3>2, Zenon DEF LoginAccepted
      <4> QED
        BY <1>2, <4>1, SMT DEF Redialled, History
    <3> QED
      BY <1>9, <3>1, <3>2, Zenon DEF Dial
  <2> QED
    BY <1>3, <2>1, <2>3, SMT DEF PlaceLeft
<1>10. CASE Tick
  <2>1. history'.tries = history.tries
    BY <1>2, <1>10, SMT DEF Tick, History
  <2> QED
    BY <1>2, <1>3, <1>10, <2>1, SMT DEF Tick
<1> QED
  BY <1>4, <1>5, <1>6, <1>7, <1>8, <1>9, <1>10, Zenon DEF Next

\* A recovery runs out: sessions that do not last earn no new attempts, and every step
\* outside a session uses up an attempt, or a part of the one under way, if no budget is
\* u32::MAX (io_loop/mod.rs:1193-1206).
THEOREM RecoveriesSettle ==
    (\A c \in Classes : Budget[c] < CounterMax) =>
      (SafetySpec => []MeasuresAreNat /\ [][Settles]_vars)
<1> SUFFICES ASSUME \A c \in Classes : Budget[c] < CounterMax
             PROVE  SafetySpec => []MeasuresAreNat /\ [][Settles]_vars
  OBVIOUS
<1>1. Sound => MeasuresAreNat
  BY SoundMeasures
<1>2. Sound /\ [Next]_vars => [Settles]_vars
  BY StepSettles
<1> QED
  BY <1>1, <1>2, RecoverySound, PTL DEF SafetySpec
==============================================================================
