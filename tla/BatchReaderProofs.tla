------------------------- MODULE BatchReaderProofs -------------------------
(***************************************************************************)
(* Theorems about BatchReader, for any threads, ring, batches and queue:   *)
(* the types, where every row is, what an end says, who waits for whom,    *)
(* that the reader implements the stream of RowStream, and that a closed   *)
(* reader winds up.                                                        *)
(***************************************************************************)
EXTENDS BatchReader, TLAPS

(* The strengthening *)

\* A flush keeps its place: `return' is where the dispatcher stands meanwhile.
Flushing == pc \in {"push", "parking", "parked"}
Place == IF Flushing THEN return ELSE pc
Ending == Place \in {"end", "mark", "done"}

Control ==
    /\ taken <= Len(ring)
    /\ Place # "event" => taken = 0 /\ at = 0
    /\ Flushing => return # "none" /\ accum = <<>>
    /\ ~Flushing => hand = <<>> /\ return = "none"
    /\ Place \in {"mark", "done"} => accum = <<>>

\* Unless the reader was closed or the dispatcher panicked, an outcome is the truth
\* about the ring.
OutcomeIsTrue ==
    /\ ioFaulted <=> io \in {"unwinding", "unwound"}
    /\ panicked => outcome = "Failed" /\ Ending
    /\ ~closed /\ ~panicked /\ (outcome # "Drained" \/ Ending) =>
         Terminal /\ outcome = TerminalPollOutcome

\* A failure is in the error slot, or has been told, from the marker on.
ErrorIsOnce ==
    /\ finished <=> Place = "done"
    /\ error => finished /\ errorsTold = 0
    /\ errorsTold \in {0, 1}
    /\ errorsTold = 1 => finished
    /\ finished /\ outcome = "Failed" => error \/ errorsTold = 1

EndIsLast ==
    cleanEnd =>
      /\ finished
      /\ ~error
      /\ batches = <<>>
      /\ panicked => errorsTold = 1
      /\ ~panicked => ring = <<>> /\ IoOver /\ (io # "returned" => errorsTold = 1)

\* The rows, those of the ring whose slots are not free yet included.
RowsSound ==
    /\ ToSet(ring) \subseteq 1..decoded
    /\ RowsInOrder
    /\ RowsKept

Sound ==
    /\ TypeOK
    /\ Control
    /\ OutcomeIsTrue
    /\ ErrorIsOnce
    /\ EndIsLast
    /\ RowsSound

------------------------------------------------------------------------------
(* Sequences of rows, and of batches of rows *)

\* The rows of a queue.
Rows(queue) == UNION {ToSet(queue[i]) : i \in DOMAIN queue}

\* The batches of a queue, each in order, one after the other.
InOrder(queue) ==
    /\ \A i \in DOMAIN queue : Ascending(queue[i])
    /\ \A i, j \in DOMAIN queue : i < j => Before(ToSet(queue[i]), ToSet(queue[j]))

\* One row more at the end.
LEMMA AppendRow ==
  ASSUME NEW s \in Seq(Nat), NEW e \in Nat
  PROVE  /\ Append(s, e) \in Seq(Nat)
         /\ ToSet(Append(s, e)) = ToSet(s) \cup {e}
         /\ Ascending(s) /\ Before(ToSet(s), {e}) => Ascending(Append(s, e))
<1> DEFINE r == Append(s, e)
<1>1. /\ r \in Seq(Nat)
      /\ DOMAIN r = 1..(Len(s) + 1)
      /\ DOMAIN s = 1..Len(s)
      /\ Len(s) \in Nat
      /\ r[Len(s) + 1] = e
      /\ \A i \in 1..Len(s) : r[i] = s[i]
  OBVIOUS
<1> HIDE DEF r
<1>2. ToSet(r) \subseteq ToSet(s) \cup {e}
  BY <1>1 DEF ToSet
<1>3. ToSet(s) \cup {e} \subseteq ToSet(r)
  <2>1. Len(s) + 1 \in DOMAIN r /\ DOMAIN s \subseteq DOMAIN r
    BY <1>1
  <2> QED BY <1>1, <2>1 DEF ToSet
<1>4. Ascending(s) /\ Before(ToSet(s), {e}) => Ascending(r)
  BY SMTT(30), <1>1 DEF ToSet, Ascending, Before
<1> QED BY <1>1, <1>2, <1>3, <1>4 DEF r

\* The rows of two sequences put together.
LEMMA JoinRows ==
  ASSUME NEW s \in Seq(Nat), NEW t \in Seq(Nat)
  PROVE  /\ s \o t \in Seq(Nat)
         /\ ToSet(s \o t) = ToSet(s) \cup ToSet(t)
         /\ Ascending(s) /\ Ascending(t) /\ Before(ToSet(s), ToSet(t))
              => Ascending(s \o t)
<1>1. s \o t \in Seq(Nat)
  OBVIOUS
<1>2. ToSet(s \o t) \subseteq ToSet(s) \cup ToSet(t)
  BY DEF ToSet
<1>3. ToSet(s) \subseteq ToSet(s \o t)
  BY DEF ToSet
<1>4. ToSet(t) \subseteq ToSet(s \o t)
  <2> SUFFICES ASSUME NEW i \in DOMAIN t PROVE t[i] \in ToSet(s \o t)
    BY DEF ToSet
  <2>1. i + Len(s) \in DOMAIN (s \o t) /\ (s \o t)[i + Len(s)] = t[i]
    OBVIOUS
  <2> QED BY <2>1 DEF ToSet
<1>5. ASSUME Ascending(s), Ascending(t), Before(ToSet(s), ToSet(t)),
             NEW i \in DOMAIN (s \o t), NEW j \in DOMAIN (s \o t), i < j
      PROVE  (s \o t)[i] < (s \o t)[j]
  <2>1. CASE j <= Len(s)
    BY <1>5, <2>1 DEF Ascending
  <2>2. CASE i > Len(s)
    <3>1. /\ i - Len(s) \in DOMAIN t
          /\ j - Len(s) \in DOMAIN t
          /\ i - Len(s) < j - Len(s)
      BY <1>5, <2>2
    <3>2. (s \o t)[i] = t[i - Len(s)] /\ (s \o t)[j] = t[j - Len(s)]
      BY <1>5, <2>2
    <3> QED BY <3>1, <3>2, <1>5 DEF Ascending
  <2>3. CASE i <= Len(s) /\ j > Len(s)
    <3>1. (s \o t)[i] \in ToSet(s)
      BY <2>3 DEF ToSet
    <3>2. j - Len(s) \in DOMAIN t /\ (s \o t)[j] = t[j - Len(s)]
      BY <2>3
    <3> QED BY <3>1, <3>2, <1>5 DEF Before, ToSet
  <2> QED BY <2>1, <2>2, <2>3
<1> QED BY <1>1, <1>2, <1>3, <1>4, <1>5 DEF Ascending

\* One batch more at the end of a queue.
LEMMA AppendBatch ==
  ASSUME NEW q \in Seq(Seq(Nat)), NEW s \in Seq(Nat)
  PROVE  /\ Append(q, s) \in Seq(Seq(Nat))
         /\ Rows(Append(q, s)) = Rows(q) \cup ToSet(s)
         /\ InOrder(q) /\ Ascending(s) /\ Before(Rows(q), ToSet(s))
              => InOrder(Append(q, s))
<1> DEFINE r == Append(q, s)
<1>1. /\ r \in Seq(Seq(Nat))
      /\ DOMAIN r = 1..(Len(q) + 1)
      /\ DOMAIN q = 1..Len(q)
      /\ Len(q) \in Nat
      /\ r[Len(q) + 1] = s
      /\ \A i \in 1..Len(q) : r[i] = q[i]
  OBVIOUS
<1> HIDE DEF r
<1>2. Rows(r) = Rows(q) \cup ToSet(s)
  <2>1. ASSUME NEW x \in Rows(r) PROVE x \in Rows(q) \cup ToSet(s)
    <3> PICK i \in DOMAIN r : x \in ToSet(r[i])
      BY DEF Rows
    <3>1. CASE i = Len(q) + 1 BY <1>1, <3>1
    <3>2. CASE i \in 1..Len(q) BY <1>1, <3>2 DEF Rows
    <3> QED BY <1>1, <3>1, <3>2
  <2>2. Rows(q) \subseteq Rows(r)
    <3> SUFFICES ASSUME NEW i \in DOMAIN q PROVE ToSet(q[i]) \subseteq Rows(r)
      BY DEF Rows
    <3>1. i \in DOMAIN r /\ r[i] = q[i] BY <1>1
    <3> QED BY <3>1 DEF Rows
  <2>3. ToSet(s) \subseteq Rows(r)
    <3>1. Len(q) + 1 \in DOMAIN r BY <1>1
    <3> QED BY <1>1, <3>1 DEF Rows
  <2> QED BY <2>1, <2>2, <2>3
<1>3. ASSUME InOrder(q), Ascending(s), Before(Rows(q), ToSet(s)) PROVE InOrder(r)
  <2>1. \A i \in DOMAIN r : Ascending(r[i])
    <3> SUFFICES ASSUME NEW i \in DOMAIN r PROVE Ascending(r[i])
      OBVIOUS
    <3>1. CASE i = Len(q) + 1 BY <1>1, <1>3, <3>1
    <3>2. CASE i \in DOMAIN q
      <4>1. r[i] = q[i] BY <1>1, <3>2
      <4> QED BY <1>3, <3>2, <4>1 DEF InOrder
    <3> QED BY <1>1, <3>1, <3>2
  <2>2. ASSUME NEW i \in DOMAIN r, NEW j \in DOMAIN r, i < j
        PROVE  Before(ToSet(r[i]), ToSet(r[j]))
    <3>1. i \in DOMAIN q /\ r[i] = q[i] BY <1>1, <2>2
    <3>2. CASE j = Len(q) + 1
      BY <1>1, <1>3, <3>1, <3>2 DEF Before, Rows
    <3>3. CASE j \in DOMAIN q
      <4>1. r[j] = q[j] BY <1>1, <3>3
      <4> QED BY <1>3, <2>2, <3>1, <3>3, <4>1 DEF InOrder
    <3> QED BY <1>1, <3>2, <3>3
  <2> QED BY <2>1, <2>2 DEF InOrder
<1> QED BY <1>1, <1>2, <1>3 DEF r

\* The oldest batch, and the others.
LEMMA TakeBatch ==
  ASSUME NEW q \in Seq(Seq(Nat)), q # <<>>
  PROVE  /\ Head(q) \in Seq(Nat)
         /\ Tail(q) \in Seq(Seq(Nat))
         /\ Len(Tail(q)) = Len(q) - 1
         /\ Rows(q) = ToSet(Head(q)) \cup Rows(Tail(q))
         /\ InOrder(q) => /\ Ascending(Head(q))
                          /\ Before(ToSet(Head(q)), Rows(Tail(q)))
                          /\ InOrder(Tail(q))
<1> DEFINE r == Tail(q)
<1>1. /\ r \in Seq(Seq(Nat))
      /\ Len(r) = Len(q) - 1
      /\ DOMAIN q = 1..Len(q)
      /\ DOMAIN r = 1..(Len(q) - 1)
      /\ Len(q) \in Nat \ {0}
      /\ Head(q) = q[1]
      /\ Head(q) \in Seq(Nat)
      /\ \A i \in 1..(Len(q) - 1) : r[i] = q[i + 1]
  OBVIOUS
<1> HIDE DEF r
<1>2. \A i \in DOMAIN r : i + 1 \in DOMAIN q /\ r[i] = q[i + 1]
  BY SMTT(30), <1>1
<1>3. 1 \in DOMAIN q
  BY <1>1
<1>4. Rows(q) \subseteq ToSet(Head(q)) \cup Rows(r)
  <2> SUFFICES ASSUME NEW i \in DOMAIN q PROVE ToSet(q[i]) \subseteq ToSet(Head(q)) \cup Rows(r)
    BY DEF Rows
  <2>1. CASE i = 1 BY <1>1, <2>1
  <2>2. CASE i # 1
    <3>1. i - 1 \in DOMAIN r /\ (i - 1) + 1 = i
      BY SMTT(30), <1>1, <2>2
    <3>2. r[i - 1] = q[i]
      <4>1. r[i - 1] = q[(i - 1) + 1] BY <1>2, <3>1
      <4> QED BY <3>1, <4>1
    <3> QED BY <3>1, <3>2 DEF Rows
  <2> QED BY <2>1, <2>2
<1>5. ToSet(Head(q)) \cup Rows(r) \subseteq Rows(q)
  BY <1>1, <1>2, <1>3 DEF Rows
<1>6. ASSUME InOrder(q)
      PROVE  Ascending(Head(q)) /\ Before(ToSet(Head(q)), Rows(r)) /\ InOrder(r)
  <2>1. Ascending(Head(q)) BY <1>1, <1>3, <1>6 DEF InOrder
  <2>2. Before(ToSet(Head(q)), Rows(r))
    <3> SUFFICES ASSUME NEW i \in DOMAIN r PROVE Before(ToSet(q[1]), ToSet(r[i]))
      BY <1>1 DEF Before, Rows
    <3>1. 1 < i + 1 BY <1>1
    <3> QED BY <1>2, <1>3, <1>6, <3>1 DEF InOrder
  <2>3. InOrder(r)
    <3>1. ASSUME NEW i \in DOMAIN r, NEW j \in DOMAIN r, i < j
          PROVE  Before(ToSet(r[i]), ToSet(r[j]))
      <4>1. i + 1 < j + 1 BY <1>1, <3>1
      <4> QED BY <1>2, <1>6, <4>1 DEF InOrder
    <3> QED BY <1>2, <1>6, <3>1 DEF InOrder
  <2> QED BY <2>1, <2>2, <2>3
<1> QED BY <1>1, <1>4, <1>5, <1>6 DEF r

\* The rows of the ring that the dispatcher has not handed to on_event.
Rest(r, k) == {r[i] : i \in (k + 1)..Len(r)}

\* A row published at the end of the ring.
LEMMA RestGrows ==
  ASSUME NEW r \in Seq(Nat), NEW k \in 0..Len(r), NEW e \in Nat
  PROVE  Rest(Append(r, e), k) = Rest(r, k) \cup {e}
<1> DEFINE g == Append(r, e)
<1>1. /\ Len(g) = Len(r) + 1
      /\ Len(r) \in Nat
      /\ g[Len(r) + 1] = e
      /\ \A i \in 1..Len(r) : g[i] = r[i]
  OBVIOUS
<1> HIDE DEF g
<1>2. (k + 1)..Len(g) = ((k + 1)..Len(r)) \cup {Len(r) + 1}
  BY <1>1
<1>3. (k + 1)..Len(r) \subseteq 1..Len(r)
  BY <1>1
<1> QED BY <1>1, <1>2, <1>3 DEF Rest, g

\* The next row, and those after it.
LEMMA RestShrinks ==
  ASSUME NEW r \in Seq(Nat), NEW k \in Nat, k < Len(r)
  PROVE  /\ r[k + 1] \in Nat
         /\ Rest(r, k) = {r[k + 1]} \cup Rest(r, k + 1)
         /\ Ascending(r) => Before({r[k + 1]}, Rest(r, k + 1))
<1>1. /\ Len(r) \in Nat /\ DOMAIN r = 1..Len(r)
      /\ (k + 1)..Len(r) = {k + 1} \cup ((k + 2)..Len(r))
  OBVIOUS
<1>2. Before({r[k + 1]}, Rest(r, k + 1)) \/ ~Ascending(r)
  BY SMTT(30), <1>1 DEF Ascending, Before, Rest
<1> QED BY <1>1, <1>2 DEF Rest

\* The ring after the slots of a batch were freed.
LEMMA RestIsKept ==
  ASSUME NEW r \in Seq(Nat), NEW k \in 0..Len(r)
  PROVE  /\ Rest(SubSeq(r, k + 1, Len(r)), 0) = Rest(r, k)
         /\ Ascending(r) => Ascending(SubSeq(r, k + 1, Len(r)))
<1> DEFINE g == SubSeq(r, k + 1, Len(r))
<1>1. /\ Len(g) = Len(r) - k
      /\ Len(r) \in Nat
      /\ DOMAIN r = 1..Len(r)
      /\ DOMAIN g = 1..(Len(r) - k)
      /\ \A i \in 1..(Len(r) - k) : g[i] = r[i + k]
  OBVIOUS
<1> HIDE DEF g
<1>2. Rest(g, 0) \subseteq Rest(r, k)
  <2> SUFFICES ASSUME NEW i \in 1..Len(g) PROVE g[i] \in Rest(r, k)
    BY DEF Rest
  <2>1. i + k \in (k + 1)..Len(r) /\ g[i] = r[i + k]
    BY <1>1
  <2> QED BY <2>1 DEF Rest
<1>3. ASSUME NEW i \in (k + 1)..Len(r) PROVE r[i] \in Rest(g, 0)
  <2>1. i - k \in 1..Len(g) /\ (i - k) + k = i
    BY <1>1
  <2>2. g[i - k] = r[(i - k) + k]
    BY <1>1, <2>1
  <2> QED BY <2>1, <2>2 DEF Rest
<1>4. ASSUME Ascending(r), NEW i \in DOMAIN g, NEW j \in DOMAIN g, i < j
      PROVE  g[i] < g[j]
  <2>1. i + k \in DOMAIN r /\ j + k \in DOMAIN r /\ i + k < j + k
    BY SMTT(30), <1>1, <1>4
  <2> QED BY <1>1, <1>4, <2>1 DEF Ascending
<1>5. Rest(r, k) \subseteq Rest(g, 0)
  BY <1>3 DEF Rest
<1> QED BY <1>2, <1>4, <1>5 DEF Ascending, g

\* The stages of the way of a row, and the pairs of them.
LEMMA FiveStages ==
  ASSUME NEW A, NEW B, NEW C, NEW D, NEW E
  PROVE  (\A i, j \in DOMAIN <<A, B, C, D, E>> :
            i < j => Before(<<A, B, C, D, E>>[i], <<A, B, C, D, E>>[j]))
         <=> /\ Before(A, B \cup C \cup D \cup E)
             /\ Before(B, C \cup D \cup E)
             /\ Before(C, D \cup E)
             /\ Before(D, E)
<1> DEFINE s == <<A, B, C, D, E>>
<1>1. DOMAIN s = 1..5 /\ s[1] = A /\ s[2] = B /\ s[3] = C /\ s[4] = D /\ s[5] = E
  OBVIOUS
<1> HIDE DEF s
<1>2. (\A i, j \in DOMAIN s : i < j => Before(s[i], s[j])) <=>
        /\ Before(s[1], s[2]) /\ Before(s[1], s[3])
        /\ Before(s[1], s[4]) /\ Before(s[1], s[5])
        /\ Before(s[2], s[3]) /\ Before(s[2], s[4])
        /\ Before(s[2], s[5]) /\ Before(s[3], s[4])
        /\ Before(s[3], s[5]) /\ Before(s[4], s[5])
  BY <1>1
<1> QED BY <1>1, <1>2 DEF s, Before

\* RowsInOrder, said of the rows handed out, the queue, the batch in hand, the builder,
\* the ring and its part that is not read yet.
Train(d, q, h, a, r, u) ==
    /\ Ascending(d) /\ InOrder(q) /\ Ascending(h) /\ Ascending(a) /\ Ascending(r)
    /\ Before(ToSet(d), Rows(q) \cup ToSet(h) \cup ToSet(a) \cup u)
    /\ Before(Rows(q), ToSet(h) \cup ToSet(a) \cup u)
    /\ Before(ToSet(h), ToSet(a) \cup u)
    /\ Before(ToSet(a), u)

\* The two are the same, in a state and in the next one.
LEMMA OrderIs ==
  /\ RowsInOrder <=> Train(delivered, batches, hand, accum, ring, Rest(ring, at))
  /\ RowsInOrder' <=> Train(delivered', batches', hand', accum', ring', Rest(ring', at'))
<1>1. ASSUME NEW d, NEW q, NEW h, NEW a, NEW r, NEW u
      PROVE  Train(d, q, h, a, r, u) <=>
               /\ \A rows \in {d, h, a, r} \cup ToSet(q) : Ascending(rows)
               /\ \A i, j \in DOMAIN q : i < j => Before(ToSet(q[i]), ToSet(q[j]))
               /\ \A i, j \in DOMAIN <<ToSet(d), Rows(q), ToSet(h), ToSet(a), u>> :
                    i < j => Before(<<ToSet(d), Rows(q), ToSet(h), ToSet(a), u>>[i],
                                    <<ToSet(d), Rows(q), ToSet(h), ToSet(a), u>>[j])
  <2>1. (\A rows \in {d, h, a, r} \cup ToSet(q) : Ascending(rows)) <=>
          /\ Ascending(d) /\ Ascending(h) /\ Ascending(a) /\ Ascending(r)
          /\ \A i \in DOMAIN q : Ascending(q[i])
    BY DEF ToSet
  <2> QED BY <2>1, FiveStages DEF Train, InOrder
<1>2. Stages = <<ToSet(delivered), Rows(batches), ToSet(hand), ToSet(accum), Rest(ring, at)>>
  BY DEF Stages, InQueue, Unread, Rows, Rest
<1>3. Stages' = <<ToSet(delivered'), Rows(batches'), ToSet(hand'), ToSet(accum'),
                  Rest(ring', at')>>
  BY DEF Stages, InQueue, Unread, Rows, Rest
<1> QED BY <1>1, <1>2, <1>3 DEF RowsInOrder

\* RowsKept, said likewise.
LEMMA KeptIs ==
  /\ InQueue = Rows(batches) /\ Unread = Rest(ring, at)
  /\ InQueue' = Rows(batches') /\ Unread' = Rest(ring', at')
  BY DEF InQueue, Unread, Rows, Rest

------------------------------------------------------------------------------
(* The types *)

\* Waking changes what the pullers do, and nothing else.
LEMMA WokenType ==
  ASSUME TypeOK, NEW wake \in BOOLEAN
  PROVE  Woken(wake) \in [Pullers -> {"idle", "next", "parking", "parked", "pending"}]
  BY DEF TypeOK, Woken

\* The rows of a sequence are numbers.
LEMMA RowsAreNat ==
  ASSUME NEW s \in Seq(Nat)
  PROVE  ToSet(s) \subseteq Nat
  BY DEF ToSet

\* A step that leaves the ring alone.
LEMMA RingSame ==
  ASSUME RingTypeOK, UNCHANGED ringVars
  PROVE  RingTypeOK'
  BY DEF ringVars, RingTypeOK

\* A step of the I/O thread keeps the types.
LEMMA IoType ==
  ASSUME TypeOK, IoStep /\ ReaderUnchanged
  PROVE  TypeOK'
<1>1. /\ ring \in Seq(Nat) /\ decoded \in Nat
      /\ Append(ring, decoded + 1) \in Seq(Nat)
      /\ Len(Append(ring, decoded + 1)) = Len(ring) + 1
  BY DEF TypeOK, RingTypeOK
<1>2. RingTypeOK'
  <2> HIDE DEF TypeOK
  <2>0. RingTypeOK
    BY DEF TypeOK
  <2> USE DEF RingTypeOK
  <2>1. CASE Publish
    <3>1. CASE Len(ring) < RingSize /\ ring' = Append(ring, decoded + 1)
      <4>1. decoded' = decoded + 1 /\ UNCHANGED <<ringLost, io, ioFaulted, shutdown>>
        BY <2>1, <3>1 DEF Publish
      <4>2. ring' \in Seq(Nat) /\ Len(ring') <= RingSize
        BY <1>1, <3>1, RingAssumption
      <4> QED BY <1>1, <2>0, <4>1, <4>2
    <3>2. CASE ringLost' = ringLost \cup {decoded + 1} /\ UNCHANGED ring
      BY <1>1, <2>0, <2>1, <3>2 DEF Publish
    <3> QED BY <2>1, <3>1, <3>2 DEF Publish
  <2>2. CASE IoReturns BY <2>0, <2>2 DEF IoReturns
  <2>3. CASE IoUnwinds BY <2>0, <2>3 DEF IoUnwinds
  <2>4. CASE ProducerDrops BY <2>0, <2>4 DEF ProducerDrops
  <2> QED BY <2>1, <2>2, <2>3, <2>4 DEF IoStep
<1> QED BY <1>2 DEF TypeOK, ReaderUnchanged, config, dispatcher, flags, history

\* A step of the dispatcher, or of its clock, keeps the types.
LEMMA DispatcherType ==
  ASSUME TypeOK, Control, DispatcherStep \/ LingerElapses \/ DispatcherPanics
  PROVE  TypeOK'
<1> USE RingSame DEF TypeOK, config, flags, history
<1>1. CASE Poll
  <2>1. RingTypeOK' /\ Len(ring) \in Nat
    BY <1>1 DEF Poll, RingTypeOK
  <2>2. /\ pc' \in {"linger", "event"} /\ taken' \in Nat /\ at' \in 0..taken'
        /\ outcome' \in {"Drained", "Shutdown", "Failed"}
    BY <1>1, <2>1 DEF Poll, TerminalPollOutcome
  <2> QED BY <1>1, <2>1, <2>2 DEF Poll
<1>2. CASE OnEvent
  <2>0. /\ ring \in Seq(Nat) /\ at \in Nat /\ taken \in Nat
        /\ at < taken /\ taken <= Len(ring)
    BY <1>2 DEF OnEvent, Control, RingTypeOK
  <2>1. ring[at + 1] \in Nat
    <3> HIDE DEF TypeOK
    <3> QED BY <2>0
  <2>2. Append(accum, ring[at + 1]) \in Seq(Nat) /\ <<>> \in Seq(Nat)
    BY <2>1
  <2>3. accum' \in Seq(Nat) /\ hand' \in Seq(Nat) /\ lingered' \in BOOLEAN
    BY <1>2, <2>2 DEF OnEvent, Flush
  <2>4. /\ pc' \in {"event", "push"} /\ return' \in {"none", "event", "recheck", "mark"}
        /\ taken' \in Nat /\ at' \in 0..taken'
    BY <1>2 DEF OnEvent, Flush
  <2> QED BY <1>2, <2>3, <2>4 DEF OnEvent
<1>3. CASE Release
  <2>1. Len(ring) \in Nat /\ taken \in Nat /\ taken <= Len(ring) /\ Len(ring) <= RingSize
    BY DEF RingTypeOK, Control
  <2>2. /\ SubSeq(ring, taken + 1, Len(ring)) \in Seq(Nat)
        /\ Len(SubSeq(ring, taken + 1, Len(ring))) = Len(ring) - taken
    BY <2>1 DEF RingTypeOK
  <2>3. RingTypeOK'
    BY <1>3, <2>1, <2>2, RingAssumption DEF Release, RingTypeOK
  <2> QED BY <1>3, <2>3 DEF Release
<1>4. CASE Linger
  <2>1. /\ pc' = "push" /\ return' = "recheck" /\ lingered' = FALSE
        /\ hand' \in Seq(Nat) /\ accum' \in Seq(Nat)
    BY <1>4 DEF Linger, Flush
  <2> QED BY ZenonT(60), <1>4, <2>1 DEF Linger
<1>5. CASE Recheck
  <2>1. pc' \in {"poll", "end"} /\ outcome' \in {"Drained", "Shutdown", "Failed"}
    BY <1>5 DEF Recheck
  <2> QED BY <1>5, <2>1 DEF Recheck
<1>6. CASE Push
  <2>1. /\ hand' \in Seq(Nat) /\ pc' = return /\ return' = "none"
        /\ UNCHANGED <<ringVars, config, taken, at, outcome, accum, lingered, flags,
                       teardown, session, delivered, panicked, cleanEnd, errorsTold>>
    BY <1>6 DEF Push
  <2>2. pc' \in {"poll", "event", "linger", "recheck", "push", "parking",
                  "parked", "end", "mark", "done"}
    BY <1>6 DEF Push, Control, Flushing
  <2>3. Woken(waker) \in [Pullers -> {"idle", "next", "parking", "parked", "pending"}]
    BY WokenType
  <2>4. CASE ~Full /\ Pushed(batches) /\ UNCHANGED <<dropped, lost>>
    <3>1. batches' \in Seq(Seq(Nat)) /\ Len(batches') <= Capacity
      BY <2>4, AppendBatch, BatchAssumption DEF Pushed, Full
    <3> QED BY ZenonT(60), <2>1, <2>2, <2>3, <2>4, <3>1 DEF Pushed
  <2>5. CASE Full /\ DropOldest
    <3>1. batches # <<>>
      BY <2>5, BatchAssumption DEF Full
    <3>2. /\ Head(batches) \in Seq(Nat)
          /\ Tail(batches) \in Seq(Seq(Nat))
          /\ Len(Tail(batches)) = Len(batches) - 1
      BY <3>1, TakeBatch
    <3>3. batches' \in Seq(Seq(Nat)) /\ Len(batches') <= Capacity
      BY <2>5, <3>2, AppendBatch, BatchAssumption DEF DropOldest, Pushed
    <3>4. lost' \subseteq Nat /\ dropped' \in Nat
      <4>1. ToSet(Head(batches)) \subseteq Nat BY <3>2, RowsAreNat
      <4>2. lost' = lost \cup ToSet(Head(batches)) /\ dropped' = dropped + 1
        BY <2>5 DEF DropOldest
      <4>3. lost \subseteq Nat /\ dropped \in Nat
        OBVIOUS
      <4> HIDE DEF TypeOK
      <4>4. lost' \subseteq Nat BY <4>1, <4>2, <4>3, Zenon
      <4> QED BY <4>2, <4>3, <4>4
    <3>5. pull' = Woken(waker) /\ waker' = FALSE
      BY <2>5 DEF DropOldest, Pushed
    <3> QED BY ZenonT(60), <2>1, <2>2, <2>3, <3>3, <3>4, <3>5
  <2>6. CASE lost' = lost \cup ToSet(hand) /\ UNCHANGED <<batches, waker, dropped, pull>>
    <3>1. lost' \subseteq Nat
      BY <2>6, RowsAreNat
    <3> QED BY <2>1, <2>2, <2>6, <3>1
  <2> QED BY <1>6, <2>4, <2>5, <2>6 DEF Push
<1>7. CASE PushBlocks
  BY <1>7 DEF PushBlocks
<1>8. CASE PushParks
  BY <1>8 DEF PushParks
<1>9. CASE End
  <2>1. /\ pc' \in {"push", "mark"} /\ return' \in {"none", "event", "recheck", "mark"}
        /\ accum' \in Seq(Nat) /\ hand' \in Seq(Nat) /\ lingered' \in BOOLEAN
    <3>1. CASE accum = <<>> BY <1>9, <3>1 DEF End
    <3>2. CASE accum # <<>>
      <4>1. Flush(accum, "mark") BY <1>9, <3>2 DEF End
      <4>2. accum \in Seq(Nat) /\ <<>> \in Seq(Nat) OBVIOUS
      <4> HIDE DEF TypeOK
      <4> QED BY <4>1, <4>2 DEF Flush
    <3> QED BY <3>1, <3>2
  <2> QED BY <1>9, <2>1 DEF End
<1>10. CASE MarkTerminal
  <2>1. Woken(waker) \in [Pullers -> {"idle", "next", "parking", "parked", "pending"}]
    BY WokenType
  <2> QED BY ZenonT(60), <1>10, <2>1 DEF MarkTerminal
<1>11. CASE LingerElapses
  BY <1>11 DEF LingerElapses
<1>12. CASE DispatcherPanics
  BY <1>12 DEF DispatcherPanics
<1> QED
  BY <1>1, <1>2, <1>3, <1>4, <1>5, <1>6, <1>7, <1>8, <1>9, <1>10, <1>11, <1>12
     DEF DispatcherStep

\* A step of a puller keeps the types.
LEMMA PullType ==
  ASSUME TypeOK, NEW p \in Pullers, PullStep(p)
  PROVE  TypeOK'
<1> USE RingSame DEF TypeOK, config, dispatcher, flags, history
<1>1. CASE PullBatch(p)
  <2>1. /\ Head(batches) \in Seq(Nat)
        /\ Tail(batches) \in Seq(Seq(Nat))
        /\ Len(Tail(batches)) = Len(batches) - 1
    BY <1>1, TakeBatch DEF PullBatch
  <2>2. delivered' \in Seq(Nat)
    BY <1>1, <2>1, JoinRows DEF PullBatch
  <2>3. Woken(FALSE) \in [Pullers -> {"idle", "next", "parking", "parked", "pending"}]
    BY WokenType
  <2>4. /\ pull' \in [Pullers -> {"idle", "next", "parking", "parked", "pending"}]
        /\ pc' \in {"poll", "event", "linger", "recheck", "push", "parking",
                    "parked", "end", "mark", "done"}
    BY <1>1, <2>3 DEF PullBatch, DispatcherWoken
  <2>5. batches' \in Seq(Seq(Nat)) /\ Len(batches') <= Capacity
    BY <1>1, <2>1, BatchAssumption DEF PullBatch
  <2>6. UNCHANGED <<ringVars, config, taken, at, outcome, accum, lingered, hand, return,
                    flags, waker, dropped, teardown, session, lost, panicked, cleanEnd,
                    errorsTold>>
    BY <1>1 DEF PullBatch
  <2> QED BY <2>2, <2>4, <2>5, <2>6
<1>2. CASE PullError(p)
  <2>1. /\ errorsTold' \in Nat
        /\ pull' \in [Pullers -> {"idle", "next", "parking", "parked", "pending"}]
    BY <1>2 DEF PullError
  <2>3. error' \in BOOLEAN
    BY <1>2 DEF PullError
  <2>2. UNCHANGED <<ringVars, config, dispatcher, batches, finished, closed, waker,
                    dropped, teardown, session, delivered, lost, panicked, cleanEnd>>
    BY <1>2 DEF PullError
  <2> QED BY <2>1, <2>2, <2>3
<1>3. CASE PullEnd(p)
  BY <1>3 DEF PullEnd
<1>4. CASE PullWaits(p)
  <2>1. /\ waker' \in BOOLEAN
        /\ pull' \in [Pullers -> {"idle", "next", "parking", "parked", "pending"}]
    BY <1>4 DEF PullWaits
  <2> QED BY <1>4, <2>1 DEF PullWaits
<1>5. CASE PullParks(p)
  BY <1>5 DEF PullParks
<1> QED BY <1>1, <1>2, <1>3, <1>4, <1>5 DEF PullStep

\* A step of a teardown keeps the types.
LEMMA TeardownType ==
  ASSUME TypeOK, NEW t \in Teardowns, Close \/ TeardownStep(t)
  PROVE  TypeOK'
<1> USE RingSame DEF TypeOK, config, dispatcher, flags, history
<1>1. ASSUME CloseAndWake
      PROVE  /\ pull' \in [Pullers -> {"idle", "next", "parking", "parked", "pending"}]
             /\ pc' \in {"poll", "event", "linger", "recheck", "push", "parking",
                         "parked", "end", "mark", "done"}
             /\ closed' \in BOOLEAN /\ waker' \in BOOLEAN
  BY <1>1, WokenType DEF CloseAndWake, DispatcherWoken
<1>2. ASSUME NEW u \in Teardowns, NEW where \in {"idle", "quiesce", "grace", "join", "over"},
             Goto(u, where)
      PROVE  teardown' \in [Teardowns -> {"idle", "quiesce", "grace", "join", "over"}]
  BY <1>2 DEF Goto
<1>3. CASE Close
  <2>1. CloseAndWake /\ Goto("closer", "quiesce") /\ "closer" \in Teardowns
    BY <1>3 DEF Close, Teardowns
  <2>2. teardown' \in [Teardowns -> {"idle", "quiesce", "grace", "join", "over"}]
    BY <1>2, <2>1
  <2> QED BY <1>1, <1>3, <2>1, <2>2 DEF Close
<1>4. CASE HookFires(t)
  <2>1. CloseAndWake /\ Goto(t, "join")
    BY <1>4 DEF HookFires
  <2>2. teardown' \in [Teardowns -> {"idle", "quiesce", "grace", "join", "over"}]
    BY <1>2, <2>1
  <2> QED BY <1>1, <1>4, <2>1, <2>2 DEF HookFires
<1>5. CASE Quiesce(t)
  <2>1. RingTypeOK' /\ session' \in BOOLEAN
    BY <1>5 DEF Quiesce, RingTypeOK
  <2>2. teardown' \in [Teardowns -> {"idle", "quiesce", "grace", "join", "over"}]
    BY <1>2, <1>5 DEF Quiesce
  <2> QED BY <1>5, <2>1, <2>2 DEF Quiesce
<1>6. CASE Join(t)
  <2>1. teardown' \in [Teardowns -> {"idle", "quiesce", "grace", "join", "over"}]
    BY <1>2, <1>6 DEF Join
  <2> QED BY <1>6, <2>1 DEF Join
<1> QED BY <1>3, <1>4, <1>5, <1>6 DEF TeardownStep

------------------------------------------------------------------------------
(* Where the dispatcher stands *)

\* A wake-up leaves the dispatcher where it stands.
LEMMA WakeStands ==
  ASSUME pc' = DispatcherWoken, return' = return
  PROVE  Place' = Place /\ (Flushing' <=> Flushing)
  BY DEF DispatcherWoken, Place, Flushing

\* The end of a flush takes the dispatcher back to where it stood.
LEMMA PushStands ==
  ASSUME TypeOK, Control, pc = "push", pc' = return, return' = "none"
  PROVE  Place' = Place /\ ~Flushing'
  BY DEF TypeOK, Control, Place, Flushing

\* A step that moves neither the dispatcher nor its rows.
LEMMA ControlSame ==
  ASSUME Control, Place' = Place, Flushing' <=> Flushing,
         UNCHANGED <<taken, at, accum, hand, return>>, taken' <= Len(ring')
  PROVE  Control'
  BY DEF Control

\* The dispatcher keeps to its course.
LEMMA ControlStays ==
  ASSUME TypeOK, Control, Next
  PROVE  Control'
<1>0. /\ taken \in Nat /\ at \in 0..taken /\ ring \in Seq(Nat) /\ Len(ring) \in Nat
      /\ decoded \in Nat
      /\ return \in {"none", "event", "recheck", "mark"}
  BY DEF TypeOK, RingTypeOK
<1> USE <1>0
<1>1. CASE IoStep /\ ReaderUnchanged
  <2>1. Place' = Place /\ (Flushing' <=> Flushing) /\ UNCHANGED <<taken, at, accum, hand, return>>
    BY <1>1 DEF ReaderUnchanged, dispatcher, Place, Flushing
  <2>2. taken' <= Len(ring')
    <3>1. ring' = ring \/ ring' = Append(ring, decoded + 1)
      BY <1>1 DEF IoStep, Publish, IoReturns, IoUnwinds, ProducerDrops
    <3>2. Len(Append(ring, decoded + 1)) = Len(ring) + 1
      OBVIOUS
    <3> QED BY <2>1, <3>1, <3>2 DEF Control
  <2> QED BY <2>1, <2>2, ControlSame
<1>2. CASE DispatcherStep
  <2>1. CASE Poll
    BY <1>0, <2>1 DEF Poll, Control, Place, Flushing, ringVars
  <2>2. CASE OnEvent
    <3>1. taken' = taken /\ Len(ring') = Len(ring)
      BY <2>2 DEF OnEvent, ringVars
    <3> QED BY <2>2, <3>1 DEF OnEvent, Flush, Control, Place, Flushing
  <2>3. CASE Release
    <3>1. Len(ring') \in Nat
      BY <2>3 DEF Release, Control
    <3> QED BY <2>3, <3>1 DEF Release, Control, Place, Flushing
  <2>4. CASE Linger
    BY <2>4 DEF Linger, Flush, Control, Place, Flushing, ringVars
  <2>5. CASE Recheck
    BY <2>5 DEF Recheck, Control, Place, Flushing, ringVars
  <2>6. CASE Push
    <3>1. Place' = Place /\ ~Flushing'
      BY <2>6, PushStands DEF Push
    <3> QED BY <2>6, <3>1 DEF Push, Control, Flushing, ringVars
  <2>7. CASE PushBlocks
    BY <2>7 DEF PushBlocks, Control, Place, Flushing, ringVars
  <2>8. CASE PushParks
    BY <2>8 DEF PushParks, Control, Place, Flushing, ringVars
  <2>9. CASE End
    BY <2>9 DEF End, Flush, Control, Place, Flushing, ringVars
  <2>10. CASE MarkTerminal
    BY <2>10 DEF MarkTerminal, Control, Place, Flushing, ringVars
  <2> QED
    BY <1>2, <2>1, <2>2, <2>3, <2>4, <2>5, <2>6, <2>7, <2>8, <2>9, <2>10 DEF DispatcherStep
<1>3. CASE LingerElapses
  BY <1>3 DEF LingerElapses, Control, Place, Flushing, ringVars
<1>4. CASE DispatcherPanics
  BY <1>4 DEF DispatcherPanics, Control, Place, Flushing, ringVars
<1>5. ASSUME NEW p \in Pullers, PullStep(p)
      PROVE  Control'
  <2>1. CASE PullBatch(p)
    <3>1. pc' = DispatcherWoken /\ UNCHANGED <<ringVars, taken, at, accum, hand, return>>
      BY <2>1 DEF PullBatch
    <3> QED BY <3>1, WakeStands, ControlSame DEF Control, ringVars
  <2>2. CASE PullError(p) \/ PullEnd(p) \/ PullWaits(p) \/ PullParks(p)
    <3>1. UNCHANGED <<ringVars, dispatcher>>
      BY <2>2 DEF PullError, PullEnd, PullWaits, PullParks
    <3> QED BY <3>1, ControlSame DEF Control, dispatcher, ringVars, Place, Flushing
  <2> QED BY <1>5, <2>1, <2>2 DEF PullStep
<1>6. ASSUME NEW t \in Teardowns, Close \/ TeardownStep(t)
      PROVE  Control'
  <2>1. CASE Close \/ HookFires(t)
    <3>1. pc' = DispatcherWoken /\ UNCHANGED <<ringVars, taken, at, accum, hand, return>>
      BY <2>1 DEF Close, HookFires, CloseAndWake
    <3> QED BY <3>1, WakeStands, ControlSame DEF Control, ringVars
  <2>2. CASE Quiesce(t) \/ Join(t)
    <3>1. UNCHANGED <<ring, dispatcher>>
      BY <2>2 DEF Quiesce, Join, ringVars
    <3> QED BY <3>1, ControlSame DEF Control, dispatcher, Place, Flushing
  <2> QED BY <1>6, <2>1, <2>2 DEF TeardownStep
<1>7. "closer" \in Teardowns
  BY DEF Teardowns
<1> QED BY <1>1, <1>2, <1>3, <1>4, <1>5, <1>6, <1>7 DEF Next

------------------------------------------------------------------------------
(* What the outcome says *)

\* Once the end of the ring is reported the I/O thread takes no step.
LEMMA TerminalIsLast ==
  ASSUME Terminal, IoStep
  PROVE  FALSE
  BY DEF Terminal, IoOver, IoStep, Publish, IoReturns, IoUnwinds, ProducerDrops

\* A step that leaves the ring and what is said about it alone.
LEMMA OutcomeSame ==
  ASSUME OutcomeIsTrue, UNCHANGED <<ring, io, ioFaulted, outcome, panicked>>,
         closed => closed', Place' = Place
  PROVE  OutcomeIsTrue'
  BY DEF OutcomeIsTrue, Ending, Terminal, TerminalPollOutcome, IoOver

\* The outcome stays true.
LEMMA OutcomeStays ==
  ASSUME TypeOK, Control, OutcomeIsTrue, Next
  PROVE  OutcomeIsTrue'
<1> USE DEF Terminal, IoOver, TerminalPollOutcome
<1>1. CASE IoStep /\ ReaderUnchanged
  <2>1. Place' = Place /\ UNCHANGED <<outcome, panicked, closed>>
    BY <1>1 DEF ReaderUnchanged, dispatcher, history, flags, Place, Flushing
  <2>2. CASE Terminal
    BY <1>1, <2>2, TerminalIsLast
  <2>3. CASE ~Terminal
    <3>1. ioFaulted' <=> io' \in {"unwinding", "unwound"}
      BY <1>1 DEF OutcomeIsTrue, IoStep, Publish, IoReturns, IoUnwinds, ProducerDrops
    <3>2. closed \/ panicked \/ (outcome = "Drained" /\ ~Ending)
      BY <2>3 DEF OutcomeIsTrue
    <3> QED BY <2>1, <3>1, <3>2 DEF OutcomeIsTrue, Ending
  <2> QED BY <2>2, <2>3
<1>2. CASE DispatcherStep
  <2>0. CASE UNCHANGED <<ringVars, closed, outcome, panicked>> /\ Place' = Place
    BY <2>0, OutcomeSame DEF ringVars
  <2>1. CASE Poll
    BY <2>1 DEF Poll, OutcomeIsTrue, Ending, Place, Flushing, ringVars, flags, history
  <2>2. CASE OnEvent
    <3>1. Place' = Place
      BY <2>2 DEF OnEvent, Flush, Control, Place, Flushing
    <3> QED BY <2>0, <2>2, <3>1 DEF OnEvent, flags, history
  <2>3. CASE Release
    <3>1. /\ ~Ending' /\ ~Ending /\ UNCHANGED <<io, ioFaulted, outcome, panicked, closed>>
      BY <2>3 DEF Release, Ending, Place, Flushing, flags, history
    <3>2. ring = <<>> => ring' = <<>>
      BY <2>3 DEF Release, TypeOK, RingTypeOK, Control
    <3> QED BY <3>1, <3>2 DEF OutcomeIsTrue
  <2>4. CASE Linger
    BY <2>4 DEF Linger, Flush, OutcomeIsTrue, Ending, Place, Flushing, ringVars, flags, history
  <2>5. CASE Recheck
    BY <2>5 DEF Recheck, OutcomeIsTrue, Ending, Place, Flushing, ringVars, flags, history
  <2>6. CASE Push
    <3>1. Place' = Place
      BY <2>6, PushStands DEF Push
    <3> QED BY <2>0, <2>6, <3>1 DEF Push, flags
  <2>7. CASE PushBlocks
    BY <2>0, <2>7 DEF PushBlocks, Place, Flushing, flags, history
  <2>8. CASE PushParks
    BY <2>0, <2>8 DEF PushParks, Place, Flushing, flags, history
  <2>9. CASE End
    BY <2>9 DEF End, Flush, OutcomeIsTrue, Ending, Place, Flushing, ringVars, flags, history
  <2>10. CASE MarkTerminal
    BY <2>10 DEF MarkTerminal, OutcomeIsTrue, Ending, Place, Flushing, ringVars, history
  <2> QED
    BY <1>2, <2>1, <2>2, <2>3, <2>4, <2>5, <2>6, <2>7, <2>8, <2>9, <2>10 DEF DispatcherStep
<1>3. CASE LingerElapses
  BY <1>3, OutcomeSame DEF LingerElapses, Place, Flushing, ringVars, flags, history
<1>4. CASE DispatcherPanics
  BY <1>4 DEF DispatcherPanics, OutcomeIsTrue, Ending, Place, Flushing, ringVars, flags
<1>5. ASSUME NEW p \in Pullers, PullStep(p)
      PROVE  OutcomeIsTrue'
  <2>1. CASE PullBatch(p)
    <3>1. pc' = DispatcherWoken /\ UNCHANGED <<ringVars, return, outcome, panicked, flags>>
      BY <2>1 DEF PullBatch
    <3> QED BY <3>1, WakeStands, OutcomeSame DEF ringVars, flags
  <2>2. CASE PullError(p) \/ PullEnd(p) \/ PullWaits(p) \/ PullParks(p)
    <3>1. UNCHANGED <<ringVars, dispatcher, panicked, closed>>
      BY <2>2 DEF PullError, PullEnd, PullWaits, PullParks, history, flags
    <3> QED BY <3>1, OutcomeSame DEF dispatcher, ringVars, Place, Flushing
  <2> QED BY <1>5, <2>1, <2>2 DEF PullStep
<1>6. ASSUME NEW t \in Teardowns, Close \/ TeardownStep(t)
      PROVE  OutcomeIsTrue'
  <2>1. CASE Close \/ HookFires(t)
    <3>1. pc' = DispatcherWoken /\ closed' /\ UNCHANGED <<ringVars, return, outcome, panicked>>
      BY <2>1 DEF Close, HookFires, CloseAndWake, history
    <3> QED BY <3>1, WakeStands, OutcomeSame DEF ringVars
  <2>2. CASE Quiesce(t) \/ Join(t)
    <3>1. UNCHANGED <<ring, io, ioFaulted, dispatcher, panicked, closed>>
      BY <2>2 DEF Quiesce, Join, ringVars, history, flags
    <3> QED BY <3>1, OutcomeSame DEF dispatcher, Place, Flushing
  <2> QED BY <1>6, <2>1, <2>2 DEF TeardownStep
<1>7. "closer" \in Teardowns
  BY DEF Teardowns
<1> QED BY <1>1, <1>2, <1>3, <1>4, <1>5, <1>6, <1>7 DEF Next

------------------------------------------------------------------------------
(* What an end says *)

\* A step that leaves the terminal marker, the error and the place alone.
LEMMA ErrorSame ==
  ASSUME ErrorIsOnce, UNCHANGED <<finished, error, errorsTold>>, Place' = Place,
         finished => outcome' = outcome
  PROVE  ErrorIsOnce'
  BY DEF ErrorIsOnce

\* An error is told once, after the marker.
LEMMA ErrorStays ==
  ASSUME TypeOK, Control, ErrorIsOnce, Next
  PROVE  ErrorIsOnce'
<1>1. CASE IoStep /\ ReaderUnchanged
  BY <1>1, ErrorSame DEF ReaderUnchanged, dispatcher, history, flags, Place, Flushing
<1>2. CASE DispatcherStep
  <2>0. CASE UNCHANGED <<finished, error, errorsTold>> /\ Place # "done" /\ Place' # "done"
    BY <2>0 DEF ErrorIsOnce
  <2>1. CASE Poll
    BY <2>0, <2>1 DEF Poll, Place, Flushing, flags, history
  <2>2. CASE OnEvent
    BY <2>0, <2>2 DEF OnEvent, Flush, Place, Flushing, flags, history
  <2>3. CASE Release
    BY <2>0, <2>3 DEF Release, Place, Flushing, flags, history
  <2>4. CASE Linger
    BY <2>0, <2>4 DEF Linger, Flush, Place, Flushing, flags, history
  <2>5. CASE Recheck
    BY <2>0, <2>5 DEF Recheck, Place, Flushing, flags, history
  <2>6. CASE Push
    <3>1. Place' = Place
      BY <2>6, PushStands DEF Push
    <3> QED BY <2>6, <3>1, ErrorSame DEF Push, flags
  <2>7. CASE PushBlocks
    BY <2>7, ErrorSame DEF PushBlocks, Place, Flushing, flags, history
  <2>8. CASE PushParks
    BY <2>8, ErrorSame DEF PushParks, Place, Flushing, flags, history
  <2>9. CASE End
    BY <2>0, <2>9 DEF End, Flush, Place, Flushing, flags, history
  <2>10. CASE MarkTerminal
    <3>1. ~finished /\ ~error /\ errorsTold = 0
      BY <2>10 DEF MarkTerminal, ErrorIsOnce, Place, Flushing
    <3>2. /\ finished' /\ Place' = "done" /\ errorsTold' = 0
          /\ error' <=> outcome = "Failed"
          /\ outcome' = outcome
      BY <2>10, <3>1 DEF MarkTerminal, Place, Flushing, history
    <3> QED BY <3>2 DEF ErrorIsOnce
  <2> QED
    BY <1>2, <2>1, <2>2, <2>3, <2>4, <2>5, <2>6, <2>7, <2>8, <2>9, <2>10 DEF DispatcherStep
<1>3. CASE LingerElapses
  BY <1>3, ErrorSame DEF LingerElapses, Place, Flushing, flags, history
<1>4. CASE DispatcherPanics
  BY <1>4 DEF DispatcherPanics, ErrorIsOnce, Place, Flushing, flags
<1>5. ASSUME NEW p \in Pullers, PullStep(p)
      PROVE  ErrorIsOnce'
  <2>1. CASE PullBatch(p)
    <3>1. pc' = DispatcherWoken /\ UNCHANGED <<return, outcome, errorsTold, flags>>
      BY <2>1 DEF PullBatch
    <3> QED BY <3>1, WakeStands, ErrorSame DEF flags
  <2>2. CASE PullError(p)
    <3>1. Place' = Place /\ UNCHANGED <<finished, outcome>>
      BY <2>2 DEF PullError, dispatcher, Place, Flushing
    <3>2. error /\ ~error' /\ errorsTold' = errorsTold + 1
      BY <2>2 DEF PullError
    <3> QED BY <3>1, <3>2 DEF ErrorIsOnce
  <2>3. CASE PullEnd(p) \/ PullWaits(p) \/ PullParks(p)
    <3>1. UNCHANGED <<dispatcher, flags, errorsTold>>
      BY <2>3 DEF PullEnd, PullWaits, PullParks, history
    <3> QED BY <3>1, ErrorSame DEF dispatcher, flags, Place, Flushing
  <2> QED BY <1>5, <2>1, <2>2, <2>3 DEF PullStep
<1>6. ASSUME NEW t \in Teardowns, Close \/ TeardownStep(t)
      PROVE  ErrorIsOnce'
  <2>1. CASE Close \/ HookFires(t)
    <3>1. pc' = DispatcherWoken /\ UNCHANGED <<return, outcome, finished, error, errorsTold>>
      BY <2>1 DEF Close, HookFires, CloseAndWake, history
    <3> QED BY <3>1, WakeStands, ErrorSame
  <2>2. CASE Quiesce(t) \/ Join(t)
    <3>1. UNCHANGED <<dispatcher, flags, history>>
      BY <2>2 DEF Quiesce, Join
    <3> QED BY <3>1, ErrorSame DEF dispatcher, flags, history, Place, Flushing
  <2> QED BY <1>6, <2>1, <2>2 DEF TeardownStep
<1>7. "closer" \in Teardowns
  BY DEF Teardowns
<1> QED BY <1>1, <1>2, <1>3, <1>4, <1>5, <1>6, <1>7 DEF Next

\* A step that leaves all an end depends on alone.
LEMMA EndSame ==
  ASSUME EndIsLast,
         UNCHANGED <<cleanEnd, finished, error, batches, panicked, errorsTold, ring, io>>
  PROVE  EndIsLast'
  BY DEF EndIsLast, IoOver

\* Before the marker nobody was told of an end.
LEMMA NoEndYet ==
  ASSUME EndIsLast, ~finished, UNCHANGED cleanEnd
  PROVE  EndIsLast'
  BY DEF EndIsLast

\* After an end nothing comes.
LEMMA EndStays ==
  ASSUME TypeOK, Control, OutcomeIsTrue, ErrorIsOnce, EndIsLast, Next
  PROVE  EndIsLast'
<1> USE DEF IoOver
<1>1. CASE IoStep /\ ReaderUnchanged
  <2>1. UNCHANGED <<cleanEnd, finished, error, batches, panicked, errorsTold>>
    BY <1>1 DEF ReaderUnchanged, history, flags
  <2>2. ~(ring = <<>> /\ IoOver)
    BY <1>1, TerminalIsLast DEF Terminal
  <2> QED BY <2>1, <2>2 DEF EndIsLast
<1>2. CASE DispatcherStep
  <2>1. ~finished
    BY <1>2 DEF ErrorIsOnce, Place, Flushing, Control, TypeOK, DispatcherStep, Poll, OnEvent,
                Release, Linger, Recheck, Push, PushBlocks, PushParks, End, MarkTerminal
  <2>2. UNCHANGED cleanEnd
    BY <1>2 DEF DispatcherStep, Poll, OnEvent, Release, Linger, Recheck, Push, PushBlocks,
                PushParks, End, MarkTerminal, history
  <2> QED BY <2>1, <2>2, NoEndYet
<1>3. CASE LingerElapses
  BY <1>3, EndSame DEF LingerElapses, ringVars, flags, history
<1>4. CASE DispatcherPanics
  BY <1>4, NoEndYet DEF DispatcherPanics, ErrorIsOnce, Place, Flushing
<1>5. ASSUME NEW p \in Pullers, PullStep(p)
      PROVE  EndIsLast'
  <2>1. CASE PullBatch(p)
    BY <2>1 DEF PullBatch, EndIsLast
  <2>2. CASE PullError(p)
    BY <2>2 DEF PullError, EndIsLast
  <2>3. CASE PullEnd(p)
    <3>1. /\ UNCHANGED <<finished, error, batches, panicked, errorsTold, ring, io>>
          /\ batches = <<>> /\ ~error
      BY <2>3 DEF PullEnd, ringVars, flags
    <3>2. CASE cleanEnd
      BY <3>1, <3>2 DEF EndIsLast
    <3>3. CASE ~cleanEnd /\ closed
      BY <2>3, <3>3 DEF PullEnd, EndIsLast
    <3>4. CASE ~closed
      <4>1. finished /\ Place = "done" /\ (outcome = "Failed" => errorsTold = 1)
        BY <2>3, <3>1, <3>4 DEF PullEnd, ErrorIsOnce
      <4>2. panicked => errorsTold = 1
        BY <4>1 DEF OutcomeIsTrue
      <4>3. ~panicked => Terminal /\ outcome = TerminalPollOutcome
        BY <3>4, <4>1 DEF OutcomeIsTrue, Ending
      <4>4. ~panicked => ring = <<>> /\ IoOver /\ (io # "returned" => errorsTold = 1)
        BY <4>1, <4>3 DEF Terminal, TerminalPollOutcome, OutcomeIsTrue
      <4> QED BY <3>1, <4>1, <4>2, <4>4 DEF EndIsLast
    <3> QED BY <3>2, <3>3, <3>4
  <2>4. CASE PullWaits(p) \/ PullParks(p)
    BY <2>4, EndSame DEF PullWaits, PullParks, ringVars, flags, history
  <2> QED BY <1>5, <2>1, <2>2, <2>3, <2>4 DEF PullStep
<1>6. ASSUME NEW t \in Teardowns, Close \/ TeardownStep(t)
      PROVE  EndIsLast'
  <2>1. UNCHANGED <<cleanEnd, finished, error, batches, panicked, errorsTold, ring, io>>
    BY <1>6 DEF TeardownStep, Close, HookFires, Quiesce, Join, ringVars, flags, history
  <2> QED BY <2>1, EndSame
<1>7. "closer" \in Teardowns
  BY DEF Teardowns
<1> QED BY <1>1, <1>2, <1>3, <1>4, <1>5, <1>6, <1>7 DEF Next

------------------------------------------------------------------------------
(* Where the rows are *)

\* The rows known to be on their way.
AllRows == ToSet(delivered) \cup Rows(batches) \cup ToSet(hand) \cup ToSet(accum)
             \cup Rest(ring, at)

\* The types that the lemmas on sequences ask for.
LEMMA RowsAre ==
  ASSUME TypeOK, Control
  PROVE  /\ delivered \in Seq(Nat) /\ batches \in Seq(Seq(Nat)) /\ hand \in Seq(Nat)
         /\ accum \in Seq(Nat) /\ ring \in Seq(Nat)
         /\ at \in 0..Len(ring) /\ at \in 0..taken /\ taken \in 0..Len(ring)
         /\ decoded \in Nat /\ dropped \in Nat
         /\ ToSet(<<>>) = {} /\ Ascending(<<>>)
<1>1. /\ ring \in Seq(Nat) /\ at \in 0..taken /\ taken <= Len(ring)
      /\ taken \in Nat /\ Len(ring) \in Nat
  BY DEF TypeOK, RingTypeOK, Control
<1>2. at \in 0..Len(ring) /\ taken \in 0..Len(ring)
  BY <1>1
<1>3. ToSet(<<>>) = {} /\ Ascending(<<>>)
  BY DEF ToSet, Ascending
<1> QED BY <1>1, <1>2, <1>3 DEF TypeOK, RingTypeOK

\* A step that moves no row, and takes back no close and no count.
LEMMA RowsSame ==
  ASSUME RowsSound, UNCHANGED <<ring, at, decoded, ringLost, accum, hand, batches,
                                delivered, lost, dropped, backpressure>>,
         closed => closed'
  PROVE  RowsSound'
<1>1. RowsInOrder'
  BY OrderIs DEF RowsSound
<1>2. RowsKept'
  BY KeptIs DEF RowsSound, RowsKept
<1> QED BY <1>1, <1>2 DEF RowsSound

\* An event is decoded.
LEMMA PublishRows ==
  ASSUME TypeOK, Control, RowsSound, Publish, ReaderUnchanged
  PROVE  RowsSound'
<1>1. /\ UNCHANGED <<at, accum, hand, batches, delivered, lost, dropped, backpressure, closed>>
      /\ decoded' = decoded + 1
  BY DEF Publish, ReaderUnchanged, dispatcher, flags, history, config
<1>2. AllRows \subseteq 1..decoded /\ ToSet(ring) \subseteq 1..decoded
  BY KeptIs DEF RowsSound, RowsKept, AllRows
<1>3. /\ Before(AllRows \cup ToSet(ring), {decoded + 1})
      /\ 1..(decoded + 1) = (1..decoded) \cup {decoded + 1}
      /\ decoded + 1 \in Nat
  BY <1>2, RowsAre DEF Before
<1>4. Train(delivered, batches, hand, accum, ring, Rest(ring, at))
  BY OrderIs DEF RowsSound
<1>5. CASE ring' = Append(ring, decoded + 1) /\ ringLost' = ringLost
  <2>1. /\ Rest(ring', at) = Rest(ring, at) \cup {decoded + 1}
        /\ ToSet(ring') = ToSet(ring) \cup {decoded + 1}
    <3>1. ring \in Seq(Nat) /\ at \in 0..Len(ring)
      BY RowsAre
    <3>2. Rest(Append(ring, decoded + 1), at) = Rest(ring, at) \cup {decoded + 1}
      BY <1>3, <3>1, RestGrows
    <3>3. ToSet(Append(ring, decoded + 1)) = ToSet(ring) \cup {decoded + 1}
      BY <1>3, <3>1, AppendRow
    <3> QED BY <1>5, <3>2, <3>3
  <2>2. Before(ToSet(ring), {decoded + 1})
    BY <1>3 DEF Before
  <2>3. Ascending(ring')
    BY <1>3, <1>4, <1>5, <2>2, RowsAre, AppendRow DEF Train
  <2>4. Train(delivered, batches, hand, accum, ring', Rest(ring', at))
    BY <1>3, <1>4, <2>1, <2>3 DEF Train, Before, AllRows
  <2>5. RowsInOrder'
    BY <1>1, <2>4, OrderIs
  <2>6. RowsKept'
    BY <1>1, <1>3, <1>5, <2>1, KeptIs DEF RowsSound, RowsKept
  <2> QED BY <1>1, <1>2, <1>3, <2>1, <2>5, <2>6 DEF RowsSound
<1>6. CASE ringLost' = ringLost \cup {decoded + 1} /\ ring' = ring
  <2>1. RowsInOrder'
    BY <1>1, <1>4, <1>6, OrderIs
  <2>2. RowsKept'
    BY <1>1, <1>3, <1>6, KeptIs DEF RowsSound, RowsKept
  <2> QED BY <1>1, <1>2, <1>3, <1>6, <2>1, <2>2 DEF RowsSound
<1> QED BY <1>5, <1>6 DEF Publish

\* An event is handed to on_event.
LEMMA OnEventRows ==
  ASSUME TypeOK, Control, RowsSound, OnEvent
  PROVE  RowsSound'
<1> DEFINE rows == Append(accum, ring[at + 1])
<1>1. /\ UNCHANGED <<ring, ringLost, decoded, batches, delivered, lost, dropped,
                     backpressure, closed>>
      /\ at' = at + 1 /\ hand = <<>>
  BY DEF OnEvent, Control, Flushing, ringVars, flags, history, config
<1>2. at \in Nat /\ at < Len(ring)
  BY RowsAre DEF OnEvent
<1>3. /\ ring[at + 1] \in Nat
      /\ Rest(ring, at) = {ring[at + 1]} \cup Rest(ring, at + 1)
      /\ Ascending(ring) => Before({ring[at + 1]}, Rest(ring, at + 1))
  BY <1>2, RowsAre, RestShrinks
<1>4. Train(delivered, batches, hand, accum, ring, Rest(ring, at))
  BY OrderIs DEF RowsSound
<1>5. /\ ToSet(rows) = ToSet(accum) \cup {ring[at + 1]}
      /\ Ascending(rows)
  <2>1. Before(ToSet(accum), {ring[at + 1]})
    BY <1>3, <1>4 DEF Train, Before
  <2> QED BY <1>3, <1>4, <2>1, RowsAre, AppendRow DEF Train
<1>6. (hand' = <<>> /\ accum' = rows) \/ (hand' = rows /\ accum' = <<>>)
  BY <1>1 DEF OnEvent, Flush
<1> HIDE DEF rows
<1>7. /\ Ascending(hand') /\ Ascending(accum')
      /\ ToSet(hand') \cup ToSet(accum') = ToSet(hand) \cup ToSet(accum) \cup {ring[at + 1]}
      /\ Before(ToSet(hand'), ToSet(accum'))
  BY <1>1, <1>5, <1>6, RowsAre DEF Before
<1>8. Before(ToSet(hand') \cup ToSet(accum'), Rest(ring, at + 1))
  BY <1>3, <1>4, <1>7 DEF Train, Before
<1>9. Train(delivered, batches, hand', accum', ring, Rest(ring, at + 1))
  BY <1>3, <1>4, <1>7, <1>8 DEF Train, Before
<1>10. RowsInOrder'
  BY <1>1, <1>9, OrderIs
<1>11. RowsKept'
  BY <1>1, <1>3, <1>7, KeptIs DEF RowsSound, RowsKept
<1> QED BY <1>1, <1>10, <1>11 DEF RowsSound

\* The slots of a batch are freed.
LEMMA ReleaseRows ==
  ASSUME TypeOK, Control, RowsSound, Release
  PROVE  RowsSound'
<1>1. /\ UNCHANGED <<ringLost, decoded, accum, hand, batches, delivered, lost, dropped,
                     backpressure, closed>>
      /\ ring' = SubSeq(ring, at + 1, Len(ring)) /\ at' = 0
  BY DEF Release, flags, history, config
<1>2. Rest(ring', 0) = Rest(ring, at) /\ (Ascending(ring) => Ascending(ring'))
  BY <1>1, RowsAre, RestIsKept
<1>3. ToSet(ring') \subseteq ToSet(ring)
  <2>1. /\ ring \in Seq(Nat) /\ at \in 0..Len(ring) /\ Len(ring) \in Nat
        /\ DOMAIN ring = 1..Len(ring)
    BY RowsAre
  <2>2. /\ DOMAIN ring' = 1..(Len(ring) - at)
        /\ \A i \in 1..(Len(ring) - at) : ring'[i] = ring[i + at]
    BY <1>1, <2>1
  <2>3. \A i \in DOMAIN ring' : i + at \in DOMAIN ring
    BY <2>1, <2>2
  <2> QED BY <2>2, <2>3 DEF ToSet
<1>4. RowsInOrder'
  BY <1>1, <1>2, OrderIs DEF RowsSound, Train
<1>5. RowsKept'
  BY <1>1, <1>2, KeptIs DEF RowsSound, RowsKept
<1> QED BY <1>1, <1>3, <1>4, <1>5 DEF RowsSound

\* The builder is emptied into a batch.
LEMMA FlushRows ==
  ASSUME TypeOK, Control, RowsSound, hand = <<>>, hand' = accum, accum' = <<>>,
         UNCHANGED <<ring, at, decoded, ringLost, batches, delivered, lost, dropped,
                     backpressure, closed>>
  PROVE  RowsSound'
<1>1. Train(delivered, batches, hand, accum, ring, Rest(ring, at))
  BY OrderIs DEF RowsSound
<1>2. Train(delivered, batches, hand', accum', ring, Rest(ring, at))
  BY <1>1, RowsAre DEF Train, Before
<1>3. RowsInOrder'
  BY <1>2, OrderIs
<1>4. RowsKept'
  BY RowsAre, KeptIs DEF RowsSound, RowsKept
<1> QED BY <1>3, <1>4 DEF RowsSound

\* The batch in hand goes to the queue, to the queue at the cost of the oldest, or is
\* lost to a reader that closed.
LEMMA PushRows ==
  ASSUME TypeOK, Control, RowsSound, Push
  PROVE  RowsSound'
<1>1. /\ UNCHANGED <<ring, at, decoded, ringLost, accum, delivered, backpressure, closed>>
      /\ hand' = <<>>
  BY DEF Push, ringVars, flags, config
<1>2. Train(delivered, batches, hand, accum, ring, Rest(ring, at))
  BY OrderIs DEF RowsSound
<1>3. CASE Pushed(batches) /\ UNCHANGED <<dropped, lost>>
  <2>1. Before(Rows(batches), ToSet(hand))
    BY <1>2 DEF Train, Before
  <2>2. Rows(batches') = Rows(batches) \cup ToSet(hand) /\ InOrder(batches')
    BY <1>2, <1>3, <2>1, RowsAre, AppendBatch DEF Pushed, Train
  <2>3. Train(delivered, batches', hand', accum, ring, Rest(ring, at))
    BY <1>1, <1>2, <2>2, RowsAre DEF Train, Before
  <2>4. RowsInOrder'
    BY <1>1, <2>3, OrderIs
  <2>5. RowsKept'
    BY <1>1, <1>3, <2>2, RowsAre, KeptIs DEF RowsSound, RowsKept
  <2> QED BY <1>1, <2>4, <2>5 DEF RowsSound
<1>4. CASE Full /\ backpressure = "DropOldest" /\ DropOldest
  <2>1. batches # <<>>
    BY <1>4, BatchAssumption DEF Full
  <2>2. /\ Tail(batches) \in Seq(Seq(Nat))
        /\ Rows(batches) = ToSet(Head(batches)) \cup Rows(Tail(batches))
        /\ InOrder(Tail(batches))
    BY <1>2, <2>1, RowsAre, TakeBatch DEF Train
  <2>3. Before(Rows(Tail(batches)), ToSet(hand))
    BY <1>2, <2>2 DEF Train, Before
  <2>4. Rows(batches') = Rows(Tail(batches)) \cup ToSet(hand) /\ InOrder(batches')
    BY <1>2, <1>4, <2>2, <2>3, RowsAre, AppendBatch DEF DropOldest, Pushed, Train
  <2>5. Train(delivered, batches', hand', accum, ring, Rest(ring, at))
    BY <1>1, <1>2, <2>2, <2>4, RowsAre DEF Train, Before
  <2>6. RowsInOrder'
    BY <1>1, <2>5, OrderIs
  <2>7. lost' = lost \cup ToSet(Head(batches)) /\ dropped' > 0
    BY <1>4, RowsAre DEF DropOldest
  <2>8. RowsKept'
    BY <1>1, <1>4, <2>2, <2>4, <2>7, RowsAre, KeptIs DEF RowsSound, RowsKept
  <2> QED BY <1>1, <2>6, <2>8 DEF RowsSound
<1>5. CASE /\ backpressure = "Block" /\ closed
           /\ lost' = lost \cup ToSet(hand)
           /\ UNCHANGED <<batches, dropped>>
  <2>1. Train(delivered, batches, hand', accum, ring, Rest(ring, at))
    BY <1>1, <1>2, RowsAre DEF Train, Before
  <2>2. RowsInOrder'
    BY <1>1, <1>5, <2>1, OrderIs
  <2>3. RowsKept'
    BY <1>1, <1>5, RowsAre, KeptIs DEF RowsSound, RowsKept
  <2> QED BY <1>1, <2>2, <2>3 DEF RowsSound
<1> QED BY <1>3, <1>4, <1>5 DEF Push

\* The oldest batch is handed out.
LEMMA PullRows ==
  ASSUME TypeOK, Control, RowsSound, NEW p \in Pullers, PullBatch(p)
  PROVE  RowsSound'
<1>1. /\ UNCHANGED <<ring, at, decoded, ringLost, accum, hand, lost, dropped, backpressure,
                     closed>>
      /\ batches # <<>>
      /\ batches' = Tail(batches)
      /\ delivered' = delivered \o Head(batches)
  BY DEF PullBatch, ringVars, flags, config
<1>2. Train(delivered, batches, hand, accum, ring, Rest(ring, at))
  BY OrderIs DEF RowsSound
<1>3. /\ Head(batches) \in Seq(Nat)
      /\ Rows(batches) = ToSet(Head(batches)) \cup Rows(batches')
      /\ InOrder(batches')
      /\ Ascending(Head(batches))
      /\ Before(ToSet(Head(batches)), Rows(batches'))
  BY <1>1, <1>2, RowsAre, TakeBatch DEF Train
<1>4. Before(ToSet(delivered), ToSet(Head(batches)))
  BY <1>2, <1>3 DEF Train, Before
<1>5. /\ ToSet(delivered') = ToSet(delivered) \cup ToSet(Head(batches))
      /\ Ascending(delivered')
  BY <1>1, <1>2, <1>3, <1>4, RowsAre, JoinRows DEF Train
<1>6. Train(delivered', batches', hand, accum, ring, Rest(ring, at))
  BY <1>2, <1>3, <1>5 DEF Train, Before
<1>7. RowsInOrder'
  BY <1>1, <1>6, OrderIs
<1>8. RowsKept'
  BY <1>1, <1>3, <1>5, KeptIs DEF RowsSound, RowsKept
<1> QED BY <1>1, <1>7, <1>8 DEF RowsSound

\* No step loses sight of a row.
LEMMA RowsStay ==
  ASSUME TypeOK, Control, RowsSound, Next
  PROVE  RowsSound'
<1> USE DEF ringVars, config, dispatcher, flags, history
<1>1. CASE IoStep /\ ReaderUnchanged
  <2>1. CASE Publish
    BY <1>1, <2>1, PublishRows
  <2>2. CASE IoReturns \/ IoUnwinds \/ ProducerDrops
    BY <1>1, <2>2, RowsSame DEF IoReturns, IoUnwinds, ProducerDrops, ReaderUnchanged
  <2> QED BY <1>1, <2>1, <2>2 DEF IoStep
<1>2. CASE DispatcherStep
  <2>1. CASE Poll
    <3>1. at' = at
      BY <2>1 DEF Poll, Control, Place, Flushing
    <3> QED BY <2>1, <3>1, RowsSame DEF Poll
  <2>2. CASE OnEvent
    BY <2>2, OnEventRows
  <2>3. CASE Release
    BY <2>3, ReleaseRows
  <2>4. CASE Linger
    BY <2>4, FlushRows DEF Linger, Flush, Control, Flushing
  <2>5. CASE Recheck
    BY <2>5, RowsSame DEF Recheck
  <2>6. CASE Push
    BY <2>6, PushRows
  <2>7. CASE PushBlocks \/ PushParks \/ MarkTerminal
    BY <2>7, RowsSame DEF PushBlocks, PushParks, MarkTerminal
  <2>8. CASE End
    <3>1. CASE accum # <<>>
      BY <2>8, <3>1, FlushRows DEF End, Flush, Control, Flushing
    <3>2. CASE accum = <<>>
      BY <2>8, <3>2, RowsSame DEF End
    <3> QED BY <3>1, <3>2
  <2> QED
    BY <1>2, <2>1, <2>2, <2>3, <2>4, <2>5, <2>6, <2>7, <2>8 DEF DispatcherStep
<1>3. CASE LingerElapses \/ DispatcherPanics
  BY <1>3, RowsSame DEF LingerElapses, DispatcherPanics
<1>4. ASSUME NEW p \in Pullers, PullStep(p)
      PROVE  RowsSound'
  <2>1. CASE PullBatch(p)
    BY <2>1, PullRows
  <2>2. CASE PullError(p) \/ PullEnd(p) \/ PullWaits(p) \/ PullParks(p)
    BY <2>2, RowsSame DEF PullError, PullEnd, PullWaits, PullParks
  <2> QED BY <1>4, <2>1, <2>2 DEF PullStep
<1>5. ASSUME NEW t \in Teardowns, Close \/ TeardownStep(t)
      PROVE  RowsSound'
  BY <1>5, RowsSame
     DEF Close, TeardownStep, HookFires, CloseAndWake, Quiesce, Join
<1>6. "closer" \in Teardowns
  BY DEF Teardowns
<1> QED BY <1>1, <1>2, <1>3, <1>4, <1>5, <1>6 DEF Next

------------------------------------------------------------------------------
(* The theorems *)

\* The strengthening holds at the start, is kept by every step, and so always holds.
LEMMA SoundStarts == Init => Sound
<1> SUFFICES ASSUME Init PROVE Sound
  OBVIOUS
<1>1. /\ ring = <<>> /\ batches = <<>> /\ accum = <<>> /\ hand = <<>> /\ delivered = <<>>
      /\ decoded = 0 /\ at = 0 /\ ringLost = {} /\ lost = {}
  BY DEF Init, RingInit
<1>2. /\ <<>> \in Seq(Nat) /\ <<>> \in Seq(Seq(Nat)) /\ Len(<<>>) = 0
      /\ ToSet(<<>>) = {} /\ Ascending(<<>>) /\ DOMAIN <<>> = {} /\ 1..0 = {}
  BY DEF ToSet, Ascending
<1>3. RingTypeOK
  <2>1. ring \in Seq(Nat) /\ Len(ring) <= RingSize
    BY <1>1, <1>2, RingAssumption
  <2>2. io = "running" /\ ioFaulted = FALSE /\ shutdown = FALSE
    BY DEF Init, RingInit
  <2>3. decoded \in Nat /\ ringLost \subseteq 1..decoded
    BY <1>1
  <2> QED BY <2>1, <2>2, <2>3 DEF RingTypeOK
<1>4. TypeOK
  <2>1. /\ backpressure \in {"Block", "DropOldest"}
        /\ pullers \in {Threads, {Task}}
        /\ pc = "recheck" /\ outcome = "Drained" /\ return = "none"
        /\ taken = 0 /\ dropped = 0 /\ errorsTold = 0
    BY DEF Init
  <2>2. /\ lingered \in BOOLEAN /\ finished \in BOOLEAN /\ error \in BOOLEAN
        /\ closed \in BOOLEAN /\ waker \in BOOLEAN /\ session \in BOOLEAN
        /\ panicked \in BOOLEAN /\ cleanEnd \in BOOLEAN
    BY DEF Init
  <2>3. pull \in [Pullers -> {"idle", "next", "parking", "parked", "pending"}]
    BY DEF Init
  <2>4. teardown \in [Teardowns -> {"idle", "quiesce", "grace", "join", "over"}]
    BY DEF Init, Teardowns
  <2>5. /\ accum \in Seq(Nat) /\ hand \in Seq(Nat) /\ delivered \in Seq(Nat)
        /\ batches \in Seq(Seq(Nat)) /\ lost \subseteq Nat
        /\ Len(batches) <= Capacity
    BY <1>1, <1>2, BatchAssumption
  <2>6. at \in 0..taken
    BY <1>1, <2>1
  <2> QED BY <1>3, <2>1, <2>2, <2>3, <2>4, <2>5, <2>6 DEF TypeOK
<1>5. Control /\ OutcomeIsTrue /\ ErrorIsOnce /\ EndIsLast
  BY <1>1, <1>2 DEF Init, RingInit, Control, OutcomeIsTrue, ErrorIsOnce, EndIsLast,
                    Place, Flushing, Ending
<1>6. Rows(batches) = {} /\ Rest(ring, at) = {} /\ InOrder(batches)
  BY <1>1, <1>2 DEF Rows, Rest, InOrder
<1>7. RowsInOrder
  <2>1. Train(delivered, batches, hand, accum, ring, Rest(ring, at))
    BY <1>1, <1>2, <1>6 DEF Train, Before
  <2> QED BY <2>1, OrderIs
<1>8. RowsKept
  BY <1>1, <1>2, <1>6, KeptIs DEF RowsKept
<1> QED BY <1>1, <1>2, <1>4, <1>5, <1>7, <1>8 DEF Sound, RowsSound

\* A step that changes nothing.
LEMMA SoundStutters == Sound /\ UNCHANGED vars => Sound'
<1> SUFFICES ASSUME Sound, UNCHANGED vars PROVE Sound'
  OBVIOUS
<1> USE DEF vars, ringVars, config, dispatcher, flags, history
<1>1. TypeOK'
  <2>1. RingTypeOK'
    BY RingSame DEF Sound, TypeOK
  <2> QED BY <2>1 DEF Sound, TypeOK
<1>2. Control' /\ OutcomeIsTrue'
  BY ControlSame, OutcomeSame DEF Sound, Control, Place, Flushing
<1>3. ErrorIsOnce' /\ EndIsLast'
  BY ErrorSame, EndSame DEF Sound, Place, Flushing
<1>4. RowsSound'
  BY RowsSame DEF Sound
<1> QED BY <1>1, <1>2, <1>3, <1>4 DEF Sound

\* A step of anybody.
LEMMA SoundStays == Sound /\ [Next]_vars => Sound'
<1> SUFFICES ASSUME Sound, Next PROVE Sound'
  BY SoundStutters
<1>0. /\ TypeOK /\ Control /\ OutcomeIsTrue /\ ErrorIsOnce /\ EndIsLast /\ RowsSound
  BY DEF Sound
<1>1. TypeOK'
  <2>1. "closer" \in Teardowns
    BY DEF Teardowns
  <2> QED BY <1>0, <2>1, IoType, DispatcherType, PullType, TeardownType DEF Next
<1>2. Control'
  BY <1>0, ControlStays
<1>3. OutcomeIsTrue'
  BY <1>0, OutcomeStays
<1>4. ErrorIsOnce'
  BY <1>0, ErrorStays
<1>5. EndIsLast'
  BY <1>0, EndStays
<1>6. RowsSound'
  BY <1>0, RowsStay
<1> QED BY <1>1, <1>2, <1>3, <1>4, <1>5, <1>6 DEF Sound

\* The inductive invariant of the reader.
LEMMA AlwaysSound == SafetySpec => []Sound
BY SoundStarts, SoundStays, PTL DEF SafetySpec

\* The types, and the bound of the queue in both back-pressure modes, for any threads,
\* ring, batches and queue (batch_reader.rs:31).
THEOREM TypeCorrect == SafetySpec => []TypeOK
<1>1. Sound => TypeOK
  BY DEF Sound
<1> QED BY <1>1, AlwaysSound, PTL

\* Every event decoded is on its way, in order and once, or was dropped by a queue that
\* says so (batch_reader.rs:36).
THEOREM RowsAccounted == SafetySpec => []RowsAccountedFor
<1>1. Sound => RowsAccountedFor
  BY DEF Sound, RowsSound, RowsAccountedFor
<1> QED BY <1>1, AlwaysSound, PTL

\* An end reported to a reader nobody closed is true, and a failure is told first, once
\* (fpss/mod.rs:1748, batch_reader.rs:480).
THEOREM EndsTruthful == SafetySpec => []EndIsTruthful
<1>1. Sound => EndIsTruthful
  <2> SUFFICES ASSUME Sound PROVE EndIsTruthful
    OBVIOUS
  <2>1. errorsTold <= 1
    BY DEF Sound, ErrorIsOnce
  <2>2. ASSUME cleanEnd, ~panicked
        PROVE  IoOver /\ 1..decoded = ToSet(delivered) \cup ringLost \cup lost
    <3>1. finished /\ batches = <<>> /\ ring = <<>> /\ IoOver
      BY <2>2 DEF Sound, EndIsLast
    <3>2. Place = "done"
      BY <3>1 DEF Sound, ErrorIsOnce
    <3>3. accum = <<>> /\ at = 0
      BY <3>2 DEF Sound, Control
    <3>4. hand = <<>>
      BY <3>2 DEF Sound, Control, TypeOK, Place
    <3>5. InQueue = {} /\ Unread = {} /\ ToSet(<<>>) = {}
      BY <3>1, <3>3 DEF InQueue, Unread, ToSet
    <3> QED BY <3>1, <3>3, <3>4, <3>5 DEF Sound, RowsSound, RowsKept
  <2>3. (cleanEnd /\ (panicked \/ io # "returned")) => errorsTold = 1
    BY DEF Sound, EndIsLast
  <2> QED BY <2>1, <2>2, <2>3 DEF EndIsTruthful
<1> QED BY <1>1, AlwaysSound, PTL

------------------------------------------------------------------------------
(* Waiting *)

\* Shared::inner is held across two steps by one thread at a time.
OneHolds ==
    /\ pc = "parking" => \A p \in Pullers : pull[p] # "parking"
    /\ \A p, q \in Pullers : pull[p] = "parking" /\ pull[q] = "parking" => p = q

\* Who pulls waits only for a reader that has nothing for it, and the dispatcher only for
\* room in the queue; neither waits on a reader that is closed, and so they never wait for
\* each other.  Whoever waits will be found: in the wait set, or by the waker.
WaitsAreNeeded ==
    /\ \A p \in Pullers : Waiting(p) => batches = <<>> /\ ~error /\ ~finished /\ ~closed
    /\ pc \in {"parking", "parked"} => backpressure = "Block" /\ Full /\ ~closed
    /\ \A p \in Pullers : pull[p] = "pending" => p = Task /\ waker
    /\ pc \in {"parking", "parked"} => \A p \in Pullers : ~Waiting(p)

\* The strengthening of the two.
WaitSound ==
    /\ TypeOK
    /\ Control
    /\ OneHolds
    /\ WaitsAreNeeded

\* Who is woken.
LEMMA WokenIs ==
  ASSUME TypeOK, NEW wake \in BOOLEAN, NEW p \in Pullers
  PROVE  /\ Woken(wake)[p] = "parking" <=> pull[p] = "parking"
         /\ Woken(wake)[p] # "parked"
         /\ Woken(wake)[p] = "pending" <=> pull[p] = "pending" /\ ~wake
  BY Zenon DEF Woken, TypeOK

\* What waits after all have been woken holds the mutex.
LEMMA AllWoken ==
  ASSUME TypeOK, WaitsAreNeeded, MutexFree, pull' = Woken(waker)
  PROVE  \A p \in Pullers : ~Waiting(p)'
<1> SUFFICES ASSUME NEW p \in Pullers PROVE ~Waiting(p)'
  OBVIOUS
<1>1. waker \in BOOLEAN
  BY DEF TypeOK
<1>2. pull[p] # "parking" /\ (pull[p] = "pending" => waker)
  BY DEF MutexFree, WaitsAreNeeded
<1>3. pull'[p] \notin {"parking", "parked", "pending"}
  BY <1>1, <1>2, WokenIs
<1> QED
  BY <1>3 DEF Waiting

\* A step that changes nothing of the waiting.
LEMMA WaitSame ==
  ASSUME OneHolds, WaitsAreNeeded,
         UNCHANGED <<pull, batches, error, finished, closed, waker, backpressure>>,
         pc' \in {"parking", "parked"} => pc = pc'
  PROVE  OneHolds' /\ WaitsAreNeeded'
  BY DEF OneHolds, WaitsAreNeeded, Waiting, Full

\* When nobody waits there is nothing to show.
LEMMA NobodyWaits ==
  ASSUME \A p \in Pullers : ~Waiting(p)', pc' \notin {"parking", "parked"}
  PROVE  OneHolds' /\ WaitsAreNeeded'
  BY DEF OneHolds, WaitsAreNeeded, Waiting

\* No step of the dispatcher makes a wait vain.
LEMMA DispatcherWaits ==
  ASSUME WaitSound, DispatcherStep \/ LingerElapses \/ DispatcherPanics
  PROVE  OneHolds' /\ WaitsAreNeeded'
<1>0. TypeOK /\ Control /\ OneHolds /\ WaitsAreNeeded
  BY DEF WaitSound
<1>1. CASE Poll \/ OnEvent \/ Release \/ Linger \/ Recheck \/ End \/ LingerElapses
             \/ DispatcherPanics
  <2>1. UNCHANGED <<pull, batches, error, finished, closed, waker, backpressure>>
    BY <1>1 DEF Poll, OnEvent, Release, Linger, Recheck, End, LingerElapses,
                DispatcherPanics, Flush, flags, config
  <2>2. pc' \in {"parking", "parked"} => pc = pc'
    BY <1>1 DEF Poll, OnEvent, Release, Linger, Recheck, End, LingerElapses,
                DispatcherPanics, Flush
  <2> QED
    BY <1>0, <2>1, <2>2, WaitSame
<1>2. CASE PushBlocks
  <2>1. /\ UNCHANGED <<pull, batches, error, finished, closed, waker, backpressure>>
        /\ MutexFree /\ Full /\ backpressure = "Block" /\ ~closed /\ pc' = "parking"
    BY <1>2 DEF PushBlocks, flags, config
  <2>2. batches # <<>>
    <3>1. Len(batches) >= Capacity /\ Capacity > 0
      BY <2>1, BatchAssumption DEF Full
    <3> QED
      BY <3>1, BatchAssumption, SMT
  <2> QED
    BY <1>0, <2>1, <2>2, Zenon DEF OneHolds, WaitsAreNeeded, Waiting, MutexFree, Full
<1>3. CASE PushParks
  <2>1. /\ UNCHANGED <<pull, batches, error, finished, closed, waker, backpressure>>
        /\ pc = "parking" /\ pc' = "parked"
    BY <1>3 DEF PushParks, flags, config
  <2> QED
    BY <1>0, <2>1 DEF OneHolds, WaitsAreNeeded, Waiting, Full
<1>4. CASE MarkTerminal
  <2>1. MutexFree /\ pull' = Woken(waker) /\ pc' = "done"
    BY <1>4 DEF MarkTerminal
  <2>2. \A p \in Pullers : ~Waiting(p)'
    BY <1>0, <2>1, AllWoken, Zenon
  <2> QED
    BY <2>1, <2>2, NobodyWaits, SMT
<1>5. CASE Push
  <2>1. /\ MutexFree /\ pc' = return /\ pc = "push"
        /\ UNCHANGED <<error, finished, closed, backpressure>>
        /\ pull' = Woken(waker) \/ UNCHANGED <<batches, waker, pull>>
    BY <1>5 DEF Push, Pushed, DropOldest, flags, config
  <2>2. pc' \notin {"parking", "parked"}
    BY <1>0, <2>1 DEF TypeOK, Control, Flushing
  <2>3. CASE pull' = Woken(waker)
    <3>1. \A p \in Pullers : ~Waiting(p)'
      BY <1>0, <2>1, <2>3, AllWoken, Zenon
    <3> QED
      BY <2>2, <3>1, NobodyWaits
  <2>4. CASE UNCHANGED <<batches, waker, pull>>
    BY <1>0, <2>1, <2>2, <2>4, WaitSame
  <2> QED
    BY <2>1, <2>3, <2>4
<1> QED
  BY <1>1, <1>2, <1>3, <1>4, <1>5 DEF DispatcherStep

\* No pull does.
LEMMA PullWaitsSound ==
  ASSUME WaitSound, NEW p \in Pullers, PullStep(p)
  PROVE  OneHolds' /\ WaitsAreNeeded'
<1>0. TypeOK /\ Control /\ OneHolds /\ WaitsAreNeeded
  BY DEF WaitSound
<1>a. /\ pull \in [Pullers -> {"idle", "next", "parking", "parked", "pending"}]
      /\ Len(batches) \in Nat /\ waker \in BOOLEAN
  BY <1>0 DEF TypeOK
<1>1. CASE PullBatch(p)
  <2>1. /\ MutexFree /\ batches # <<>> /\ pull' = [Woken(FALSE) EXCEPT ![p] = "idle"]
        /\ pc' = DispatcherWoken
    BY <1>1 DEF PullBatch
  <2>2. pc' \notin {"parking", "parked"}
    BY <2>1 DEF DispatcherWoken, MutexFree
  <2>3. ASSUME NEW q \in Pullers PROVE ~Waiting(q)'
    <3>1. ~Waiting(q)
      BY <1>0, <2>1 DEF WaitsAreNeeded
    <3>2. Woken(FALSE)[q] \notin {"parking", "parked", "pending"}
      BY <1>0, <3>1, WokenIs DEF Waiting
    <3>3. pull'[q] = Woken(FALSE)[q] \/ pull'[q] = "idle"
      BY <2>1, Zenon DEF Woken
    <3> QED
      BY <3>2, <3>3 DEF Waiting
  <2> QED
    BY <2>2, <2>3, NobodyWaits
<1>2. CASE PullError(p)
  <2>1. /\ error /\ pull' = [pull EXCEPT ![p] = "idle"] /\ pc' = pc
        /\ UNCHANGED <<batches, finished, closed, waker, backpressure>>
    BY <1>2 DEF PullError, dispatcher, config
  <2>2. ASSUME NEW q \in Pullers PROVE ~Waiting(q)'
    <3>1. ~Waiting(q)
      BY <1>0, <2>1 DEF WaitsAreNeeded
    <3> QED
      BY <1>a, <2>1, <3>1 DEF Waiting
  <2>3. pc \in {"parking", "parked"} => backpressure = "Block" /\ Full /\ ~closed
    BY <1>0, Zenon DEF WaitsAreNeeded
  <2>4. Full' = Full
    BY <2>1, Zenon DEF Full
  <2> QED
    BY <2>1, <2>2, <2>3, <2>4, Zenon DEF OneHolds, WaitsAreNeeded, Waiting
<1>3. CASE PullEnd(p)
  <2>1. /\ finished \/ closed
        /\ pull' = [pull EXCEPT ![p] = "idle"] /\ pc' = pc
        /\ UNCHANGED <<batches, finished, closed, waker, backpressure, error>>
    BY <1>3 DEF PullEnd, dispatcher, config, flags
  <2>2. ASSUME NEW q \in Pullers PROVE ~Waiting(q)'
    <3>1. ~Waiting(q)
      BY <1>0, <2>1 DEF WaitsAreNeeded
    <3> QED
      BY <1>a, <2>1, <3>1 DEF Waiting
  <2>3. pc \in {"parking", "parked"} => backpressure = "Block" /\ Full /\ ~closed
    BY <1>0, Zenon DEF WaitsAreNeeded
  <2>4. Full' = Full
    BY <2>1, Zenon DEF Full
  <2> QED
    BY <2>1, <2>2, <2>3, <2>4, Zenon DEF OneHolds, WaitsAreNeeded, Waiting
<1>4. CASE PullWaits(p)
  <2>1. /\ MutexFree /\ batches = <<>> /\ ~error /\ ~finished /\ ~closed
        /\ IF p = Task
           THEN waker' = TRUE /\ pull' = [pull EXCEPT ![p] = "pending"]
           ELSE waker' = waker /\ pull' = [pull EXCEPT ![p] = "parking"]
        /\ pc' = pc /\ UNCHANGED <<batches, finished, closed, backpressure, error>>
    BY <1>4 DEF PullWaits, dispatcher, config, flags
  <2>2. pc \notin {"parking", "parked"}
    <3>1. ~Full
      BY <2>1, BatchAssumption DEF Full
    <3> QED
      BY <1>0, <3>1 DEF WaitsAreNeeded
  <2>3. ASSUME NEW q \in Pullers, q # p PROVE pull'[q] = pull[q] /\ pull[q] # "parking"
    BY <1>a, <2>1, <2>3 DEF MutexFree
  <2>4. pull'[p] = IF p = Task THEN "pending" ELSE "parking"
    BY <1>a, <2>1
  <2>5. waker => waker'
    BY <1>a, <2>1
  <2>6. OneHolds'
    BY <2>1, <2>2, <2>3, Zenon DEF OneHolds
  <2>7. \A q \in Pullers : pull'[q] = "pending" => q = Task /\ waker'
    BY <1>0, <2>1, <2>3, <2>4, <2>5 DEF WaitsAreNeeded
  <2> QED
    BY <2>1, <2>2, <2>6, <2>7, Zenon DEF WaitsAreNeeded
<1>5. CASE PullParks(p)
  <2>1. /\ pull[p] = "parking" /\ pull' = [pull EXCEPT ![p] = "parked"] /\ pc' = pc
        /\ UNCHANGED <<batches, finished, closed, waker, backpressure, error>>
    BY <1>5 DEF PullParks, dispatcher, config, flags
  <2>2. ASSUME NEW q \in Pullers, q # p PROVE pull'[q] = pull[q]
    BY <1>a, <2>1, <2>2
  <2>3. pull'[p] = "parked"
    BY <1>a, <2>1
  <2>4. \A q \in Pullers : /\ Waiting(q)' => Waiting(q)
                           /\ pull'[q] = "parking" => pull[q] = "parking"
                           /\ pull'[q] = "pending" => pull[q] = "pending"
    BY <2>1, <2>2, <2>3 DEF Waiting
  <2>5. Full' = Full
    BY <2>1, Zenon DEF Full
  <2> QED
    BY <1>0, <2>1, <2>4, <2>5, Zenon DEF OneHolds, WaitsAreNeeded
<1> QED
  BY <1>1, <1>2, <1>3, <1>4, <1>5, Zenon DEF PullStep

\* Nor a teardown.
LEMMA TeardownWaits ==
  ASSUME WaitSound, NEW t \in Teardowns, Close \/ TeardownStep(t)
  PROVE  OneHolds' /\ WaitsAreNeeded'
<1>0. TypeOK /\ Control /\ OneHolds /\ WaitsAreNeeded
  BY DEF WaitSound
<1>1. CASE CloseAndWake
  <2>1. MutexFree /\ pull' = Woken(waker) /\ pc' = DispatcherWoken
    BY <1>1 DEF CloseAndWake
  <2>2. pc' \notin {"parking", "parked"}
    BY <2>1 DEF DispatcherWoken, MutexFree
  <2>3. \A p \in Pullers : ~Waiting(p)'
    BY <1>0, <2>1, AllWoken, Zenon
  <2> QED
    BY <2>2, <2>3, NobodyWaits
<1>2. CASE Quiesce(t) \/ Join(t)
  <2>1. UNCHANGED <<pull, batches, error, finished, closed, waker, backpressure, pc>>
    BY <1>2 DEF Quiesce, Join, dispatcher, flags, config
  <2> QED
    BY <1>0, <2>1, WaitSame
<1> QED
  BY <1>1, <1>2 DEF TeardownStep, Close, HookFires

\* Nobody waits for what has happened, and the dispatcher and the readers never wait for each
\* other, whatever is closed, drained or panicking meanwhile (batch_reader.rs:358, 443).
THEOREM NobodyWaitsInVain == Spec => [](OneHolds /\ WaitsAreNeeded)
<1>1. Init => WaitSound
  <2>1. Init => TypeOK /\ Control
    BY SoundStarts DEF Sound
  <2>2. Init => OneHolds /\ WaitsAreNeeded
    BY DEF Init, OneHolds, WaitsAreNeeded, Waiting
  <2> QED
    BY <2>1, <2>2 DEF WaitSound
<1>2. Sound /\ WaitSound /\ [Next]_vars => WaitSound'
  <2> SUFFICES ASSUME Sound, WaitSound, [Next]_vars PROVE OneHolds' /\ WaitsAreNeeded'
    BY SoundStays DEF Sound, WaitSound
  <2>0. OneHolds /\ WaitsAreNeeded
    BY DEF WaitSound
  <2>1. CASE UNCHANGED vars
    <3>1. UNCHANGED <<pull, batches, error, finished, closed, waker, backpressure, pc>>
      BY <2>1 DEF vars, dispatcher, flags, config
    <3> QED
      BY <2>0, <3>1, WaitSame
  <2>2. CASE IoStep /\ ReaderUnchanged
    <3>1. UNCHANGED <<pull, batches, error, finished, closed, waker, backpressure, pc>>
      BY <2>2 DEF ReaderUnchanged, dispatcher, flags, config
    <3> QED
      BY <2>0, <3>1, WaitSame
  <2>3. CASE DispatcherStep \/ LingerElapses \/ DispatcherPanics
    BY <2>3, DispatcherWaits
  <2>4. ASSUME NEW p \in Pullers, PullStep(p) PROVE OneHolds' /\ WaitsAreNeeded'
    BY <2>4, PullWaitsSound
  <2>5. ASSUME NEW t \in Teardowns, Close \/ TeardownStep(t) PROVE OneHolds' /\ WaitsAreNeeded'
    BY <2>5, TeardownWaits
  <2>6. "closer" \in Teardowns
    BY DEF Teardowns
  <2> QED
    BY <2>1, <2>2, <2>3, <2>4, <2>5, <2>6, Zenon DEF Next
<1>3. Init => Sound
  BY SoundStarts
<1>4. Sound /\ [Next]_vars => Sound'
  BY SoundStays
<1>5. WaitSound => OneHolds /\ WaitsAreNeeded
  BY DEF WaitSound
<1> QED
  BY <1>1, <1>2, <1>3, <1>4, <1>5, PTL DEF Spec, SafetySpec

------------------------------------------------------------------------------
(* The reader implements the stream *)

\* The rows on their way, and those that never will be.
Ahead == Rows(batches) \cup ToSet(hand) \cup ToSet(accum) \cup Rest(ring, at)
Gone == ringLost \cup lost

\* No batch is empty, on its way to the queue or in it.
NoEmptyBatch ==
    /\ lingered => accum # <<>>
    /\ Flushing => hand # <<>>
    /\ \A i \in DOMAIN batches : batches[i] # <<>>

\* A row that was dropped is nowhere else.
Apart == Gone \cap (ToSet(delivered) \cup Ahead) = {}

StreamSound == NoEmptyBatch /\ Apart

\* A row is handed out, or on its way, or gone, and only one of them.
LEMMA WhereRowsAre ==
  ASSUME Sound, Apart
  PROVE  /\ 1..decoded = ToSet(delivered) \cup Ahead \cup Gone
         /\ ToSet(delivered) \cap Ahead = {}
         /\ ToSet(delivered) \subseteq Nat /\ Ahead \subseteq Nat
         /\ Stream!Undecided = Ahead
<1>1. 1..decoded = ToSet(delivered) \cup Ahead \cup Gone
  BY KeptIs DEF Sound, RowsSound, RowsKept, Ahead, Gone
<1>2. Before(ToSet(delivered), Ahead)
  BY OrderIs DEF Sound, RowsSound, Train, Ahead
<1>3. 1..decoded \subseteq Nat
  OBVIOUS
<1>4. ToSet(delivered) \cap Ahead = {}
  <2> SUFFICES ASSUME NEW x \in ToSet(delivered), x \in Ahead PROVE FALSE
    OBVIOUS
  <2>1. x < x /\ x \in Nat
    BY <1>1, <1>2, <1>3 DEF Before
  <2> QED BY <2>1
<1>5. Stream!Undecided = (1..decoded) \ (ToSet(delivered) \cup Gone)
  BY DEF Stream!Undecided, Stream!ToSet, ToSet, Gone
<1>6. Stream!Undecided = Ahead
  BY <1>1, <1>4, <1>5, Zenon DEF Apart
<1> QED
  BY <1>1, <1>3, <1>4, <1>6

\* The last of an ascending batch bounds it.
LEMMA LastBounds ==
  ASSUME NEW s \in Seq(Nat), s # <<>>, Ascending(s)
  PROVE  \E n \in ToSet(s) : \A x \in ToSet(s) : x <= n
<1> DEFINE n == s[Len(s)]
<1>1. Len(s) \in DOMAIN s /\ DOMAIN s = 1..Len(s) /\ \A i \in DOMAIN s : s[i] \in Nat
  OBVIOUS
<1>2. \A i \in DOMAIN s : s[i] <= n
  BY <1>1, SMTT(30) DEF Ascending
<1> QED
  BY <1>1, <1>2 DEF ToSet

\* The rows before a cut of what is on its way.
LEMMA UpToIs ==
  ASSUME Sound, Apart, NEW s \in Seq(Nat), s # <<>>, Ascending(s), NEW R,
         Ahead = ToSet(s) \cup R, Before(ToSet(s), R)
  PROVE  \E n \in Stream!Undecided : Stream!UpTo(n) = ToSet(s)
<1>1. PICK n \in ToSet(s) : \A x \in ToSet(s) : x <= n
  BY LastBounds
<1>2. Stream!Undecided = Ahead /\ Ahead \subseteq Nat
  BY WhereRowsAre
<1>3. \A x \in R : n < x /\ x \in Nat /\ n \in Nat
  BY <1>1, <1>2 DEF Before
<1>4. \A x \in R : ~(x <= n)
  BY <1>3
<1>5. {x \in Ahead : x <= n} = ToSet(s)
  BY <1>1, <1>4
<1>6. Stream!UpTo(n) = {x \in Ahead : x <= n}
  BY <1>2 DEF Stream!UpTo
<1> QED
  BY <1>1, <1>2, <1>5, <1>6

\* What a step does to the rows.
Quiet ==
    /\ UNCHANGED <<delivered, decoded, dropped, backpressure>>
    /\ Ahead' = Ahead
    /\ Gone' = Gone

\* A step that moves no row.
LEMMA QuietSame ==
  ASSUME UNCHANGED <<ring, at, decoded, ringLost, accum, hand, batches, delivered, lost,
                     dropped, backpressure>>
  PROVE  Quiet
  BY DEF Quiet, Ahead, Gone

\* The builder is emptied into a batch.
LEMMA QuietFlush ==
  ASSUME hand = <<>>, hand' = accum, accum' = <<>>,
         UNCHANGED <<ring, at, decoded, ringLost, batches, delivered, lost, dropped,
                     backpressure>>
  PROVE  Quiet
<1>1. ToSet(<<>>) = {}
  BY DEF ToSet
<1> QED
  BY <1>1 DEF Quiet, Ahead, Gone

\* An event goes to the builder, and with the builder to a batch.
LEMMA QuietOnEvent ==
  ASSUME TypeOK, Control, OnEvent
  PROVE  Quiet
<1> DEFINE rows == Append(accum, ring[at + 1])
<1>1. /\ UNCHANGED <<ring, ringLost, decoded, batches, delivered, lost, dropped,
                     backpressure>>
      /\ at' = at + 1 /\ hand = <<>>
  BY DEF OnEvent, Control, Flushing, ringVars, flags, history, config
<1>2. at \in Nat /\ at < Len(ring)
  BY RowsAre DEF OnEvent
<1>3. /\ ring[at + 1] \in Nat
      /\ Rest(ring, at) = {ring[at + 1]} \cup Rest(ring, at + 1)
  BY <1>2, RowsAre, RestShrinks
<1>4. ToSet(rows) = ToSet(accum) \cup {ring[at + 1]}
  BY <1>3, RowsAre, AppendRow
<1>5. (hand' = <<>> /\ accum' = rows) \/ (hand' = rows /\ accum' = <<>>)
  BY <1>1 DEF OnEvent, Flush
<1> HIDE DEF rows
<1>6. ToSet(hand') \cup ToSet(accum') = ToSet(hand) \cup ToSet(accum) \cup {ring[at + 1]}
  BY <1>1, <1>4, <1>5, RowsAre
<1> QED
  BY <1>1, <1>3, <1>6 DEF Quiet, Ahead, Gone

\* The slots of a batch are freed.
LEMMA QuietRelease ==
  ASSUME TypeOK, Control, Release
  PROVE  Quiet
<1>1. /\ UNCHANGED <<ringLost, decoded, accum, hand, batches, delivered, lost, dropped,
                     backpressure>>
      /\ ring' = SubSeq(ring, at + 1, Len(ring)) /\ at' = 0
  BY DEF Release, flags, history, config
<1>2. Rest(ring', 0) = Rest(ring, at)
  BY <1>1, RowsAre, RestIsKept
<1> QED
  BY <1>1, <1>2 DEF Quiet, Ahead, Gone

\* The batch in hand goes to the queue.
LEMMA QuietPush ==
  ASSUME TypeOK, Control, Push, Pushed(batches), UNCHANGED <<dropped, lost>>
  PROVE  Quiet
<1>1. /\ UNCHANGED <<ring, at, decoded, ringLost, accum, delivered, backpressure>>
      /\ hand' = <<>>
  BY DEF Push, ringVars, flags, config
<1>2. Rows(batches') = Rows(batches) \cup ToSet(hand)
  BY RowsAre, AppendBatch DEF Pushed
<1> QED
  BY <1>1, <1>2, RowsAre DEF Quiet, Ahead, Gone

\* A batch more, and a batch less.
LEMMA BatchesNonEmpty ==
  ASSUME NEW q \in Seq(Seq(Nat)), \A i \in DOMAIN q : q[i] # <<>>
  PROVE  /\ \A s \in Seq(Nat) :
              s # <<>> => \A i \in DOMAIN Append(q, s) : Append(q, s)[i] # <<>>
         /\ q # <<>> => /\ Head(q) # <<>>
                        /\ \A i \in DOMAIN Tail(q) : Tail(q)[i] # <<>>
<1>1. ASSUME NEW s \in Seq(Nat), s # <<>>, NEW i \in DOMAIN Append(q, s)
      PROVE  Append(q, s)[i] # <<>>
  <2>1. Len(q) \in Nat /\ DOMAIN q = 1..Len(q) /\ i \in 1..(Len(q) + 1)
    BY <1>1
  <2>2. CASE i = Len(q) + 1
    BY <1>1, <2>1, <2>2
  <2>3. CASE i \in DOMAIN q
    <3>1. Append(q, s)[i] = q[i]
      BY <2>1, <2>3
    <3> QED BY <2>3, <3>1
  <2> QED BY <2>1, <2>2, <2>3
<1>2. ASSUME q # <<>>
      PROVE  Head(q) # <<>> /\ \A i \in DOMAIN Tail(q) : Tail(q)[i] # <<>>
  <2>1. /\ Len(q) \in Nat \ {0} /\ DOMAIN q = 1..Len(q) /\ Head(q) = q[1]
        /\ DOMAIN Tail(q) = 1..(Len(q) - 1)
        /\ \A i \in 1..(Len(q) - 1) : Tail(q)[i] = q[i + 1]
    BY <1>2
  <2>2. 1 \in DOMAIN q /\ \A i \in 1..(Len(q) - 1) : i + 1 \in DOMAIN q
    BY <2>1
  <2> QED BY <2>1, <2>2
<1> QED
  BY <1>1, <1>2

\* A step that neither fills nor empties a batch.
LEMMA NoEmptySame ==
  ASSUME NoEmptyBatch, UNCHANGED <<lingered, accum, hand, batches>>, Flushing' => Flushing
  PROVE  NoEmptyBatch'
  BY DEF NoEmptyBatch

\* The same of a flush.
LEMMA NoEmptyFlush ==
  ASSUME NoEmptyBatch, NEW rows, NEW to, rows # <<>>, Flush(rows, to), UNCHANGED batches
  PROVE  NoEmptyBatch'
  BY DEF NoEmptyBatch, Flush

\* No step makes an empty batch.
LEMMA NoEmptyStays ==
  ASSUME TypeOK, Control, NoEmptyBatch, Next
  PROVE  NoEmptyBatch'
<1> USE DEF config, dispatcher, flags, history
<1>1. CASE IoStep /\ ReaderUnchanged
  BY <1>1, NoEmptySame DEF ReaderUnchanged, Flushing
<1>2. CASE DispatcherStep
  <2>1. CASE Poll \/ Release \/ Recheck \/ PushBlocks \/ PushParks \/ MarkTerminal
    <3>1. UNCHANGED <<lingered, accum, hand, batches>>
      BY <2>1 DEF Poll, Release, Recheck, PushBlocks, PushParks, MarkTerminal
    <3>2. Flushing' => Flushing
      BY <2>1 DEF Poll, Release, Recheck, PushBlocks, PushParks, MarkTerminal, Flushing
    <3> QED BY <3>1, <3>2, NoEmptySame
  <2>2. CASE OnEvent
    <3> DEFINE rows == Append(accum, ring[at + 1])
    <3>1. rows # <<>>
      <4>1. accum \in Seq(Nat)
        BY RowsAre
      <4>2. Len(rows) = Len(accum) + 1 /\ Len(accum) \in Nat /\ Len(<<>>) = 0
        BY <4>1
      <4> HIDE DEF rows
      <4> QED BY <4>2
    <3>2. UNCHANGED batches /\ pc = "event"
      BY <2>2 DEF OnEvent
    <3>3. CASE Flush(rows, "event")
      BY <3>1, <3>2, <3>3, NoEmptyFlush
    <3>4. CASE accum' = rows /\ UNCHANGED <<pc, lingered, hand, return>>
      <4> HIDE DEF rows
      <4> QED BY <3>1, <3>2, <3>4 DEF NoEmptyBatch, Flushing
    <3> QED BY <2>2, <3>3, <3>4 DEF OnEvent
  <2>3. CASE Linger
    <3>1. accum # <<>> /\ Flush(accum, "recheck") /\ UNCHANGED batches
      BY <2>3 DEF Linger, NoEmptyBatch
    <3> QED BY <3>1, NoEmptyFlush
  <2>4. CASE Push
    <3>1. /\ UNCHANGED <<lingered, accum>> /\ pc = "push" /\ pc' = return
          /\ batches' \in {batches, Append(batches, hand), Append(Tail(batches), hand)}
          /\ batches' = Append(Tail(batches), hand) => Full \/ batches' = Append(batches, hand)
      BY <2>4 DEF Push, Pushed, DropOldest
    <3>2. ~Flushing'
      BY <3>1 DEF Flushing, TypeOK
    <3>3. hand # <<>>
      BY <3>1 DEF NoEmptyBatch, Flushing
    <3>4. \A i \in DOMAIN batches : batches[i] # <<>>
      BY DEF NoEmptyBatch
    <3>5. CASE batches' = batches
      BY <3>1, <3>2, <3>5 DEF NoEmptyBatch
    <3>6. CASE batches' = Append(batches, hand)
      <4>1. \A i \in DOMAIN batches' : batches'[i] # <<>>
        BY <3>3, <3>4, <3>6, RowsAre, BatchesNonEmpty
      <4> QED BY <3>1, <3>2, <4>1 DEF NoEmptyBatch
    <3>7. CASE Full /\ batches' = Append(Tail(batches), hand)
      <4>1. batches # <<>>
        BY <3>7, BatchAssumption DEF Full
      <4>2. Tail(batches) \in Seq(Seq(Nat))
        BY <4>1, RowsAre, TakeBatch
      <4>3. \A i \in DOMAIN Tail(batches) : Tail(batches)[i] # <<>>
        BY <3>4, <4>1, RowsAre, BatchesNonEmpty
      <4>4. \A i \in DOMAIN batches' : batches'[i] # <<>>
        BY <3>3, <3>7, <4>2, <4>3, RowsAre, BatchesNonEmpty
      <4> QED BY <3>1, <3>2, <4>4 DEF NoEmptyBatch
    <3> QED BY <3>1, <3>5, <3>6, <3>7
  <2>5. CASE End
    <3>1. CASE accum # <<>>
      BY <2>5, <3>1, NoEmptyFlush DEF End
    <3>2. CASE accum = <<>>
      BY <2>5, <3>2, NoEmptySame DEF End, Flushing
    <3> QED BY <3>1, <3>2
  <2> QED
    BY <1>2, <2>1, <2>2, <2>3, <2>4, <2>5 DEF DispatcherStep
<1>3. CASE LingerElapses
  BY <1>3 DEF LingerElapses, NoEmptyBatch, Flushing
<1>4. CASE DispatcherPanics
  BY <1>4, NoEmptySame DEF DispatcherPanics, Flushing
<1>5. ASSUME NEW p \in Pullers, PullStep(p)
      PROVE  NoEmptyBatch'
  <2>1. CASE PullBatch(p)
    <3>1. /\ UNCHANGED <<lingered, accum, hand>> /\ pc' = DispatcherWoken
          /\ batches # <<>> /\ batches' = Tail(batches)
      BY <2>1 DEF PullBatch
    <3>2. Flushing' => Flushing
      BY <3>1 DEF Flushing, DispatcherWoken
    <3>3. \A i \in DOMAIN batches' : batches'[i] # <<>>
      BY <3>1, RowsAre, BatchesNonEmpty DEF NoEmptyBatch
    <3> QED BY <3>1, <3>2, <3>3 DEF NoEmptyBatch
  <2>2. CASE PullError(p) \/ PullEnd(p) \/ PullWaits(p) \/ PullParks(p)
    <3>1. UNCHANGED <<lingered, accum, hand, batches, pc>>
      BY <2>2 DEF PullError, PullEnd, PullWaits, PullParks
    <3> QED BY <3>1, NoEmptySame DEF Flushing
  <2> QED BY <1>5, <2>1, <2>2 DEF PullStep
<1>6. ASSUME NEW t \in Teardowns, Close \/ TeardownStep(t)
      PROVE  NoEmptyBatch'
  <2>1. UNCHANGED <<lingered, accum, hand, batches>> /\ pc' \in {pc, DispatcherWoken}
    BY <1>6 DEF Close, TeardownStep, HookFires, CloseAndWake, Quiesce, Join
  <2>2. Flushing' => Flushing
    BY <2>1 DEF Flushing, DispatcherWoken
  <2> QED BY <2>1, <2>2, NoEmptySame
<1>7. "closer" \in Teardowns
  BY DEF Teardowns
<1> QED BY <1>1, <1>2, <1>3, <1>4, <1>5, <1>6, <1>7 DEF Next

\* A step of the stream, and the rows that it moves.
StreamStep == Apart' /\ [Stream!Next]_(Stream!stream)

\* A step that moves no row and ends nothing.
LEMMA QuietStep ==
  ASSUME Apart, Quiet, UNCHANGED <<closed, cleanEnd /\ ~panicked>>
  PROVE  StreamStep
  BY DEF StreamStep, Quiet, Apart, Gone, Stream!stream

\* An event is decoded.
LEMMA PublishStep ==
  ASSUME Sound, Apart, Publish, ReaderUnchanged
  PROVE  StreamStep
<1>0. TypeOK /\ Control
  BY DEF Sound
<1>1. /\ UNCHANGED <<at, accum, hand, batches, delivered, lost, dropped, backpressure,
                     closed, cleanEnd, panicked>>
      /\ decoded' = decoded + 1 /\ decoded \in Nat
  BY <1>0, RowsAre DEF Publish, ReaderUnchanged, dispatcher, flags, history, config
<1>2. decoded + 1 \notin ToSet(delivered) \cup Ahead \cup Gone
  <2>1. decoded + 1 \notin 1..decoded
    BY <1>1
  <2> QED BY <2>1, WhereRowsAre
<1>3. ~(cleanEnd /\ ~panicked)
  BY DEF Sound, EndIsLast, Publish, IoOver
<1>4. CASE ring' = Append(ring, decoded + 1) /\ ringLost' = ringLost
  <2>1. Rest(ring', at) = Rest(ring, at) \cup {decoded + 1}
    BY <1>0, <1>1, <1>4, RowsAre, RestGrows
  <2>2. Ahead' = Ahead \cup {decoded + 1} /\ Gone' = Gone
    BY <1>1, <1>4, <2>1 DEF Ahead, Gone
  <2>3. Apart'
    BY <1>1, <1>2, <2>2 DEF Apart
  <2>4. Stream!Decode
    BY <1>1, <1>3, <2>2 DEF Stream!Decode, Gone
  <2> QED BY <2>3, <2>4 DEF StreamStep, Stream!Next
<1>5. CASE ringLost' = ringLost \cup {decoded + 1} /\ ring' = ring
  <2>1. Ahead' = Ahead /\ Gone' = Gone \cup {decoded + 1}
    BY <1>1, <1>5 DEF Ahead, Gone
  <2>2. Apart'
    BY <1>1, <1>2, <2>1 DEF Apart
  <2>3. Stream!Decode
    BY <1>1, <1>3, <2>1 DEF Stream!Decode, Gone
  <2> QED BY <2>2, <2>3 DEF StreamStep, Stream!Next
<1> QED BY <1>4, <1>5 DEF Publish

\* The batch in hand goes to the queue, to the queue at the cost of the oldest, or is
\* lost to a reader that closed.
LEMMA PushStep ==
  ASSUME Sound, StreamSound, Push
  PROVE  StreamStep
<1>0. TypeOK /\ Control /\ Apart
  BY DEF Sound, StreamSound
<1>1. /\ UNCHANGED <<ring, at, decoded, ringLost, accum, delivered, backpressure, closed,
                     cleanEnd, panicked>>
      /\ hand' = <<>>
  BY DEF Push, ringVars, flags, config
<1>2. Train(delivered, batches, hand, accum, ring, Rest(ring, at))
  BY OrderIs DEF Sound, RowsSound
<1>3. CASE Pushed(batches) /\ UNCHANGED <<dropped, lost>>
  BY <1>0, <1>1, <1>3, QuietPush, QuietStep
<1>4. CASE Full /\ backpressure = "DropOldest" /\ DropOldest
  <2> DEFINE rest == Rows(Tail(batches)) \cup ToSet(hand) \cup ToSet(accum) \cup Rest(ring, at)
  <2>1. batches # <<>>
    BY <1>4, BatchAssumption DEF Full
  <2>2. /\ Head(batches) \in Seq(Nat)
        /\ Tail(batches) \in Seq(Seq(Nat))
        /\ Rows(batches) = ToSet(Head(batches)) \cup Rows(Tail(batches))
        /\ Ascending(Head(batches))
        /\ Before(ToSet(Head(batches)), Rows(Tail(batches)))
    BY <1>0, <1>2, <2>1, RowsAre, TakeBatch DEF Train
  <2>3. Head(batches) # <<>>
    BY <1>0, <2>1, RowsAre, BatchesNonEmpty DEF StreamSound, NoEmptyBatch
  <2>4. Ahead = ToSet(Head(batches)) \cup rest /\ Before(ToSet(Head(batches)), rest)
    BY <1>2, <2>2 DEF Ahead, Train, Before
  <2>5. Rows(batches') = Rows(Tail(batches)) \cup ToSet(hand)
    BY <1>0, <1>4, <2>2, RowsAre, AppendBatch DEF DropOldest, Pushed
  <2>6. Ahead' = rest /\ Gone' = Gone \cup ToSet(Head(batches)) /\ dropped' = dropped + 1
    <3>1. ToSet(<<>>) = {}
      BY DEF ToSet
    <3> QED BY <1>1, <1>4, <2>5, <3>1 DEF Ahead, Gone, DropOldest
  <2> HIDE DEF rest
  <2>7. \E n \in Stream!Undecided : Stream!UpTo(n) = ToSet(Head(batches))
    BY <1>0, <2>2, <2>3, <2>4, UpToIs
  <2>8. ToSet(Head(batches)) \cap rest = {}
    <3>1. \A x \in ToSet(Head(batches)) : x \in Nat /\ ~(x < x)
      BY <2>2, RowsAreNat
    <3> QED BY <2>4, <3>1 DEF Before
  <2>9. Apart'
    BY <1>0, <1>1, <2>4, <2>6, <2>8, WhereRowsAre DEF Apart
  <2>10. Stream!DropOldest
    BY <1>1, <1>4, <2>6, <2>7 DEF Stream!DropOldest, Gone
  <2> QED BY <2>9, <2>10 DEF StreamStep, Stream!Next
<1>5. CASE /\ backpressure = "Block" /\ closed
           /\ lost' = lost \cup ToSet(hand)
           /\ UNCHANGED <<batches, dropped>>
  <2> DEFINE rest == Rows(batches) \cup ToSet(accum) \cup Rest(ring, at)
  <2>1. Ahead = ToSet(hand) \cup rest /\ Ahead' = rest /\ Gone' = Gone \cup ToSet(hand)
    <3>1. ToSet(<<>>) = {}
      BY DEF ToSet
    <3> QED BY <1>1, <1>5, <3>1 DEF Ahead, Gone
  <2>2. ToSet(hand) \cap rest = {}
    <3>1. \A x \in ToSet(hand) : x \in Nat /\ ~(x < x)
      BY <1>0, RowsAre, RowsAreNat
    <3> QED BY <1>2, <3>1 DEF Train, Before
  <2> HIDE DEF rest
  <2>3. Apart'
    BY <1>0, <1>1, <2>1, <2>2, WhereRowsAre DEF Apart
  <2>4. Stream!Discard
    BY <1>0, <1>1, <1>5, <2>1, WhereRowsAre DEF Stream!Discard, Gone
  <2> QED BY <2>3, <2>4 DEF StreamStep, Stream!Next
<1> QED BY <1>3, <1>4, <1>5 DEF Push

\* The oldest batch is handed out.
LEMMA TellStep ==
  ASSUME Sound, StreamSound, NEW p \in Pullers, PullBatch(p)
  PROVE  StreamStep
<1> DEFINE rest == Rows(batches') \cup ToSet(hand) \cup ToSet(accum) \cup Rest(ring, at)
<1>0. TypeOK /\ Control /\ Apart
  BY DEF Sound, StreamSound
<1>1. /\ UNCHANGED <<ring, at, decoded, ringLost, accum, hand, lost, dropped, backpressure,
                     closed, cleanEnd, panicked>>
      /\ batches # <<>>
      /\ batches' = Tail(batches)
      /\ delivered' = delivered \o Head(batches)
  BY DEF PullBatch, ringVars, flags, config
<1>2. Train(delivered, batches, hand, accum, ring, Rest(ring, at))
  BY OrderIs DEF Sound, RowsSound
<1>3. /\ Head(batches) \in Seq(Nat)
      /\ Rows(batches) = ToSet(Head(batches)) \cup Rows(batches')
      /\ Ascending(Head(batches))
      /\ Before(ToSet(Head(batches)), Rows(batches'))
  BY <1>0, <1>1, <1>2, RowsAre, TakeBatch DEF Train
<1>4. Head(batches) # <<>>
  BY <1>0, <1>1, RowsAre, BatchesNonEmpty DEF StreamSound, NoEmptyBatch
<1>5. Before(ToSet(delivered), ToSet(Head(batches)))
  BY <1>2, <1>3 DEF Train, Before
<1>6. /\ ToSet(delivered') = ToSet(delivered) \cup ToSet(Head(batches))
      /\ Ascending(delivered')
  BY <1>0, <1>1, <1>2, <1>3, <1>5, RowsAre, JoinRows DEF Train
<1>7. Ahead = ToSet(Head(batches)) \cup rest /\ Before(ToSet(Head(batches)), rest)
  BY <1>2, <1>3 DEF Ahead, Train, Before
<1>8. Ahead' = rest /\ Gone' = Gone
  BY <1>1 DEF Ahead, Gone
<1> HIDE DEF rest
<1>9. PICK n \in Stream!Undecided : Stream!UpTo(n) = ToSet(Head(batches))
  BY <1>0, <1>3, <1>4, <1>7, UpToIs
<1>10. IsPrefix(delivered, delivered')
  <2>1. delivered \in Seq(Nat)
    BY <1>0, RowsAre
  <2> QED BY <1>1, <1>3, <2>1 DEF IsPrefix
<1>11. Apart'
  BY <1>0, <1>6, <1>7, <1>8 DEF Apart
<1>12. Stream!Tell
  BY <1>1, <1>6, <1>8, <1>9, <1>10
     DEF Stream!Tell, Stream!Ascending, Ascending, Stream!ToSet, ToSet, Stream!IsPrefix,
         IsPrefix, Gone
<1> QED BY <1>11, <1>12 DEF StreamStep, Stream!Next

\* An end is reported: the stream ends, if nobody closed it and nothing panicked.
LEMMA EndStep ==
  ASSUME Sound, Sound', Apart, NEW p \in Pullers, PullEnd(p)
  PROVE  StreamStep
<1>1. /\ UNCHANGED <<ring, at, decoded, ringLost, accum, hand, batches, delivered, lost,
                     dropped, backpressure, closed, panicked>>
      /\ cleanEnd' = (cleanEnd \/ ~closed)
  BY DEF PullEnd, ringVars, config, dispatcher, flags
<1>2. Quiet
  BY <1>1, QuietSame
<1>3. CASE closed \/ panicked \/ cleanEnd
  BY <1>1, <1>2, <1>3, QuietStep DEF Sound, TypeOK
<1>4. CASE ~closed /\ ~panicked
  <2>1. cleanEnd' /\ ~panicked'
    BY <1>1, <1>4
  <2>2. finished' /\ batches' = <<>> /\ ring' = <<>>
    BY <2>1 DEF Sound, EndIsLast
  <2>3. Place' = "done"
    BY <2>2 DEF Sound, ErrorIsOnce
  <2>4. accum' = <<>> /\ at' = 0 /\ hand' = <<>>
    BY <2>3 DEF Sound, Control, TypeOK, Place
  <2>5. Rows(<<>>) = {} /\ ToSet(<<>>) = {} /\ Rest(<<>>, 0) = {}
    BY DEF Rows, ToSet, Rest
  <2>6. Ahead' = {}
    BY <2>2, <2>4, <2>5 DEF Ahead
  <2>7. Stream!Undecided = {}
    BY <1>2, <2>6, WhereRowsAre DEF Quiet
  <2>8. Stream!End
    BY <1>1, <1>2, <1>4, <2>1, <2>7 DEF Stream!End, Quiet, Gone
  <2>9. Apart'
    BY <1>2 DEF Quiet, Apart
  <2> QED BY <2>8, <2>9 DEF StreamStep, Stream!Next
<1> QED BY <1>3, <1>4

\* A close, whoever it comes from.
LEMMA CloseStep ==
  ASSUME Apart, CloseAndWake,
         UNCHANGED <<ringVars, taken, at, accum, hand, batches, dropped, config, history>>
  PROVE  StreamStep
<1>1. /\ UNCHANGED <<ring, at, decoded, ringLost, accum, hand, batches, delivered, lost,
                     dropped, backpressure, cleanEnd, panicked>>
      /\ closed' = TRUE
  BY DEF CloseAndWake, ringVars, config, history
<1>2. Quiet
  BY <1>1, QuietSame
<1>3. Stream!Close
  BY <1>1, <1>2 DEF Stream!Close, Quiet, Gone
<1> QED BY <1>2, <1>3 DEF StreamStep, Stream!Next, Quiet, Apart

\* Every step of the reader is one of the stream, or moves nothing of it.
LEMMA StreamsOn ==
  ASSUME Sound, Sound', StreamSound, Next
  PROVE  StreamStep
<1>0. TypeOK /\ Control /\ Apart
  BY DEF Sound, StreamSound
<1> USE DEF ringVars, config, dispatcher, flags, history
<1>1. CASE IoStep /\ ReaderUnchanged
  <2>1. CASE Publish
    BY <1>0, <1>1, <2>1, PublishStep
  <2>2. CASE IoReturns \/ IoUnwinds \/ ProducerDrops
    <3>1. UNCHANGED <<ring, at, decoded, ringLost, accum, hand, batches, delivered, lost,
                      dropped, backpressure, closed, cleanEnd, panicked>>
      BY <1>1, <2>2 DEF IoReturns, IoUnwinds, ProducerDrops, ReaderUnchanged
    <3> QED BY <1>0, <3>1, QuietSame, QuietStep
  <2> QED BY <1>1, <2>1, <2>2 DEF IoStep
<1>2. CASE DispatcherStep
  <2>1. CASE Push
    BY <1>0, <2>1, PushStep
  <2>2. CASE ~Push
    <3>1. UNCHANGED <<closed, cleanEnd, panicked>>
      BY <1>2, <2>2 DEF DispatcherStep, Poll, OnEvent, Release, Linger, Recheck, PushBlocks,
                        PushParks, End, MarkTerminal
    <3>2. Quiet
      <4>1. CASE Poll
        <5>1. at' = at
          BY <1>0, <4>1 DEF Poll, Control, Place, Flushing
        <5> QED BY <4>1, <5>1, QuietSame DEF Poll
      <4>2. CASE OnEvent
        BY <1>0, <4>2, QuietOnEvent
      <4>3. CASE Release
        BY <1>0, <4>3, QuietRelease
      <4>4. CASE Linger
        BY <1>0, <4>4, QuietFlush DEF Linger, Flush, Control, Flushing
      <4>5. CASE Recheck
        BY <4>5, QuietSame DEF Recheck
      <4>6. CASE PushBlocks \/ PushParks \/ MarkTerminal
        BY <4>6, QuietSame DEF PushBlocks, PushParks, MarkTerminal
      <4>7. CASE End
        <5>1. CASE accum # <<>>
          BY <1>0, <4>7, <5>1, QuietFlush DEF End, Flush, Control, Flushing
        <5>2. CASE accum = <<>>
          BY <4>7, <5>2, QuietSame DEF End
        <5> QED BY <5>1, <5>2
      <4> QED
        BY <1>2, <2>2, <4>1, <4>2, <4>3, <4>4, <4>5, <4>6, <4>7 DEF DispatcherStep
    <3> QED BY <1>0, <3>1, <3>2, QuietStep
  <2> QED BY <2>1, <2>2
<1>3. CASE LingerElapses
  <2>1. UNCHANGED <<ring, at, decoded, ringLost, accum, hand, batches, delivered, lost,
                    dropped, backpressure, closed, cleanEnd, panicked>>
    BY <1>3 DEF LingerElapses
  <2> QED BY <1>0, <2>1, QuietSame, QuietStep
<1>4. CASE DispatcherPanics
  <2>1. /\ UNCHANGED <<ring, at, decoded, ringLost, accum, hand, batches, delivered, lost,
                       dropped, backpressure, closed, cleanEnd>>
        /\ pc = "linger"
    BY <1>4 DEF DispatcherPanics
  <2>2. ~cleanEnd
    BY <2>1 DEF Sound, EndIsLast, ErrorIsOnce, Place, Flushing
  <2> QED BY <1>0, <2>1, <2>2, QuietSame, QuietStep
<1>5. ASSUME NEW p \in Pullers, PullStep(p)
      PROVE  StreamStep
  <2>1. CASE PullBatch(p)
    BY <2>1, TellStep
  <2>2. CASE PullEnd(p)
    BY <1>0, <2>2, EndStep
  <2>3. CASE PullError(p) \/ PullWaits(p) \/ PullParks(p)
    <3>1. UNCHANGED <<ring, at, decoded, ringLost, accum, hand, batches, delivered, lost,
                      dropped, backpressure, closed, cleanEnd, panicked>>
      BY <2>3 DEF PullError, PullWaits, PullParks
    <3> QED BY <1>0, <3>1, QuietSame, QuietStep
  <2> QED BY <1>5, <2>1, <2>2, <2>3 DEF PullStep
<1>6. ASSUME NEW t \in Teardowns, Close \/ TeardownStep(t)
      PROVE  StreamStep
  <2>1. CASE Close \/ HookFires(t)
    BY <1>0, <2>1, CloseStep DEF Close, HookFires
  <2>2. CASE Quiesce(t) \/ Join(t)
    <3>1. UNCHANGED <<ring, at, decoded, ringLost, accum, hand, batches, delivered, lost,
                      dropped, backpressure, closed, cleanEnd, panicked>>
      BY <2>2 DEF Quiesce, Join
    <3> QED BY <1>0, <3>1, QuietSame, QuietStep
  <2> QED BY <1>6, <2>1, <2>2 DEF TeardownStep
<1>7. "closer" \in Teardowns
  BY DEF Teardowns
<1> QED BY <1>1, <1>2, <1>3, <1>4, <1>5, <1>6, <1>7 DEF Next

\* The reader implements the stream: rows in order, none twice and none skipped, drops
\* counted, ends true (batch_reader.rs:36, 480).
THEOREM ReaderStreams == SafetySpec => ImplementsStream
<1>1. Init => StreamSound /\ Stream!Init
  <2> SUFFICES ASSUME Init PROVE StreamSound /\ Stream!Init
    OBVIOUS
  <2>1. /\ delivered = <<>> /\ batches = <<>> /\ hand = <<>> /\ accum = <<>> /\ ring = <<>>
        /\ ringLost = {} /\ lost = {} /\ decoded = 0 /\ dropped = 0 /\ ~closed /\ ~cleanEnd
        /\ backpressure \in {"Block", "DropOldest"} /\ pc = "recheck" /\ ~lingered
        /\ closed = FALSE
    BY DEF Init, RingInit
  <2>2. NoEmptyBatch /\ Apart
    BY <2>1 DEF NoEmptyBatch, Flushing, Apart, Gone
  <2>3. Stream!Init
    BY <2>1 DEF Stream!Init
  <2> QED BY <2>2, <2>3 DEF StreamSound
<1>2. Sound /\ Sound' /\ StreamSound /\ [Next]_vars
        => StreamSound' /\ [Stream!Next]_(Stream!stream)
  <2> SUFFICES ASSUME Sound, Sound', StreamSound, [Next]_vars
               PROVE  NoEmptyBatch' /\ StreamStep
    BY DEF StreamSound, StreamStep
  <2>1. CASE Next
    BY <2>1, NoEmptyStays, StreamsOn DEF Sound, StreamSound
  <2>2. CASE UNCHANGED vars
    <3>1. UNCHANGED <<ring, at, decoded, ringLost, accum, hand, batches, delivered, lost,
                      dropped, backpressure, closed, cleanEnd, panicked, lingered, pc>>
      BY <2>2 DEF vars, ringVars, config, dispatcher, flags, history
    <3>2. NoEmptyBatch'
      BY <3>1, NoEmptySame DEF Flushing, StreamSound
    <3> QED BY <3>1, <3>2, QuietSame, QuietStep DEF StreamSound
  <2> QED BY <2>1, <2>2
<1>3. Init => Sound
  BY SoundStarts
<1>4. Sound /\ [Next]_vars => Sound'
  BY SoundStays
<1> QED BY <1>1, <1>2, <1>3, <1>4, PTL DEF SafetySpec, ImplementsStream, Stream!Spec

------------------------------------------------------------------------------
(* After a close *)

\* How far the dispatcher of a closed reader is from its end: the place where it stands, or
\* goes on after a flush, then the events of its batch, then the flush itself.
Rank == [poll |-> 6, event |-> 5, linger |-> 4, recheck |-> 3, end |-> 2, mark |-> 1, done |-> 0]
PlaceLeft == Rank[Place]
EventsLeft == taken - at
FlushLeft == IF Flushing THEN [parking |-> 3, parked |-> 2, push |-> 1][pc] ELSE 0

MeasuresAreNat == {PlaceLeft, EventsLeft, FlushLeft} \subseteq Nat

StaysThere ==
    PlaceLeft' = PlaceLeft /\ EventsLeft' = EventsLeft /\ FlushLeft' = FlushLeft
Nearer ==
    \/ PlaceLeft' < PlaceLeft
    \/ PlaceLeft' = PlaceLeft /\ EventsLeft' < EventsLeft
    \/ PlaceLeft' = PlaceLeft /\ EventsLeft' = EventsLeft /\ FlushLeft' < FlushLeft

\* Every step of the dispatcher brings it nearer to its end, no step of anybody else takes
\* it back.
Winds ==
    closed => /\ closed'
              /\ Nearer \/ StaysThere
              /\ DispatcherStep => Nearer

\* A teardown that closed the reader, or has seen the grace period pass, waits for a
\* dispatcher that was told.
TeardownsTold ==
    \A t \in Teardowns :
      /\ teardown[t] \in {"quiesce", "join"} => closed
      /\ t = "closer" /\ teardown[t] # "idle" => closed

\* A step that does not move the dispatcher.
LEMMA StaysWhereItIs ==
  ASSUME UNCHANGED <<pc, taken, at, return>>
  PROVE  StaysThere
BY Zenon DEF StaysThere, PlaceLeft, EventsLeft, FlushLeft, Place, Flushing

\* The measures are numbers.
LEMMA SoundMeasures == Sound => MeasuresAreNat
<1> SUFFICES ASSUME Sound PROVE MeasuresAreNat
  OBVIOUS
<1>1. /\ pc \in {"poll", "event", "linger", "recheck", "push", "parking",
                 "parked", "end", "mark", "done"}
      /\ return \in {"none", "event", "recheck", "mark"}
      /\ taken \in Nat /\ at \in 0..taken
      /\ Flushing => return # "none"
  BY Zenon DEF Sound, TypeOK, Control
<1>2. PlaceLeft \in Nat
  BY <1>1, SMT DEF PlaceLeft, Place, Flushing, Rank
<1>3. EventsLeft \in Nat
  BY <1>1, SMT DEF EventsLeft
<1>4. FlushLeft \in Nat
  BY <1>1, SMT DEF FlushLeft, Flushing
<1> QED
  BY <1>2, <1>3, <1>4, Zenon DEF MeasuresAreNat

\* The dispatcher goes from one place to a later one, with or without a flush.
LEMMA PlaceFalls ==
  ASSUME ~Flushing, Rank[Place'] < Rank[pc]
  PROVE  Nearer
BY Zenon DEF Nearer, PlaceLeft, Place

\* The dispatcher that waits with a full queue is woken.
LEMMA WokenGoesOn ==
  ASSUME pc' = DispatcherWoken, UNCHANGED <<taken, at, return>>
  PROVE  Nearer \/ StaysThere
<1>1. CASE pc # "parked"
  BY <1>1, StaysWhereItIs, Zenon DEF DispatcherWoken
<1>2. CASE pc = "parked"
  <2>1. pc' = "push" /\ Place' = Place /\ Flushing /\ Flushing'
    BY <1>2, SMT DEF DispatcherWoken, Place, Flushing
  <2>2. FlushLeft' = 1 /\ FlushLeft = 2
    BY <1>2, <2>1, SMT DEF FlushLeft
  <2>3. PlaceLeft' = PlaceLeft /\ EventsLeft' = EventsLeft
    BY <2>1, Zenon DEF PlaceLeft, EventsLeft
  <2> QED
    BY <2>2, <2>3, SMT DEF Nearer
<1> QED
  BY <1>1, <1>2

\* Each step of the dispatcher of a closed reader.
LEMMA DispatcherWinds ==
  ASSUME Sound, closed, DispatcherStep \/ DispatcherPanics
  PROVE  closed' /\ Nearer
<1>0. closed' = closed
  BY Zenon DEF DispatcherStep, DispatcherPanics, Poll, OnEvent, Release, Linger, Recheck,
     Push, PushBlocks, PushParks, End, MarkTerminal, flags
<1>t. taken \in Nat /\ at \in 0..taken
      /\ return \in {"none", "event", "recheck", "mark"}
      /\ (Flushing => return # "none")
  BY Zenon DEF Sound, TypeOK, Control
<1>f. ASSUME NEW rows, NEW to, Flush(rows, to) PROVE Place' = to /\ Flushing'
  BY <1>f, SMT DEF Flush, Place, Flushing
<1>p. ASSUME pc' \notin {"push", "parking", "parked"} PROVE Place' = pc'
  BY <1>p, Zenon DEF Place, Flushing
<1>1. CASE Poll \/ Recheck \/ MarkTerminal \/ DispatcherPanics \/ Release
  <2>1. \/ pc = "poll" /\ (pc' = "linger" \/ pc' = "event")
        \/ (pc = "recheck" \/ pc = "linger") /\ pc' = "end"
        \/ pc = "mark" /\ pc' = "done"
        \/ pc = "event" /\ pc' = "linger"
    BY <1>1, Zenon DEF Poll, Recheck, MarkTerminal, DispatcherPanics, Release
  <2>2. Place' = pc' /\ ~Flushing
    BY <2>1, SMT DEF Place, Flushing
  <2>3. Rank[pc'] < Rank[pc]
    BY <2>1, SMT DEF Rank
  <2> QED
    BY <1>0, <2>2, <2>3, PlaceFalls, Zenon
<1>2. CASE OnEvent
  <2>1. /\ pc = "event" /\ at < taken /\ at' = at + 1 /\ taken' = taken
        /\ \/ \E rows : Flush(rows, "event")
           \/ pc' = pc
    BY <1>2, SMT DEF OnEvent
  <2>2. Place = "event" /\ Place' = "event"
    BY <2>1, <1>f, <1>p, SMT DEF Place, Flushing
  <2>3. EventsLeft' < EventsLeft
    BY <1>t, <2>1, SMT DEF EventsLeft
  <2> QED
    BY <1>0, <2>2, <2>3, Zenon DEF Nearer, PlaceLeft
<1>3. CASE Linger
  <2>1. pc = "linger" /\ Place' = "recheck" /\ ~Flushing
    BY <1>3, <1>f, SMT DEF Linger, Flushing
  <2> QED
    BY <1>0, <2>1, PlaceFalls, SMT DEF Rank
<1>4. CASE End
  <2>1. pc = "end" /\ ~Flushing /\ (Flush(accum, "mark") \/ pc' = "mark")
    BY <1>4, SMT DEF End, Flushing
  <2>2. Place' = "mark"
    BY <2>1, <1>f, <1>p, SMT
  <2> QED
    BY <1>0, <2>1, <2>2, PlaceFalls, SMT DEF Rank
<1>5. CASE Push
  <2>1. pc = "push" /\ pc' = return /\ UNCHANGED <<taken, at>> /\ Flushing
    BY <1>5, Zenon DEF Push, Flushing
  <2>2. Place = return /\ Place' = return /\ ~Flushing'
    BY <1>t, <2>1, SMT DEF Place, Flushing
  <2>3. FlushLeft' = 0 /\ FlushLeft = 1
    BY <2>1, <2>2, SMT DEF FlushLeft
  <2> QED
    BY <1>0, <2>1, <2>2, <2>3, SMT DEF Nearer, PlaceLeft, EventsLeft
<1>6. CASE PushBlocks
  BY <1>6, Zenon DEF PushBlocks
<1>7. CASE PushParks
  <2>1. pc = "parking" /\ pc' = "parked" /\ UNCHANGED <<taken, at, return>>
    BY <1>7, Zenon DEF PushParks
  <2>2. Place' = Place /\ FlushLeft' = 2 /\ FlushLeft = 3
    BY <2>1, SMT DEF Place, Flushing, FlushLeft
  <2> QED
    BY <1>0, <2>1, <2>2, SMT DEF Nearer, PlaceLeft, EventsLeft
<1> QED
  BY <1>1, <1>2, <1>3, <1>4, <1>5, <1>6, <1>7, Zenon DEF DispatcherStep

\* Nobody else takes it back.
LEMMA OthersWind ==
  ASSUME Sound, closed, [Next]_vars, ~DispatcherStep
  PROVE  closed' /\ (Nearer \/ StaysThere)
<1>1. CASE DispatcherPanics
  BY <1>1, DispatcherWinds, Zenon
<1>2. CASE IoStep /\ ReaderUnchanged
  BY <1>2, StaysWhereItIs, Zenon DEF ReaderUnchanged, dispatcher, flags
<1>3. CASE LingerElapses
  BY <1>3, StaysWhereItIs, Zenon DEF LingerElapses, flags
<1>4. ASSUME NEW p \in Pullers, PullStep(p) PROVE closed' /\ (Nearer \/ StaysThere)
  <2>1. CASE PullBatch(p)
    BY <2>1, WokenGoesOn, Zenon DEF PullBatch, flags
  <2>2. CASE PullError(p) \/ PullEnd(p) \/ PullWaits(p) \/ PullParks(p)
    BY <2>2, StaysWhereItIs, Zenon DEF PullError, PullEnd, PullWaits, PullParks,
       dispatcher, flags
  <2> QED
    BY <1>4, <2>1, <2>2, Zenon DEF PullStep
<1>5. CASE Close
  BY <1>5, WokenGoesOn, Zenon DEF Close, CloseAndWake
<1>6. ASSUME NEW t \in Teardowns, TeardownStep(t) PROVE closed' /\ (Nearer \/ StaysThere)
  <2>1. CASE HookFires(t)
    BY <2>1, WokenGoesOn, Zenon DEF HookFires, CloseAndWake
  <2>2. CASE Quiesce(t) \/ Join(t)
    BY <2>2, StaysWhereItIs, Zenon DEF Quiesce, Join, dispatcher, flags
  <2> QED
    BY <1>6, <2>1, <2>2, Zenon DEF TeardownStep
<1>7. CASE UNCHANGED vars
  BY <1>7, StaysWhereItIs, Zenon DEF vars, dispatcher, flags
<1> QED
  BY <1>1, <1>2, <1>3, <1>4, <1>5, <1>6, <1>7, Zenon DEF Next

\* Whoever waits for the dispatcher has told it, or is about to.
LEMMA ToldStays ==
  ASSUME Sound, TeardownsTold, [Next]_vars
  PROVE  TeardownsTold'
<1>0. teardown \in [Teardowns -> {"idle", "quiesce", "grace", "join", "over"}]
  BY Zenon DEF Sound, TypeOK
<1>1. CASE Close
  BY <1>0, <1>1, Zenon DEF Close, CloseAndWake, TeardownsTold
<1>2. ASSUME NEW t \in Teardowns, HookFires(t) PROVE TeardownsTold'
  BY <1>0, <1>2, Zenon DEF HookFires, CloseAndWake, TeardownsTold
<1>3. ASSUME NEW t \in Teardowns, Quiesce(t) \/ Join(t) PROVE TeardownsTold'
  <2>1. /\ closed' = closed
        /\ \A u \in Teardowns : u # t => teardown'[u] = teardown[u]
        /\ teardown'[t] \in {"grace", "over"}
        /\ t = "closer" => teardown[t] # "idle"
    BY <1>0, <1>3, SMT DEF Quiesce, Join, Goto, flags
  <2> QED
    BY <2>1, SMT DEF TeardownsTold
<1>4. CASE UNCHANGED teardown /\ closed' = closed
  BY <1>4, Zenon DEF TeardownsTold
<1>5. \/ Close \/ (\E t \in Teardowns : HookFires(t) \/ Quiesce(t) \/ Join(t))
      \/ (UNCHANGED teardown /\ closed' = closed)
  BY Zenon DEF Next, ReaderUnchanged, DispatcherStep, Poll, OnEvent, Release, Linger,
     Recheck, Push, PushBlocks, PushParks, End, MarkTerminal, LingerElapses,
     DispatcherPanics, PullStep, PullBatch, PullError, PullEnd, PullWaits, PullParks,
     TeardownStep, vars, flags
<1> QED
  BY <1>1, <1>2, <1>3, <1>4, <1>5, Zenon

\* Once the reader is closed it stays closed, and every step of the dispatcher brings it
\* nearer to its end, whatever the I/O thread publishes, whoever pulls and whatever it was
\* in the middle of; and a teardown that is not about to close the reader joins a
\* dispatcher that was told (batch_reader.rs:262-277, 381, 395).
THEOREM ClosedReadersWind ==
  SafetySpec => [](MeasuresAreNat /\ TeardownsTold) /\ [][Winds]_vars
<1>1. Init => TeardownsTold
  BY SMT DEF Init, TeardownsTold, Teardowns
<1>2. Sound /\ TeardownsTold /\ [Next]_vars => TeardownsTold'
  BY ToldStays
<1>3. Sound /\ [Next]_vars => [Winds]_vars
  BY DispatcherWinds, OthersWind, Zenon DEF Winds
<1> QED
  BY <1>1, <1>2, <1>3, SoundMeasures, AlwaysSound, PTL DEF SafetySpec
==============================================================================
