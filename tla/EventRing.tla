------------------------------ MODULE EventRing ------------------------------
(***************************************************************************)
(* The event ring of one FPSS streaming client, between the I/O thread     *)
(* that publishes and the one thread that drains.                          *)
(*                                                                         *)
(* Events are numbered as they are decoded.  A slot is freed when the      *)
(* drain has finished the whole batch it took, so `ring' keeps the events  *)
(* of a batch that is still being worked on.  The drain is the business of *)
(* the modules that extend this one; they use Drained, Terminal and        *)
(* TerminalPollOutcome and release slots.                                  *)
(***************************************************************************)
EXTENDS Naturals, Sequences

CONSTANTS
    RingSize,   \* slots of the ring
    MaxEvents   \* bound: events decoded in all

ASSUME RingAssumption ==
    /\ RingSize \in Nat \ {0}
    /\ MaxEvents \in Nat

VARIABLES
    ring,       \* published events whose slots are not free yet
    decoded,    \* events decoded so far: published or dropped
    ringLost,   \* those dropped because the ring was full (dropped_count)
    io,         \* the I/O thread: "running", "unwinding", how it ended
    ioFaulted,  \* set by the fault guard of a panicking I/O thread
    shutdown    \* the shutdown flag of the client

ringVars == <<ring, decoded, ringLost, io, ioFaulted, shutdown>>

RingInit ==
    /\ ring = <<>>
    /\ decoded = 0
    /\ ringLost = {}
    /\ io = "running"
    /\ ioFaulted = FALSE
    /\ shutdown = FALSE

\* Producer::try_publish: never waits, drops on a full ring and counts it.
Publish ==
    /\ io = "running"
    /\ decoded < MaxEvents
    /\ decoded' = decoded + 1
    /\ IF Len(ring) < RingSize
       THEN ring' = Append(ring, decoded + 1) /\ UNCHANGED ringLost
       ELSE ringLost' = ringLost \cup {decoded + 1} /\ UNCHANGED ring
    /\ UNCHANGED <<io, ioFaulted, shutdown>>

\* The loop returns (a shutdown it noticed, or a recovery given up) and drops the
\* producer, which marks the end of the ring.
IoReturns ==
    /\ io = "running"
    /\ io' = "returned"
    /\ UNCHANGED <<ring, decoded, ringLost, ioFaulted, shutdown>>

\* The loop panics: the fault guard drops first, then the producer.
\* Variant: no guard, or one that drops after the producer has.
IoUnwindsUnguarded ==
    /\ io = "running"
    /\ io' = "unwinding"
    /\ UNCHANGED <<ring, decoded, ringLost, ioFaulted, shutdown>>
IoUnwinds ==
    /\ io = "running"
    /\ io' = "unwinding"
    /\ ioFaulted' = TRUE
    /\ shutdown' = TRUE
    /\ UNCHANGED <<ring, decoded, ringLost>>

ProducerDrops ==
    /\ io = "unwinding"
    /\ io' = "unwound"
    /\ UNCHANGED <<ring, decoded, ringLost, ioFaulted, shutdown>>

IoStep == Publish \/ IoReturns \/ IoUnwinds \/ ProducerDrops

\* The end of the ring is reported when nothing is left in it.
IoOver == io \in {"returned", "unwound"}
Terminal == ring = <<>> /\ IoOver
TerminalPollOutcome == IF ioFaulted THEN "Failed" ELSE "Shutdown"

RingTypeOK ==
    /\ ring \in Seq(Nat)
    /\ Len(ring) <= RingSize
    /\ decoded \in Nat
    /\ ringLost \subseteq 1..decoded
    /\ io \in {"running", "unwinding", "returned", "unwound"}
    /\ ioFaulted \in BOOLEAN
    /\ shutdown \in BOOLEAN
==============================================================================
