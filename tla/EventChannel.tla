---------------------------- MODULE EventChannel ----------------------------
(***************************************************************************)
(* EventObserver::bounded_channel of crates/tower-agent/src/event.rs: a    *)
(* channel that is bounded in items by the channel itself and in bytes by  *)
(* an atomic counter, which emitters and the receiver share without a      *)
(* lock.                                                                   *)
(*                                                                         *)
(* An event is its payload size. Every access to the counter and every     *)
(* operation of the channel (tokio's mpsc) is one step. The counter is     *)
(* accessed with relaxed ordering: its updates are totally ordered, but    *)
(* the load before the loop may return a value that is out of date.        *)
(***************************************************************************)
EXTENDS Integers, Sequences, FiniteSets

CONSTANTS
  Emitters,          \* clones of the observer that emit concurrently
  Sizes,             \* payload_bytes of the events
  Capacity,          \* items the channel holds
  max_event_bytes,   \* EventLimits
  max_queued_bytes

ASSUME LimitsAssumption ==
  /\ IsFiniteSet(Emitters)
  /\ Sizes \subseteq Nat
  /\ Capacity \in Nat \ {0}
  /\ max_event_bytes \in Nat
  /\ max_queued_bytes \in Nat

VARIABLES
  queued,     \* the shared byte counter
  channel,    \* events that were sent and not yet received
  emitter,    \* where each try_emit is
  receiver    \* where recv or try_recv is, or that the receiver was dropped

vars == <<queued, channel, emitter, receiver>>

\* An emitter between two events, and what the last one returned.
IdleEmitter(outcome) ==
  [pc |-> "idle", bytes |-> 0, current |-> 0, outcome |-> outcome]

IdleReceiver == [pc |-> "idle", bytes |-> 0]

Init ==
  /\ queued = 0
  /\ channel = <<>>
  /\ emitter = [e \in Emitters |-> IdleEmitter("none")]
  /\ receiver = IdleReceiver

(***************************************************************************)
(* BoundedChannelEventSink::try_emit                                       *)
(***************************************************************************)

Returns(e, outcome) ==
  emitter' = [emitter EXCEPT ![e] = IdleEmitter(outcome)]

Oversized(bytes) == bytes > max_event_bytes

\* The event's own ceiling, and the first look at the counter.
Emit(e, bytes) ==
  /\ emitter[e].pc = "idle"
  /\ IF Oversized(bytes)
       THEN Returns(e, "full")
       ELSE \E current \in 0..max_queued_bytes :
              emitter' = [emitter EXCEPT ![e] =
                [pc |-> "reserve", bytes |-> bytes, current |-> current,
                 outcome |-> "none"]]
  /\ UNCHANGED <<queued, channel, receiver>>

\* compare_exchange_weak finds the value that was looked at. That it may fail
\* although it does only repeats the loop.
Exchanges(e) == queued = emitter[e].current

\* One iteration of the loop.
Reserve(e) ==
  /\ emitter[e].pc = "reserve"
  /\ IF emitter[e].current + emitter[e].bytes > max_queued_bytes
       THEN Returns(e, "full") /\ UNCHANGED queued
       ELSE IF Exchanges(e)
         THEN /\ queued' = emitter[e].current + emitter[e].bytes
              /\ emitter' = [emitter EXCEPT ![e].pc = "send"]
         ELSE /\ emitter' = [emitter EXCEPT ![e].current = queued]
              /\ UNCHANGED queued
  /\ UNCHANGED <<channel, receiver>>

Refuses == receiver.pc = "gone" \/ Len(channel) >= Capacity

\* Mutant: a refused send returns and keeps its reservation.
TrySendKeeping(e) ==
  /\ emitter[e].pc = "send"
  /\ IF Refuses
       THEN Returns(e, "full") /\ UNCHANGED channel
       ELSE channel' = Append(channel, emitter[e].bytes) /\ Returns(e, "ok")
  /\ UNCHANGED <<queued, receiver>>

\* `try_send`: the channel takes the event, or it is full or closed.
TrySend(e) ==
  /\ emitter[e].pc = "send"
  /\ IF Refuses
       THEN /\ emitter' = [emitter EXCEPT ![e].pc = "refund",
                 ![e].outcome = IF receiver.pc = "gone" THEN "closed"
                                                        ELSE "full"]
            /\ UNCHANGED channel
       ELSE channel' = Append(channel, emitter[e].bytes) /\ Returns(e, "ok")
  /\ UNCHANGED <<queued, receiver>>

\* The refused event's reservation is given back.
Refund(e) ==
  /\ emitter[e].pc = "refund"
  /\ queued' = queued - emitter[e].bytes
  /\ Returns(e, emitter[e].outcome)
  /\ UNCHANGED <<channel, receiver>>

(***************************************************************************)
(* BoundedEventReceiver                                                    *)
(***************************************************************************)

\* `recv` and `try_recv` take an event,
Receive ==
  /\ receiver.pc = "idle"
  /\ channel # <<>>
  /\ receiver' = [pc |-> "release", bytes |-> Head(channel)]
  /\ channel' = Tail(channel)
  /\ UNCHANGED <<queued, emitter>>

\* and then release its bytes.
Release ==
  /\ receiver.pc = "release"
  /\ queued' = queued - receiver.bytes
  /\ receiver' = IdleReceiver
  /\ UNCHANGED <<channel, emitter>>

\* The receiver is dropped, and what it had not received with it.
DropReceiver ==
  /\ receiver.pc = "idle"
  /\ receiver' = [pc |-> "gone", bytes |-> 0]
  /\ channel' = <<>>
  /\ UNCHANGED <<queued, emitter>>

Emission(e) ==
  \/ \E bytes \in Sizes : Emit(e, bytes)
  \/ Reserve(e)
  \/ TrySend(e)
  \/ Refund(e)

Next ==
  \/ \E e \in Emitters : Emission(e)
  \/ Receive
  \/ Release
  \/ DropReceiver

Spec == Init /\ [][Next]_vars

(***************************************************************************)
(* Properties                                                              *)
(***************************************************************************)

\* The bytes of the events in the channel, each with its event's place.
RetainedBytes == UNION {{i} \X (1..channel[i]) : i \in DOMAIN channel}

\* Bytes that an emitter has reserved and neither handed over nor returned.
Reserved(e) ==
  IF emitter[e].pc \in {"send", "refund"} THEN emitter[e].bytes ELSE 0

ReservedBytes == UNION {{e} \X (1..Reserved(e)) : e \in Emitters}

\* Every variable stays in its domain; the counter, a usize, does not wrap.
TypeOK ==
  /\ queued \in 0..max_queued_bytes
  /\ channel \in Seq(Sizes) /\ Len(channel) <= Capacity
  /\ emitter \in [Emitters ->
       [pc : {"idle", "reserve", "send", "refund"}, bytes : Sizes \cup {0},
        current : 0..max_queued_bytes,
        outcome : {"none", "ok", "full", "closed"}]]
  /\ receiver \in [pc : {"idle", "release", "gone"}, bytes : Sizes \cup {0}]

\* The counter is exact: it stands for what is retained, what is reserved by
\* emitters that are on their way, and what is being released. So no
\* interleaving of emitters that each saw room makes the retained events
\* exceed the backlog ceiling, nothing leaks, and the ceiling is a high-water
\* mark rather than a lifetime total; no event exceeds its own ceiling.
BudgetExact ==
  /\ receiver.pc # "gone" =>
       queued = Cardinality(RetainedBytes) + receiver.bytes
                  + Cardinality(ReservedBytes)
  /\ Cardinality(RetainedBytes) + receiver.bytes <= max_queued_bytes
  /\ \A i \in DOMAIN channel : channel[i] <= max_event_bytes

(***************************************************************************)
(* The inductive invariant (module EventChannelProofs)                     *)
(***************************************************************************)

\* An event under way has passed its own ceiling.
WithinCeiling ==
  /\ \A e \in Emitters : /\ emitter[e].bytes <= max_event_bytes
                         /\ emitter[e].pc # "idle" => emitter[e].bytes \in Sizes
  /\ \A i \in DOMAIN channel : channel[i] <= max_event_bytes

\* The counter covers all that is accounted for, and is equal to it until
\* the receiver is dropped; what was in the channel then stays counted.
CounterCovers ==
  LET accounted == Cardinality(RetainedBytes) + receiver.bytes
                     + Cardinality(ReservedBytes)
  IN /\ accounted <= queued
     /\ receiver.pc # "gone" => accounted = queued

IInv ==
  /\ TypeOK
  /\ WithinCeiling
  /\ CounterCovers
  /\ receiver.pc # "release" => receiver.bytes = 0

=============================================================================
