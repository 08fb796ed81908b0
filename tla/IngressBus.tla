----------------------------- MODULE IngressBus -----------------------------
(***************************************************************************)
(* From the adapters' queues through the ingress bus to the main loop.     *)
(*                                                                         *)
(*   norax/runtime/ingress_bus.py   IngressBus                             *)
(*   norax/adapter/http_in.py       _offer, events (the other adapters     *)
(*                                  queue and read events the same way)    *)
(*   norax/runtime/core.py          the loop over ingress.stream()         *)
(*   norax/__main__.py              shutdown while run() is still starting *)
(*                                                                         *)
(* An event is the pair of its adapter and its number.                     *)
(***************************************************************************)
EXTENDS Integers, SequencesExt, Filters

CONSTANTS
    Adapters,       \* the adapters, in the order they are started
    Required,       \* those with failure_is_fatal
    AdapterMax,     \* size of an adapter's queue
    MaxSize,        \* size of the bus queue
    MaxEvents,      \* bound: events accepted by each adapter
    None

Adapter == Range(Adapters)

ASSUME SizeAssumption ==
    /\ AdapterMax \in Nat \ {0} /\ MaxSize \in Nat \ {0} /\ MaxEvents \in Nat
    /\ Required \subseteq Adapter
    /\ Adapters \in Seq(Adapter) /\ Injective(Adapters)    \* each is started once

STOP       == [kind |-> "stop"]
Failure(a) == [kind |-> "failure", adapter |-> a]
Event(a, n) == [kind |-> "event", adapter |-> a, n |-> n]
EventsOf(a) == {Event(a, n) : n \in 1..MaxEvents}

ASSUME NoneAssumption == \A a \in Adapter : None \notin EventsOf(a)

Items == {STOP} \cup {Failure(a) : a \in Adapter} \cup UNION {EventsOf(a) : a \in Adapter}

VARIABLES
    started,    \* number of adapters started
    starter,    \* start(): "starting", "done" or "raised"
    source,     \* per adapter: "down", "up", "failed" or "stopped"
    accepted,   \* per adapter: number of events accepted
    inbox,      \* per adapter: its queue
    pump,       \* per adapter: its _pump task
    hand,       \* per adapter: the event its pump is putting
    bus,        \* IngressBus._queue
    phase,      \* stop(): "none", "adapters", "pumps" or "done"
    toStop,     \* stop(): the adapters it found started
    consumer,   \* the main loop: "none", "waiting", "busy", "returned", "failed"
    cause,      \* the adapter whose failure ended the stream
    delivered   \* history: the events the main loop was given

busVars == <<started, starter, source, accepted, inbox, pump, hand, bus, phase, toStop,
             consumer, cause, delivered>>
startup  == <<started, starter>>
stopping == <<phase, toStop>>
reader   == <<consumer, cause, delivered>>

stopped == phase # "none"       \* IngressBus._stopped, and Runtime._draining

Alive == {"waiting", "holding", "reporting"}

BusTypeOK ==
    /\ started \in 0..Len(Adapters)
    /\ starter \in {"starting", "done", "raised"}
    /\ source \in [Adapter -> {"down", "up", "failed", "stopped"}]
    /\ accepted \in [Adapter -> 0..MaxEvents]
    /\ inbox \in [Adapter -> Seq(Items)]
    /\ \A a \in Adapter : inbox[a] \in Seq(EventsOf(a)) /\ Len(inbox[a]) <= AdapterMax
    /\ pump \in [Adapter -> Alive \cup {"none", "done", "crashed", "cancelled"}]
    /\ hand \in [Adapter -> Items \cup {None}]
    /\ \A a \in Adapter : hand[a] \in EventsOf(a) \cup {None}
    /\ \A a \in Adapter : hand[a] # None <=> pump[a] = "holding"
    /\ bus \in Seq(Items) /\ Len(bus) <= MaxSize
    /\ phase \in {"none", "adapters", "pumps", "done"}
    /\ toStop \subseteq Adapter
    /\ consumer \in {"none", "waiting", "busy", "returned", "failed"}
    /\ cause \in Adapter \cup {None}
    /\ delivered \in Seq(Items)

BusInit ==
    /\ started = 0 /\ starter = "starting"
    /\ source = [a \in Adapter |-> "down"]
    /\ accepted = [a \in Adapter |-> 0]
    /\ inbox = [a \in Adapter |-> <<>>]
    /\ pump = [a \in Adapter |-> "none"]
    /\ hand = [a \in Adapter |-> None]
    /\ bus = <<>>
    /\ phase = "none" /\ toStop = {}
    /\ consumer = "none" /\ cause = None /\ delivered = <<>>

-----------------------------------------------------------------------------
(* start() *)

(* ad.start() returned: the adapter listens and gets a pump.               *)
StartAdapter ==
    LET a == Adapters[started + 1] IN
    /\ starter = "starting" /\ started < Len(Adapters)
    /\ source' = [source EXCEPT ![a] = "up"]
    /\ pump' = [pump EXCEPT ![a] = "waiting"]
    /\ started' = started + 1
    /\ UNCHANGED <<starter, accepted, inbox, hand, bus, stopping, reader>>

(* The main loop begins to read. *)
StartDone ==
    /\ starter = "starting" /\ started = Len(Adapters)
    /\ starter' = "done"
    /\ consumer' = "waiting"
    /\ UNCHANGED <<started, source, accepted, inbox, pump, hand, bus, stopping, cause, delivered>>

BeginStop ==
    /\ phase' = "adapters"
    /\ toStop' = {a \in Adapter : source[a] # "down"}

(* ad.start() raises, or run() is cancelled inside it: start() stops what  *)
(* it started, unless stop() was called before.                            *)
StartFails ==
    /\ starter = "starting" /\ phase \in {"none", "done"}
    /\ starter' = "raised"
    /\ IF stopped THEN UNCHANGED stopping ELSE BeginStop
    /\ UNCHANGED <<started, source, accepted, inbox, pump, hand, bus, reader>>

-----------------------------------------------------------------------------
(* The adapters *)

(* A full queue rejects the event; an accepted one is promised to be kept. *)
Accept(a) ==
    /\ source[a] = "up"
    /\ accepted[a] < MaxEvents /\ Len(inbox[a]) < AdapterMax
    /\ accepted' = [accepted EXCEPT ![a] = @ + 1]
    /\ inbox' = [inbox EXCEPT ![a] = Append(@, Event(a, accepted[a] + 1))]
    /\ UNCHANGED <<startup, source, pump, hand, bus, stopping, reader>>

(* The listener, client or scheduler task behind the adapter ends.         *)
SourceFails(a) ==
    /\ source[a] = "up"
    /\ source' = [source EXCEPT ![a] = "failed"]
    /\ UNCHANGED <<startup, accepted, inbox, pump, hand, bus, stopping, reader>>

(* events() looks at its queue first and at the task behind it second.     *)
EventsEnd(a)   == inbox[a] = <<>> /\ source[a] \in {"failed", "stopped"}

-----------------------------------------------------------------------------
(* _pump *)

TakeEvent(a) ==
    /\ pump[a] = "waiting" /\ inbox[a] # <<>>
    /\ inbox' = [inbox EXCEPT ![a] = Tail(@)]
    /\ IF stopped
         THEN /\ pump' = [pump EXCEPT ![a] = "done"]
              /\ UNCHANGED hand
         ELSE /\ pump' = [pump EXCEPT ![a] = "holding"]
              /\ hand' = [hand EXCEPT ![a] = Head(inbox[a])]
    /\ UNCHANGED <<startup, source, accepted, bus, stopping, reader>>

Room        == Len(bus) < MaxSize
PutOrDrop(x) == bus' = IF Room THEN Append(bus, x) ELSE bus   \* mutant: put_nowait
PutWait(x)   == Room /\ bus' = Append(bus, x)

PutEvent(a) ==
    /\ pump[a] = "holding"
    /\ PutWait(hand[a])
    /\ pump' = [pump EXCEPT ![a] = "waiting"]
    /\ hand' = [hand EXCEPT ![a] = None]
    /\ UNCHANGED <<startup, source, accepted, inbox, stopping, reader>>

AnyIsFatal(a)     == TRUE                             \* mutant: flag not read
FailureIsFatal(a) == a \in Required

(* The event stream ended, by failure or by itself. *)
StreamEnds(a) ==
    /\ pump[a] = "waiting" /\ EventsEnd(a)
    /\ pump' = [pump EXCEPT ![a] = IF ~stopped /\ FailureIsFatal(a) THEN "reporting" ELSE "done"]
    /\ UNCHANGED <<startup, source, accepted, inbox, hand, bus, stopping, reader>>

PutFailure(a) ==
    /\ pump[a] = "reporting"
    /\ PutWait(Failure(a))
    /\ pump' = [pump EXCEPT ![a] = "crashed"]
    /\ UNCHANGED <<startup, source, accepted, inbox, hand, stopping, reader>>

-----------------------------------------------------------------------------
(* stream() and the main loop *)

EndsStream(item)   == item = STOP \/ stopped

GetItem ==
    /\ consumer = "waiting" /\ bus # <<>>
    /\ bus' = Tail(bus)
    /\ LET item == Head(bus) IN
       \/ /\ EndsStream(item)
          /\ consumer' = "returned"
          /\ UNCHANGED <<cause, delivered>>
       \/ /\ ~EndsStream(item) /\ item.kind = "failure"
          /\ consumer' = "failed" /\ cause' = item.adapter
          /\ UNCHANGED delivered
       \/ /\ ~EndsStream(item) /\ item.kind = "event"
          /\ consumer' = "busy" /\ delivered' = Append(delivered, item)
          /\ UNCHANGED cause
    /\ UNCHANGED <<startup, source, accepted, inbox, pump, hand, stopping>>

(* The event was queued as a turn, or answered. *)
EventHandled ==
    /\ consumer = "busy"
    /\ consumer' = "waiting"
    /\ UNCHANGED <<startup, source, accepted, inbox, pump, hand, bus, stopping, cause, delivered>>

-----------------------------------------------------------------------------
(* stop() *)

(* shutdown(): on a signal, or after run() failed. *)
Stop ==
    /\ phase = "none"
    /\ BeginStop
    /\ UNCHANGED <<startup, source, accepted, inbox, pump, hand, bus, reader>>

StopAdapter(a) ==
    /\ phase = "adapters" /\ a \in toStop
    /\ source' = [source EXCEPT ![a] = "stopped"]
    /\ toStop' = toStop \ {a}
    /\ UNCHANGED <<startup, accepted, inbox, pump, hand, bus, phase, reader>>

(* All adapters have stopped, or the grace period is over. *)
CancelPumps ==
    /\ phase = "adapters"
    /\ phase' = "pumps" /\ toStop' = {}
    /\ pump' = [a \in Adapter |-> IF pump[a] \in Alive THEN "cancelled" ELSE pump[a]]
    /\ hand' = [a \in Adapter |-> None]
    /\ UNCHANGED <<startup, source, accepted, inbox, bus, reader>>

NoWake   == bus                                       \* mutant: nothing wakes the reader
WithStop == IF Room THEN Append(bus, STOP) ELSE bus

WakeStream ==
    /\ phase = "pumps"
    /\ bus' = WithStop
    /\ phase' = "done"
    /\ UNCHANGED <<startup, source, accepted, inbox, pump, hand, toStop, reader>>

BusNext ==
    \/ StartAdapter \/ StartDone \/ StartFails
    \/ \E a \in Adapter :
         \/ Accept(a) \/ SourceFails(a)
         \/ TakeEvent(a) \/ PutEvent(a) \/ StreamEnds(a) \/ PutFailure(a)
         \/ StopAdapter(a)
    \/ GetItem \/ EventHandled
    \/ Stop \/ CancelPumps \/ WakeStream

BusSpec == BusInit /\ [][BusNext]_busVars

(* Tasks run; the main loop never blocks on one event (_queue_turn); the   *)
(* stop is bounded by its grace period.  Nothing forces an adapter to      *)
(* start, to accept, to fail or to be stopped.                             *)
BusFairness ==
    /\ WF_busVars(StartDone)
    /\ WF_busVars(GetItem) /\ WF_busVars(EventHandled)
    /\ WF_busVars(CancelPumps) /\ WF_busVars(WakeStream)
    /\ \A a \in Adapter :
         /\ WF_busVars(TakeEvent(a)) /\ WF_busVars(PutEvent(a))
         /\ WF_busVars(StreamEnds(a)) /\ WF_busVars(PutFailure(a))

BusFairSpec == BusSpec /\ BusFairness

-----------------------------------------------------------------------------
(* Properties *)

From(a, s)    == Only(s, EventsOf(a))
Promised(a)   == [n \in 1..accepted[a] |-> Event(a, n)]
Held(a)       == IF hand[a] = None THEN <<>> ELSE <<hand[a]>>

(* Until the bus is stopped, every accepted event is in exactly one place  *)
(* between the adapter's queue and the main loop, and in order; a stop may *)
(* only cut off the end.  The stream raises only for an adapter that is    *)
(* required and failed, and not before all it had accepted was handed over.*)
AcceptedInOrder ==
    /\ \A a \in Adapter :
         /\ ~stopped => From(a, delivered) \o From(a, bus) \o Held(a) \o inbox[a] = Promised(a)
         /\ IsPrefix(From(a, delivered), Promised(a))
    /\ consumer = "failed" =>
         /\ cause \in Required /\ source[cause] # "up"
         /\ From(cause, delivered) = Promised(cause)

(* What was accepted, and the failure of a required adapter, reach the     *)
(* main loop unless the bus ends; and a stop ends the stream, also one     *)
(* that waits on an empty queue or reads from a full one.                  *)
AcceptedIsDelivered ==
    /\ \A a \in Adapter, n \in 1..MaxEvents :
         (accepted[a] >= n /\ starter = "done") ~>
             \/ stopped \/ consumer = "failed"
             \/ Len(From(a, delivered)) >= n
    /\ \A a \in Required :
         (source[a] = "failed" /\ starter = "done") ~> (stopped \/ consumer = "failed")
    /\ stopped ~> consumer \in {"none", "returned", "failed"}
=============================================================================
