----------------------------- MODULE TurnQueue -----------------------------
(***************************************************************************)
(* Turn ownership in the Norax runtime: the per-channel turn queues, their *)
(* worker tasks, the global turn semaphore, /stop and the shutdown drain.  *)
(*                                                                         *)
(*   norax/runtime/lifecycle.py      _queue_turn, _run_channel_turns,      *)
(*                                   _track_turn_task, _drain_active_turns *)
(*   norax/runtime/session.py        _cancel_channel, _slash_dispatch      *)
(*   norax/runtime/turn_pipeline.py  _handle_turn                          *)
(*   norax/runtime/core.py           run(), the ingress consumer           *)
(*                                                                         *)
(* asyncio runs one task at a time, so an action is the code between two   *)
(* suspension points.  Deques and tasks are Python objects: two of them    *)
(* are told apart by identity ("is"), so both get an identity here, and an *)
(* unreferenced one is garbage and may be allocated again.                 *)
(***************************************************************************)
EXTENDS Integers, FiniteSets, SequencesExt

CONSTANTS
    Channels,             \* channel ids
    Turns,                \* envelopes, each accepted or refused once
    Tasks,                \* identities of worker tasks (bounds live tasks)
    Deques,               \* identities of deque objects
    MaxConcurrentTurns,   \* initial value of _turn_semaphore
    MaxPendingTurns,      \* _max_pending_turns
    MaxPendingPerChannel, \* _max_pending_per_channel
    SlashChannels,        \* channels whose /stop may come as a native slash command
    None,                 \* Python's None
    GlobalStops           \* channels whose /stop envelope has no raw channel_id

ASSUME FiniteAssumption ==
    /\ IsFiniteSet(Channels) /\ IsFiniteSet(Turns) /\ IsFiniteSet(Tasks)

(* core.py clamps the configuration to 1 <= concurrent <= pending. *)
ASSUME BoundsAssumption ==
    /\ MaxConcurrentTurns \in Nat \ {0}
    /\ MaxPendingTurns \in Nat \ {0}
    /\ MaxPendingPerChannel \in Nat \ {0}
    /\ MaxConcurrentTurns <= MaxPendingTurns
    /\ MaxPendingPerChannel <= MaxPendingTurns

ASSUME ChannelAssumption == SlashChannels \subseteq Channels /\ GlobalStops \subseteq Channels

ASSUME NoneAssumption == None \notin Channels \cup Turns \cup Tasks \cup Deques

VARIABLES
    turnQueues,     \* _turn_queues: channel -> deque
    items,          \* the contents of each deque object
    activeTasks,    \* _active_turn_tasks: channel -> task
    pc,             \* where each worker task is suspended
    chan,           \* the channel_id argument of a worker
    queue,          \* the local variable "queue" of a worker
    env,            \* the local variable "env": the turn a worker has popped
    cancelled,      \* tasks on which cancel() was called
    slots,          \* the value of _turn_semaphore
    waiters,        \* the FIFO of tasks suspended in _turn_semaphore.acquire()
    holders,        \* tasks whose slot_released is False
    workCount,      \* _turn_work_count
    stopChannels,   \* _stop_channels
    stopTurn,       \* channel of the /stop that run() is handling inline
    phase,          \* progress of shutdown(); _draining is phase # "up"
    drainSet,       \* the tasks _drain_active_turns waits for
    fate            \* history: what became of each envelope

taskVars  == <<pc, chan, queue, env, cancelled>>
semVars   == <<slots, waiters, holders>>
queueVars == <<turnQueues, items, activeTasks, workCount, fate>>
stopVars  == <<stopChannels, stopTurn>>
downVars  == <<phase, drainSet>>
vars      == <<taskVars, semVars, queueVars, stopVars, downVars>>

draining == phase # "up"

Live(w) == pc[w] \notin {"none", "done"}
InTurn  == {"handling", "delivered", "cleanup"}

Contents(q) == IF q = None THEN {} ELSE ToSet(items[q])

(* len(queue): the deque holds distinct envelopes. *)
Size(q) == Cardinality(Contents(q))

UsedDeques == {turnQueues[c] : c \in Channels} \cup {queue[w] : w \in Tasks}
FreeDeques == Deques \ UsedDeques
FreeTasks  == {w \in Tasks : pc[w] = "none"}

Monus(a, b) == IF a > b THEN a - b ELSE 0

Places == {"none", "created", "acquiring", "done"} \cup InTurn
Fates  == {"unseen", "refused", "queued", "active", "handled", "cancelled", "lost"}

TypeOK ==
    /\ turnQueues \in [Channels -> Deques \cup {None}]
    /\ items \in [Deques -> Seq(Turns)]
    /\ activeTasks \in [Channels -> Tasks \cup {None}]
    /\ pc \in [Tasks -> Places]
    /\ chan \in [Tasks -> Channels \cup {None}]
    /\ queue \in [Tasks -> Deques \cup {None}]
    /\ env \in [Tasks -> Turns \cup {None}]
    /\ cancelled \subseteq Tasks
    /\ slots \in Nat
    /\ waiters \in Seq(Tasks)
    /\ holders \subseteq Tasks
    /\ workCount \in Nat
    /\ stopChannels \subseteq Channels
    /\ stopTurn \in Channels \cup {None}
    /\ phase \in {"up", "stopping", "draining", "cancelling", "drained", "complete"}
    /\ drainSet \subseteq Tasks
    /\ fate \in [Turns -> Fates]

Init ==
    /\ turnQueues = [c \in Channels |-> None]
    /\ items = [q \in Deques |-> <<>>]
    /\ activeTasks = [c \in Channels |-> None]
    /\ pc = [w \in Tasks |-> "none"]
    /\ chan = [w \in Tasks |-> None]
    /\ queue = [w \in Tasks |-> None]
    /\ env = [w \in Tasks |-> None]
    /\ cancelled = {}
    /\ slots = MaxConcurrentTurns
    /\ waiters = <<>>
    /\ holders = {}
    /\ workCount = 0
    /\ stopChannels = {}
    /\ stopTurn = None
    /\ phase = "up"
    /\ drainSet = {}
    /\ fate = [t \in Turns |-> "unseen"]

-----------------------------------------------------------------------------
(* The ingress consumer: run() and _queue_turn *)

HasWorker(c) == activeTasks[c] # None /\ Live(activeTasks[c])

ChannelWork(c) == Size(turnQueues[c]) + (IF HasWorker(c) THEN 1 ELSE 0)

AtCapacity(c) ==
    \/ workCount >= MaxPendingTurns
    \/ ChannelWork(c) >= MaxPendingPerChannel

(* run() takes the next envelope; it is busy while it handles a /stop. *)
IngressReadyWhileDraining == stopTurn = None          \* mutant: no _draining check
IngressReady == ~draining /\ stopTurn = None

(* _turn_queues.setdefault(channel_id, deque()) *)
DequeFor(c) == IF turnQueues[c] = None THEN CHOOSE q \in FreeDeques : TRUE
                                          ELSE turnQueues[c]

QueueTurn(c, t) ==
    /\ IngressReady
    /\ fate[t] = "unseen"
    /\ ~AtCapacity(c)
    /\ turnQueues[c] = None => FreeDeques # {}
    /\ LET q == DequeFor(c) IN
       /\ turnQueues' = [turnQueues EXCEPT ![c] = q]
       /\ items' = [items EXCEPT ![q] =
                       Append(IF turnQueues[c] = None THEN <<>> ELSE @, t)]
    /\ workCount' = workCount + 1
    /\ fate' = [fate EXCEPT ![t] = "queued"]
    /\ \/ HasWorker(c) /\ UNCHANGED <<activeTasks, pc, chan>>
       \/ /\ ~HasWorker(c)
          /\ FreeTasks # {}
          /\ LET w == CHOOSE v \in FreeTasks : TRUE IN
             /\ activeTasks' = [activeTasks EXCEPT ![c] = w]
             /\ pc' = [pc EXCEPT ![w] = "created"]
             /\ chan' = [chan EXCEPT ![w] = c]
    /\ UNCHANGED <<queue, env, cancelled, semVars, stopVars, downVars>>

(* if not queue: self._turn_queues.pop(channel_id, None) *)
PopIfEmpty(c) == IF Contents(turnQueues[c]) = {}
                   THEN [turnQueues EXCEPT ![c] = None] ELSE turnQueues

(* The capacity branch: an empty deque is popped from the map, whoever     *)
(* uses it; the sender gets the "bounded turn capacity" reply.             *)
RefuseTurn(c, t) ==
    /\ IngressReady
    /\ fate[t] = "unseen"
    /\ AtCapacity(c)
    /\ turnQueues' = PopIfEmpty(c)
    /\ fate' = [fate EXCEPT ![t] = "refused"]
    /\ UNCHANGED <<items, activeTasks, workCount, taskVars, semVars, stopVars, downVars>>

-----------------------------------------------------------------------------
(* The worker: _run_channel_turns *)

(* The inner finally: one turn less is pending. *)
TurnStays == workCount                                \* mutant: no decrement
TurnOver  == Monus(workCount, 1)

(* The outer finally and the end of the task.  s, h: semaphore value and   *)
(* holders; n, f: work count and fates once the current turn is over.      *)
ExitLoop(w, q, s, h, n, f) ==
    /\ items' = [items EXCEPT ![q] = <<>>]
    /\ workCount' = Monus(n, Size(q))
    /\ fate' = [t \in Turns |-> IF t \in Contents(q) THEN "cancelled" ELSE f[t]]
    /\ turnQueues' = IF turnQueues[chan[w]] = q
                       THEN [turnQueues EXCEPT ![chan[w]] = None] ELSE turnQueues
    /\ stopChannels' = stopChannels \ {chan[w]}
    /\ pc' = [pc EXCEPT ![w] = "done"]
    /\ env' = [env EXCEPT ![w] = None]
    /\ slots' = s
    /\ holders' = h

(* Pop the next turn and acquire a slot, suspending if none is free.       *)
TakeTurn(w, q, s, h, n, f) ==
    /\ items' = [items EXCEPT ![q] = Tail(@)]
    /\ env' = [env EXCEPT ![w] = Head(items[q])]
    /\ fate' = [f EXCEPT ![Head(items[q])] = "active"]
    /\ workCount' = n
    /\ \/ /\ s > 0 /\ waiters = <<>>
          /\ pc' = [pc EXCEPT ![w] = "handling"]
          /\ slots' = s - 1
          /\ holders' = h \cup {w}
          /\ UNCHANGED waiters
       \/ /\ ~(s > 0 /\ waiters = <<>>)
          /\ pc' = [pc EXCEPT ![w] = "acquiring"]
          /\ waiters' = Append(waiters, w)
          /\ slots' = s
          /\ holders' = h

StartWorker(w) ==
    /\ pc[w] = "created" /\ w \notin cancelled
    /\ turnQueues[chan[w]] # None
    /\ LET q == turnQueues[chan[w]] IN
       /\ queue' = [queue EXCEPT ![w] = q]
       /\ \/ /\ items[q] # <<>> /\ ~draining
             /\ TakeTurn(w, q, slots, holders, workCount, fate)
             /\ UNCHANGED <<turnQueues, stopChannels>>
          \/ /\ items[q] = <<>> \/ draining
             /\ ExitLoop(w, q, slots, holders, workCount, fate)
             /\ UNCHANGED waiters
    /\ UNCHANGED <<activeTasks, chan, cancelled, stopTurn, downVars>>

(* A task cancelled before its first step never runs its body. *)
CancelBeforeStart(w) ==
    /\ pc[w] = "created" /\ w \in cancelled
    /\ pc' = [pc EXCEPT ![w] = "done"]
    /\ UNCHANGED <<chan, queue, env, cancelled, semVars, queueVars, stopVars, downVars>>

(* if self._draining: return *)
MayStart == ~draining

(* The semaphore serves its waiters in order.  A worker that gets its slot *)
(* after the drain began returns without handling its turn.                *)
AcquireSlot(w) ==
    /\ pc[w] = "acquiring" /\ w \notin cancelled
    /\ slots > 0 /\ waiters # <<>> /\ Head(waiters) = w
    /\ waiters' = Tail(waiters)
    /\ \/ /\ MayStart
          /\ pc' = [pc EXCEPT ![w] = "handling"]
          /\ slots' = slots - 1
          /\ holders' = holders \cup {w}
          /\ UNCHANGED <<turnQueues, items, env, workCount, fate, stopChannels>>
       \/ /\ ~MayStart
          /\ ExitLoop(w, queue[w], slots, holders, TurnOver,
                      [fate EXCEPT ![env[w]] = "cancelled"])
    /\ UNCHANGED <<activeTasks, chan, queue, cancelled, stopTurn, downVars>>

(* The cancelled acquire() removes its waiter from the semaphore. *)
LeaveQueue(w) == \E i \in DOMAIN waiters :
    waiters[i] = w /\ waiters' = RemoveAt(waiters, i)

CancelAcquire(w) ==
    /\ pc[w] = "acquiring" /\ w \in cancelled
    /\ LeaveQueue(w)
    /\ ExitLoop(w, queue[w], slots, holders, TurnOver,
                [fate EXCEPT ![env[w]] = "cancelled"])
    /\ UNCHANGED <<activeTasks, chan, queue, cancelled, stopTurn, downVars>>

(* _release_current_turn_slot: the reply is out, the turn still persists   *)
(* and learns, but no longer counts against the concurrency cap.           *)
DeliverReply(w) ==
    /\ pc[w] = "handling" /\ w \notin cancelled
    /\ pc' = [pc EXCEPT ![w] = "delivered"]
    /\ slots' = slots + 1
    /\ holders' = holders \ {w}
    /\ UNCHANGED <<chan, queue, env, cancelled, waiters, queueVars, stopVars, downVars>>

(* _handle_turn_inner returns, raises, or is cancelled: _handle_turn's     *)
(* finally then awaits the removal of the turn's UI helpers.               *)
FinishInner(w) ==
    /\ pc[w] \in {"handling", "delivered"}
    /\ pc' = [pc EXCEPT ![w] = "cleanup"]
    /\ UNCHANGED <<chan, queue, env, cancelled, semVars, queueVars, stopVars, downVars>>

(* release_slot() acts once. *)
SlotsKept(w) == slots                                 \* mutant: no release
SlotsReleasedTwice(w) == slots + 1                    \* mutant: no slot_released
SlotsReleased(w) == IF w \in holders THEN slots + 1 ELSE slots

(* The rest of _handle_turn's finally, the release of the slot if it is    *)
(* still held, and the next iteration of the loop or, when the turn was    *)
(* cancelled, the end of the task.                                         *)
FinishTurn(w) ==
    LET s == SlotsReleased(w)
        h == holders \ {w}
        n == TurnOver
        f == [fate EXCEPT ![env[w]] = IF w \in cancelled THEN "cancelled" ELSE "handled"]
        q == queue[w]
        more == items[q] # <<>> /\ ~draining /\ w \notin cancelled
    IN
    /\ pc[w] = "cleanup"
    /\ \/ /\ more
          /\ TakeTurn(w, q, s, h, n, f)
          /\ stopChannels' = stopChannels \ {chan[w]}
          /\ UNCHANGED turnQueues
       \/ /\ ~more
          /\ ExitLoop(w, q, s, h, n, f)
          /\ UNCHANGED waiters
    /\ UNCHANGED <<activeTasks, chan, queue, cancelled, stopTurn, downVars>>

(* if self._active_turn_tasks.get(channel_id) is completed *)
MappedAnyway(w) == TRUE                               \* mutant: no identity check
Mapped(w) == activeTasks[chan[w]] = w

(* The done callback of _track_turn_task.  It acts only while the map      *)
(* still points to this task; a turn it finds in the channel's deque while *)
(* the runtime is up was accepted and is dropped unseen: "lost".           *)
TaskFinished(w) ==
    LET c == chan[w]
        q == turnQueues[c]
    IN
    /\ pc[w] = "done"
    /\ pc' = [pc EXCEPT ![w] = "none"]
    /\ chan' = [chan EXCEPT ![w] = None]
    /\ queue' = [queue EXCEPT ![w] = None]
    /\ cancelled' = cancelled \ {w}
    /\ drainSet' = drainSet \ {w}
    /\ \/ /\ Mapped(w)
          /\ activeTasks' = [activeTasks EXCEPT ![c] = None]
          /\ turnQueues' = [turnQueues EXCEPT ![c] = None]
          /\ items' = [p \in Deques |-> IF p = q THEN <<>> ELSE items[p]]
          /\ workCount' = Monus(workCount, Size(q))
          /\ fate' = [t \in Turns |->
                        IF t \in Contents(q)
                          THEN IF draining THEN "cancelled" ELSE "lost"
                          ELSE fate[t]]
          /\ stopChannels' = stopChannels \ {c}
       \/ ~Mapped(w) /\ UNCHANGED <<queueVars, stopChannels>>
    /\ UNCHANGED <<env, semVars, stopTurn, phase>>

-----------------------------------------------------------------------------
(* /stop: _cancel_channel, called inline by run() or by _slash_dispatch *)

(* The loop body of _cancel_channel for the live workers of channels D. *)
Detach(D) ==
    LET gone == UNION {Contents(turnQueues[c]) : c \in D} IN
    /\ stopChannels' = stopChannels \cup D
    /\ activeTasks' = [c \in Channels |-> IF c \in D THEN None ELSE activeTasks[c]]
    /\ turnQueues' = [c \in Channels |-> IF c \in D THEN None ELSE turnQueues[c]]
    /\ items' = [q \in Deques |->
                   IF \E c \in D : turnQueues[c] = q THEN <<>> ELSE items[q]]
    /\ workCount' = Monus(workCount, Cardinality(gone))
    /\ fate' = [t \in Turns |-> IF t \in gone THEN "cancelled" ELSE fate[t]]
    /\ cancelled' = cancelled \cup {activeTasks[c] : c \in D}

CancelChannel(c) ==
    \/ HasWorker(c) /\ Detach({c})
    \/ /\ ~HasWorker(c)
       /\ activeTasks' = [activeTasks EXCEPT ![c] = None]
       /\ stopChannels' = stopChannels \ {c}
       /\ UNCHANGED <<turnQueues, items, workCount, fate, cancelled>>

CancelAll == Detach({c \in Channels : HasWorker(c)})

(* run() handles a /stop envelope of channel c itself: no other envelope   *)
(* is consumed until its _handle_turn has returned.                        *)
StopTurn(c) ==
    /\ IngressReady
    /\ IF c \in GlobalStops THEN CancelAll ELSE CancelChannel(c)
    /\ stopTurn' = c
    /\ UNCHANGED <<pc, chan, queue, env, semVars, downVars>>

(* The finally of the /stop's own _handle_turn. *)
EndStopTurnKeepsFlag ==                               \* mutant: no discard
    /\ stopTurn # None
    /\ stopTurn' = None
    /\ UNCHANGED <<stopChannels, taskVars, semVars, queueVars, downVars>>

EndStopTurn ==
    /\ stopTurn # None
    /\ stopTurn' = None
    /\ stopChannels' = stopChannels \ {stopTurn}
    /\ UNCHANGED <<taskVars, semVars, queueVars, downVars>>

(* The Discord client task runs the same command beside run(). *)
SlashStop(c) ==
    /\ phase \in {"up", "stopping"}
    /\ CancelChannel(c)
    /\ UNCHANGED <<pc, chan, queue, env, semVars, stopTurn, downVars>>

-----------------------------------------------------------------------------
(* shutdown() and _drain_active_turns *)

BeginShutdown ==
    /\ phase = "up"
    /\ phase' = "stopping"
    /\ UNCHANGED <<drainSet, taskVars, semVars, queueVars, stopVars>>

(* [task for task in self._active_turn_tasks.values() if not task.done()] *)
MappedLive   == {activeTasks[c] : c \in {d \in Channels : HasWorker(d)}}

(* Ingress, A2A and reminders are stopped: snapshot the live workers. *)
DrainStart ==
    /\ phase = "stopping"
    /\ phase' = "draining"
    /\ drainSet' = MappedLive
    /\ UNCHANGED <<taskVars, semVars, queueVars, stopVars>>

(* The map keeps only the tasks that are not done. *)
PruneDone == activeTasks' = [c \in Channels |-> IF HasWorker(c) THEN activeTasks[c] ELSE None]

DrainSettled ==
    /\ phase = "draining"
    /\ \A w \in drainSet : ~Live(w)
    /\ phase' = "drained"
    /\ PruneDone
    /\ UNCHANGED <<turnQueues, items, workCount, fate, drainSet, taskVars, semVars, stopVars>>

DrainNeverTimesOut == FALSE                           \* mutant: wait without timeout

(* The grace period ends first: cancel what is still running.  A created   *)
(* task takes its first step on the next pass of the event loop, before    *)
(* any timer started later fires.                                          *)
DrainTimeout ==
    /\ phase = "draining"
    /\ \A w \in drainSet : pc[w] # "created"
    /\ \E w \in drainSet : Live(w)
    /\ phase' = "cancelling"
    /\ cancelled' = cancelled \cup {w \in drainSet : Live(w)}
    /\ UNCHANGED <<pc, chan, queue, env, drainSet, semVars, queueVars, stopVars>>

(* The cancelled turns ended, or shutdown goes on without them. *)
CancelWaitOver ==
    /\ phase = "cancelling"
    /\ phase' = "drained"
    /\ PruneDone
    /\ UNCHANGED <<turnQueues, items, workCount, fate, drainSet, taskVars, semVars, stopVars>>

FlushStores ==
    /\ phase = "drained"
    /\ phase' = "complete"
    /\ stopChannels' = {}
    /\ UNCHANGED <<stopTurn, drainSet, taskVars, semVars, queueVars>>

-----------------------------------------------------------------------------
Arriving == {t \in Turns : fate[t] = "unseen"}

Ingress == \E c \in Channels :
    \/ Arriving # {} /\ LET t == CHOOSE x \in Arriving : TRUE
                        IN QueueTurn(c, t) \/ RefuseTurn(c, t)
    \/ StopTurn(c)

Worker(w) ==
    \/ StartWorker(w) \/ CancelBeforeStart(w)
    \/ AcquireSlot(w) \/ CancelAcquire(w)
    \/ DeliverReply(w) \/ FinishInner(w) \/ FinishTurn(w)
    \/ TaskFinished(w)

Shutdown == DrainStart \/ DrainSettled \/ DrainTimeout \/ CancelWaitOver \/ FlushStores

Next ==
    \/ Ingress
    \/ \E c \in SlashChannels : SlashStop(c)
    \/ EndStopTurn
    \/ \E w \in Tasks : Worker(w)
    \/ BeginShutdown
    \/ Shutdown

Spec == Init /\ [][Next]_vars

(* Fairness that never depends on a turn: shutdown() waits with timeouts,  *)
(* and a created task takes its first step.                                *)
ResistantSpec ==
    /\ Spec
    /\ WF_vars(Shutdown)
    /\ \A w \in Tasks : WF_vars(StartWorker(w) \/ CancelBeforeStart(w))

(* What a well-behaved turn adds: the event loop runs every ready task; a  *)
(* turn is bounded by its round and request limits, UI cleanup by its      *)
(* timeouts.  Nothing obliges anyone to send a message or to stop.         *)
TurnsRespond ==
    /\ \A w \in Tasks : WF_vars(Worker(w))
    /\ WF_vars(EndStopTurn)

-----------------------------------------------------------------------------
(* The promise to whoever sends messages: see TurnContract. *)

Contract == INSTANCE TurnContract WITH
    waiting <- [c \in Channels |-> IF turnQueues[c] = None THEN <<>> ELSE items[turnQueues[c]]],
    running <- {env[w] : w \in Tasks} \ {None},
    ended   <- [t \in Turns |-> fate[t] \in {"refused", "handled", "cancelled"}]

(* Seen from the sender, the runtime is a bounded set of FIFO queues that  *)
(* loses nothing: each accepted turn of a channel is begun in the order of *)
(* arrival, unless a stop or the shutdown drops all that wait there.       *)
ImplementsContract == Contract!Spec

-----------------------------------------------------------------------------
(* Properties *)

Alive == {w \in Tasks : Live(w)}

(* The pending-work counter that _queue_turn compares with                 *)
(* _max_pending_turns is exact across stops, exits, cancelled starts and   *)
(* the drain (the max(0, ...) of the code never hides an error), and every *)
(* turn it counts is in a mapped deque or held by a worker: a detached     *)
(* deque holds nothing a worker cut off by /stop could still run.          *)
WorkAccounting ==
    /\ workCount = Cardinality({t \in Turns : fate[t] \in {"queued", "active"}})
    /\ {t \in Turns : fate[t] = "queued"} = UNION {Contents(turnQueues[c]) : c \in Channels}
    /\ {t \in Turns : fate[t] = "active"} = {env[w] : w \in Tasks} \ {None}

(* Every slot taken from _turn_semaphore is returned once, whether the     *)
(* turn ends, fails, is cancelled, or released its slot early on delivery. *)
SlotConservation ==
    /\ slots + Cardinality(holders) = MaxConcurrentTurns
    /\ \A w \in holders : pc[w] \in {"handling", "cleanup"}

(* A channel has one worker that was not cancelled, the one in the map: an *)
(* older worker that is still unwinding was cancelled, and never displaces *)
(* its replacement.                                                        *)
OneOwner ==
    \A w \in Alive \ cancelled : activeTasks[chan[w]] = w

(* An accepted turn is handled, or it is cancelled by /stop or shutdown;   *)
(* it never disappears without either.                                     *)
NoSilentLoss == \A t \in Turns : fate[t] # "lost"

(* A turn that nobody stopped does not find the stop flag of its channel   *)
(* up when its agent loop evaluates stop_check.                            *)
NextTurnNotPoisoned ==
    \A w \in Alive \ cancelled : pc[w] = "handling" => chan[w] \notin stopChannels

(* Once draining, no turn starts; and when shutdown takes its snapshots of *)
(* the stores, every turn that still runs has been cancelled: by /stop, or *)
(* by the drain itself.                                                    *)
DrainHolds ==
    [][ /\ draining => \A w \in Tasks : pc'[w] = "handling" => pc[w] = "handling"
        /\ phase' \in {"drained", "complete"} => Alive' \subseteq cancelled' ]_vars

(* Every accepted turn is eventually handled, or cancelled or lost, even   *)
(* when it waits for the slot of a turn that is being cancelled; and       *)
(* shutdown() ends, even with cancellation-resistant turns.                *)
WorkEnds ==
    /\ TurnsRespond => \A t \in Turns :
         fate[t] \in {"queued", "active"} ~> fate[t] \in {"handled", "cancelled", "lost"}
    /\ draining ~> phase = "complete"
=============================================================================
