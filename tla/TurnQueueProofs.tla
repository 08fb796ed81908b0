-------------------------- MODULE TurnQueueProofs ---------------------------
(* What is proved of TurnQueue for every number of channels, turns, tasks  *)
(* and deques and every capacity: its safety, the account of its turns,    *)
(* and that it implements TurnContract unless it loses a turn.             *)
EXTENDS TurnQueue, FilterProofs, FiniteSetTheorems, SequenceTheorems, TLAPS

USE NoneAssumption

(* The variables keep their types.                                         *)
LEMMA TypeInit == Init => TypeOK
  BY BoundsAssumption DEF Init, TypeOK, Places, Fates

LEMMA MonusType == \A a, b \in Nat : Monus(a, b) \in Nat
  BY DEF Monus

LEMMA SizeType ==
  ASSUME TypeOK, NEW q \in Deques \cup {None}
  PROVE  Contents(q) \subseteq Turns /\ IsFiniteSet(Contents(q)) /\ Size(q) \in Nat
<1>1. Contents(q) \subseteq Turns
  BY DEF Contents, ToSet, TypeOK
<1>2. IsFiniteSet(Contents(q))
  BY <1>1, FS_Subset, FiniteAssumption
<1> QED
  BY <1>1, <1>2, FS_CardinalityType DEF Size

LEMMA RemoveAtType ==
  ASSUME NEW S, NEW s \in Seq(S), NEW i \in DOMAIN s
  PROVE  RemoveAt(s, i) \in Seq(S)
<1>1. i \in 1..Len(s)
  OBVIOUS
<1>2. SubSeq(s, 1, i - 1) \in Seq(S) /\ SubSeq(s, i + 1, Len(s)) \in Seq(S)
  BY <1>1, SubSeqProperties
<1> QED
  BY <1>2, ConcatProperties DEF RemoveAt

(* The two ways a worker leaves an iteration of its loop.                  *)
LEMMA ExitLoopType ==
  ASSUME TypeOK, NEW w \in Tasks, NEW q \in Deques, NEW s \in Nat,
         NEW h \in SUBSET Tasks, NEW n \in Nat, NEW f,
         f \in [Turns -> Fates],
         chan[w] \in Channels, ExitLoop(w, q, s, h, n, f)
  PROVE  /\ items' \in [Deques -> Seq(Turns)]
         /\ workCount' \in Nat
         /\ fate' \in [Turns -> Fates]
         /\ turnQueues' \in [Channels -> Deques \cup {None}]
         /\ stopChannels' \subseteq Channels
         /\ pc' \in [Tasks -> Places]
         /\ env' \in [Tasks -> Turns \cup {None}]
         /\ slots' \in Nat
         /\ holders' \subseteq Tasks
<1>1. Size(q) \in Nat
  BY SizeType
<1>2. workCount' \in Nat
  BY <1>1, MonusType DEF ExitLoop
<1>3. fate' \in [Turns -> Fates]
  BY DEF ExitLoop, Fates
<1>4. pc' \in [Tasks -> Places] /\ env' \in [Tasks -> Turns \cup {None}]
  BY DEF ExitLoop, TypeOK, Places
<1>5. items' \in [Deques -> Seq(Turns)] /\ turnQueues' \in [Channels -> Deques \cup {None}]
  BY DEF ExitLoop, TypeOK
<1>6. stopChannels' \subseteq Channels /\ slots' \in Nat /\ holders' \subseteq Tasks
  BY DEF ExitLoop, TypeOK
<1> QED
  BY <1>2, <1>3, <1>4, <1>5, <1>6

LEMMA TakeTurnType ==
  ASSUME TypeOK, NEW w \in Tasks, NEW q \in Deques, NEW s \in Nat,
         NEW h \in SUBSET Tasks, NEW n \in Nat, NEW f,
         f \in [Turns -> Fates],
         items[q] # <<>>, TakeTurn(w, q, s, h, n, f)
  PROVE  /\ items' \in [Deques -> Seq(Turns)]
         /\ workCount' \in Nat
         /\ fate' \in [Turns -> Fates]
         /\ pc' \in [Tasks -> Places]
         /\ env' \in [Tasks -> Turns \cup {None}]
         /\ slots' \in Nat
         /\ holders' \subseteq Tasks
         /\ waiters' \in Seq(Tasks)
<1>1. Head(items[q]) \in Turns /\ Tail(items[q]) \in Seq(Turns)
  BY HeadTailProperties DEF TypeOK
<1>2. items' \in [Deques -> Seq(Turns)] /\ env' \in [Tasks -> Turns \cup {None}]
  BY <1>1 DEF TakeTurn, TypeOK
<1>3. fate' \in [Turns -> Fates] /\ workCount' \in Nat
  BY <1>1 DEF TakeTurn, TypeOK, Fates
<1>4. pc' \in [Tasks -> Places]
  BY DEF TakeTurn, TypeOK, Places, InTurn
<1>5. slots' \in Nat /\ holders' \subseteq Tasks
  BY DEF TakeTurn, TypeOK
<1>6. waiters' \in Seq(Tasks)
  <2>1. CASE UNCHANGED waiters
    BY <2>1 DEF TypeOK
  <2>2. CASE waiters' = Append(waiters, w)
    BY <2>2, AppendProperties DEF TypeOK
  <2> QED
    BY <2>1, <2>2 DEF TakeTurn
<1> QED
  BY <1>2, <1>3, <1>4, <1>5, <1>6
-----------------------------------------------------------------------------
(* Type correctness, with the facts on tasks that the types rest on: a     *)
(* task that exists has a channel, and one that runs has a deque.          *)
TaskInv ==
    /\ TypeOK
    /\ \A w \in Tasks : pc[w] # "none" => chan[w] \in Channels
    /\ \A w \in Tasks : pc[w] \in {"acquiring"} \cup InTurn => queue[w] \in Deques /\ env[w] \in Turns

LEMMA TaskInvInit == Init => TaskInv
  BY TypeInit DEF Init, TaskInv, InTurn

LEMMA TaskInvIngress ==
  ASSUME TaskInv, NEW c \in Channels, NEW t \in Turns,
         QueueTurn(c, t) \/ RefuseTurn(c, t)
  PROVE  TaskInv'
<1> USE DEF semVars, stopVars, downVars, taskVars
<1>1. CASE QueueTurn(c, t)
  <2> DEFINE q == DequeFor(c)
             v == CHOOSE x \in FreeTasks : TRUE
  <2>1. q \in Deques
    BY <1>1 DEF QueueTurn, DequeFor, FreeDeques, TaskInv, TypeOK
  <2>2. items'[q] \in Seq(Turns) /\ \A d \in Deques \ {q} : items'[d] = items[d]
    BY <1>1, <2>1, AppendProperties DEF QueueTurn, TaskInv, TypeOK
  <2>3. items' \in [Deques -> Seq(Turns)]
    BY <1>1, <2>1, <2>2 DEF QueueTurn, TaskInv, TypeOK
  <2>4. turnQueues' \in [Channels -> Deques \cup {None}] /\ workCount' \in Nat
    BY <1>1, <2>1 DEF QueueTurn, TaskInv, TypeOK
  <2>5. fate' \in [Turns -> Fates]
    BY <1>1 DEF QueueTurn, TaskInv, TypeOK, Fates
  <2>6. /\ activeTasks' \in [Channels -> Tasks \cup {None}]
        /\ pc' \in [Tasks -> Places] /\ chan' \in [Tasks -> Channels \cup {None}]
        /\ \A w \in Tasks : pc'[w] # "none" => chan'[w] \in Channels
        /\ \A w \in Tasks : pc'[w] \in {"acquiring"} \cup InTurn => pc[w] = pc'[w]
    <3>1. CASE HasWorker(c)
      BY <1>1, <3>1 DEF QueueTurn, TaskInv, TypeOK
    <3>2. CASE ~HasWorker(c)
      <4>1. v \in FreeTasks
        BY <1>1, <3>2 DEF QueueTurn
      <4>2. v \in Tasks
        BY <4>1 DEF FreeTasks
      <4>3. /\ activeTasks' = [activeTasks EXCEPT ![c] = v]
            /\ pc' = [pc EXCEPT ![v] = "created"] /\ chan' = [chan EXCEPT ![v] = c]
        BY <1>1, <3>2 DEF QueueTurn
      <4> HIDE DEF v
      <4> QED
        BY <4>2, <4>3 DEF TaskInv, TypeOK, Places, InTurn
    <3> QED
      BY <3>1, <3>2
  <2> QED
    BY <1>1, <2>3, <2>4, <2>5, <2>6 DEF QueueTurn, TaskInv, TypeOK
<1>2. CASE RefuseTurn(c, t)
  <2>1. turnQueues' \in [Channels -> Deques \cup {None}] /\ fate' \in [Turns -> Fates]
    BY <1>2 DEF RefuseTurn, PopIfEmpty, TaskInv, TypeOK, Fates
  <2> QED
    BY <1>2, <2>1 DEF RefuseTurn, TaskInv, TypeOK
<1> QED
  BY <1>1, <1>2

LEMMA TaskInvWorker ==
  ASSUME TaskInv, NEW w \in Tasks, Worker(w)
  PROVE  TaskInv'
<1> USE DEF semVars, stopVars, downVars, taskVars, queueVars
<1> TypeOK
  BY DEF TaskInv
<1>0. TurnOver \in Nat
  BY MonusType DEF TurnOver, TypeOK
<1>1. CASE StartWorker(w)
  <2> DEFINE q == turnQueues[chan[w]]
  <2>1. chan[w] \in Channels /\ q \in Deques
    BY <1>1 DEF StartWorker, TaskInv, TypeOK
  <2>2. queue' \in [Tasks -> Deques \cup {None}] /\ queue'[w] = q
        /\ \A v \in Tasks \ {w} : queue'[v] = queue[v]
    BY <1>1, <2>1 DEF StartWorker, TypeOK
  <2>3. CASE items[q] # <<>> /\ TakeTurn(w, q, slots, holders, workCount, fate)
             /\ UNCHANGED <<turnQueues, stopChannels>>
    <3>1. TypeOK' /\ env'[w] \in Turns
      <4>1. env'[w] = Head(items[q]) /\ Head(items[q]) \in Turns
        BY <2>1, <2>3, HeadTailProperties DEF TakeTurn, TypeOK
      <4> QED
        BY <1>1, <2>1, <2>2, <2>3, <4>1, TakeTurnType DEF StartWorker, TypeOK
    <3> QED
      BY <1>1, <2>1, <2>2, <2>3, <3>1 DEF StartWorker, TakeTurn, TaskInv, TypeOK
  <2>4. CASE ExitLoop(w, q, slots, holders, workCount, fate) /\ UNCHANGED waiters
    <3>1. TypeOK'
      BY <1>1, <2>1, <2>2, <2>4, ExitLoopType DEF StartWorker, TypeOK
    <3> QED
      BY <1>1, <2>1, <2>2, <2>4, <3>1 DEF StartWorker, ExitLoop, TaskInv, TypeOK, InTurn
  <2> QED
    BY <1>1, <2>3, <2>4 DEF StartWorker
<1>2. CASE CancelBeforeStart(w)
  BY <1>2 DEF CancelBeforeStart, TaskInv, TypeOK, Places, InTurn
<1>3. CASE AcquireSlot(w)
  <2>1. waiters' \in Seq(Tasks)
    BY <1>3, HeadTailProperties DEF AcquireSlot, TypeOK
  <2>2. CASE MayStart /\ pc' = [pc EXCEPT ![w] = "handling"]
             /\ slots' = slots - 1 /\ holders' = holders \cup {w}
             /\ UNCHANGED <<turnQueues, items, env, workCount, fate, stopChannels>>
    BY <1>3, <2>1, <2>2 DEF AcquireSlot, TaskInv, TypeOK, Places, InTurn
  <2>3. CASE ExitLoop(w, queue[w], slots, holders, TurnOver,
                      [fate EXCEPT ![env[w]] = "cancelled"])
    <3>1. TypeOK'
      <4>1. queue[w] \in Deques /\ chan[w] \in Channels
            /\ [fate EXCEPT ![env[w]] = "cancelled"] \in [Turns -> Fates]
        BY <1>3 DEF AcquireSlot, TaskInv, TypeOK, Fates
      <4> QED
        BY <1>0, <1>3, <2>1, <2>3, <4>1, ExitLoopType DEF AcquireSlot, TypeOK
    <3> QED
      BY <1>3, <2>3, <3>1 DEF AcquireSlot, ExitLoop, TaskInv, TypeOK, InTurn
  <2> QED
    BY <1>3, <2>2, <2>3 DEF AcquireSlot
<1>4. CASE CancelAcquire(w)
  <2>1. waiters' \in Seq(Tasks)
    BY <1>4, RemoveAtType DEF CancelAcquire, LeaveQueue, TypeOK
  <2>2. queue[w] \in Deques /\ chan[w] \in Channels
        /\ [fate EXCEPT ![env[w]] = "cancelled"] \in [Turns -> Fates]
    BY <1>4 DEF CancelAcquire, TaskInv, TypeOK, Fates
  <2>3. ExitLoop(w, queue[w], slots, holders, TurnOver, [fate EXCEPT ![env[w]] = "cancelled"])
    BY <1>4 DEF CancelAcquire
  <2>4. TypeOK'
    BY <1>0, <1>4, <2>1, <2>2, <2>3, ExitLoopType DEF CancelAcquire, TypeOK
  <2> QED
    BY <1>4, <2>3, <2>4 DEF CancelAcquire, ExitLoop, TaskInv, TypeOK, InTurn
<1>5. CASE DeliverReply(w)
  BY <1>5 DEF DeliverReply, TaskInv, TypeOK, Places, InTurn
<1>6. CASE FinishInner(w)
  BY <1>6 DEF FinishInner, TaskInv, TypeOK, Places, InTurn
<1>7. CASE FinishTurn(w)
  <2> DEFINE s == SlotsReleased(w)
             h == holders \ {w}
             f == [fate EXCEPT ![env[w]] = IF w \in cancelled THEN "cancelled" ELSE "handled"]
             q == queue[w]
  <2>1. s \in Nat /\ h \subseteq Tasks /\ f \in [Turns -> Fates]
    <3>1. s \in Nat
      BY DEF SlotsReleased, TypeOK
    <3>2. f \in [Turns -> Fates]
      BY DEF TypeOK, Fates
    <3>3. h \subseteq Tasks
      BY DEF TypeOK
    <3> QED
      BY <3>1, <3>2, <3>3
  <2>2. q \in Deques /\ chan[w] \in Channels
    BY <1>7 DEF FinishTurn, TaskInv, InTurn
  <2>3. CASE /\ items[q] # <<>> /\ TakeTurn(w, q, s, h, TurnOver, f)
             /\ stopChannels' = stopChannels \ {chan[w]} /\ UNCHANGED turnQueues
    <3>1. TypeOK' /\ env'[w] \in Turns
      <4>1. env'[w] = Head(items[q]) /\ Head(items[q]) \in Turns
        BY <2>2, <2>3, HeadTailProperties DEF TakeTurn, TypeOK
      <4> QED
        BY <1>0, <1>7, <2>1, <2>2, <2>3, <4>1, TakeTurnType DEF FinishTurn, TypeOK
    <3> QED
      BY <1>7, <2>2, <2>3, <3>1 DEF FinishTurn, TakeTurn, TaskInv, TypeOK
  <2>4. CASE ExitLoop(w, q, s, h, TurnOver, f) /\ UNCHANGED waiters
    <3>1. TypeOK'
      BY <1>0, <1>7, <2>1, <2>2, <2>4, ExitLoopType DEF FinishTurn, TypeOK
    <3> QED
      BY <1>7, <2>4, <3>1 DEF FinishTurn, ExitLoop, TaskInv, TypeOK, InTurn
  <2> QED
    BY <1>7, <2>3, <2>4 DEF FinishTurn
<1>8. CASE TaskFinished(w)
  <2>1. chan[w] \in Channels
    BY <1>8 DEF TaskFinished, TaskInv
  <2>2. Size(turnQueues[chan[w]]) \in Nat
    BY <2>1, SizeType DEF TypeOK
  <2>3. /\ pc' \in [Tasks -> Places] /\ chan' \in [Tasks -> Channels \cup {None}]
        /\ queue' \in [Tasks -> Deques \cup {None}] /\ cancelled' \subseteq Tasks
        /\ drainSet' \subseteq Tasks
    BY <1>8 DEF TaskFinished, TypeOK, Places
  <2>4. /\ activeTasks' \in [Channels -> Tasks \cup {None}]
        /\ turnQueues' \in [Channels -> Deques \cup {None}]
        /\ items' \in [Deques -> Seq(Turns)] /\ stopChannels' \subseteq Channels
    <3>1. CASE Mapped(w)
      <4>1. items' \in [Deques -> Seq(Turns)]
        <5>1. items' = [d \in Deques |-> IF d = turnQueues[chan[w]] THEN <<>> ELSE items[d]]
          BY <1>8, <3>1 DEF TaskFinished
        <5>2. \A d \in Deques : items[d] \in Seq(Turns) /\ <<>> \in Seq(Turns)
          BY DEF TypeOK
        <5> QED
          BY <5>1, <5>2
      <4>2. /\ activeTasks' = [activeTasks EXCEPT ![chan[w]] = None]
            /\ turnQueues' = [turnQueues EXCEPT ![chan[w]] = None]
            /\ stopChannels' = stopChannels \ {chan[w]}
        BY <1>8, <3>1 DEF TaskFinished
      <4> QED
        BY <2>1, <4>1, <4>2 DEF TypeOK
    <3>2. CASE ~Mapped(w)
      BY <1>8, <3>2 DEF TaskFinished, TypeOK
    <3> QED
      BY <3>1, <3>2
  <2>5. workCount' \in Nat
    <3>1. CASE Mapped(w)
      <4>1. workCount' = Monus(workCount, Size(turnQueues[chan[w]]))
        BY <1>8, <3>1 DEF TaskFinished
      <4> QED
        BY <2>2, <4>1, MonusType DEF TypeOK
    <3>2. CASE ~Mapped(w)
      BY <1>8, <3>2 DEF TaskFinished, TypeOK
    <3> QED
      BY <3>1, <3>2
  <2>6. fate' \in [Turns -> Fates]
    BY <1>8 DEF TaskFinished, TypeOK, Fates
  <2>7. TypeOK'
    BY <1>8, <2>3, <2>4, <2>5, <2>6 DEF TaskFinished, TypeOK
  <2> QED
    BY <1>8, <2>7 DEF TaskFinished, TaskInv, TypeOK, InTurn
<1> QED
  BY <1>1, <1>2, <1>3, <1>4, <1>5, <1>6, <1>7, <1>8 DEF Worker

LEMMA DetachType ==
  ASSUME TypeOK, NEW D \in SUBSET Channels, \A c \in D : HasWorker(c), Detach(D)
  PROVE  /\ activeTasks' \in [Channels -> Tasks \cup {None}]
         /\ turnQueues' \in [Channels -> Deques \cup {None}]
         /\ items' \in [Deques -> Seq(Turns)]
         /\ workCount' \in Nat
         /\ fate' \in [Turns -> Fates]
         /\ cancelled' \subseteq Tasks
         /\ stopChannels' \subseteq Channels
<1> DEFINE gone == UNION {Contents(turnQueues[c]) : c \in D}
<1>1. gone \subseteq Turns
  BY SizeType DEF TypeOK
<1>2. Cardinality(gone) \in Nat
  BY <1>1, FS_Subset, FS_CardinalityType, FiniteAssumption
<1>3. workCount' \in Nat
  BY <1>2, MonusType DEF Detach, TypeOK
<1>4. activeTasks' \in [Channels -> Tasks \cup {None}] /\ turnQueues' \in [Channels -> Deques \cup {None}]
  BY DEF Detach, TypeOK
<1>5. items' \in [Deques -> Seq(Turns)]
  <2>1. items' = [q \in Deques |-> IF \E c \in D : turnQueues[c] = q THEN <<>> ELSE items[q]]
    BY DEF Detach
  <2>2. \A q \in Deques : items[q] \in Seq(Turns) /\ <<>> \in Seq(Turns)
    BY DEF TypeOK
  <2> QED
    BY <2>1, <2>2
<1>6. fate' \in [Turns -> Fates]
  <2>1. fate' = [t \in Turns |-> IF t \in gone THEN "cancelled" ELSE fate[t]]
    BY DEF Detach
  <2> HIDE DEF gone
  <2> QED
    BY <2>1 DEF TypeOK, Fates
<1>7. cancelled' \subseteq Tasks
  BY DEF Detach, HasWorker, TypeOK
<1>8. stopChannels' \subseteq Channels
  BY DEF Detach, TypeOK
<1> QED
  BY <1>3, <1>4, <1>5, <1>6, <1>7, <1>8

LEMMA CancelChannelType ==
  ASSUME TypeOK, NEW c \in Channels, CancelChannel(c)
  PROVE  /\ activeTasks' \in [Channels -> Tasks \cup {None}]
         /\ turnQueues' \in [Channels -> Deques \cup {None}]
         /\ items' \in [Deques -> Seq(Turns)]
         /\ workCount' \in Nat
         /\ fate' \in [Turns -> Fates]
         /\ cancelled' \subseteq Tasks
         /\ stopChannels' \subseteq Channels
<1>1. CASE HasWorker(c) /\ Detach({c})
  BY <1>1, DetachType
<1>2. CASE ~HasWorker(c)
  BY <1>2 DEF CancelChannel, TypeOK
<1> QED
  BY <1>1, <1>2 DEF CancelChannel

LEMMA TaskInvRest ==
  ASSUME TaskInv,
         \/ \E c \in Channels : StopTurn(c) \/ SlashStop(c)
         \/ EndStopTurn \/ BeginShutdown \/ Shutdown
  PROVE  TaskInv'
<1> USE DEF semVars, stopVars, downVars, taskVars, queueVars
<1> TypeOK
  BY DEF TaskInv
<1>1. ASSUME NEW c \in Channels, StopTurn(c) PROVE TaskInv'
  <2>1. CASE c \in GlobalStops /\ CancelAll
    <3> DEFINE D == {d \in Channels : HasWorker(d)}
    <3>1. D \subseteq Channels /\ \A d \in D : HasWorker(d)
      OBVIOUS
    <3>2. Detach(D)
      BY <2>1 DEF CancelAll
    <3> HIDE DEF D
    <3> QED
      BY <1>1, <3>1, <3>2, DetachType DEF StopTurn, TaskInv, TypeOK
  <2>2. CASE CancelChannel(c)
    BY <1>1, <2>2, CancelChannelType DEF StopTurn, TaskInv, TypeOK
  <2> QED
    BY <1>1, <2>1, <2>2 DEF StopTurn
<1>2. ASSUME NEW c \in Channels, SlashStop(c) PROVE TaskInv'
  BY <1>2, CancelChannelType DEF SlashStop, TaskInv, TypeOK
<1>3. CASE EndStopTurn
  BY <1>3 DEF EndStopTurn, TaskInv, TypeOK
<1>4. CASE BeginShutdown
  BY <1>4 DEF BeginShutdown, TaskInv, TypeOK
<1>5. CASE DrainStart
  BY <1>5 DEF DrainStart, MappedLive, HasWorker, TaskInv, TypeOK
<1>6. CASE DrainSettled
  BY <1>6 DEF DrainSettled, PruneDone, TaskInv, TypeOK
<1>7. CASE DrainTimeout
  BY <1>7 DEF DrainTimeout, TaskInv, TypeOK
<1>8. CASE CancelWaitOver
  BY <1>8 DEF CancelWaitOver, PruneDone, TaskInv, TypeOK
<1>9. CASE FlushStores
  BY <1>9 DEF FlushStores, TaskInv, TypeOK
<1> QED
  BY <1>1, <1>2, <1>3, <1>4, <1>5, <1>6, <1>7, <1>8, <1>9 DEF Shutdown

(* A step of Next is a step of one of the three groups above.              *)
LEMMA NextCases ==
  ASSUME Next
  PROVE  \/ \E c \in Channels, t \in Turns : QueueTurn(c, t) \/ RefuseTurn(c, t)
         \/ \E w \in Tasks : Worker(w)
         \/ \/ \E c \in Channels : StopTurn(c) \/ SlashStop(c)
            \/ EndStopTurn \/ BeginShutdown \/ Shutdown
<1>1. ASSUME NEW c \in Channels, Arriving # {},
             LET t == CHOOSE x \in Arriving : TRUE IN QueueTurn(c, t) \/ RefuseTurn(c, t)
      PROVE  \E t \in Turns : QueueTurn(c, t) \/ RefuseTurn(c, t)
  <2> DEFINE t == CHOOSE x \in Arriving : TRUE
  <2>1. t \in Turns
    BY <1>1 DEF Arriving
  <2>2. QueueTurn(c, t) \/ RefuseTurn(c, t)
    BY <1>1
  <2> HIDE DEF t
  <2> QED
    BY <2>1, <2>2
<1> QED
  BY <1>1, ChannelAssumption DEF Next, Ingress

(* Every state the runtime reaches is well typed, whatever the number of   *)
(* channels and tasks and however the steps of _run_channel_turns, its     *)
(* done callback, _cancel_channel and shutdown() interleave.               *)
THEOREM TypeCorrect == Spec => []TypeOK
<1>1. Init => TaskInv
  BY TaskInvInit
<1>2. TaskInv /\ [Next]_vars => TaskInv'
  <2>1. CASE UNCHANGED vars
    BY <2>1 DEF vars, semVars, stopVars, downVars, taskVars, queueVars, TaskInv, TypeOK
  <2>2. CASE Next
    BY <2>2, NextCases, TaskInvIngress, TaskInvWorker, TaskInvRest
  <2> QED
    BY <2>1, <2>2
<1>3. TaskInv => TypeOK
  BY DEF TaskInv
<1> QED
  BY <1>1, <1>2, <1>3, PTL DEF Spec

-----------------------------------------------------------------------------
(* The semaphore.  A task holds a slot exactly from the moment acquire()   *)
(* returns until release_slot(), called on delivery or in the finally.     *)
SlotInv ==
    /\ SlotConservation
    /\ \A w \in Tasks : pc[w] = "handling" => w \in holders

LEMMA FiniteHolders ==
  ASSUME TypeOK, NEW h \in SUBSET Tasks
  PROVE  IsFiniteSet(h) /\ Cardinality(h) \in Nat
  BY FS_Subset, FS_CardinalityType, FiniteAssumption

LEMMA SlotTaken ==
  ASSUME NEW s \in Nat, NEW h \in SUBSET Tasks, NEW w \in Tasks, w \notin h, TypeOK,
         s + Cardinality(h) = MaxConcurrentTurns
  PROVE  (s - 1) + Cardinality(h \cup {w}) = MaxConcurrentTurns
<1>1. Cardinality(h \cup {w}) = Cardinality(h) + 1 /\ Cardinality(h) \in Nat
  BY FiniteHolders, FS_AddElement
<1> QED
  BY <1>1, BoundsAssumption

LEMMA SlotGiven ==
  ASSUME TypeOK, NEW w \in Tasks, SlotConservation
  PROVE  SlotsReleased(w) + Cardinality(holders \ {w}) = MaxConcurrentTurns
<1>1. CASE w \in holders
  <2>1. Cardinality(holders \ {w}) = Cardinality(holders) - 1
    BY <1>1, FiniteHolders, FS_RemoveElement DEF TypeOK
  <2>2. Cardinality(holders) \in Nat /\ slots \in Nat
    BY FiniteHolders DEF TypeOK
  <2> QED
    BY <1>1, <2>1, <2>2, BoundsAssumption DEF SlotConservation, SlotsReleased
<1>2. CASE w \notin holders
  <2>1. holders \ {w} = holders
    BY <1>2
  <2> QED
    BY <1>2, <2>1 DEF SlotConservation, SlotsReleased
<1> QED
  BY <1>1, <1>2

LEMMA SlotTakeTurn ==
  ASSUME TypeOK, NEW w \in Tasks, NEW q, NEW s \in Nat, NEW h \in SUBSET Tasks, NEW n, NEW f,
         w \notin h, s + Cardinality(h) = MaxConcurrentTurns,
         \A v \in h : pc[v] \in {"handling", "cleanup"},
         \A v \in Tasks \ {w} : pc[v] = "handling" => v \in h,
         TakeTurn(w, q, s, h, n, f)
  PROVE  SlotInv'
<1>1. CASE s > 0 /\ pc' = [pc EXCEPT ![w] = "handling"] /\ slots' = s - 1 /\ holders' = h \cup {w}
  <2>1. slots' + Cardinality(holders') = MaxConcurrentTurns
    BY <1>1, SlotTaken
  <2> QED
    BY <1>1, <2>1 DEF SlotInv, SlotConservation, TypeOK
<1>2. CASE pc' = [pc EXCEPT ![w] = "acquiring"] /\ slots' = s /\ holders' = h
  BY <1>2 DEF SlotInv, SlotConservation, TypeOK
<1> QED
  BY <1>1, <1>2 DEF TakeTurn

LEMMA SlotExitLoop ==
  ASSUME TypeOK, NEW w \in Tasks, NEW q, NEW s \in Nat, NEW h \in SUBSET Tasks, NEW n, NEW f,
         w \notin h, s + Cardinality(h) = MaxConcurrentTurns,
         \A v \in h : pc[v] \in {"handling", "cleanup"},
         \A v \in Tasks \ {w} : pc[v] = "handling" => v \in h,
         ExitLoop(w, q, s, h, n, f)
  PROVE  SlotInv'
  BY DEF ExitLoop, SlotInv, SlotConservation, TypeOK

LEMMA SlotWorker ==
  ASSUME TypeOK, SlotInv, NEW w \in Tasks, Worker(w)
  PROVE  SlotInv'
<1> USE DEF semVars, queueVars
<1>0. slots \in Nat /\ holders \in SUBSET Tasks /\ holders \ {w} \in SUBSET Tasks
  BY DEF TypeOK
<1>1. CASE StartWorker(w)
  <2>1. w \notin holders
    BY <1>1 DEF StartWorker, SlotInv, SlotConservation
  <2> QED
    BY <1>0, <1>1, <2>1, SlotTakeTurn, SlotExitLoop DEF StartWorker, SlotInv, SlotConservation
<1>2. CASE CancelBeforeStart(w)
  BY <1>2 DEF CancelBeforeStart, SlotInv, SlotConservation, TypeOK
<1>3. CASE AcquireSlot(w)
  <2>1. w \notin holders
    BY <1>3 DEF AcquireSlot, SlotInv, SlotConservation
  <2>2. CASE pc' = [pc EXCEPT ![w] = "handling"] /\ slots' = slots - 1 /\ holders' = holders \cup {w}
    <3>1. slots' + Cardinality(holders') = MaxConcurrentTurns
      BY <1>0, <2>1, <2>2, SlotTaken DEF SlotInv, SlotConservation
    <3> QED
      BY <2>2, <3>1 DEF SlotInv, SlotConservation, TypeOK
  <2>3. CASE ExitLoop(w, queue[w], slots, holders, TurnOver, [fate EXCEPT ![env[w]] = "cancelled"])
    BY <1>0, <2>1, <2>3, SlotExitLoop DEF SlotInv, SlotConservation
  <2> QED
    BY <1>3, <2>2, <2>3 DEF AcquireSlot
<1>4. CASE CancelAcquire(w)
  <2>1. w \notin holders
    BY <1>4 DEF CancelAcquire, SlotInv, SlotConservation
  <2> QED
    BY <1>0, <1>4, <2>1, SlotExitLoop DEF CancelAcquire, SlotInv, SlotConservation
<1>5. CASE DeliverReply(w)
  <2>1. SlotsReleased(w) = slots + 1
    BY <1>5 DEF DeliverReply, SlotsReleased, SlotInv
  <2> QED
    BY <1>5, <2>1, SlotGiven DEF DeliverReply, SlotInv, SlotConservation, TypeOK
<1>6. CASE FinishInner(w)
  BY <1>6 DEF FinishInner, SlotInv, SlotConservation, TypeOK
<1>7. CASE FinishTurn(w)
  <2> DEFINE f == [fate EXCEPT ![env[w]] = IF w \in cancelled THEN "cancelled" ELSE "handled"]
  <2>1. \/ TakeTurn(w, queue[w], SlotsReleased(w), holders \ {w}, TurnOver, f)
        \/ ExitLoop(w, queue[w], SlotsReleased(w), holders \ {w}, TurnOver, f)
    BY <1>7 DEF FinishTurn
  <2>2. SlotsReleased(w) \in Nat /\ w \notin holders \ {w}
        /\ SlotsReleased(w) + Cardinality(holders \ {w}) = MaxConcurrentTurns
    BY <1>0, SlotGiven DEF SlotsReleased, SlotInv
  <2>3. /\ \A v \in holders \ {w} : pc[v] \in {"handling", "cleanup"}
        /\ \A v \in Tasks \ {w} : pc[v] = "handling" => v \in holders \ {w}
    BY DEF SlotInv, SlotConservation
  <2> DEFINE s == SlotsReleased(w)
             h == holders \ {w}
  <2> HIDE DEF f, s
  <2>4. CASE TakeTurn(w, queue[w], s, h, TurnOver, f)
    BY <1>0, <2>2, <2>3, <2>4, SlotTakeTurn DEF s
  <2>5. CASE ExitLoop(w, queue[w], s, h, TurnOver, f)
    BY <1>0, <2>2, <2>3, <2>5, SlotExitLoop DEF s
  <2> QED
    BY <2>1, <2>4, <2>5 DEF s
<1>8. CASE TaskFinished(w)
  BY <1>8 DEF TaskFinished, SlotInv, SlotConservation, TypeOK
<1> QED
  BY <1>1, <1>2, <1>3, <1>4, <1>5, <1>6, <1>7, <1>8 DEF Worker

LEMMA SlotOther ==
  ASSUME TypeOK, SlotInv,
         \/ \E c \in Channels, t \in Turns : QueueTurn(c, t) \/ RefuseTurn(c, t)
         \/ \E c \in Channels : StopTurn(c) \/ SlashStop(c)
         \/ EndStopTurn \/ BeginShutdown \/ Shutdown
  PROVE  SlotInv'
<1> USE DEF semVars, taskVars
<1>1. UNCHANGED <<slots, holders>>
  BY DEF QueueTurn, RefuseTurn, StopTurn, SlashStop, EndStopTurn, BeginShutdown, Shutdown,
         DrainStart, DrainSettled, DrainTimeout, CancelWaitOver, FlushStores
<1>2. \A v \in Tasks : pc'[v] # pc[v] => pc'[v] = "created" /\ pc[v] = "none"
  <2>1. ASSUME NEW c \in Channels, NEW t \in Turns, QueueTurn(c, t), ~HasWorker(c)
        PROVE  \A v \in Tasks : pc'[v] # pc[v] => pc'[v] = "created" /\ pc[v] = "none"
    <3> DEFINE w == CHOOSE x \in FreeTasks : TRUE
    <3>1. w \in FreeTasks /\ pc' = [pc EXCEPT ![w] = "created"]
      BY <2>1 DEF QueueTurn
    <3> HIDE DEF w
    <3> QED
      BY <3>1 DEF FreeTasks, TypeOK
  <2>2. ASSUME NEW c \in Channels, NEW t \in Turns, QueueTurn(c, t), HasWorker(c)
        PROVE  UNCHANGED pc
    BY <2>2 DEF QueueTurn
  <2> QED
    BY <2>1, <2>2 DEF RefuseTurn, StopTurn, SlashStop, EndStopTurn, BeginShutdown, Shutdown,
         DrainStart, DrainSettled, DrainTimeout, CancelWaitOver, FlushStores
<1> QED
  BY <1>1, <1>2 DEF SlotInv, SlotConservation, TypeOK

(* However turns end, are cancelled, or release their slot early, no slot  *)
(* of _turn_semaphore is lost and none is released twice: the cap on       *)
(* concurrent turns stays max_concurrent_turns for ever.                   *)
THEOREM SlotsConserved == Spec => []SlotConservation
<1>1. Init => SlotInv
  <2>1. SUFFICES ASSUME Init PROVE SlotInv
    OBVIOUS
  <2>2. Cardinality({}) = 0
    BY FS_EmptySet
  <2> QED
    BY <2>1, <2>2, BoundsAssumption DEF Init, SlotInv, SlotConservation
<1>2. TypeOK /\ SlotInv /\ [Next]_vars => SlotInv'
  <2>1. CASE UNCHANGED vars
    BY <2>1 DEF vars, semVars, taskVars, SlotInv, SlotConservation
  <2>2. CASE Next
    BY <2>2, NextCases, SlotWorker, SlotOther
  <2> QED
    BY <2>1, <2>2
<1>3. SlotInv => SlotConservation
  BY DEF SlotInv
<1> QED
  BY <1>1, <1>2, <1>3, TypeCorrect, PTL DEF Spec

-----------------------------------------------------------------------------
(* Ownership.  The map points to a task that exists and works for that     *)
(* channel, and a task that runs uncancelled is the one the map points to. *)
OwnerInv ==
    /\ OneOwner
    /\ \A c \in Channels : activeTasks[c] # None =>
          pc[activeTasks[c]] # "none" /\ chan[activeTasks[c]] = c

LEMMA OwnerQueueTurn ==
  ASSUME TaskInv, OwnerInv, NEW c \in Channels, NEW t \in Turns, QueueTurn(c, t)
  PROVE  OwnerInv'
<1> USE DEF TaskInv
<1>1. cancelled' = cancelled
  BY DEF QueueTurn
<1>2. CASE HasWorker(c)
  BY <1>1, <1>2 DEF QueueTurn, OwnerInv, OneOwner, Alive, Live, TypeOK
<1>3. CASE ~HasWorker(c)
  <2> DEFINE w == CHOOSE x \in FreeTasks : TRUE
  <2>1. /\ w \in FreeTasks
        /\ activeTasks' = [activeTasks EXCEPT ![c] = w]
        /\ pc' = [pc EXCEPT ![w] = "created"] /\ chan' = [chan EXCEPT ![w] = c]
    BY <1>3 DEF QueueTurn
  <2> HIDE DEF w
  <2>2. w \in Tasks /\ pc[w] = "none"
    BY <2>1 DEF FreeTasks
  <2>3. \A d \in Channels : activeTasks[d] # w
    BY <2>2, NoneAssumption DEF OwnerInv
  <2>4. ASSUME NEW v \in (Alive \ cancelled)' PROVE activeTasks'[chan'[v]] = v
    <3>1. CASE v = w
      BY <2>1, <2>2, <3>1 DEF TypeOK
    <3>2. CASE v # w
      <4>1. v \in Alive \ cancelled /\ chan'[v] = chan[v] /\ chan[v] \in Channels /\ v \in Tasks
        BY <1>1, <2>1, <2>2, <2>4, <3>2 DEF Alive, Live, TypeOK
      <4>2. activeTasks[chan[v]] = v /\ Live(v)
        BY <4>1 DEF OwnerInv, OneOwner, Alive
      <4>3. chan[v] # c
        BY <1>3, <4>1, <4>2, NoneAssumption DEF HasWorker
      <4> QED
        BY <2>1, <4>1, <4>2, <4>3 DEF TypeOK
    <3> QED
      BY <3>1, <3>2
  <2>5. ASSUME NEW d \in Channels, activeTasks'[d] # None
        PROVE  pc'[activeTasks'[d]] # "none" /\ chan'[activeTasks'[d]] = d
    <3>1. CASE d = c
      BY <2>1, <2>2, <3>1 DEF TypeOK
    <3>2. CASE d # c
      BY <2>1, <2>2, <2>3, <2>5, <3>2 DEF OwnerInv, TypeOK
    <3> QED
      BY <3>1, <3>2
  <2> QED
    BY <2>4, <2>5 DEF OwnerInv, OneOwner
<1> QED
  BY <1>2, <1>3

(* The steps of a worker but its callback leave the maps alone.            *)
LEMMA OwnerRun ==
  ASSUME TaskInv, OwnerInv, NEW w \in Tasks, Worker(w), ~TaskFinished(w)
  PROVE  OwnerInv'
<1> USE DEF queueVars
<1>1. UNCHANGED <<activeTasks, chan, cancelled>>
  BY DEF Worker, StartWorker, CancelBeforeStart, AcquireSlot, CancelAcquire,
         DeliverReply, FinishInner, FinishTurn
<1>2. Live(w) /\ \E p \in Places \ {"none"} : pc' = [pc EXCEPT ![w] = p]
  BY DEF Worker, StartWorker, CancelBeforeStart, AcquireSlot, CancelAcquire,
         DeliverReply, FinishInner, FinishTurn, TakeTurn, ExitLoop, Live, Places, InTurn
<1>3. PICK p \in Places \ {"none"} : pc' = [pc EXCEPT ![w] = p]
  BY <1>2
<1>4. \A v \in Tasks : Live(v)' => Live(v)
  BY <1>2, <1>3 DEF Live, TaskInv, TypeOK
<1>5. OneOwner'
  BY <1>1, <1>4 DEF OwnerInv, OneOwner, Alive
<1>6. \A v \in Tasks : pc[v] # "none" => pc'[v] # "none"
  BY <1>3 DEF TaskInv, TypeOK
<1> QED
  BY <1>1, <1>5, <1>6 DEF OwnerInv, TaskInv, TypeOK

LEMMA OwnerFinished ==
  ASSUME TaskInv, OwnerInv, NEW w \in Tasks, TaskFinished(w)
  PROVE  OwnerInv'
<1> USE DEF TaskInv, queueVars
<1>1. /\ pc[w] = "done" /\ pc' = [pc EXCEPT ![w] = "none"]
      /\ chan' = [chan EXCEPT ![w] = None] /\ cancelled' = cancelled \ {w}
  BY DEF TaskFinished
<1>2. \/ activeTasks[chan[w]] = w /\ activeTasks' = [activeTasks EXCEPT ![chan[w]] = None]
      \/ activeTasks[chan[w]] # w /\ activeTasks' = activeTasks
  BY DEF TaskFinished, Mapped
<1>3. chan[w] \in Channels
  BY <1>1
<1>4. ASSUME NEW v \in (Alive \ cancelled)' PROVE activeTasks'[chan'[v]] = v
  <2>1. v \in Tasks /\ v # w /\ v \in Alive \ cancelled /\ chan'[v] = chan[v] /\ chan[v] \in Channels
    BY <1>1, <1>4 DEF Alive, Live, TypeOK
  <2>2. activeTasks[chan[v]] = v
    BY <2>1 DEF OwnerInv, OneOwner
  <2> QED
    BY <1>2, <1>3, <2>1, <2>2 DEF TypeOK
<1>5. ASSUME NEW d \in Channels, activeTasks'[d] # None
      PROVE  pc'[activeTasks'[d]] # "none" /\ chan'[activeTasks'[d]] = d
  <2>1. activeTasks'[d] = activeTasks[d] /\ activeTasks[d] \in Tasks
    BY <1>2, <1>3, <1>5 DEF TypeOK
  <2>2. activeTasks[d] # w
    BY <1>2, <1>3, <1>5, <2>1 DEF OwnerInv, TypeOK
  <2> QED
    BY <1>1, <1>5, <2>1, <2>2 DEF OwnerInv, TypeOK
<1> QED
  BY <1>4, <1>5 DEF OwnerInv, OneOwner

LEMMA OwnerDetach ==
  ASSUME TaskInv, OwnerInv, NEW D \in SUBSET Channels, Detach(D), UNCHANGED <<pc, chan>>
  PROVE  OwnerInv'
<1>1. activeTasks' = [c \in Channels |-> IF c \in D THEN None ELSE activeTasks[c]]
      /\ cancelled' = cancelled \cup {activeTasks[c] : c \in D}
  BY DEF Detach
<1>2. ASSUME NEW v \in (Alive \ cancelled)' PROVE activeTasks'[chan'[v]] = v
  <2>1. v \in Tasks /\ v \in Alive \ cancelled /\ chan[v] \in Channels
    BY <1>1, <1>2 DEF Alive, Live, TaskInv
  <2>2. activeTasks[chan[v]] = v
    BY <2>1 DEF OwnerInv, OneOwner
  <2>3. chan[v] \notin D
    BY <1>1, <1>2, <2>2
  <2> QED
    BY <1>1, <2>1, <2>2, <2>3
<1> QED
  BY <1>1, <1>2 DEF OwnerInv, OneOwner

LEMMA OwnerRest ==
  ASSUME TaskInv, OwnerInv,
         \/ \E c \in Channels, t \in Turns : RefuseTurn(c, t)
         \/ \E c \in Channels : StopTurn(c) \/ SlashStop(c)
         \/ EndStopTurn \/ BeginShutdown \/ Shutdown
  PROVE  OwnerInv'
<1> USE DEF TaskInv, taskVars, queueVars
<1>1. CASE UNCHANGED <<pc, chan, cancelled, activeTasks>>
  BY <1>1 DEF OwnerInv, OneOwner, Alive, Live
<1>2. ASSUME NEW c \in Channels, CancelChannel(c), UNCHANGED <<pc, chan>> PROVE OwnerInv'
  <2>1. CASE Detach({c})
    BY <1>2, <2>1, OwnerDetach
  <2>2. CASE ~HasWorker(c) /\ activeTasks' = [activeTasks EXCEPT ![c] = None] /\ UNCHANGED cancelled
    BY <1>2, <2>2 DEF OwnerInv, OneOwner, Alive, Live, HasWorker, TypeOK
  <2> QED
    BY <1>2, <2>1, <2>2 DEF CancelChannel
<1>3. CASE CancelAll /\ UNCHANGED <<pc, chan>>
  BY <1>3, OwnerDetach DEF CancelAll
<1>4. CASE PruneDone /\ UNCHANGED <<pc, chan, cancelled>>
  BY <1>4 DEF PruneDone, OwnerInv, OneOwner, Alive, Live, HasWorker, TypeOK
<1>5. CASE cancelled \subseteq cancelled' /\ UNCHANGED <<pc, chan, activeTasks>>
  BY <1>5 DEF OwnerInv, OneOwner, Alive, Live
<1> QED
  BY <1>1, <1>2, <1>3, <1>4, <1>5 DEF RefuseTurn, StopTurn, SlashStop, EndStopTurn,
     BeginShutdown, Shutdown, DrainStart, DrainSettled, DrainTimeout, CancelWaitOver, FlushStores

(* A channel never has two uncancelled workers: whatever the order of      *)
(* done callbacks, stops and new turns, the older one was cancelled, and   *)
(* its callback does not remove its replacement from the map.              *)
THEOREM SingleOwner == Spec => []OneOwner
<1>1. Init => TaskInv /\ OwnerInv
  BY TaskInvInit DEF Init, OwnerInv, OneOwner, Alive, Live
<1>2. TaskInv /\ OwnerInv /\ [Next]_vars => TaskInv' /\ OwnerInv'
  <2>1. CASE UNCHANGED vars
    BY <2>1 DEF vars, semVars, stopVars, downVars, taskVars, queueVars, TaskInv, TypeOK,
                OwnerInv, OneOwner, Alive, Live
  <2>2. CASE Next
    BY <2>2, NextCases, TaskInvIngress, TaskInvWorker, TaskInvRest,
       OwnerQueueTurn, OwnerRun, OwnerFinished, OwnerRest
  <2> QED
    BY <2>1, <2>2
<1>3. OwnerInv => OneOwner
  BY DEF OwnerInv
<1> QED
  BY <1>1, <1>2, <1>3, PTL DEF Spec

-----------------------------------------------------------------------------
-----------------------------------------------------------------------------
(* The accounts.  A turn is in one deque at most, or in the hands of one   *)
(* worker; a deque that is not in the map is empty.                        *)
InMap(q) == \E c \in Channels : turnQueues[c] = q
Idle     == {"none", "created", "done"}
Pending  == {t \in Turns : fate[t] \in {"queued", "active"}}
Queued(t) == \E q \in Deques : Has(items[q], t)
Held(t)   == \E w \in Tasks : env[w] = t

HomeInv ==
    /\ \A t \in Turns : fate[t] = "queued" <=> Queued(t)
    /\ \A t \in Turns : fate[t] = "active" <=> Held(t)
    /\ \A q \in Deques : Injective(items[q])
    /\ \A p, q \in Deques, t \in Turns : Has(items[p], t) /\ Has(items[q], t) => p = q
    /\ \A q \in Deques : ~InMap(q) => items[q] = <<>>
    /\ \A v, w \in Tasks : env[v] = env[w] /\ env[v] # None => v = w
    /\ \A w \in Tasks : pc[w] \in Idle => env[w] = None

WorkInv == HomeInv /\ workCount = Cardinality(Pending)

LEMMA ContentsAre ==
  ASSUME TypeOK, NEW q \in Deques
  PROVE  Contents(q) = {t \in Turns : Has(items[q], t)}
<1>1. items[q] \in Seq(Turns) /\ q # None
  BY DEF TypeOK
<1> QED
  BY <1>1 DEF Contents, ToSet, Has

LEMMA PendingFinite == IsFiniteSet(Pending) /\ Cardinality(Pending) \in Nat
<1>1. Pending \subseteq Turns
  BY DEF Pending
<1> QED
  BY <1>1, FS_Subset, FS_CardinalityType, FiniteAssumption

LEMMA FewerPending ==
  ASSUME NEW P, IsFiniteSet(P), NEW G \in SUBSET P
  PROVE  /\ IsFiniteSet(P \ G)
         /\ Cardinality(P \ G) = Monus(Cardinality(P), Cardinality(G))
<1>1. /\ IsFiniteSet(P \ G) /\ IsFiniteSet(G)
      /\ Cardinality(P \ G) = Cardinality(P) - Cardinality(P \cap G)
      /\ Cardinality(P \ G) \in Nat /\ Cardinality(P) \in Nat /\ Cardinality(G) \in Nat
  BY FS_Difference, FS_Subset, FS_CardinalityType
<1>2. P \cap G = G
  OBVIOUS
<1> QED
  BY <1>1, <1>2 DEF Monus

LEMMA OneFewer ==
  ASSUME NEW P, IsFiniteSet(P), NEW t \in P
  PROVE  IsFiniteSet(P \ {t}) /\ Cardinality(P \ {t}) = Monus(Cardinality(P), 1)
<1>1. {t} \in SUBSET P /\ Cardinality({t}) = 1
  BY FS_Singleton
<1> QED
  BY <1>1, FewerPending

(* Turns end: those in the deques Q, and those in the hands of W.          *)
LEMMA HomeEnds ==
  ASSUME TypeOK, HomeInv, NEW Q \in SUBSET Deques, NEW W \in SUBSET Tasks,
         items' = [q \in Deques |-> IF q \in Q THEN <<>> ELSE items[q]],
         \A v \in Tasks : env'[v] = IF v \in W THEN None ELSE env[v],
         \A t \in Turns : (\E q \in Q : Has(items[q], t)) \/ (\E v \in W : env[v] = t) =>
                             fate'[t] \notin {"queued", "active"},
         \A t \in Turns : fate'[t] # fate[t] =>
                             (\E q \in Q : Has(items[q], t)) \/ (\E v \in W : env[v] = t),
         \A q \in Deques : InMap(q) => InMap(q)' \/ q \in Q \/ items[q] = <<>>,
         \A v \in Tasks : pc'[v] \in Idle => v \in W \/ pc[v] \in Idle
  PROVE  HomeInv'
<1>1. /\ \A q \in Q : \A x : ~Has(items[q], x)' /\ Injective(items[q])'
      /\ \A q \in Deques \ Q : items'[q] = items[q]
  BY EmptyHas
<1>2. ASSUME NEW t \in Turns PROVE (fate[t] = "queued" <=> Queued(t))'
  BY <1>1, <1>2 DEF HomeInv, Queued, Held
<1>3. ASSUME NEW t \in Turns PROVE (fate[t] = "active" <=> Held(t))'
  BY <1>1, <1>3 DEF HomeInv, Queued, Held
<1>4. \A q \in Deques : Injective(items[q])'
  BY <1>1 DEF HomeInv
<1>5. \A p, q \in Deques, t \in Turns : Has(items[p], t)' /\ Has(items[q], t)' => p = q
  BY <1>1 DEF HomeInv
<1>6. \A q \in Deques : ~InMap(q)' => items'[q] = <<>>
  BY <1>1 DEF HomeInv
<1>7. \A v, u \in Tasks : env'[v] = env'[u] /\ env'[v] # None => v = u
  BY DEF HomeInv
<1>8. \A v \in Tasks : pc'[v] \in Idle => env'[v] = None
  BY DEF HomeInv
<1> QED
  BY <1>2, <1>3, <1>4, <1>5, <1>6, <1>7, <1>8 DEF HomeInv

LEMMA WorkExit ==
  ASSUME TaskInv, WorkInv, NEW w \in Tasks, NEW q \in Deques, NEW s, NEW h, NEW n, NEW f,
         pc[w] # "none",
         ExitLoop(w, q, s, h, n, f), f \in [Turns -> Fates],
         \/ env[w] = None /\ n = workCount /\ f = fate
         \/ /\ env[w] # None /\ n = TurnOver
            /\ \A t \in Turns : t # env[w] => f[t] = fate[t]
            /\ f[env[w]] \in {"cancelled", "handled"}
  PROVE  WorkInv'
<1> TypeOK /\ HomeInv /\ workCount = Cardinality(Pending)
  BY DEF TaskInv, WorkInv
<1>1. /\ items' = [p \in Deques |-> IF p \in {q} THEN <<>> ELSE items[p]]
      /\ \A v \in Tasks : env'[v] = IF v \in {w} THEN None ELSE env[v]
      /\ \A v \in Tasks : pc'[v] = IF v = w THEN "done" ELSE pc[v]
      /\ \A t \in Turns : fate'[t] = IF t \in Contents(q) THEN "cancelled" ELSE f[t]
      /\ workCount' = Monus(n, Size(q))
      /\ turnQueues' = turnQueues \/ turnQueues' = [turnQueues EXCEPT ![chan[w]] = None]
      /\ turnQueues' # turnQueues => turnQueues[chan[w]] = q
  BY DEF ExitLoop, TypeOK
<1>2. Contents(q) = {t \in Turns : Has(items[q], t)}
  BY ContentsAre
<1>3. env[w] = None \/ env[w] \in Turns
  BY DEF TypeOK
<1>4. \A p \in Deques : InMap(p) => InMap(p)' \/ p \in {q}
  BY <1>1 DEF InMap, TypeOK
<1>5. HomeInv'
  <2>1. \A t \in Turns : (\E p \in {q} : Has(items[p], t)) \/ (\E v \in {w} : env[v] = t) =>
                            fate'[t] \notin {"queued", "active"}
    BY <1>1, <1>2, <1>3
  <2>2. \A t \in Turns : fate'[t] # fate[t] =>
                            (\E p \in {q} : Has(items[p], t)) \/ (\E v \in {w} : env[v] = t)
    BY <1>1, <1>2, <1>3
  <2>3. \A v \in Tasks : pc'[v] \in Idle => v \in {w} \/ pc[v] \in Idle
    BY <1>1
  <2>4. {q} \in SUBSET Deques /\ {w} \in SUBSET Tasks
    OBVIOUS
  <2> QED
    BY <1>1, <1>4, <2>1, <2>2, <2>3, <2>4, HomeEnds
<1>6. Contents(q) \subseteq Pending /\ \A t \in Contents(q) : t # env[w]
  BY <1>2 DEF HomeInv, Pending, Queued, Held
<1>7. CASE env[w] = None
  <2>1. Pending' = Pending \ Contents(q)
    BY <1>1, <1>2, <1>7, <1>6 DEF Pending
  <2> QED
    BY <1>1, <1>5, <1>6, <1>7, <2>1, FewerPending, PendingFinite DEF WorkInv, Size
<1>8. CASE env[w] # None
  <2>1. env[w] \in Pending
    BY <1>3, <1>8 DEF HomeInv, Pending, Held
  <2>2. Pending' = (Pending \ {env[w]}) \ Contents(q)
    BY <1>1, <1>2, <1>3, <1>6, <1>8 DEF Pending
  <2>3. Contents(q) \subseteq Pending \ {env[w]}
    BY <1>6
  <2>4. n = Cardinality(Pending \ {env[w]}) /\ IsFiniteSet(Pending \ {env[w]})
    BY <1>8, <2>1, OneFewer, PendingFinite DEF TurnOver
  <2>5. Cardinality(Pending') = Monus(n, Cardinality(Contents(q)))
    BY <2>2, <2>3, <2>4, FewerPending
  <2> QED
    BY <1>1, <1>5, <2>5 DEF WorkInv, Size
<1> QED
  BY <1>7, <1>8

LEMMA WorkTake ==
  ASSUME TaskInv, WorkInv, NEW w \in Tasks, NEW q \in Deques, NEW s, NEW h, NEW n, NEW f,
         items[q] # <<>>, turnQueues' = turnQueues,
         TakeTurn(w, q, s, h, n, f), f \in [Turns -> Fates],
         \/ env[w] = None /\ n = workCount /\ f = fate
         \/ /\ env[w] # None /\ n = TurnOver
            /\ \A t \in Turns : t # env[w] => f[t] = fate[t]
            /\ f[env[w]] \in {"cancelled", "handled"}
  PROVE  WorkInv'
<1> TypeOK /\ HomeInv /\ workCount = Cardinality(Pending)
  BY DEF TaskInv, WorkInv
<1>0. PICK t0, e : t0 = Head(items[q]) /\ e = env[w]
  OBVIOUS
<1>1. /\ items'[q] = Tail(items[q]) /\ \A p \in Deques : p # q => items'[p] = items[p]
      /\ \A v \in Tasks : env'[v] = IF v = w THEN t0 ELSE env[v]
      /\ \A v \in Tasks : v # w => pc'[v] = pc[v]
      /\ pc'[w] \in {"handling", "acquiring"}
      /\ workCount' = n
      /\ items[q] \in Seq(Turns)
  BY <1>0 DEF TakeTurn, TypeOK
<1>2. /\ t0 \in Turns /\ Has(items[q], t0)
      /\ \A x : Has(items[q], x)' <=> Has(items[q], x) /\ x # t0
      /\ Injective(items[q])'
  BY <1>0, <1>1, TailHas DEF HomeInv
<1>3. fate' = [f EXCEPT ![t0] = "active"]
  BY <1>0 DEF TakeTurn
<1>4. \A t \in Turns : fate'[t] = IF t = t0 THEN "active" ELSE f[t]
  BY <1>2, <1>3
<1>5. (e = None \/ e \in Turns) /\ env[w] = e
  BY <1>0 DEF TypeOK
<1>6. fate[t0] = "queued" /\ ~Held(t0) /\ \A p \in Deques : p # q => ~Has(items[p], t0)
  BY <1>2 DEF HomeInv, Queued
<1>7. e # t0 /\ \A v \in Tasks : v # w /\ e # None => env[v] # e
  BY <1>5, <1>6 DEF HomeInv, Held
<1>8. e # None => fate[e] = "active" /\ ~Queued(e)
  BY <1>5 DEF HomeInv, Held
<1>9. \A t \in Turns : (fate[t] = "queued" <=> Queued(t))'
  <2>1. \A t \in Turns : t # t0 => (Queued(t)' <=> Queued(t))
    BY <1>1, <1>2 DEF Queued
  <2>2. ~Queued(t0)'
    BY <1>1, <1>2, <1>6 DEF Queued
  <2>3. \A t \in Turns : t # t0 => (fate'[t] = "queued" <=> fate[t] = "queued")
    BY <1>4, <1>5, <1>8
  <2> QED
    BY <1>4, <2>1, <2>2, <2>3 DEF HomeInv
<1>10. \A t \in Turns : (fate[t] = "active" <=> Held(t))'
  <2>1. Held(t0)'
    BY <1>1 DEF Held
  <2>2. \A t \in Turns : t # t0 /\ t # e => (Held(t)' <=> Held(t))
    BY <1>1, <1>5 DEF Held
  <2>3. e # None => ~Held(e)'
    BY <1>1, <1>5, <1>7 DEF Held
  <2>4. \A t \in Turns : t # t0 /\ t # e => fate'[t] = fate[t]
    BY <1>4, <1>5
  <2>5. e # None => fate'[e] # "active"
    BY <1>4, <1>5, <1>7
  <2> QED
    BY <1>4, <2>1, <2>2, <2>3, <2>4, <2>5 DEF HomeInv
<1>11. \A p \in Deques : Injective(items[p])'
  BY <1>1, <1>2 DEF HomeInv
<1>12. \A p, r \in Deques, t \in Turns : Has(items[p], t)' /\ Has(items[r], t)' => p = r
  BY <1>1, <1>2 DEF HomeInv
<1>13. \A p \in Deques : ~InMap(p)' => items'[p] = <<>>
  BY <1>1 DEF HomeInv, InMap
<1>14. \A v, u \in Tasks : env'[v] = env'[u] /\ env'[v] # None => v = u
  BY <1>1, <1>6 DEF HomeInv, Held
<1>15. \A v \in Tasks : pc'[v] \in Idle => env'[v] = None
  BY <1>1 DEF HomeInv, Idle
<1>16. HomeInv'
  BY <1>9, <1>10, <1>11, <1>12, <1>13, <1>14, <1>15 DEF HomeInv
<1>17. t0 \in Pending
  BY <1>2, <1>6 DEF Pending
<1>18. CASE e = None
  <2>1. Pending' = Pending
    BY <1>4, <1>5, <1>6, <1>18 DEF Pending
  <2> QED
    BY <1>1, <1>5, <1>16, <1>18, <2>1 DEF WorkInv
<1>19. CASE e # None
  <2>1. e \in Pending
    BY <1>5, <1>8, <1>19 DEF Pending
  <2>2. Pending' = Pending \ {e}
    BY <1>4, <1>5, <1>6, <1>7, <1>19 DEF Pending
  <2> QED
    BY <1>1, <1>5, <1>16, <1>19, <2>1, <2>2, OneFewer, PendingFinite DEF WorkInv, TurnOver
<1> QED
  BY <1>18, <1>19

(* Whole deques are emptied, and taken out of the map.                     *)
LEMMA WorkDropped ==
  ASSUME TaskInv, WorkInv, NEW C \in SUBSET Channels, NEW o \in {"cancelled", "lost"},
         NEW gone, gone = UNION {Contents(turnQueues[c]) : c \in C},
         items' = [q \in Deques |-> IF \E c \in C : turnQueues[c] = q THEN <<>> ELSE items[q]],
         turnQueues' = [c \in Channels |-> IF c \in C THEN None ELSE turnQueues[c]],
         fate' = [t \in Turns |-> IF t \in gone THEN o ELSE fate[t]],
         workCount' = Monus(workCount, Cardinality(gone)),
         UNCHANGED env,
         \A v \in Tasks : pc'[v] \in Idle => pc[v] \in Idle
  PROVE  WorkInv'
<1> TypeOK /\ HomeInv /\ workCount = Cardinality(Pending)
  BY DEF TaskInv, WorkInv
<1>1. PICK Q : Q = {q \in Deques : \E c \in C : turnQueues[c] = q}
  OBVIOUS
<1>2. \A t : t \in gone <=> t \in Turns /\ \E q \in Q : Has(items[q], t)
  <2>1. ASSUME NEW c \in C
        PROVE  Contents(turnQueues[c]) =
                  {t \in Turns : turnQueues[c] \in Deques /\ Has(items[turnQueues[c]], t)}
    <3>1. CASE turnQueues[c] = None
      BY <3>1 DEF Contents, TypeOK
    <3>2. CASE turnQueues[c] \in Deques
      BY <3>2, ContentsAre
    <3> QED
      BY <3>1, <3>2 DEF TypeOK
  <2>2. \A t : t \in gone <=> \E c \in C : t \in Contents(turnQueues[c])
    OBVIOUS
  <2> QED
    BY <1>1, <2>1, <2>2
<1>3. HomeInv'
  <2>1. items' = [q \in Deques |-> IF q \in Q THEN <<>> ELSE items[q]]
    BY <1>1
  <2>2. \A q \in Deques : InMap(q) => InMap(q)' \/ q \in Q \/ items[q] = <<>>
    BY <1>1 DEF InMap
  <2>3. /\ \A t \in Turns : (\E q \in Q : Has(items[q], t)) => fate'[t] \notin {"queued", "active"}
        /\ \A t \in Turns : fate'[t] # fate[t] => \E q \in Q : Has(items[q], t)
    BY <1>2
  <2>0. PICK W : W = {}
    OBVIOUS
  <2>4. Q \in SUBSET Deques /\ W \in SUBSET Tasks
    BY <1>1, <2>0
  <2>5. /\ \A v \in Tasks : env'[v] = IF v \in W THEN None ELSE env[v]
        /\ \A t \in Turns : (\E q \in Q : Has(items[q], t)) \/ (\E v \in W : env[v] = t) =>
                             fate'[t] \notin {"queued", "active"}
        /\ \A t \in Turns : fate'[t] # fate[t] =>
                             (\E q \in Q : Has(items[q], t)) \/ (\E v \in W : env[v] = t)
        /\ \A v \in Tasks : pc'[v] \in Idle => v \in W \/ pc[v] \in Idle
    BY <2>0, <2>3
  <2> QED
    BY <2>1, <2>2, <2>4, <2>5, HomeEnds, ZenonT(60)
<1>4. gone \subseteq Pending
  BY <1>1, <1>2 DEF HomeInv, Pending, Queued
<1>5. Pending' = Pending \ gone
  BY <1>4 DEF Pending
<1>6. Cardinality(Pending') = Monus(workCount, Cardinality(gone))
  BY <1>4, <1>5, FewerPending, PendingFinite
<1> QED
  BY <1>3, <1>6 DEF WorkInv

LEMMA HomeStays ==
  ASSUME TypeOK, WorkInv, UNCHANGED <<items, fate, workCount, env>>,
         \A q \in Deques : InMap(q) => InMap(q)' \/ items[q] = <<>>,
         \A v \in Tasks : pc'[v] \in Idle => pc[v] \in Idle
  PROVE  WorkInv'
  BY DEF WorkInv, HomeInv, Pending, Queued, Held

LEMMA WorkWorker ==
  ASSUME TaskInv, WorkInv, NEW w \in Tasks, Worker(w)
  PROVE  WorkInv'
<1> USE DEF semVars, stopVars, downVars, taskVars, queueVars
<1> TypeOK /\ HomeInv
  BY DEF TaskInv, WorkInv
<1>0. fate \in [Turns -> Fates]
  BY DEF TypeOK
<1>1. CASE StartWorker(w)
  <2>1. pc[w] = "created" /\ env[w] = None /\ turnQueues[chan[w]] \in Deques
    BY <1>1 DEF StartWorker, HomeInv, Idle, TaskInv, TypeOK
  <2> DEFINE q == turnQueues[chan[w]]
  <2>2. \/ /\ items[q] # <<>> /\ UNCHANGED turnQueues
           /\ TakeTurn(w, q, slots, holders, workCount, fate)
        \/ ExitLoop(w, q, slots, holders, workCount, fate)
    BY <1>1 DEF StartWorker
  <2> HIDE DEF q
  <2>3. q \in Deques
    BY <2>1 DEF q
  <2> QED
    BY <1>0, <2>1, <2>2, <2>3, WorkTake, WorkExit
<1>2. CASE CancelBeforeStart(w)
  <2>1. /\ UNCHANGED <<items, fate, workCount, env, turnQueues>>
        /\ \A v \in Tasks : pc'[v] \in Idle => pc[v] \in Idle
    BY <1>2 DEF CancelBeforeStart, TypeOK, Idle
  <2> QED
    BY <2>1, HomeStays DEF InMap
<1>3. CASE AcquireSlot(w)
  <2>1. CASE pc' = [pc EXCEPT ![w] = "handling"] /\ UNCHANGED <<turnQueues, items, env, workCount, fate>>
    <3>1. \A v \in Tasks : pc'[v] \in Idle => pc[v] \in Idle
      BY <2>1 DEF TypeOK, Idle
    <3> QED
      BY <2>1, <3>1, HomeStays DEF InMap
  <2>2. CASE ExitLoop(w, queue[w], slots, holders, TurnOver, [fate EXCEPT ![env[w]] = "cancelled"])
    <3>1. pc[w] = "acquiring" /\ queue[w] \in Deques /\ env[w] \in Turns
      BY <1>3 DEF AcquireSlot, TaskInv
    <3> DEFINE f == [fate EXCEPT ![env[w]] = "cancelled"]
    <3>2. /\ f \in [Turns -> Fates] /\ f[env[w]] = "cancelled"
          /\ \A t \in Turns : t # env[w] => f[t] = fate[t]
      BY <1>0, <3>1 DEF Fates
    <3> HIDE DEF f
    <3>3. ExitLoop(w, queue[w], slots, holders, TurnOver, f)
      BY <2>2 DEF f
    <3> QED
      BY <3>1, <3>2, <3>3, WorkExit
  <2> QED
    BY <1>3, <2>1, <2>2 DEF AcquireSlot
<1>4. CASE CancelAcquire(w)
  <2>1. pc[w] = "acquiring" /\ queue[w] \in Deques /\ env[w] \in Turns
    BY <1>4 DEF CancelAcquire, TaskInv
  <2> DEFINE f == [fate EXCEPT ![env[w]] = "cancelled"]
  <2>2. /\ f \in [Turns -> Fates] /\ f[env[w]] = "cancelled"
        /\ \A t \in Turns : t # env[w] => f[t] = fate[t]
    BY <1>0, <2>1 DEF Fates
  <2>3. ExitLoop(w, queue[w], slots, holders, TurnOver, f)
    BY <1>4 DEF CancelAcquire
  <2> HIDE DEF f
  <2> QED
    BY <2>1, <2>2, <2>3, WorkExit
<1>5. CASE DeliverReply(w) \/ FinishInner(w)
  <2>1. /\ UNCHANGED <<items, fate, workCount, env, turnQueues>>
        /\ \A v \in Tasks : pc'[v] \in Idle => pc[v] \in Idle
    BY <1>5 DEF DeliverReply, FinishInner, TypeOK, Idle
  <2> QED
    BY <2>1, HomeStays DEF InMap
<1>6. CASE FinishTurn(w)
  <2>1. pc[w] = "cleanup" /\ queue[w] \in Deques /\ env[w] \in Turns
    BY <1>6 DEF FinishTurn, TaskInv, InTurn
  <2> DEFINE f == [fate EXCEPT ![env[w]] = IF w \in cancelled THEN "cancelled" ELSE "handled"]
             s == SlotsReleased(w)
             h == holders \ {w}
  <2>2. /\ f \in [Turns -> Fates] /\ f[env[w]] \in {"cancelled", "handled"}
        /\ \A t \in Turns : t # env[w] => f[t] = fate[t]
    BY <1>0, <2>1 DEF Fates
  <2>3. \/ /\ items[queue[w]] # <<>> /\ UNCHANGED turnQueues
           /\ TakeTurn(w, queue[w], s, h, TurnOver, f)
        \/ ExitLoop(w, queue[w], s, h, TurnOver, f)
    BY <1>6 DEF FinishTurn
  <2> HIDE DEF f, s, h
  <2> QED
    BY <2>1, <2>2, <2>3, WorkTake, WorkExit
<1>7. CASE TaskFinished(w)
  <2> DEFINE c == chan[w]
  <2>1. /\ pc[w] = "done" /\ c \in Channels
        /\ \A v \in Tasks : pc'[v] \in Idle => pc[v] \in Idle
        /\ env' = env
    BY <1>7 DEF TaskFinished, TypeOK, TaskInv, Idle
  <2>2. CASE UNCHANGED queueVars
    BY <2>1, <2>2, HomeStays DEF InMap
  <2>3. CASE Mapped(w)
    <3>0. PICK k, gone, o, C : /\ C = {k} /\ k = chan[w] /\ gone = Contents(turnQueues[k])
                            /\ o = IF draining THEN "cancelled" ELSE "lost"
      OBVIOUS
    <3>1. gone = UNION {Contents(turnQueues[d]) : d \in C}
      BY <3>0
    <3>2. /\ turnQueues' = [turnQueues EXCEPT ![k] = None]
          /\ items' = [p \in Deques |-> IF p = turnQueues[k] THEN <<>> ELSE items[p]]
          /\ workCount' = Monus(workCount, Cardinality(gone))
          /\ fate' = [t \in Turns |-> IF t \in gone THEN o ELSE fate[t]]
      BY <1>7, <2>3, <3>0 DEF TaskFinished, Size, Mapped
    <3>3. /\ turnQueues' = [d \in Channels |-> IF d \in C THEN None ELSE turnQueues[d]]
          /\ items' = [p \in Deques |-> IF \E d \in C : turnQueues[d] = p THEN <<>> ELSE items[p]]
      BY <3>0, <3>2 DEF TypeOK
    <3>4. o \in {"cancelled", "lost"} /\ C \in SUBSET Channels
      BY <2>1, <3>0
    <3>5. /\ workCount' = Monus(workCount, Cardinality(gone))
          /\ fate' = [t \in Turns |-> IF t \in gone THEN o ELSE fate[t]]
      BY <3>2
    <3>6. UNCHANGED env /\ \A v \in Tasks : pc'[v] \in Idle => pc[v] \in Idle
      BY <2>1
    <3> QED
      BY <3>1, <3>3, <3>4, <3>5, <3>6, WorkDropped, Zenon
  <2> QED
    BY <1>7, <2>2, <2>3 DEF TaskFinished
<1> QED
  BY <1>1, <1>2, <1>3, <1>4, <1>5, <1>6, <1>7 DEF Worker

LEMMA WorkIngress ==
  ASSUME TaskInv, WorkInv, NEW c \in Channels, NEW t \in Turns,
         QueueTurn(c, t) \/ RefuseTurn(c, t)
  PROVE  WorkInv'
<1> USE DEF semVars, stopVars, downVars, taskVars
<1> TypeOK /\ HomeInv /\ workCount = Cardinality(Pending)
  BY DEF TaskInv, WorkInv
<1>1. CASE QueueTurn(c, t)
  <2>0. PICK q : q = DequeFor(c)
    OBVIOUS
  <2>1. /\ q \in Deques /\ (turnQueues[c] = None => ~InMap(q))
        /\ turnQueues[c] # None => q = turnQueues[c]
    <3>1. CASE turnQueues[c] = None
      <4>1. q \in FreeDeques
        BY <1>1, <2>0, <3>1 DEF QueueTurn, DequeFor
      <4> QED
        BY <3>1, <4>1 DEF FreeDeques, UsedDeques, InMap
    <3>2. CASE turnQueues[c] # None
      BY <2>0, <3>2 DEF DequeFor, TypeOK
    <3> QED
      BY <3>1, <3>2
  <2>2. items'[q] = Append(items[q], t) /\ \A p \in Deques : p # q => items'[p] = items[p]
    <3>1. turnQueues[c] = None => items[q] = <<>>
      BY <2>1 DEF HomeInv
    <3> QED
      BY <1>1, <2>0, <2>1, <3>1 DEF QueueTurn, TypeOK
  <2>3. /\ fate[t] = "unseen" /\ fate' = [fate EXCEPT ![t] = "queued"]
        /\ workCount' = workCount + 1 /\ env' = env
        /\ turnQueues' = [turnQueues EXCEPT ![c] = q]
    BY <1>1, <2>0 DEF QueueTurn
  <2>4. ~Queued(t) /\ ~Held(t)
    BY <2>3 DEF HomeInv
  <2>5. /\ \A x : Has(items[q], x)' <=> Has(items[q], x) \/ x = t
        /\ Injective(items[q])'
    <3>1. items[q] \in Seq(Turns) /\ ~Has(items[q], t) /\ Injective(items[q])
      BY <2>1, <2>4 DEF TypeOK, HomeInv, Queued
    <3> QED
      BY <2>2, <3>1, AppendHas
  <2>6. \A v \in Tasks : pc'[v] \in Idle => pc[v] \in Idle
    <3>1. PICK v : v = CHOOSE x \in FreeTasks : TRUE
      OBVIOUS
    <3>2. UNCHANGED pc \/ (pc' = [pc EXCEPT ![v] = "created"] /\ FreeTasks # {})
      BY <1>1, <3>1 DEF QueueTurn
    <3>3. FreeTasks # {} => pc[v] = "none"
      BY <3>1 DEF FreeTasks
    <3> QED
      BY <3>2, <3>3 DEF TypeOK, Idle
  <2>7. \A x \in Turns : Queued(x)' <=> Queued(x) \/ x = t
    BY <2>1, <2>2, <2>5 DEF Queued
  <2>8. \A x \in Turns : fate'[x] = IF x = t THEN "queued" ELSE fate[x]
    BY <2>3 DEF TypeOK
  <2>9. \A p, r \in Deques, x \in Turns : Has(items[p], x)' /\ Has(items[r], x)' => p = r
    BY <2>2, <2>4, <2>5 DEF HomeInv, Queued
  <2>10. \A p \in Deques : ~InMap(p)' => items'[p] = <<>>
    <3>1. InMap(q)' /\ \A p \in Deques : p # q /\ InMap(p) => InMap(p)'
      BY <2>1, <2>3 DEF InMap, TypeOK
    <3> QED
      BY <2>2, <3>1 DEF HomeInv
  <2>11. \A p \in Deques : Injective(items[p])'
    BY <2>2, <2>5 DEF HomeInv
  <2>12. /\ \A x \in Turns : (fate[x] = "queued" <=> Queued(x))'
         /\ \A x \in Turns : (fate[x] = "active" <=> Held(x))'
    BY <2>3, <2>4, <2>7, <2>8 DEF HomeInv, Held
  <2>13. HomeInv'
    BY <2>3, <2>6, <2>9, <2>10, <2>11, <2>12 DEF HomeInv
  <2>14. Pending' = Pending \cup {t} /\ t \notin Pending
    BY <2>3, <2>8 DEF Pending
  <2>15. Cardinality(Pending') = Cardinality(Pending) + 1
    BY <2>14, PendingFinite, FS_AddElement
  <2> QED
    BY <2>3, <2>13, <2>15 DEF WorkInv
<1>2. CASE RefuseTurn(c, t)
  <2>1. /\ UNCHANGED <<items, workCount, env, pc>> /\ fate[t] = "unseen"
        /\ \A x \in Turns : fate'[x] = IF x = t THEN "refused" ELSE fate[x]
        /\ \/ turnQueues' = turnQueues
           \/ turnQueues' = [turnQueues EXCEPT ![c] = None] /\ Contents(turnQueues[c]) = {}
    <3>1. fate' = [fate EXCEPT ![t] = "refused"] /\ turnQueues' = PopIfEmpty(c)
      BY <1>2 DEF RefuseTurn
    <3>2. \/ turnQueues' = turnQueues
          \/ turnQueues' = [turnQueues EXCEPT ![c] = None] /\ Contents(turnQueues[c]) = {}
      BY <3>1 DEF PopIfEmpty
    <3> QED
      BY <1>2, <3>1, <3>2 DEF RefuseTurn, TypeOK
  <2>2. \A q \in Deques : InMap(q) => InMap(q)' \/ items[q] = <<>>
    <3>1. \A q \in Deques : Contents(q) = {} => items[q] = <<>>
      <4>1. ASSUME NEW q \in Deques, Contents(q) = {} PROVE items[q] = <<>>
        <5>1. items[q] \in Seq(Turns) /\ (items[q] # <<>> => Head(items[q]) \in Turns)
          BY TailHas DEF TypeOK
        <5>2. items[q] # <<>> => Has(items[q], Head(items[q]))
          BY <5>1, TailHas
        <5> QED
          BY <4>1, <5>1, <5>2, ContentsAre
      <4> QED
        BY <4>1
    <3> QED
      BY <2>1, <3>1 DEF InMap, TypeOK
  <2>3. Pending' = Pending
    BY <2>1 DEF Pending
  <2>4. HomeInv'
    BY <2>1, <2>2 DEF HomeInv, Queued, Held
  <2> QED
    BY <2>1, <2>3, <2>4 DEF WorkInv
<1> QED
  BY <1>1, <1>2

LEMMA WorkRest ==
  ASSUME TaskInv, WorkInv,
         \/ \E c \in Channels : StopTurn(c) \/ SlashStop(c)
         \/ EndStopTurn \/ BeginShutdown \/ Shutdown
  PROVE  WorkInv'
<1> USE DEF semVars, stopVars, downVars, taskVars, queueVars
<1> TypeOK
  BY DEF TaskInv
<1>1. CASE UNCHANGED <<items, fate, workCount, env, turnQueues, pc>>
  BY <1>1, HomeStays DEF InMap
<1>2. ASSUME NEW D \in SUBSET Channels, Detach(D), UNCHANGED <<pc, env>> PROVE WorkInv'
  <2> DEFINE gone == UNION {Contents(turnQueues[c]) : c \in D}
  <2>1. /\ items' = [q \in Deques |-> IF \E c \in D : turnQueues[c] = q THEN <<>> ELSE items[q]]
        /\ turnQueues' = [c \in Channels |-> IF c \in D THEN None ELSE turnQueues[c]]
        /\ fate' = [t \in Turns |-> IF t \in gone THEN "cancelled" ELSE fate[t]]
        /\ workCount' = Monus(workCount, Cardinality(gone))
    BY <1>2 DEF Detach
  <2> QED
    BY <1>2, <2>1, WorkDropped
<1>3. ASSUME NEW c \in Channels, CancelChannel(c), UNCHANGED <<pc, env>> PROVE WorkInv'
  <2>1. CASE Detach({c})
    <3>1. {c} \in SUBSET Channels
      OBVIOUS
    <3> QED
      BY <1>2, <1>3, <2>1, <3>1
  <2>2. CASE UNCHANGED <<turnQueues, items, workCount, fate, cancelled>>
    BY <1>3, <2>2, HomeStays DEF InMap
  <2> QED
    BY <1>3, <2>1, <2>2 DEF CancelChannel
<1>4. CASE CancelAll /\ UNCHANGED <<pc, env>>
  <2>1. {c \in Channels : HasWorker(c)} \in SUBSET Channels
    OBVIOUS
  <2> QED
    BY <1>2, <1>4, <2>1 DEF CancelAll
<1> QED
  BY <1>1, <1>3, <1>4 DEF StopTurn, SlashStop, EndStopTurn,
     BeginShutdown, Shutdown, DrainStart, DrainSettled, DrainTimeout, CancelWaitOver, FlushStores

LEMMA WorkInit == Init => WorkInv
<1> SUFFICES ASSUME Init PROVE WorkInv
  OBVIOUS
<1>1. /\ \A q \in Deques : items[q] = <<>> /\ Injective(items[q]) /\ \A x : ~Has(items[q], x)
      /\ \A t \in Turns : fate[t] = "unseen" /\ t # None
      /\ \A w \in Tasks : env[w] = None
  BY EmptyHas DEF Init
<1>2. HomeInv
  BY <1>1 DEF HomeInv, Queued, Held
<1>3. Pending = {} /\ workCount = 0
  BY <1>1 DEF Pending, Init
<1> QED
  BY <1>2, <1>3, FS_EmptySet DEF WorkInv

LEMMA WorkStep == TaskInv /\ WorkInv /\ [Next]_vars => TaskInv' /\ WorkInv'
<1>1. CASE UNCHANGED vars
  BY <1>1, HomeStays DEF vars, semVars, stopVars, downVars, taskVars, queueVars, TaskInv, TypeOK, InMap
<1>2. CASE Next
  BY <1>2, NextCases, TaskInvIngress, TaskInvWorker, TaskInvRest, WorkIngress, WorkWorker, WorkRest
<1> QED
  BY <1>1, <1>2

LEMMA WorkExact == TaskInv /\ WorkInv => WorkAccounting
<1> SUFFICES ASSUME TaskInv, WorkInv PROVE WorkAccounting
  OBVIOUS
<1> TypeOK /\ HomeInv
  BY DEF TaskInv, WorkInv
<1>1. workCount = Cardinality({t \in Turns : fate[t] \in {"queued", "active"}})
  BY DEF WorkInv, Pending
<1>2. ASSUME NEW t
      PROVE  t \in {x \in Turns : fate[x] = "queued"} <=>
                t \in UNION {Contents(turnQueues[c]) : c \in Channels}
  <2>1. (\E c \in Channels : t \in Contents(turnQueues[c])) <=>
           \E c \in Channels : turnQueues[c] \in Deques /\ t \in Turns /\ Has(items[turnQueues[c]], t)
    <3>1. ASSUME NEW c \in Channels
          PROVE  t \in Contents(turnQueues[c]) <=>
                    turnQueues[c] \in Deques /\ t \in Turns /\ Has(items[turnQueues[c]], t)
      <4>1. CASE turnQueues[c] = None
        BY <4>1 DEF Contents, TypeOK
      <4>2. CASE turnQueues[c] \in Deques
        BY <4>2, ContentsAre
      <4> QED
        BY <4>1, <4>2 DEF TypeOK
    <3> QED
      BY <3>1
  <2>2. \A q \in Deques : Has(items[q], t) => InMap(q)
    BY EmptyHas DEF HomeInv
  <2>3. t \in Turns => (fate[t] = "queued" <=> Queued(t))
    BY DEF HomeInv
  <2>4. t \in UNION {Contents(turnQueues[c]) : c \in Channels} <=>
           \E c \in Channels : t \in Contents(turnQueues[c])
    OBVIOUS
  <2> QED
    BY <2>1, <2>2, <2>3, <2>4 DEF Queued, InMap
<1>3. {t \in Turns : fate[t] = "active"} = {env[w] : w \in Tasks} \ {None}
  BY DEF HomeInv, Held, TypeOK
<1> QED
  BY <1>1, <1>2, <1>3 DEF WorkAccounting

(* The counter that refuses turns is the number of turns that are queued   *)
(* or run, and each of them is in a deque of the map or held by a worker,  *)
(* through stops, exits, cancellations and the drain.                      *)
THEOREM CounterIsExact == Spec => []WorkAccounting
<1>1. Init => TaskInv /\ WorkInv
  BY TaskInvInit, WorkInit
<1> QED
  BY <1>1, WorkStep, WorkExact, PTL DEF Spec

-----------------------------------------------------------------------------
(* The drain.  No worker is created once _draining is set, so the workers  *)
(* that nobody cancelled are among those of the snapshot.                  *)
DownInv ==
    /\ phase = "draining" => Alive \ cancelled \subseteq drainSet
    /\ phase \in {"cancelling", "drained", "complete"} => Alive \subseteq cancelled

NoStart(w) == pc'[w] = "handling" => pc[w] = "handling"

(* No worker comes to life, and none that lives is taken off the lists.    *)
LEMMA DownStays ==
  ASSUME DownInv, phase' = phase, Alive' \subseteq Alive, cancelled \cap Alive' \subseteq cancelled',
         drainSet \cap Alive' \subseteq drainSet'
  PROVE  DownInv'
  BY DEF DownInv

LEMMA DownWorker ==
  ASSUME TypeOK, DownInv, NEW w \in Tasks, Worker(w)
  PROVE  /\ DownInv' /\ phase' = phase
         /\ draining => \A v \in Tasks : NoStart(v)
<1> USE DEF semVars, stopVars, downVars, taskVars, queueVars
<1>1. phase' = phase
  BY DEF Worker, StartWorker, CancelBeforeStart, AcquireSlot, CancelAcquire,
         DeliverReply, FinishInner, FinishTurn, TaskFinished
<1>2. CASE TaskFinished(w)
  <2>1. /\ pc[w] = "done" /\ \A v \in Tasks : pc'[v] = IF v = w THEN "none" ELSE pc[v]
        /\ cancelled' = cancelled \ {w} /\ drainSet' = drainSet \ {w}
    BY <1>2 DEF TaskFinished, TypeOK
  <2>2. Alive' \subseteq Alive /\ w \notin Alive'
    BY <2>1 DEF Alive, Live
  <2>3. DownInv'
    BY <1>1, <2>1, <2>2, DownStays
  <2> QED
    BY <1>1, <2>1, <2>3 DEF NoStart
<1>3. CASE ~TaskFinished(w)
  <2>1. UNCHANGED <<cancelled, drainSet>> /\ Live(w)
    BY <1>3 DEF Worker, StartWorker, CancelBeforeStart, AcquireSlot, CancelAcquire,
                DeliverReply, FinishInner, FinishTurn, Live
  <2>2. \E p \in Places : /\ pc' = [pc EXCEPT ![w] = p]
                          /\ draining /\ p = "handling" => pc[w] = "handling"
    BY <1>3 DEF Worker, StartWorker, CancelBeforeStart, AcquireSlot, MayStart, CancelAcquire,
                DeliverReply, FinishInner, FinishTurn, TakeTurn, ExitLoop, Places, InTurn
  <2>3. /\ \A v \in Tasks : v # w => pc'[v] = pc[v]
        /\ draining => \A v \in Tasks : NoStart(v)
    BY <2>2 DEF TypeOK, NoStart
  <2>4. Alive' \subseteq Alive
    BY <2>1, <2>3 DEF Alive, Live
  <2>5. DownInv'
    BY <1>1, <2>1, <2>4, DownStays
  <2> QED
    BY <1>1, <2>3, <2>5
<1> QED
  BY <1>2, <1>3

LEMMA DownRest ==
  ASSUME TypeOK, OneOwner, TaskInv, DownInv,
         \/ \E c \in Channels, t \in Turns : QueueTurn(c, t) \/ RefuseTurn(c, t)
         \/ \E c \in Channels : StopTurn(c) \/ SlashStop(c)
         \/ EndStopTurn \/ BeginShutdown \/ Shutdown
  PROVE  /\ DownInv'
         /\ draining => \A v \in Tasks : NoStart(v)
<1> USE DEF semVars, stopVars, downVars, taskVars, queueVars
<1>1. ASSUME NEW c \in Channels, NEW t \in Turns, QueueTurn(c, t) \/ RefuseTurn(c, t)
      PROVE  DownInv' /\ ~draining
  BY <1>1 DEF QueueTurn, RefuseTurn, IngressReady, draining, DownInv
<1>2. ASSUME UNCHANGED <<pc, phase, drainSet>>, cancelled \subseteq cancelled'
      PROVE  DownInv' /\ \A v \in Tasks : NoStart(v)
  <2>1. Alive' = Alive
    BY <1>2 DEF Alive, Live
  <2> QED
    BY <1>2, <2>1, DownStays DEF NoStart
<1>3. ASSUME NEW c \in Channels, StopTurn(c) \/ SlashStop(c)
      PROVE  DownInv' /\ \A v \in Tasks : NoStart(v)
  BY <1>2, <1>3 DEF StopTurn, SlashStop, CancelAll, CancelChannel, Detach
<1>4. CASE EndStopTurn
  BY <1>2, <1>4 DEF EndStopTurn
<1>5. CASE BeginShutdown
  BY <1>5 DEF BeginShutdown, DownInv, draining
<1>6. CASE Shutdown
  <2>1. UNCHANGED pc /\ Alive' = Alive
    BY <1>6 DEF Shutdown, DrainStart, DrainSettled, DrainTimeout, CancelWaitOver, FlushStores, Alive, Live
  <2>2. CASE DrainStart
    <3>1. Alive \ cancelled \subseteq MappedLive
      BY DEF OneOwner, MappedLive, HasWorker, Alive, TaskInv, Live
    <3> QED
      BY <2>1, <2>2, <3>1 DEF DrainStart, DownInv, NoStart
  <2>3. CASE DrainSettled
    BY <2>1, <2>3 DEF DrainSettled, DownInv, NoStart, Alive
  <2>4. CASE DrainTimeout
    BY <2>1, <2>4 DEF DrainTimeout, DownInv, NoStart, Alive
  <2>5. CASE CancelWaitOver \/ FlushStores
    BY <2>1, <2>5 DEF CancelWaitOver, FlushStores, DownInv, NoStart
  <2> QED
    BY <1>6, <2>2, <2>3, <2>4, <2>5 DEF Shutdown
<1> QED
  BY <1>1, <1>3, <1>4, <1>5, <1>6

LEMMA OwnerStep == TaskInv /\ OwnerInv /\ [Next]_vars => TaskInv' /\ OwnerInv'
<1>1. CASE UNCHANGED vars
  BY <1>1 DEF vars, semVars, stopVars, downVars, taskVars, queueVars, TaskInv, TypeOK,
              OwnerInv, OneOwner, Alive, Live
<1>2. CASE Next
  BY <1>2, NextCases, TaskInvIngress, TaskInvWorker, TaskInvRest,
     OwnerQueueTurn, OwnerRun, OwnerFinished, OwnerRest
<1> QED
  BY <1>1, <1>2

DrainStep ==
    /\ draining => \A w \in Tasks : pc'[w] = "handling" => pc[w] = "handling"
    /\ phase' \in {"drained", "complete"} => Alive' \subseteq cancelled'

(* Shutdown never lets a turn begin, and takes its snapshots only when     *)
(* every turn that still runs was cancelled.                               *)
THEOREM NothingStartsInADrain == Spec => DrainHolds
<1>1. Init => TaskInv /\ OwnerInv /\ DownInv
  BY TaskInvInit DEF Init, OwnerInv, OneOwner, DownInv, Alive, Live
<1>2. TaskInv /\ OwnerInv /\ DownInv /\ [Next]_vars => TaskInv' /\ OwnerInv' /\ DownInv'
  <2>1. SUFFICES ASSUME TaskInv, OwnerInv, DownInv, [Next]_vars PROVE TaskInv' /\ OwnerInv' /\ DownInv'
    OBVIOUS
  <2>2. TaskInv' /\ OwnerInv'
    BY <2>1, OwnerStep
  <2>3. CASE UNCHANGED vars
    BY <2>1, <2>2, <2>3 DEF vars, downVars, taskVars, DownInv, Alive, Live
  <2>4. CASE Next
    BY <2>1, <2>2, <2>4, NextCases, DownWorker, DownRest DEF TaskInv, OwnerInv
  <2> QED
    BY <2>1, <2>3, <2>4
<1>3. TaskInv /\ OwnerInv /\ DownInv /\ DownInv' /\ [Next]_vars => [DrainStep]_vars
  <2>1. SUFFICES ASSUME TaskInv, OwnerInv, DownInv, DownInv', Next PROVE DrainStep
    OBVIOUS
  <2>2. draining => \A w \in Tasks : NoStart(w)
    BY <2>1, NextCases, DownWorker, DownRest DEF TaskInv, OwnerInv
  <2> QED
    BY <2>1, <2>2 DEF DrainStep, NoStart, DownInv
<1>4. [][DrainStep]_vars => DrainHolds
  BY DEF DrainHolds, DrainStep
<1> QED
  BY <1>1, <1>2, <1>3, <1>4, PTL DEF Spec

-----------------------------------------------------------------------------
-----------------------------------------------------------------------------
(* The refinement: what the sender sees of a state. *)
Line  == [c \in Channels |-> IF turnQueues[c] = None THEN <<>> ELSE items[turnQueues[c]]]
Begun == {env[w] : w \in Tasks} \ {None}
Over  == [t \in Turns |-> fate[t] \in {"refused", "handled", "cancelled"}]

MapInv == \A c, d \in Channels : turnQueues[c] = turnQueues[d] /\ turnQueues[c] # None => c = d

LEMMA SameCardinality == \A S : Contract!Cardinality(S) = Cardinality(S)
  BY DEF Contract!Cardinality, Cardinality

LEMMA SameToSet == \A s : Contract!ToSet(s) = ToSet(s)
  BY DEF Contract!ToSet, ToSet

LEMMA WaitingIs == Contract!Waiting = UNION {ToSet(Line[d]) : d \in Channels}
<1>1. Contract!Waiting = UNION {Contract!ToSet(Line[d]) : d \in Channels}
  BY DEF Contract!Waiting, Line
<1>2. {Contract!ToSet(Line[d]) : d \in Channels} = {ToSet(Line[d]) : d \in Channels}
  BY SameToSet
<1> QED
  BY <1>1, <1>2

LEMMA KnownIs ==
  Contract!Known = (UNION {ToSet(Line[d]) : d \in Channels}) \cup Begun \cup {x \in Turns : Over[x]}
<1>1. Contract!Known = Contract!Waiting \cup Begun \cup {x \in Turns : Over[x]}
  BY Zenon DEF Contract!Known, Begun, Over
<1> QED
  BY <1>1, WaitingIs

LEMMA AcceptIs ==
  ASSUME NEW c \in Channels, NEW t \in Turns,
         t \notin (UNION {ToSet(Line[d]) : d \in Channels}) \cup Begun \cup {x \in Turns : Over[x]},
         Cardinality((UNION {ToSet(Line[d]) : d \in Channels}) \cup Begun) < MaxPendingTurns,
         Line' = [Line EXCEPT ![c] = Append(Line[c], t)], Begun' = Begun, Over' = Over
  PROVE  Contract!Next
<1>0. /\ t \notin Contract!Known
      /\ Contract!Cardinality(Contract!Waiting \cup Begun) < MaxPendingTurns
  BY SameCardinality, WaitingIs, KnownIs
<1>1. Contract!Accept(c, t)
  BY <1>0 DEF Line, Begun, Over, Contract!Accept
<1> QED
  BY <1>1 DEF Contract!Next

LEMMA RefuseIs ==
  ASSUME NEW t \in Turns,
         t \notin (UNION {ToSet(Line[d]) : d \in Channels}) \cup Begun \cup {x \in Turns : Over[x]},
         Line' = Line, Begun' = Begun, Over' = [x \in Turns |-> Over[x] \/ x \in {t}]
  PROVE  Contract!Next
<1>1. Contract!Refuse(t)
  BY KnownIs DEF Line, Begun, Over, Contract!Refuse, Contract!End
<1> QED
  BY <1>1 DEF Contract!Next

LEMMA BeginIs ==
  ASSUME NEW c \in Channels, NEW over \in SUBSET Begun, Cardinality(over) <= 1,
         Line[c] # <<>>, Line' = [Line EXCEPT ![c] = Tail(Line[c])],
         Begun' = (Begun \ over) \cup {Head(Line[c])},
         Over' = [x \in Turns |-> Over[x] \/ x \in over]
  PROVE  Contract!Next
<1>1. Contract!Begin(c, over)
  BY SameCardinality, SameToSet DEF Line, Begun, Over, Contract!Begin, Contract!End
<1>2. over \in Contract!AtMostOne(Begun)
  BY SameCardinality DEF Contract!AtMostOne
<1> QED
  BY <1>1, <1>2 DEF Contract!Next, Begun

LEMMA FinishIs ==
  ASSUME NEW C \in SUBSET Channels, NEW over \in SUBSET Begun, Cardinality(over) <= 1,
         Line' = [c \in Channels |-> IF c \in C THEN <<>> ELSE Line[c]],
         Begun' = Begun \ over,
         Over' = [x \in Turns |-> Over[x] \/ x \in over \cup (UNION {ToSet(Line[c]) : c \in C})]
  PROVE  Contract!Next
<1>1. Contract!Finish(over, C)
  BY SameCardinality, SameToSet DEF Line, Begun, Over, Contract!Finish, Contract!End
<1>2. over \in Contract!AtMostOne(Begun)
  BY SameCardinality DEF Contract!AtMostOne
<1> QED
  BY <1>1, <1>2 DEF Contract!Next, Begun

RefInv == TaskInv /\ WorkInv /\ MapInv

LEMMA LineIs ==
  ASSUME TypeOK, NEW c \in Channels
  PROVE  /\ ToSet(Line[c]) = Contents(turnQueues[c])
         /\ Line[c] = IF turnQueues[c] = None THEN <<>> ELSE items[turnQueues[c]]
         /\ Line[c] \in Seq(Turns)
<1>1. Line[c] = IF turnQueues[c] = None THEN <<>> ELSE items[turnQueues[c]]
  BY DEF Line
<1>2. ToSet(<<>>) = {}
  BY DEF ToSet
<1>3. CASE turnQueues[c] = None
  BY <1>1, <1>2, <1>3 DEF Contents
<1>4. CASE turnQueues[c] \in Deques
  BY <1>1, <1>4 DEF Contents, TypeOK
<1> QED
  BY <1>1, <1>3, <1>4 DEF TypeOK

LEMMA SenderSees ==
  ASSUME RefInv
  PROVE  /\ UNION {ToSet(Line[d]) : d \in Channels} = {t \in Turns : fate[t] = "queued"}
         /\ Begun = {t \in Turns : fate[t] = "active"}
         /\ (UNION {ToSet(Line[d]) : d \in Channels}) \cup Begun = Pending
         /\ Cardinality(Pending) = workCount
<1>1. {ToSet(Line[d]) : d \in Channels} = {Contents(turnQueues[c]) : c \in Channels}
  BY LineIs DEF RefInv, TaskInv
<1>2. WorkAccounting
  BY WorkExact DEF RefInv
<1> QED
  BY <1>1, <1>2 DEF WorkAccounting, Begun, Pending, RefInv, WorkInv

(* A worker's turn ends and the worker takes the next of its deque.        *)
LEMMA RefTake ==
  ASSUME RefInv, NEW w \in Tasks, NEW q \in Deques, NEW s, NEW h, NEW n, NEW f,
         items[q] # <<>>, turnQueues' = turnQueues,
         TakeTurn(w, q, s, h, n, f), f \in [Turns -> Fates],
         \/ env[w] = None /\ f = fate
         \/ /\ env[w] # None
            /\ \A t \in Turns : t # env[w] => f[t] = fate[t]
            /\ f[env[w]] \in {"cancelled", "handled"}
  PROVE  Contract!Next
<1> TypeOK /\ HomeInv
  BY DEF RefInv, TaskInv, WorkInv
<1>1. PICK c \in Channels : turnQueues[c] = q
  BY DEF HomeInv, InMap
<1>2. PICK t0, e, over : /\ t0 = Head(items[q]) /\ e = env[w]
                         /\ over = IF e = None THEN {} ELSE {e}
  OBVIOUS
<1>3. /\ \A p \in Deques : items'[p] = IF p = q THEN Tail(items[q]) ELSE items[p]
      /\ \A v \in Tasks : env'[v] = IF v = w THEN t0 ELSE env[v]
      /\ fate' = [f EXCEPT ![t0] = "active"]
      /\ items[q] \in Seq(Turns)
  BY <1>2 DEF TakeTurn, TypeOK
<1>4. t0 \in Turns /\ Has(items[q], t0)
  BY <1>2, <1>3, TailHas
<1>5. e = None \/ e \in Turns
  BY <1>2 DEF TypeOK
<1>6. fate[t0] = "queued" /\ \A v \in Tasks : env[v] # t0
  BY <1>4 DEF HomeInv, Queued, Held
<1>7. /\ over \in SUBSET Begun /\ Cardinality(over) <= 1
  <2>1. Cardinality({}) = 0 /\ Cardinality({e}) = 1
    BY FS_EmptySet, FS_Singleton
  <2>2. CASE e = None
    BY <1>2, <2>1, <2>2
  <2>3. CASE e # None
    BY <1>2, <2>1, <2>3 DEF Begun
  <2> QED
    BY <2>2, <2>3
<1>8. Line[c] = items[q] /\ Line[c] # <<>>
  BY <1>1, LineIs
<1>9. Line' = [Line EXCEPT ![c] = Tail(Line[c])]
  <2>1. \A d \in Channels : d # c => turnQueues[d] # q
    BY <1>1 DEF RefInv, MapInv
  <2>2. Line' = [d \in Channels |-> IF turnQueues[d] = None THEN <<>> ELSE items'[turnQueues[d]]]
    BY DEF Line
  <2>3. \A d \in Channels : turnQueues[d] = None \/ turnQueues[d] \in Deques
    BY DEF TypeOK
  <2>4. ASSUME NEW d \in Channels
        PROVE  (IF turnQueues[d] = None THEN <<>> ELSE items'[turnQueues[d]])
                  = IF d = c THEN Tail(items[q]) ELSE Line[d]
    <3>1. CASE d = c
      BY <1>1, <1>3, <3>1
    <3>2. CASE d # c
      BY <1>3, <2>1, <2>3, <3>2, LineIs
    <3> QED
      BY <3>1, <3>2
  <2>5. Line' = [d \in Channels |-> IF d = c THEN Tail(items[q]) ELSE Line[d]]
    BY <2>2, <2>4
  <2>6. DOMAIN Line = Channels /\ \A d \in Channels : d # c => Line[d] = [Line EXCEPT ![c] = Tail(Line[c])][d]
    BY DEF Line
  <2> QED
    BY <1>8, <2>5, <2>6 DEF Line
<1>10. Begun' = (Begun \ over) \cup {t0}
  <2>1. \A v \in Tasks : env[v] = e /\ e # None => v = w
    BY <1>2 DEF HomeInv
  <2>2. Begun' = {env'[v] : v \in Tasks} \ {None}
    BY DEF Begun
  <2> QED
    BY <1>2, <1>3, <1>4, <2>1, <2>2 DEF Begun
<1>11. Over' = [x \in Turns |-> Over[x] \/ x \in over]
  <2>1. \A x \in Turns : fate'[x] = IF x = t0 THEN "active" ELSE f[x]
    BY <1>3, <1>4
  <2>2. \A x \in Turns : f[x] = fate[x] \/ x = e
    BY <1>2
  <2>3. e # None => f[e] \in {"cancelled", "handled"} /\ e # t0
    BY <1>2, <1>6
  <2>4. e = None => f = fate
    BY <1>2
  <2>5. \A x \in Turns : (fate'[x] \in {"refused", "handled", "cancelled"}) =
                            (fate[x] \in {"refused", "handled", "cancelled"} \/ x \in over)
    <3>1. CASE e = None
      BY <1>2, <1>6, <2>1, <2>4, <3>1
    <3>2. CASE e # None
      BY <1>2, <1>6, <2>1, <2>2, <2>3, <3>2
    <3> QED
      BY <3>1, <3>2
  <2>6. Over' = [x \in Turns |-> fate'[x] \in {"refused", "handled", "cancelled"}]
    BY DEF Over
  <2> QED
    BY <2>5, <2>6 DEF Over
<1>12. t0 = Head(Line[c])
  BY <1>2, <1>8
<1> QED
  BY <1>7, <1>8, <1>9, <1>10, <1>11, <1>12, BeginIs

(* Lines are emptied; a worker's turn may end with them. *)
EndsIn(C, W, t) == (\E c \in C : t \in Contents(turnQueues[c])) \/ (\E v \in W : env[v] = t)
Ending(C, W) ==
  /\ C \in SUBSET Channels /\ W \in SUBSET Tasks
  /\ W = {} \/ \E w \in Tasks : W = {w}
  /\ \A c \in Channels : Line'[c] = IF c \in C THEN <<>> ELSE Line[c]
  /\ \A v \in Tasks : env'[v] = IF v \in W THEN None ELSE env[v]
  /\ \A t \in Turns : EndsIn(C, W, t) => fate'[t] \in {"cancelled", "handled"}
  /\ \A t \in Turns : fate'[t] # fate[t] => EndsIn(C, W, t)

LEMMA RefEnds ==
  ASSUME RefInv, NEW C, NEW W, Ending(C, W)
  PROVE  Contract!Next
<1> TypeOK /\ HomeInv
  BY DEF RefInv, TaskInv, WorkInv
<1>0. /\ C \in SUBSET Channels /\ W \in SUBSET Tasks
      /\ W = {} \/ \E w \in Tasks : W = {w}
      /\ \A c \in Channels : Line'[c] = IF c \in C THEN <<>> ELSE Line[c]
      /\ \A v \in Tasks : env'[v] = IF v \in W THEN None ELSE env[v]
      /\ \A t \in Turns : (\E c \in C : t \in Contents(turnQueues[c])) \/ (\E v \in W : env[v] = t) =>
                             fate'[t] \in {"cancelled", "handled"}
      /\ \A t \in Turns : fate'[t] # fate[t] =>
                             (\E c \in C : t \in Contents(turnQueues[c])) \/ (\E v \in W : env[v] = t)
  BY DEF Ending, EndsIn
<1>1. PICK over : over = {env[v] : v \in W} \ {None}
  OBVIOUS
<1>2. over \in SUBSET Begun /\ Cardinality(over) <= 1
  <2>1. over = {} \/ \E t : over = {t}
    <3>1. CASE W = {}
      BY <1>1, <3>1
    <3>2. ASSUME NEW w \in Tasks, W = {w} PROVE over = {} \/ \E t : over = {t}
      <4>1. {env[v] : v \in W} = {env[w]}
        BY <3>2
      <4>2. over = {} \/ over = {env[w]}
        BY <1>1, <4>1
      <4> QED
        BY <4>2
    <3> QED
      BY <1>0, <3>1, <3>2
  <2>2. Cardinality({}) = 0 /\ \A t : Cardinality({t}) = 1
    BY FS_EmptySet, FS_Singleton
  <2>3. over \in SUBSET Begun
    BY <1>0, <1>1 DEF Begun
  <2>4. Cardinality(over) \in {0, 1}
    BY <2>1, <2>2
  <2> QED
    BY <2>3, <2>4
<1>3. Line' = [c \in Channels |-> IF c \in C THEN <<>> ELSE Line[c]]
  BY <1>0 DEF Line
<1>4. Begun' = Begun \ over
  <2>1. Begun' = {env'[v] : v \in Tasks} \ {None}
    BY DEF Begun
  <2>2. \A v, u \in Tasks : env[v] = env[u] /\ env[v] # None => v = u
    BY DEF HomeInv
  <2> QED
    BY <1>0, <1>1, <2>1, <2>2 DEF Begun
<1>5. \A t \in Turns : t \in UNION {ToSet(Line[c]) : c \in C} <=> \E c \in C : t \in Contents(turnQueues[c])
  <2>1. UNION {ToSet(Line[c]) : c \in C} = UNION {Contents(turnQueues[c]) : c \in C}
    BY <1>0, LineIs
  <2>2. \A t : t \in UNION {Contents(turnQueues[c]) : c \in C} <=> \E c \in C : t \in Contents(turnQueues[c])
    OBVIOUS
  <2> QED
    BY <2>1, <2>2
<1>6. \A t \in Turns : t \in over <=> \E v \in W : env[v] = t
  BY <1>1, NoneAssumption
<1>7. Over' = [x \in Turns |-> Over[x] \/ x \in over \cup (UNION {ToSet(Line[c]) : c \in C})]
  <2>1. \A x \in Turns : (fate'[x] \in {"refused", "handled", "cancelled"}) =
           (fate[x] \in {"refused", "handled", "cancelled"}
              \/ x \in over \cup (UNION {ToSet(Line[c]) : c \in C}))
    BY <1>0, <1>5, <1>6
  <2>2. Over' = [x \in Turns |-> fate'[x] \in {"refused", "handled", "cancelled"}]
    BY DEF Over
  <2> QED
    BY <2>1, <2>2 DEF Over
<1> QED
  BY <1>0, <1>2, <1>3, <1>4, <1>7, FinishIs

LEMMA RefExit ==
  ASSUME RefInv, NEW w \in Tasks, NEW q \in Deques, NEW s, NEW h, NEW n, NEW f,
         ExitLoop(w, q, s, h, n, f), f \in [Turns -> Fates],
         \/ env[w] = None /\ f = fate
         \/ /\ env[w] # None
            /\ \A t \in Turns : t # env[w] => f[t] = fate[t]
            /\ f[env[w]] \in {"cancelled", "handled"}
  PROVE  Contract!Next
<1> TypeOK /\ HomeInv
  BY DEF RefInv, TaskInv, WorkInv
<1>1. /\ \A p \in Deques : items'[p] = IF p = q THEN <<>> ELSE items[p]
      /\ \A v \in Tasks : env'[v] = IF v = w THEN None ELSE env[v]
      /\ \A t \in Turns : fate'[t] = IF t \in Contents(q) THEN "cancelled" ELSE f[t]
      /\ turnQueues' = turnQueues \/ turnQueues' = [turnQueues EXCEPT ![chan[w]] = None]
      /\ turnQueues' # turnQueues => turnQueues[chan[w]] = q
  BY DEF ExitLoop, TypeOK
<1>2. PICK C, W : C = {c \in Channels : turnQueues[c] = q} /\ W = {w}
  OBVIOUS
<1>3. \A c \in Channels : Line'[c] = IF c \in C THEN <<>> ELSE Line[c]
  <2>1. SUFFICES ASSUME NEW c \in Channels PROVE Line'[c] = IF c \in C THEN <<>> ELSE Line[c]
    OBVIOUS
  <2>2. Line'[c] = IF turnQueues'[c] = None THEN <<>> ELSE items'[turnQueues'[c]]
    BY DEF Line
  <2>3. \/ turnQueues'[c] = turnQueues[c]
        \/ turnQueues'[c] = None /\ turnQueues[c] = q
    BY <1>1 DEF TypeOK
  <2>4. turnQueues[c] \in Deques \/ turnQueues[c] = None
    BY DEF TypeOK
  <2> QED
    BY <1>1, <1>2, <2>2, <2>3, <2>4, LineIs
<1>4. \A t \in Turns : (\E c \in C : t \in Contents(turnQueues[c])) => t \in Contents(q)
  BY <1>2
<1>5. \A t \in Contents(q) : t \in Turns /\ fate[t] = "queued" /\ \E c \in C : t \in Contents(turnQueues[c])
  <2>1. SUFFICES ASSUME NEW t \in Contents(q)
                 PROVE  t \in Turns /\ fate[t] = "queued" /\ \E c \in C : t \in Contents(turnQueues[c])
    OBVIOUS
  <2>2. t \in Turns /\ Has(items[q], t) /\ fate[t] = "queued"
    BY ContentsAre DEF HomeInv, Queued
  <2>3. InMap(q)
    BY <2>2, EmptyHas DEF HomeInv
  <2> QED
    BY <1>2, <2>2, <2>3 DEF InMap
<1>6. env[w] = None \/ env[w] \in Turns
  BY DEF TypeOK
<1>7. \A t \in Turns : (\E c \in C : t \in Contents(turnQueues[c])) \/ (\E v \in W : env[v] = t) =>
                          fate'[t] \in {"cancelled", "handled"}
  BY <1>1, <1>2, <1>4, <1>6
<1>8. \A t \in Turns : fate'[t] # fate[t] =>
                          (\E c \in C : t \in Contents(turnQueues[c])) \/ (\E v \in W : env[v] = t)
  BY <1>1, <1>2, <1>5, <1>6
<1>9. /\ C \in SUBSET Channels /\ W \in SUBSET Tasks /\ \E v \in Tasks : W = {v}
      /\ \A v \in Tasks : env'[v] = IF v \in W THEN None ELSE env[v]
  BY <1>1, <1>2
<1>10. Ending(C, W)
  BY <1>3, <1>7, <1>8, <1>9 DEF Ending, EndsIn
<1> QED
  BY <1>10, RefEnds

(* Whole lines are dropped, but never lost.                                *)
Dropping(C, o) ==
  /\ C \in SUBSET Channels
  /\ \A q \in Deques : items'[q] = IF \E c \in C : turnQueues[c] = q THEN <<>> ELSE items[q]
  /\ \A c \in Channels : turnQueues'[c] = IF c \in C THEN None ELSE turnQueues[c]
  /\ \A t \in Turns : fate'[t] = IF \E c \in C : t \in Contents(turnQueues[c]) THEN o ELSE fate[t]
  /\ (\E c \in C : Contents(turnQueues[c]) # {}) => o = "cancelled"
  /\ UNCHANGED env

LEMMA RefDropped ==
  ASSUME RefInv, NEW C, NEW o, Dropping(C, o)
  PROVE  Contract!Next
<1> TypeOK /\ HomeInv
  BY DEF RefInv, TaskInv, WorkInv
<1> USE DEF Dropping
<1>1. PICK W : W = {}
  OBVIOUS
<1>2. \A c \in Channels : Line'[c] = IF c \in C THEN <<>> ELSE Line[c]
  <2>1. SUFFICES ASSUME NEW c \in Channels PROVE Line'[c] = IF c \in C THEN <<>> ELSE Line[c]
    OBVIOUS
  <2>2. Line'[c] = IF turnQueues'[c] = None THEN <<>> ELSE items'[turnQueues'[c]]
    BY DEF Line
  <2>3. turnQueues[c] \in Deques \/ turnQueues[c] = None
    BY DEF TypeOK
  <2>4. c \notin C /\ turnQueues[c] # None => ~\E d \in C : turnQueues[d] = turnQueues[c]
    BY DEF RefInv, MapInv
  <2> QED
    BY <2>2, <2>3, <2>4, LineIs
<1>3. \A v \in Tasks : env'[v] = IF v \in W THEN None ELSE env[v]
  BY <1>1
<1>4. \A t \in Turns : (\E c \in C : t \in Contents(turnQueues[c])) \/ (\E v \in W : env[v] = t) =>
                          fate'[t] \in {"cancelled", "handled"}
  BY <1>1
<1>5. \A t \in Turns : fate'[t] # fate[t] =>
                          (\E c \in C : t \in Contents(turnQueues[c])) \/ (\E v \in W : env[v] = t)
  BY <1>1
<1>6. W \in SUBSET Tasks
  BY <1>1
<1>7. Ending(C, W)
  BY <1>1, <1>2, <1>3, <1>4, <1>5, <1>6 DEF Ending, EndsIn
<1> QED
  BY <1>7, RefEnds

LEMMA RefStays ==
  ASSUME UNCHANGED <<env, fate>>, \A c \in Channels : Line'[c] = Line[c]
  PROVE  UNCHANGED Contract!cvars
<1>1. Line' = Line
  BY DEF Line
<1>2. Begun' = Begun /\ Over' = Over
  BY DEF Begun, Over
<1> QED
  BY <1>1, <1>2 DEF Contract!cvars, Line, Begun, Over

LEMMA RefWorker ==
  ASSUME RefInv, NEW w \in Tasks, Worker(w), NoSilentLoss'
  PROVE  Contract!Next \/ UNCHANGED Contract!cvars
<1> USE DEF semVars, stopVars, downVars, taskVars, queueVars
<1> TypeOK /\ TaskInv /\ HomeInv
  BY DEF RefInv, TaskInv, WorkInv
<1>0. fate \in [Turns -> Fates]
  BY DEF TypeOK
<1>1. CASE StartWorker(w)
  <2>0. PICK q : q = turnQueues[chan[w]]
    OBVIOUS
  <2>1. env[w] = None /\ q \in Deques
    BY <1>1, <2>0 DEF StartWorker, HomeInv, Idle, TaskInv, TypeOK
  <2>2. \/ /\ items[q] # <<>> /\ UNCHANGED turnQueues
           /\ TakeTurn(w, q, slots, holders, workCount, fate)
        \/ ExitLoop(w, q, slots, holders, workCount, fate)
    BY <1>1, <2>0 DEF StartWorker
  <2> QED
    BY <1>0, <2>1, <2>2, RefTake, RefExit
<1>2. CASE CancelBeforeStart(w) \/ DeliverReply(w) \/ FinishInner(w)
  <2>1. UNCHANGED <<env, fate, turnQueues, items>>
    BY <1>2 DEF CancelBeforeStart, DeliverReply, FinishInner
  <2> QED
    BY <2>1, RefStays DEF Line
<1>3. CASE AcquireSlot(w) \/ CancelAcquire(w)
  <2>1. queue[w] \in Deques /\ env[w] \in Turns
    BY <1>3 DEF AcquireSlot, CancelAcquire, TaskInv
  <2>2. PICK f : f = [fate EXCEPT ![env[w]] = "cancelled"]
    OBVIOUS
  <2>3. /\ f \in [Turns -> Fates] /\ f[env[w]] = "cancelled"
        /\ \A t \in Turns : t # env[w] => f[t] = fate[t]
    BY <1>0, <2>1, <2>2 DEF Fates
  <2>4. \/ UNCHANGED <<env, fate, turnQueues, items>>
        \/ ExitLoop(w, queue[w], slots, holders, TurnOver, f)
    BY <1>3, <2>2 DEF AcquireSlot, CancelAcquire
  <2>5. CASE UNCHANGED <<env, fate, turnQueues, items>>
    BY <2>5, RefStays DEF Line
  <2> QED
    BY <2>1, <2>3, <2>4, <2>5, RefExit
<1>4. CASE FinishTurn(w)
  <2>1. queue[w] \in Deques /\ env[w] \in Turns
    BY <1>4 DEF FinishTurn, TaskInv, InTurn
  <2>2. PICK f, s, h : /\ f = [fate EXCEPT ![env[w]] = IF w \in cancelled THEN "cancelled" ELSE "handled"]
                       /\ s = SlotsReleased(w) /\ h = holders \ {w}
    OBVIOUS
  <2>3. /\ f \in [Turns -> Fates] /\ f[env[w]] \in {"cancelled", "handled"}
        /\ \A t \in Turns : t # env[w] => f[t] = fate[t]
    BY <1>0, <2>1, <2>2 DEF Fates
  <2>4. \/ /\ items[queue[w]] # <<>> /\ UNCHANGED turnQueues
           /\ TakeTurn(w, queue[w], s, h, TurnOver, f)
        \/ ExitLoop(w, queue[w], s, h, TurnOver, f)
    BY <1>4, <2>2 DEF FinishTurn
  <2> QED
    BY <2>1, <2>3, <2>4, RefTake, RefExit
<1>5. CASE TaskFinished(w)
  <2>1. env' = env /\ chan[w] \in Channels
    BY <1>5 DEF TaskFinished, TaskInv
  <2>2. CASE UNCHANGED queueVars
    BY <2>1, <2>2, RefStays DEF Line
  <2>3. CASE Mapped(w)
    <3>0. PICK k, o, C : /\ C = {k} /\ k = chan[w]
                         /\ o = IF draining THEN "cancelled" ELSE "lost"
      OBVIOUS
    <3>1. /\ turnQueues' = [turnQueues EXCEPT ![k] = None]
          /\ items' = [p \in Deques |-> IF p = turnQueues[k] THEN <<>> ELSE items[p]]
          /\ fate' = [t \in Turns |-> IF t \in Contents(turnQueues[k]) THEN o ELSE fate[t]]
      BY <1>5, <2>3, <3>0 DEF TaskFinished, Mapped
    <3>2. /\ \A c \in Channels : turnQueues'[c] = IF c \in C THEN None ELSE turnQueues[c]
          /\ \A q \in Deques : items'[q] = IF \E c \in C : turnQueues[c] = q THEN <<>> ELSE items[q]
          /\ \A t \in Turns : fate'[t] = IF \E c \in C : t \in Contents(turnQueues[c]) THEN o ELSE fate[t]
          /\ C \in SUBSET Channels
      BY <2>1, <3>0, <3>1 DEF TypeOK
    <3>3. (\E c \in C : Contents(turnQueues[c]) # {}) => o = "cancelled"
      <4>1. SUFFICES ASSUME NEW t \in Contents(turnQueues[k]), o = "lost" PROVE FALSE
        BY <3>0
      <4>2. t \in Turns
        <5>1. turnQueues[k] \in Deques \/ turnQueues[k] = None
          BY <2>1, <3>0 DEF TypeOK
        <5> QED
          BY <4>1, <5>1, SizeType
      <4>3. fate'[t] = "lost"
        BY <3>1, <4>1, <4>2
      <4> QED
        BY <4>2, <4>3 DEF NoSilentLoss
    <3>4. Dropping(C, o)
      BY <2>1, <3>2, <3>3 DEF Dropping
    <3> QED
      BY <3>4, RefDropped
  <2> QED
    BY <1>5, <2>2, <2>3 DEF TaskFinished
<1> QED
  BY <1>1, <1>2, <1>3, <1>4, <1>5 DEF Worker

LEMMA RefIngress ==
  ASSUME RefInv, NEW c \in Channels, NEW t \in Turns,
         QueueTurn(c, t) \/ RefuseTurn(c, t)
  PROVE  Contract!Next
<1> USE DEF semVars, stopVars, downVars, taskVars
<1> TypeOK /\ HomeInv
  BY DEF RefInv, TaskInv, WorkInv
<1>0. fate[t] = "unseen" /\ env' = env
  BY DEF QueueTurn, RefuseTurn
<1>1. t \notin (UNION {ToSet(Line[d]) : d \in Channels}) \cup Begun \cup {x \in Turns : Over[x]}
  BY <1>0, SenderSees DEF Over
<1>2. CASE QueueTurn(c, t)
  <2>0. PICK q : q = DequeFor(c)
    OBVIOUS
  <2>1. /\ q \in Deques /\ (turnQueues[c] = None => ~InMap(q))
        /\ turnQueues[c] # None => q = turnQueues[c]
    <3>1. CASE turnQueues[c] = None
      <4>1. q \in FreeDeques
        BY <1>2, <2>0, <3>1 DEF QueueTurn, DequeFor
      <4> QED
        BY <3>1, <4>1 DEF FreeDeques, UsedDeques, InMap
    <3>2. CASE turnQueues[c] # None
      BY <2>0, <3>2 DEF DequeFor, TypeOK
    <3> QED
      BY <3>1, <3>2
  <2>2. /\ \A d \in Channels : turnQueues'[d] = IF d = c THEN q ELSE turnQueues[d]
        /\ items'[q] = Append(Line[c], t) /\ \A p \in Deques : p # q => items'[p] = items[p]
    BY <1>2, <2>0, <2>1, LineIs DEF QueueTurn, TypeOK
  <2>3. ASSUME NEW d \in Channels PROVE Line'[d] = IF d = c THEN Append(Line[c], t) ELSE Line[d]
    <3>1. Line'[d] = IF turnQueues'[d] = None THEN <<>> ELSE items'[turnQueues'[d]]
      BY DEF Line
    <3>2. d # c => turnQueues[d] # q
      BY <2>1 DEF RefInv, MapInv, InMap
    <3>3. turnQueues[d] \in Deques \/ turnQueues[d] = None
      BY DEF TypeOK
    <3> QED
      BY <2>1, <2>2, <3>1, <3>2, <3>3, LineIs
  <2>4. Line' = [Line EXCEPT ![c] = Append(Line[c], t)]
    <3>1. Line' = [d \in Channels |-> IF d = c THEN Append(Line[c], t) ELSE Line[d]]
      BY <2>3 DEF Line
    <3>2. DOMAIN Line = Channels
      BY DEF Line
    <3> QED
      BY <3>1, <3>2
  <2>5. Begun' = Begun
    BY <1>0 DEF Begun
  <2>6. Over' = Over
    <3>1. \A x \in Turns : (fate'[x] \in {"refused", "handled", "cancelled"}) =
                              (fate[x] \in {"refused", "handled", "cancelled"})
      BY <1>0, <1>2 DEF QueueTurn, TypeOK
    <3> QED
      BY <3>1 DEF Over
  <2>7. Cardinality((UNION {ToSet(Line[d]) : d \in Channels}) \cup Begun) < MaxPendingTurns
    <3>1. workCount < MaxPendingTurns
      BY <1>2, BoundsAssumption DEF QueueTurn, AtCapacity, TypeOK
    <3> QED
      BY <3>1, SenderSees
  <2> QED
    BY <1>1, <2>4, <2>5, <2>6, <2>7, AcceptIs
<1>3. CASE RefuseTurn(c, t)
  <2>1. /\ UNCHANGED items /\ fate' = [fate EXCEPT ![t] = "refused"]
        /\ turnQueues' = PopIfEmpty(c)
    BY <1>3 DEF RefuseTurn
  <2>2. \/ turnQueues' = turnQueues
        \/ turnQueues' = [turnQueues EXCEPT ![c] = None] /\ Contents(turnQueues[c]) = {}
    BY <2>1 DEF PopIfEmpty
  <2>3. ASSUME NEW d \in Channels PROVE Line'[d] = Line[d]
    <3>1. Line'[d] = IF turnQueues'[d] = None THEN <<>> ELSE items'[turnQueues'[d]]
      BY DEF Line
    <3>2. \/ turnQueues'[d] = turnQueues[d]
          \/ turnQueues'[d] = None /\ Contents(turnQueues[d]) = {}
      BY <2>2 DEF TypeOK
    <3>3. turnQueues[d] \in Deques \/ turnQueues[d] = None
      BY DEF TypeOK
    <3>4. ASSUME turnQueues[d] \in Deques, Contents(turnQueues[d]) = {} PROVE items[turnQueues[d]] = <<>>
      <4>1. items[turnQueues[d]] \in Seq(Turns)
        BY <3>4 DEF TypeOK
      <4>2. \A x : ~Has(items[turnQueues[d]], x)
        <5>1. \A x : Has(items[turnQueues[d]], x) => x \in Turns
          BY <4>1 DEF Has
        <5> QED
          BY <3>4, <5>1, ContentsAre
      <4> QED
        BY <4>1, <4>2, NothingHas
    <3> QED
      BY <2>1, <3>1, <3>2, <3>3, <3>4, LineIs
  <2>4. Line' = Line /\ Begun' = Begun
    BY <1>0, <2>3 DEF Begun, Line
  <2>5. Over' = [x \in Turns |-> Over[x] \/ x \in {t}]
    <3>1. \A x \in Turns : (fate'[x] \in {"refused", "handled", "cancelled"}) =
                              (fate[x] \in {"refused", "handled", "cancelled"} \/ x \in {t})
      BY <2>1 DEF TypeOK
    <3>2. Over' = [x \in Turns |-> fate'[x] \in {"refused", "handled", "cancelled"}]
      BY DEF Over
    <3> QED
      BY <3>1, <3>2 DEF Over
  <2> QED
    BY <1>1, <2>4, <2>5, RefuseIs
<1> QED
  BY <1>2, <1>3

LEMMA RefRest ==
  ASSUME RefInv,
         \/ \E c \in Channels : StopTurn(c) \/ SlashStop(c)
         \/ EndStopTurn \/ BeginShutdown \/ Shutdown
  PROVE  Contract!Next \/ UNCHANGED Contract!cvars
<1> USE DEF semVars, stopVars, downVars, taskVars, queueVars
<1> TypeOK
  BY DEF RefInv, TaskInv
<1>1. CASE UNCHANGED <<items, fate, env, turnQueues>>
  BY <1>1, RefStays DEF Line
<1>2. ASSUME NEW D \in SUBSET Channels, Detach(D), UNCHANGED env PROVE Contract!Next
  <2>1. PICK gone, o : gone = UNION {Contents(turnQueues[c]) : c \in D} /\ o = "cancelled"
    OBVIOUS
  <2>2. /\ items' = [q \in Deques |-> IF \E c \in D : turnQueues[c] = q THEN <<>> ELSE items[q]]
        /\ turnQueues' = [c \in Channels |-> IF c \in D THEN None ELSE turnQueues[c]]
        /\ fate' = [t \in Turns |-> IF t \in gone THEN o ELSE fate[t]]
    BY <1>2, <2>1 DEF Detach
  <2>3. \A t : t \in gone <=> \E c \in D : t \in Contents(turnQueues[c])
    BY <2>1
  <2>4. /\ \A q \in Deques : items'[q] = IF \E c \in D : turnQueues[c] = q THEN <<>> ELSE items[q]
        /\ \A c \in Channels : turnQueues'[c] = IF c \in D THEN None ELSE turnQueues[c]
        /\ \A t \in Turns : fate'[t] = IF \E c \in D : t \in Contents(turnQueues[c]) THEN o ELSE fate[t]
    BY <2>2, <2>3
  <2>5. Dropping(D, o)
    BY <1>2, <2>1, <2>4 DEF Dropping
  <2> QED
    BY <2>5, RefDropped
<1>3. ASSUME NEW c \in Channels, CancelChannel(c), UNCHANGED env
      PROVE  Contract!Next \/ UNCHANGED Contract!cvars
  <2>1. CASE Detach({c})
    <3>1. {c} \in SUBSET Channels
      OBVIOUS
    <3> QED
      BY <1>2, <1>3, <2>1, <3>1
  <2>2. CASE UNCHANGED <<turnQueues, items, workCount, fate, cancelled>>
    BY <1>3, <2>2, RefStays DEF Line
  <2> QED
    BY <1>3, <2>1, <2>2 DEF CancelChannel
<1>4. CASE CancelAll /\ UNCHANGED env
  <2>1. {c \in Channels : HasWorker(c)} \in SUBSET Channels
    OBVIOUS
  <2> QED
    BY <1>2, <1>4, <2>1 DEF CancelAll
<1> QED
  BY <1>1, <1>3, <1>4 DEF StopTurn, SlashStop, EndStopTurn,
     BeginShutdown, Shutdown, DrainStart, DrainSettled, DrainTimeout, CancelWaitOver, FlushStores

LEMMA MapStep == TypeOK /\ MapInv /\ Next => MapInv'
<1> SUFFICES ASSUME TypeOK, MapInv, Next PROVE MapInv'
  OBVIOUS
<1> USE DEF semVars, stopVars, downVars, taskVars, queueVars
<1>1. ASSUME \A c \in Channels : turnQueues'[c] = turnQueues[c] \/ turnQueues'[c] = None PROVE MapInv'
  BY <1>1 DEF MapInv
<1>2. ASSUME NEW c \in Channels, NEW t \in Turns, QueueTurn(c, t) PROVE MapInv'
  <2>1. turnQueues' = [turnQueues EXCEPT ![c] = DequeFor(c)] /\ (turnQueues[c] = None => FreeDeques # {})
    BY <1>2 DEF QueueTurn
  <2>2. CASE turnQueues[c] = None
    <3>1. DequeFor(c) \in FreeDeques
      BY <2>1, <2>2 DEF DequeFor
    <3>2. \A d \in Channels : turnQueues[d] # DequeFor(c)
      BY <3>1 DEF FreeDeques, UsedDeques
    <3> QED
      BY <2>1, <3>2 DEF MapInv, TypeOK
  <2>3. CASE turnQueues[c] # None
    BY <2>1, <2>3 DEF MapInv, DequeFor, TypeOK
  <2> QED
    BY <2>2, <2>3
<1>3. ASSUME NEW c \in Channels, NEW t \in Turns, RefuseTurn(c, t) PROVE MapInv'
  BY <1>1, <1>3 DEF RefuseTurn, PopIfEmpty, TypeOK
<1>4. ASSUME NEW w \in Tasks, Worker(w) PROVE MapInv'
  BY <1>1, <1>4 DEF Worker, StartWorker, CancelBeforeStart, AcquireSlot, CancelAcquire,
     DeliverReply, FinishInner, FinishTurn, TaskFinished, ExitLoop, TakeTurn, TypeOK
<1>5. ASSUME NEW c \in Channels, StopTurn(c) \/ SlashStop(c) PROVE MapInv'
  BY <1>1, <1>5 DEF StopTurn, SlashStop, CancelAll, CancelChannel, Detach, TypeOK
<1>6. CASE EndStopTurn \/ BeginShutdown \/ Shutdown
  BY <1>1, <1>6 DEF EndStopTurn, BeginShutdown, Shutdown, DrainStart, DrainSettled, DrainTimeout,
     CancelWaitOver, FlushStores
<1> QED
  BY <1>2, <1>3, <1>4, <1>5, <1>6, NextCases

LEMMA RefInit == Init => RefInv /\ Contract!Init
<1> SUFFICES ASSUME Init PROVE RefInv /\ Contract!Init
  OBVIOUS
<1>1. RefInv
  BY TaskInvInit, WorkInit DEF RefInv, MapInv, Init
<1>2. Line = [c \in Channels |-> <<>>]
  BY DEF Init, Line
<1>3. Begun = {}
  <2>1. \A w \in Tasks : env[w] = None
    BY DEF Init
  <2> QED
    BY <2>1 DEF Begun
<1>4. Over = [t \in Turns |-> FALSE]
  <2>1. \A t \in Turns : fate[t] = "unseen"
    BY DEF Init
  <2>2. \A t \in Turns : (fate[t] \in {"refused", "handled", "cancelled"}) = FALSE
    BY <2>1
  <2> QED
    BY <2>2 DEF Over
<1> QED
  BY <1>1, <1>2, <1>3, <1>4 DEF Contract!Init, Line, Begun, Over

LEMMA RefStep == RefInv /\ [Next]_vars => RefInv'
<1>1. CASE UNCHANGED vars
  BY <1>1, WorkStep DEF vars, queueVars, RefInv, MapInv
<1>2. CASE Next
  BY <1>2, WorkStep, MapStep DEF RefInv, TaskInv
<1> QED
  BY <1>1, <1>2

LEMMA RefSimulates == RefInv /\ [Next]_vars /\ NoSilentLoss' => [Contract!Next]_(Contract!cvars)
<1>1. CASE UNCHANGED vars
  BY <1>1, RefStays DEF vars, queueVars, taskVars, Line
<1>2. CASE Next
  BY <1>2, NextCases, RefIngress, RefWorker, RefRest
<1> QED
  BY <1>1, <1>2

(* The turn queue implements the contract that the sender relies on, in    *)
(* every behaviour that loses no turn silently.                            *)
THEOREM OnlyLossBreaksTheContract == Spec /\ []NoSilentLoss => ImplementsContract
<1>1. Init => RefInv /\ Contract!Init
  BY RefInit
<1>2. RefInv /\ [Next]_vars => RefInv'
  BY RefStep
<1>3. RefInv /\ [Next]_vars /\ NoSilentLoss' => [Contract!Next]_(Contract!cvars)
  BY RefSimulates
<1> QED
  BY <1>1, <1>2, <1>3, PTL DEF Spec, ImplementsContract, Contract!Spec
=============================================================================
