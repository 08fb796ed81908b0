------------------------------ MODULE A2ATasks ------------------------------
(***************************************************************************)
(* The task table of the A2A server (norax/a2a/server.py): tasks sent by   *)
(* remote agents, the worker that runs each one, the slots and the lock    *)
(* per context they wait for, cancellation, eviction and close().          *)
(*                                                                         *)
(* An action is the code between two suspension points of asyncio.  A task *)
(* id is a fresh uuid; an id is reused here once its task was evicted and  *)
(* its worker has ended.  Locks are objects, told apart by identity: the   *)
(* server drops and recreates the lock of a context.                       *)
(*                                                                         *)
(* Two branches of the code are never taken and have no counterpart.  A    *)
(* message to an existing task is always refused, because a task that is   *)
(* not terminal has a worker (RunningIsListed); and a worker never finds   *)
(* its task canceled after acquire(), because cancel() reached it there.   *)
(***************************************************************************)
EXTENDS Integers, FiniteSets, SequencesExt

CONSTANTS
    Jobs,          \* task ids
    Contexts,      \* context ids
    Locks,         \* identities of asyncio.Lock objects
    MaxTasks,      \* max_tasks
    MaxConcurrent, \* max_concurrent
    None           \* Python's None

ASSUME LimitsAssumption == MaxTasks \in Nat \ {0} /\ MaxConcurrent \in Nat \ {0}

ASSUME LocksAssumption == None \notin Locks

VARIABLES
    tasks,         \* the keys of _tasks
    status,        \* task.status
    contextOf,     \* task.context_id
    pc,            \* where the worker of a task is suspended, or "none"
    cancelled,     \* workers on which cancel() was called
    waiting,       \* suspended waiters of _slots and of all locks, in order of arrival
    slots,         \* the value of _slots
    contextLocks,  \* _context_locks
    lock,          \* the local context_lock of a worker
    server         \* "closing" while close() awaits the workers

taskVars == <<tasks, status, contextOf>>
lockVars == <<waiting, slots, contextLocks, lock>>
vars     == <<taskVars, pc, cancelled, lockVars, server>>

Terminal == {"completed", "failed", "canceled"}
HasSlot  == {"lockwait", "turn"}

TypeOK ==
    /\ tasks \subseteq Jobs
    /\ status \in [Jobs -> {"submitted", "working"} \cup Terminal]
    /\ contextOf \in [Jobs -> Contexts \cup {None}]
    /\ pc \in [Jobs -> {"none", "created", "slotwait"} \cup HasSlot]
    /\ cancelled \subseteq Jobs
    /\ waiting \in Seq(Jobs)
    /\ slots \in Int
    /\ contextLocks \in [Contexts -> Locks \cup {None}]
    /\ lock \in [Jobs -> Locks \cup {None}]
    /\ server \in {"open", "closing", "closed"}

Init ==
    /\ tasks = {}
    /\ status = [j \in Jobs |-> "submitted"]
    /\ contextOf = [j \in Jobs |-> None]
    /\ pc = [j \in Jobs |-> "none"]
    /\ cancelled = {}
    /\ waiting = <<>>
    /\ slots = MaxConcurrent
    /\ contextLocks = [c \in Contexts |-> None]
    /\ lock = [j \in Jobs |-> None]
    /\ server = "open"

Live(j) == pc[j] # "none"

-----------------------------------------------------------------------------
(* asyncio.Semaphore and asyncio.Lock: first come, first served; a waiter  *)
(* that was cancelled no longer counts.                                    *)

Locked(l) == \E j \in Jobs : pc[j] = "turn" /\ lock[j] = l

(* The waiters after j has left, if it was one of them.                    *)
Without(j) ==
    IF \E i \in DOMAIN waiting : waiting[i] = j
    THEN RemoveAt(waiting, CHOOSE i \in DOMAIN waiting : waiting[i] = j)
    ELSE waiting

(* Nobody among the rivals waits, or j waits before all of them.           *)
Foremost(j, rivals) ==
    \A i \in DOMAIN waiting : waiting[i] \in rivals \ cancelled =>
                                  \E k \in 1..i : waiting[k] = j

SlotFree(j) == slots > 0 /\ Foremost(j, {i \in Jobs : pc[i] = "slotwait"})

LockFree(j, l) ==
    ~Locked(l) /\ Foremost(j, {i \in Jobs : pc[i] = "lockwait" /\ lock[i] = l})

-----------------------------------------------------------------------------
(* send_message and the table *)

EvictableAny == tasks                                       \* mutant: no filter
Evictable    == {j \in tasks : status[j] \in Terminal}

PrunableAlways(kept, c) == \A j \in kept : contextOf[j] # c       \* mutant
Prunable(kept, c) ==
    /\ \A j \in kept : contextOf[j] # c
    /\ ~Locked(contextLocks[c])

(* _store_task drops a terminal task when the table is full, and the lock  *)
(* of its context with it if no other task needs it.  The code takes the   *)
(* task whose updated_at is the oldest; that is wall-clock time, so any    *)
(* terminal task may be it.  Without one the message is refused.           *)
StoreTask(j) ==
    \/ /\ Cardinality(tasks) < MaxTasks
       /\ tasks' = tasks \cup {j}
       /\ UNCHANGED contextLocks
    \/ /\ Cardinality(tasks) >= MaxTasks
       /\ \E old \in Evictable :
            LET kept == tasks \ {old}
                c    == contextOf[old]
            IN  /\ tasks' = kept \cup {j}
                /\ contextLocks' =
                     IF Prunable(kept, c) THEN [contextLocks EXCEPT ![c] = None] ELSE contextLocks

(* A message that names no task: the task is stored and its worker created *)
(* without an await in between.                                            *)
Send(j, c) ==
    /\ server = "open"
    /\ j \notin tasks /\ ~Live(j)
    /\ StoreTask(j)
    /\ status' = [status EXCEPT ![j] = "submitted"]
    /\ contextOf' = [contextOf EXCEPT ![j] = c]
    /\ pc' = [pc EXCEPT ![j] = "created"]
    /\ UNCHANGED <<cancelled, waiting, slots, lock, server>>

-----------------------------------------------------------------------------
(* _run_task *)

(* context_locks.setdefault: the lock of the context or a new one.         *)
LockFor(c) ==
    IF contextLocks[c] # None THEN {contextLocks[c]}
    ELSE Locks \ ({contextLocks[d] : d \in Contexts} \cup {lock[j] : j \in Jobs})

(* With a slot in hand: the task is working, and its turn begins if nobody *)
(* has the lock of its context; otherwise it keeps the slot and waits.     *)
EnterContext(j) ==
    \E l \in LockFor(contextOf[j]) :
        /\ slots' = slots - 1
        /\ status' = [status EXCEPT ![j] = "working"]
        /\ contextLocks' = [contextLocks EXCEPT ![contextOf[j]] = l]
        /\ lock' = [lock EXCEPT ![j] = l]
        /\ IF LockFree(j, l)
           THEN /\ pc' = [pc EXCEPT ![j] = "turn"]
                /\ waiting' = Without(j)
           ELSE /\ pc' = [pc EXCEPT ![j] = "lockwait"]
                /\ waiting' = Append(Without(j), j)

(* The first step of a worker.                                             *)
Begin(j) ==
    /\ pc[j] = "created" /\ j \notin cancelled
    /\ \/ SlotFree(j) /\ EnterContext(j)
       \/ /\ ~SlotFree(j)
          /\ pc' = [pc EXCEPT ![j] = "slotwait"]
          /\ waiting' = Append(waiting, j)
          /\ UNCHANGED <<status, slots, contextLocks, lock>>
    /\ UNCHANGED <<tasks, contextOf, cancelled, server>>

GotSlot(j) ==
    /\ pc[j] = "slotwait" /\ j \notin cancelled /\ SlotFree(j)
    /\ EnterContext(j)
    /\ UNCHANGED <<tasks, contextOf, cancelled, server>>

GotLock(j) ==
    /\ pc[j] = "lockwait" /\ j \notin cancelled /\ LockFree(j, lock[j])
    /\ pc' = [pc EXCEPT ![j] = "turn"]
    /\ waiting' = Without(j)
    /\ UNCHANGED <<taskVars, cancelled, slots, contextLocks, lock, server>>

(* The slot goes back when the worker leaves "async with self._slots".     *)
SlotKept(j)     == slots + (IF pc[j] = "turn" THEN 1 ELSE 0)   \* mutant: not while it waits
SlotReturned(j) == slots + (IF pc[j] \in HasSlot THEN 1 ELSE 0)

WorkerOver(j, verdict) ==
    /\ status' = [status EXCEPT ![j] = verdict]
    /\ slots' = SlotReturned(j)
    /\ pc' = [pc EXCEPT ![j] = "none"]
    /\ lock' = [lock EXCEPT ![j] = None]
    /\ cancelled' = cancelled \ {j}
    /\ waiting' = Without(j)
    /\ UNCHANGED <<tasks, contextOf, contextLocks, server>>

VerdictAlways(j) == "completed"                 \* mutant: no look at the status
Verdict(j) == IF status[j] = "canceled" THEN "canceled" ELSE "completed"

(* A turn that was cancelled may still reply, because _handle_turn         *)
(* swallows the cancellation; any turn may fail, also while it unwinds.    *)
TurnReplied(j)   == pc[j] = "turn" /\ WorkerOver(j, Verdict(j))
TurnFailed(j)    == pc[j] = "turn" /\ WorkerOver(j, "failed")
TurnCancelled(j) == pc[j] = "turn" /\ j \in cancelled /\ WorkerOver(j, "canceled")

(* Cancelled in acquire() of the semaphore or of the lock.                 *)
CancelWait(j) ==
    pc[j] \in {"slotwait", "lockwait"} /\ j \in cancelled /\ WorkerOver(j, "canceled")

(* Cancelled before the first step: no line of _run_task runs.             *)
CancelCreated(j) == pc[j] = "created" /\ j \in cancelled /\ WorkerOver(j, status[j])

-----------------------------------------------------------------------------
(* cancel_task and close *)

(* The id of a task is not known to any client before the response to the  *)
(* message, which is sent after the worker's first step.                   *)
CancelTask(j) ==
    /\ j \in tasks /\ status[j] \notin Terminal
    /\ pc[j] # "created"
    /\ status' = [status EXCEPT ![j] = "canceled"]
    /\ cancelled' = IF Live(j) THEN cancelled \cup {j} ELSE cancelled
    /\ UNCHANGED <<tasks, contextOf, pc, lockVars, server>>

Close ==
    /\ server = "open"
    /\ server' = "closing"
    /\ cancelled' = {j \in Jobs : Live(j)}
    /\ UNCHANGED <<taskVars, pc, lockVars>>

(* gather() returned.                                                      *)
CloseDone ==
    /\ server = "closing"
    /\ \A j \in Jobs : ~Live(j)
    /\ server' = "closed"
    /\ UNCHANGED <<taskVars, pc, cancelled, lockVars>>

-----------------------------------------------------------------------------
WorkerStep(j) ==
    \/ Begin(j) \/ GotSlot(j) \/ GotLock(j)
    \/ TurnReplied(j) \/ TurnFailed(j) \/ TurnCancelled(j)
    \/ CancelWait(j) \/ CancelCreated(j)

Next ==
    \/ \E j \in Jobs : WorkerStep(j) \/ CancelTask(j) \/ \E c \in Contexts : Send(j, c)
    \/ Close \/ CloseDone

Spec == Init /\ [][Next]_vars

(* The event loop runs what is ready, and a turn ends because its rounds   *)
(* and requests are bounded.                                               *)
FairSpec == Spec /\ \A j \in Jobs : WF_vars(WorkerStep(j))

-----------------------------------------------------------------------------
(* Properties *)

(* Two turns of one context never overlap, although the lock of a context  *)
(* is dropped and made anew while workers of evicted tasks still run.      *)
ContextSerial ==
    \A i, j \in Jobs : pc[i] = "turn" /\ pc[j] = "turn" /\ contextOf[i] = contextOf[j] => i = j

(* A task shown as submitted or working has a worker that will settle it,  *)
(* and a worker whose task has no verdict is in the table, where a client  *)
(* can see and cancel it: eviction never hides it.                         *)
RunningIsListed ==
    server = "open" =>
        \A j \in Jobs : status[j] \notin Terminal => (Live(j) <=> j \in tasks)

(* A verdict stands.  A canceled task never turns out completed, although  *)
(* its turn may swallow the cancellation and reply; it may become failed.  *)
CancelIsFinal ==
    [][\A j \in tasks \cap tasks' :
         /\ status[j] \in {"completed", "failed"} => status'[j] = status[j]
         /\ status[j] = "canceled" => status'[j] \in {"canceled", "failed"}]_vars

(* Every worker ends, so every task gets its verdict and close() returns:  *)
(* a worker that holds a slot while it waits for its context, or is        *)
(* cancelled while it waits, never blocks the others for good.             *)
TasksEnd == \A j \in Jobs : Live(j) ~> ~Live(j)
=============================================================================
