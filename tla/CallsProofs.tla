---------------------------- MODULE CallsProofs -----------------------------
(* What is proved of work that waits for somebody: the tasks other agents  *)
(* send (A2ATasks), for any number of tasks, contexts and locks, and the   *)
(* approvals of a tool call (Approvals), for any calls, table size and     *)
(* lifetime.                                                               *)
EXTENDS A2ATasks, Approvals, FiniteSetTheorems, SequenceTheorems, TLAPS

(* A2ATasks                                                                *)

USE LimitsAssumption, LocksAssumption

-----------------------------------------------------------------------------
(* The variables keep their types. *)

LEMMA WithoutType ==
  ASSUME TypeOK, NEW j \in Jobs
  PROVE  Without(j) \in Seq(Jobs)
<1>1. CASE \E i \in DOMAIN waiting : waiting[i] = j
  <2> DEFINE k == CHOOSE i \in DOMAIN waiting : waiting[i] = j
  <2>1. k \in DOMAIN waiting
    BY <1>1
  <2>2. waiting \in Seq(Jobs)
    BY DEF TypeOK
  <2>3. k \in 1..Len(waiting)
    BY <2>1, <2>2
  <2> HIDE DEF k
  <2>4. SubSeq(waiting, 1, k - 1) \in Seq(Jobs) /\ SubSeq(waiting, k + 1, Len(waiting)) \in Seq(Jobs)
    BY <2>2, <2>3, SubSeqProperties
  <2>5. RemoveAt(waiting, k) \in Seq(Jobs)
    BY <2>4, ConcatProperties DEF RemoveAt
  <2> QED
    BY <1>1, <2>5 DEF Without, k
<1>2. CASE ~\E i \in DOMAIN waiting : waiting[i] = j
  BY <1>2 DEF Without, TypeOK
<1> QED
  BY <1>1, <1>2

(* What each task that exists has.                                         *)
JobInv ==
    /\ TypeOK
    /\ cancelled \subseteq {j \in Jobs : Live(j)}
    /\ \A j \in Jobs : Live(j) \/ j \in tasks => contextOf[j] \in Contexts

LEMMA StoreTaskType ==
  ASSUME JobInv, NEW j \in Jobs, StoreTask(j)
  PROVE  /\ tasks' \subseteq tasks \cup {j}
         /\ contextLocks' \in [Contexts -> Locks \cup {None}]
  BY DEF StoreTask, JobInv, TypeOK

LEMMA EnterContextType ==
  ASSUME JobInv, NEW j \in Jobs, Live(j), EnterContext(j)
  PROVE  /\ slots' \in Int
         /\ status' = [status EXCEPT ![j] = "working"]
         /\ waiting' \in Seq(Jobs)
         /\ contextLocks' \in [Contexts -> Locks \cup {None}]
         /\ lock' \in [Jobs -> Locks \cup {None}]
         /\ pc' \in {[pc EXCEPT ![j] = "turn"], [pc EXCEPT ![j] = "lockwait"]}
<1>1. contextOf[j] \in Contexts
  BY DEF JobInv
<1>2. PICK l \in LockFor(contextOf[j]) :
        /\ slots' = slots - 1
        /\ status' = [status EXCEPT ![j] = "working"]
        /\ contextLocks' = [contextLocks EXCEPT ![contextOf[j]] = l]
        /\ lock' = [lock EXCEPT ![j] = l]
        /\ \/ pc' = [pc EXCEPT ![j] = "turn"] /\ waiting' = Without(j)
           \/ pc' = [pc EXCEPT ![j] = "lockwait"] /\ waiting' = Append(Without(j), j)
  BY DEF EnterContext
<1>3. l \in Locks
  BY <1>1, <1>2 DEF LockFor, JobInv, TypeOK
<1>4. Without(j) \in Seq(Jobs)
  BY WithoutType DEF JobInv
<1>5. Append(Without(j), j) \in Seq(Jobs)
  BY <1>4, AppendProperties
<1>6. waiting' \in Seq(Jobs)
  BY <1>2, <1>4, <1>5
<1> QED
  BY <1>1, <1>2, <1>3, <1>6 DEF JobInv, TypeOK

LEMMA WorkerOverType ==
  ASSUME JobInv, NEW j \in Jobs, Live(j), NEW v \in {"submitted", "working"} \cup Terminal,
         WorkerOver(j, v)
  PROVE  JobInv'
<1>1. waiting' \in Seq(Jobs)
  BY WithoutType DEF WorkerOver, JobInv
<1>2. slots' \in Int
  BY DEF WorkerOver, SlotReturned, JobInv, TypeOK
<1> QED
  BY <1>1, <1>2 DEF WorkerOver, JobInv, TypeOK, Live

(* The verdicts with which workers end.                                    *)
Ends(j) == TurnReplied(j) \/ TurnFailed(j) \/ TurnCancelled(j) \/ CancelWait(j) \/ CancelCreated(j)

LEMMA EndsIsOver ==
  ASSUME JobInv, NEW j \in Jobs, Ends(j)
  PROVE  /\ Live(j)
         /\ \E v \in Terminal \cup {status[j]} :
              /\ WorkerOver(j, v)
              /\ v \in Terminal \/ (pc[j] = "created" /\ j \in cancelled)
  BY DEF Ends, TurnReplied, TurnFailed, TurnCancelled, CancelWait, CancelCreated, Verdict,
         Live, Terminal

LEMMA JobStep == JobInv /\ [Next]_vars => JobInv'
<1> SUFFICES ASSUME JobInv, [Next]_vars PROVE JobInv'
  OBVIOUS
<1>1. ASSUME NEW j \in Jobs, NEW c \in Contexts, Send(j, c) PROVE JobInv'
  BY <1>1, StoreTaskType DEF Send, JobInv, TypeOK, Live
<1>2. ASSUME NEW j \in Jobs, Begin(j) \/ GotSlot(j) PROVE JobInv'
  <2>1. Live(j)
    BY <1>2 DEF Begin, GotSlot, Live
  <2>2. CASE EnterContext(j)
    BY <1>2, <2>1, <2>2, EnterContextType DEF Begin, GotSlot, JobInv, TypeOK, Live, HasSlot
  <2>3. CASE ~EnterContext(j)
    <3>1. /\ pc' = [pc EXCEPT ![j] = "slotwait"]
          /\ waiting' = Append(waiting, j)
          /\ UNCHANGED <<status, slots, contextLocks, lock, tasks, contextOf, cancelled, server>>
      BY <1>2, <2>3 DEF Begin, GotSlot
    <3>2. waiting' \in Seq(Jobs)
      BY <3>1, AppendProperties DEF JobInv, TypeOK
    <3> QED
      BY <2>1, <3>1, <3>2 DEF JobInv, TypeOK, Live
  <2> QED
    BY <2>2, <2>3
<1>3. ASSUME NEW j \in Jobs, GotLock(j) PROVE JobInv'
  BY <1>3, WithoutType DEF GotLock, taskVars, JobInv, TypeOK, Live, HasSlot
<1>4. ASSUME NEW j \in Jobs, Ends(j) PROVE JobInv'
  <2>1. status[j] \in {"submitted", "working"} \cup Terminal
    BY DEF JobInv, TypeOK
  <2> QED
    BY <1>4, <2>1, EndsIsOver, WorkerOverType
<1>5. ASSUME NEW j \in Jobs, CancelTask(j) PROVE JobInv'
  BY <1>5 DEF CancelTask, lockVars, JobInv, TypeOK, Live, Terminal
<1>6. CASE Close
  BY <1>6 DEF Close, taskVars, lockVars, JobInv, TypeOK, Live
<1>7. CASE CloseDone
  BY <1>7 DEF CloseDone, taskVars, lockVars, JobInv, TypeOK, Live
<1>8. CASE UNCHANGED vars
  BY <1>8 DEF vars, taskVars, lockVars, JobInv, TypeOK, Live
<1> QED
  BY <1>1, <1>2, <1>3, <1>4, <1>5, <1>6, <1>7, <1>8 DEF Next, WorkerStep, Ends

LEMMA JobInit == Init => JobInv
  BY DEF Init, JobInv, TypeOK, Live

(* Every reachable state of the task table is well typed.                  *)
THEOREM A2ATypeCorrect == Spec => []TypeOK
<1>1. JobInv => TypeOK
  BY DEF JobInv
<1> QED
  BY <1>1, JobInit, JobStep, PTL DEF Spec

-----------------------------------------------------------------------------
(* Nothing that runs is hidden.  RunningIsListed survives eviction because *)
(* only a worker on which cancel() was called can belong to a task with a  *)
(* verdict, and cancel_task gives that verdict before it calls cancel().   *)

ListedInv ==
    /\ RunningIsListed
    /\ \A j \in Jobs :
         /\ Live(j) /\ status[j] \notin Terminal => j \in tasks
         /\ Live(j) /\ status[j] \in Terminal => j \in cancelled
         /\ server = "open" /\ j \in cancelled => status[j] \in Terminal

LEMMA ListedStep == JobInv /\ ListedInv /\ [Next]_vars => ListedInv'
<1> SUFFICES ASSUME JobInv, ListedInv, [Next]_vars PROVE ListedInv'
  OBVIOUS
<1> USE DEF ListedInv, RunningIsListed, Terminal, Live
<1>1. ASSUME NEW j \in Jobs, NEW c \in Contexts, Send(j, c) PROVE ListedInv'
  <2>1. /\ j \in tasks'
        /\ \A i \in Jobs \ {j} : i \in tasks' => i \in tasks
        /\ \A i \in tasks \ tasks' : status[i] \in Terminal
    BY <1>1 DEF Send, StoreTask, Evictable, JobInv, TypeOK
  <2>2. /\ pc' = [pc EXCEPT ![j] = "created"]
        /\ status' = [status EXCEPT ![j] = "submitted"]
        /\ UNCHANGED <<cancelled, server>>
        /\ pc[j] = "none"
    BY <1>1 DEF Send
  <2> QED
    BY <2>1, <2>2 DEF JobInv, TypeOK
<1>2. ASSUME NEW j \in Jobs, Begin(j) \/ GotSlot(j) PROVE ListedInv'
  <2>1. /\ pc[j] # "none" /\ j \notin cancelled
        /\ UNCHANGED <<tasks, cancelled, server>>
    BY <1>2 DEF Begin, GotSlot
  <2>2. CASE EnterContext(j)
    BY <2>1, <2>2, EnterContextType DEF JobInv, TypeOK
  <2>3. CASE ~EnterContext(j)
    BY <1>2, <2>1, <2>3 DEF Begin, GotSlot, JobInv, TypeOK
  <2> QED
    BY <2>2, <2>3
<1>3. ASSUME NEW j \in Jobs, GotLock(j) PROVE ListedInv'
  BY <1>3 DEF GotLock, taskVars, JobInv, TypeOK
<1>4. ASSUME NEW j \in Jobs, Ends(j) PROVE ListedInv'
  <2>1. pc[j] # "none"
    BY <1>4, EndsIsOver
  <2>2. PICK v \in Terminal \cup {status[j]} :
          /\ WorkerOver(j, v)
          /\ v \in Terminal \/ j \in cancelled
    BY <1>4, EndsIsOver
  <2>3. /\ pc' = [pc EXCEPT ![j] = "none"]
        /\ status' = [status EXCEPT ![j] = v]
        /\ cancelled' = cancelled \ {j}
        /\ UNCHANGED <<tasks, server>>
    BY <2>2 DEF WorkerOver
  <2> QED
    BY <2>1, <2>2, <2>3 DEF JobInv, TypeOK
<1>5. ASSUME NEW j \in Jobs, CancelTask(j) PROVE ListedInv'
  BY <1>5 DEF CancelTask, lockVars, JobInv, TypeOK
<1>6. CASE Close
  BY <1>6 DEF Close, taskVars, lockVars, JobInv, TypeOK
<1>7. CASE CloseDone
  BY <1>7 DEF CloseDone, taskVars, lockVars, JobInv, TypeOK
<1>8. CASE UNCHANGED vars
  BY <1>8 DEF vars, taskVars, lockVars
<1> QED
  BY <1>1, <1>2, <1>3, <1>4, <1>5, <1>6, <1>7, <1>8 DEF Next, WorkerStep, Ends

LEMMA ListedInit == Init => ListedInv
  BY DEF Init, ListedInv, RunningIsListed, Live, Terminal

(* While the server is open, the tasks without a verdict are exactly those *)
(* in the table that have a worker.                                        *)
THEOREM NothingHidden == Spec => []RunningIsListed
<1>1. ListedInv => RunningIsListed
  BY DEF ListedInv
<1> QED
  BY <1>1, JobInit, JobStep, ListedInit, ListedStep, PTL DEF Spec

-----------------------------------------------------------------------------
(* One turn per context.  ContextSerial says nothing of locks; LockInv     *)
(* adds that whoever is in a turn, or may still get there, uses the lock   *)
(* that is in the map.  That survives pruning because a holder keeps the   *)
(* lock locked, and a waiter that was not cancelled keeps its task in the  *)
(* table (ListedInv).                                                      *)

UsesMapped(j) == lock[j] = contextLocks[contextOf[j]] /\ lock[j] # None

LockInv ==
    /\ \A i, j \in Jobs : pc[i] = "turn" /\ pc[j] = "turn" /\ lock[i] = lock[j] => i = j
    /\ \A j \in Jobs : pc[j] = "turn" => UsesMapped(j)
    /\ \A j \in Jobs : pc[j] = "lockwait" /\ j \notin cancelled => UsesMapped(j)

LEMMA PruneStep ==
  ASSUME JobInv, ListedInv, LockInv, NEW j \in Jobs, NEW c \in Contexts, Send(j, c),
         NEW i \in Jobs, pc[i] = "turn" \/ (pc[i] = "lockwait" /\ i \notin cancelled)
  PROVE  UsesMapped(i)'
<1>1. /\ i # j
      /\ lock'[i] = lock[i]
      /\ contextOf'[i] = contextOf[i]
      /\ contextOf[i] \in Contexts
      /\ UsesMapped(i)
  BY DEF Send, JobInv, TypeOK, Live, LockInv
<1>2. contextLocks'[contextOf[i]] = contextLocks[contextOf[i]]
  <2>1. CASE UNCHANGED contextLocks
    BY <2>1
  <2>2. CASE contextLocks' # contextLocks
    <3>1. PICK old \in Evictable :
            /\ Prunable(tasks \ {old}, contextOf[old])
            /\ contextLocks' = [contextLocks EXCEPT ![contextOf[old]] = None]
      BY <2>2 DEF Send, StoreTask
    <3>2. SUFFICES ASSUME contextOf[i] = contextOf[old] PROVE FALSE
      BY <3>1, <1>1 DEF JobInv, TypeOK
    <3>3. CASE pc[i] = "turn"
      BY <1>1, <3>1, <3>2, <3>3 DEF Prunable, Locked, UsesMapped
    <3>4. CASE pc[i] = "lockwait" /\ i \notin cancelled
      <4>1. i \in tasks /\ status[i] \notin Terminal
        BY <3>4 DEF ListedInv, Live
      <4> QED
        BY <3>1, <3>2, <4>1 DEF Evictable, Prunable
    <3> QED
      BY <3>3, <3>4
  <2> QED
    BY <2>1, <2>2
<1> QED
  BY <1>1, <1>2 DEF UsesMapped

LEMMA EnterStep ==
  ASSUME JobInv, LockInv, NEW j \in Jobs, pc[j] \in {"created", "slotwait"}, EnterContext(j),
         UNCHANGED <<contextOf, cancelled>>
  PROVE  LockInv'
<1>1. contextOf[j] \in Contexts
  BY DEF JobInv, Live
<1>2. PICK l \in LockFor(contextOf[j]) :
        /\ contextLocks' = [contextLocks EXCEPT ![contextOf[j]] = l]
        /\ lock' = [lock EXCEPT ![j] = l]
        /\ \/ pc' = [pc EXCEPT ![j] = "turn"] /\ ~Locked(l)
           \/ pc' = [pc EXCEPT ![j] = "lockwait"]
  BY DEF EnterContext, LockFree
<1>3. l # None /\ (contextLocks[contextOf[j]] # None => l = contextLocks[contextOf[j]])
  BY <1>1, <1>2 DEF LockFor, JobInv, TypeOK
<1>4. UsesMapped(j)'
  BY <1>1, <1>2, <1>3 DEF UsesMapped, JobInv, TypeOK
<1>5. ASSUME NEW i \in Jobs \ {j}, Live(i), UsesMapped(i) PROVE UsesMapped(i)'
  <2>1. contextOf[i] \in Contexts
    BY <1>5 DEF JobInv
  <2>2. lock'[i] = lock[i]
    BY <1>2, <1>5 DEF JobInv, TypeOK
  <2>3. contextLocks'[contextOf[i]] = contextLocks[contextOf[i]]
    BY <1>1, <1>2, <1>3, <1>5, <2>1 DEF UsesMapped, JobInv, TypeOK
  <2> QED
    BY <1>5, <2>2, <2>3 DEF UsesMapped
<1>6. \A i \in Jobs \ {j} : pc'[i] = pc[i] /\ lock'[i] = lock[i]
  BY <1>2 DEF JobInv, TypeOK
<1>7. pc'[j] = "turn" => \A i \in Jobs \ {j} : pc[i] = "turn" => lock[i] # lock'[j]
  BY <1>2 DEF Locked, JobInv, TypeOK
<1> QED
  BY <1>4, <1>5, <1>6, <1>7 DEF LockInv, Live

LEMMA LockStep == JobInv /\ ListedInv /\ LockInv /\ [Next]_vars => LockInv'
<1> SUFFICES ASSUME JobInv, ListedInv, LockInv, [Next]_vars PROVE LockInv'
  OBVIOUS
<1>1. ASSUME NEW j \in Jobs, NEW c \in Contexts, Send(j, c) PROVE LockInv'
  <2>1. /\ pc' = [pc EXCEPT ![j] = "created"]
        /\ UNCHANGED <<lock, cancelled>>
    BY <1>1 DEF Send
  <2> QED
    BY <1>1, <2>1, PruneStep DEF LockInv, JobInv, TypeOK
<1>2. ASSUME NEW j \in Jobs, Begin(j) \/ GotSlot(j) PROVE LockInv'
  <2>1. pc[j] \in {"created", "slotwait"} /\ UNCHANGED <<contextOf, cancelled>>
    BY <1>2 DEF Begin, GotSlot
  <2>2. CASE EnterContext(j)
    BY <2>1, <2>2, EnterStep
  <2>3. CASE ~EnterContext(j)
    BY <1>2, <2>3 DEF Begin, GotSlot, LockInv, UsesMapped, JobInv, TypeOK
  <2> QED
    BY <2>2, <2>3
<1>3. ASSUME NEW j \in Jobs, GotLock(j) PROVE LockInv'
  BY <1>3 DEF GotLock, LockFree, Locked, taskVars, LockInv, UsesMapped, JobInv, TypeOK
<1>4. ASSUME NEW j \in Jobs, Ends(j) PROVE LockInv'
  <2>1. /\ pc' = [pc EXCEPT ![j] = "none"]
        /\ lock' = [lock EXCEPT ![j] = None]
        /\ cancelled' = cancelled \ {j}
        /\ UNCHANGED <<contextOf, contextLocks>>
    BY <1>4, EndsIsOver DEF WorkerOver
  <2> QED
    BY <2>1 DEF LockInv, UsesMapped, JobInv, TypeOK
<1>5. ASSUME NEW j \in Jobs, CancelTask(j) PROVE LockInv'
  BY <1>5 DEF CancelTask, lockVars, LockInv, UsesMapped, JobInv, TypeOK
<1>6. CASE Close
  BY <1>6 DEF Close, taskVars, lockVars, LockInv, UsesMapped, JobInv, TypeOK, Live
<1>7. CASE CloseDone
  BY <1>7 DEF CloseDone, taskVars, lockVars, LockInv, UsesMapped
<1>8. CASE UNCHANGED vars
  BY <1>8 DEF vars, taskVars, lockVars, LockInv, UsesMapped
<1> QED
  BY <1>1, <1>2, <1>3, <1>4, <1>5, <1>6, <1>7, <1>8 DEF Next, WorkerStep, Ends

(* Turns of one context never overlap.                                     *)
THEOREM TurnsOfContextSerial == Spec => []ContextSerial
<1>1. Init => LockInv
  BY DEF Init, LockInv
<1>2. LockInv => ContextSerial
  BY DEF LockInv, UsesMapped, ContextSerial
<1> QED
  BY <1>1, <1>2, JobInit, JobStep, ListedInit, ListedStep, LockStep, PTL DEF Spec

-----------------------------------------------------------------------------
(* Verdicts. *)

(* A worker that still runs has no verdict other than canceled.            *)
VerdictInv == \A j \in Jobs : Live(j) => status[j] \notin {"completed", "failed"}

VerdictStep ==
    \A j \in tasks \cap tasks' :
         /\ status[j] \in {"completed", "failed"} => status'[j] = status[j]
         /\ status[j] = "canceled" => status'[j] \in {"canceled", "failed"}

LEMMA VerdictKept ==
  ASSUME JobInv, ListedInv, VerdictInv, [Next]_vars
  PROVE  VerdictInv' /\ VerdictStep
<1> USE DEF VerdictInv, VerdictStep, Live, Terminal
<1>0. tasks \subseteq Jobs
  BY DEF JobInv, TypeOK
<1>1. ASSUME NEW j \in Jobs, NEW c \in Contexts, Send(j, c) PROVE VerdictInv' /\ VerdictStep
  BY <1>0, <1>1 DEF Send, JobInv, TypeOK
<1>2. ASSUME NEW j \in Jobs, Begin(j) \/ GotSlot(j) PROVE VerdictInv' /\ VerdictStep
  <2>1. pc[j] # "none" /\ j \notin cancelled
    BY <1>2 DEF Begin, GotSlot
  <2>2. status[j] \notin Terminal
    BY <2>1 DEF ListedInv
  <2>3. CASE EnterContext(j)
    BY <1>0, <2>1, <2>2, <2>3, EnterContextType DEF JobInv, TypeOK
  <2>4. CASE ~EnterContext(j)
    BY <1>2, <2>1, <2>4 DEF Begin, GotSlot, JobInv, TypeOK
  <2> QED
    BY <2>3, <2>4
<1>3. ASSUME NEW j \in Jobs, GotLock(j) PROVE VerdictInv' /\ VerdictStep
  BY <1>3 DEF GotLock, taskVars, JobInv, TypeOK
<1>4. ASSUME NEW j \in Jobs, Ends(j) PROVE VerdictInv' /\ VerdictStep
  <2>1. PICK v \in Terminal \cup {status[j]} :
          /\ WorkerOver(j, v)
          /\ status[j] = "canceled" => v \in {"canceled", "failed"}
    BY <1>4 DEF Ends, TurnReplied, TurnFailed, TurnCancelled, CancelWait, CancelCreated, Verdict
  <2>2. pc[j] # "none"
    BY <1>4, EndsIsOver
  <2>3. pc' = [pc EXCEPT ![j] = "none"] /\ status' = [status EXCEPT ![j] = v]
    BY <2>1 DEF WorkerOver
  <2> QED
    BY <1>0, <2>1, <2>2, <2>3 DEF JobInv, TypeOK
<1>5. ASSUME NEW j \in Jobs, CancelTask(j) PROVE VerdictInv' /\ VerdictStep
  BY <1>0, <1>5 DEF CancelTask, JobInv, TypeOK
<1>6. CASE Close \/ CloseDone \/ UNCHANGED vars
  BY <1>6 DEF Close, CloseDone, vars, taskVars
<1> QED
  BY <1>1, <1>2, <1>3, <1>4, <1>5, <1>6 DEF Next, WorkerStep, Ends

(* A completed or failed task stays so; a canceled one never completes.    *)
THEOREM VerdictStands == Spec => CancelIsFinal
<1>1. Init => VerdictInv
  BY DEF Init, VerdictInv, Live
<1>2. JobInv /\ ListedInv /\ VerdictInv /\ [Next]_vars => VerdictInv'
  BY VerdictKept
<1>3. JobInv /\ ListedInv /\ VerdictInv /\ [Next]_vars => [VerdictStep]_vars
  BY VerdictKept
<1> QED
  BY <1>1, <1>2, <1>3, JobInit, JobStep, ListedInit, ListedStep, PTL
  DEF Spec, CancelIsFinal, VerdictStep

-----------------------------------------------------------------------------
(* Approvals                                                               *)

USE ApprovalsAssumption

(* An approval in the table has been granted, is not used up, and is the   *)
(* owner's last word on its call.                                          *)
ApprovalsBacked ==
    \A p \in pending : p.decision = "approve" =>
        ran[p.call] + 1 <= granted[p.call] /\ lastWord[p.call] = "approve"

IInv ==
    /\ ApprovalsTypeOK
    /\ OneRecordPerCall
    /\ RunsWithinGrants
    /\ ApprovalsBacked

LEMMA InitIInv == ApprovalsInit => IInv
  BY DEF ApprovalsInit, IInv, ApprovalsTypeOK, Records, Decisions, OneRecordPerCall, RunsWithinGrants,
         ApprovalsBacked

LEMMA UnexpiredPart == Unexpired \subseteq pending
  BY DEF Unexpired

LEMMA MadeRoomPart ==
  ASSUME NEW P, NEW kept \in MakeRoom(P)
  PROVE  kept \subseteq P
  BY DEF MakeRoom

(* A step that only removes records and touches no history. *)
LEMMA RemovalStep ==
  ASSUME IInv, pending' \subseteq pending, UNCHANGED <<issued, now, approvalHistory>>
  PROVE  IInv'
  BY DEF IInv, ApprovalsTypeOK, Records, OneRecordPerCall, RunsWithinGrants, ApprovalsBacked, approvalHistory

LEMMA PauseStep ==
  ASSUME IInv, NEW c \in Calls, Pause(c)
  PROVE  IInv'
<1>1. CASE Asked(Unexpired, c)
  BY <1>1, UnexpiredPart, RemovalStep DEF Pause
<1>2. CASE ~Asked(Unexpired, c)
  <2>1. PICK kept \in MakeRoom(Unexpired) : pending' = kept \cup {Requested(c)}
    BY <1>2 DEF Pause
  <2>2. issued' = issued + 1 /\ issued < MaxRequests /\ UNCHANGED <<now, approvalHistory>>
    BY <1>2 DEF Pause
  <2>3. kept \subseteq Unexpired
    BY MadeRoomPart
  <2>4. kept \subseteq pending
    BY <2>3, UnexpiredPart
  <2>5. \A p \in kept : p.call # c
    BY <2>3, <1>2 DEF Pause, Decided, Asked
  <2>6. ApprovalsTypeOK'
    BY <2>1, <2>2, <2>4 DEF IInv, ApprovalsTypeOK, Records, Requested, Decisions, approvalHistory
  <2>7. OneRecordPerCall'
    BY <2>1, <2>4, <2>5 DEF IInv, OneRecordPerCall, Requested
  <2>8. RunsWithinGrants'
    BY <2>2 DEF IInv, RunsWithinGrants, approvalHistory
  <2>9. ApprovalsBacked'
    BY <2>1, <2>2, <2>4 DEF IInv, ApprovalsBacked, Requested, approvalHistory
  <2> QED
    BY <2>6, <2>7, <2>8, <2>9 DEF IInv
<1> QED
  BY <1>1, <1>2

LEMMA RunApprovedStep ==
  ASSUME IInv, NEW c \in Calls, RunApproved(c)
  PROVE  IInv'
<1>1. PICK p \in Decided(c) : /\ p.decision = "approve"
                              /\ pending' = Unexpired \ {p}
                              /\ UNCHANGED <<issued, now, granted, lastWord>>
  BY DEF RunApproved, Consume, AfterConsuming
<1>2. ran' = [ran EXCEPT ![c] = @ + 1]
  BY DEF RunApproved
<1>3. p \in pending /\ p.call = c
  BY DEF Decided, Unexpired
<1>4. pending' \subseteq pending /\ \A q \in pending' : q.call # c
  BY <1>1, <1>3, UnexpiredPart DEF IInv, OneRecordPerCall
<1>5. ApprovalsTypeOK'
  BY <1>1, <1>2, <1>4 DEF IInv, ApprovalsTypeOK, Records
<1>6. OneRecordPerCall'
  BY <1>4 DEF IInv, OneRecordPerCall
<1>7. ran[c] + 1 <= granted[c]
  BY <1>1, <1>3 DEF IInv, ApprovalsBacked
<1>8. RunsWithinGrants'
  BY <1>1, <1>2, <1>7 DEF IInv, ApprovalsTypeOK, RunsWithinGrants
<1>9. ApprovalsBacked'
  <2> SUFFICES ASSUME NEW q \in pending', q.decision = "approve"
               PROVE  ran'[q.call] + 1 <= granted'[q.call] /\ lastWord'[q.call] = "approve"
    BY DEF ApprovalsBacked
  <2>1. q \in pending /\ q.call \in Calls /\ q.call # c
    BY <1>4 DEF IInv, ApprovalsTypeOK, Records
  <2> QED
    BY <1>1, <1>2, <2>1 DEF IInv, ApprovalsTypeOK, ApprovalsBacked
<1> QED
  BY <1>5, <1>6, <1>8, <1>9 DEF IInv

LEMMA ResolveStep ==
  ASSUME IInv, NEW p \in pending, NEW d \in Decisions, Resolve(p, d)
  PROVE  IInv'
<1> DEFINE answered == [p EXCEPT !.decision = d]
<1>1. /\ pending' = (Unexpired \ {p}) \cup {answered}
      /\ granted' = IF d = "approve" THEN [granted EXCEPT ![p.call] = @ + 1] ELSE granted
      /\ lastWord' = [lastWord EXCEPT ![p.call] = d]
      /\ UNCHANGED <<issued, now, ran>>
  BY DEF Resolve
<1>2. p \in Records /\ p.call \in Calls
  BY DEF IInv, ApprovalsTypeOK, Records
<1>3. answered \in Records /\ answered.call = p.call /\ answered.decision = d
  BY <1>2 DEF Records, Decisions
<1> HIDE DEF answered
<1>4. \A q \in pending' : q = answered \/ (q \in pending /\ q.call # p.call)
  BY <1>1, UnexpiredPart DEF IInv, OneRecordPerCall
<1>5. ApprovalsTypeOK'
  BY <1>1, <1>2, <1>3, UnexpiredPart DEF IInv, ApprovalsTypeOK, Records, Decisions
<1>6. OneRecordPerCall'
  BY <1>3, <1>4 DEF IInv, OneRecordPerCall
<1>7. \A c \in Calls : /\ granted'[c] >= granted[c]
                       /\ c # p.call => granted'[c] = granted[c] /\ lastWord'[c] = lastWord[c]
  BY <1>1, <1>2 DEF IInv, ApprovalsTypeOK
<1>8. RunsWithinGrants'
  BY <1>1, <1>5, <1>7 DEF IInv, ApprovalsTypeOK, RunsWithinGrants
<1>9. ApprovalsBacked'
  <2> SUFFICES ASSUME NEW q \in pending', q.decision = "approve"
               PROVE  ran'[q.call] + 1 <= granted'[q.call] /\ lastWord'[q.call] = "approve"
    BY DEF ApprovalsBacked
  <2>1. CASE q = answered
    BY <2>1, <1>1, <1>2, <1>3 DEF IInv, ApprovalsTypeOK, RunsWithinGrants
  <2>2. CASE q # answered
    <3>1. q \in pending /\ q.call \in Calls /\ q.call # p.call
      BY <2>2, <1>4 DEF IInv, ApprovalsTypeOK, Records
    <3> QED
      BY <3>1, <1>1, <1>7 DEF IInv, ApprovalsBacked
  <2> QED
    BY <2>1, <2>2
<1> QED
  BY <1>5, <1>6, <1>8, <1>9 DEF IInv

LEMMA TickStep ==
  ASSUME IInv, ApprovalTick
  PROVE  IInv'
  BY DEF ApprovalTick, IInv, ApprovalsTypeOK, Records, OneRecordPerCall, RunsWithinGrants, ApprovalsBacked, approvalHistory

LEMMA NextIInv == IInv /\ [ApprovalsNext]_approvalVars => IInv'
<1> SUFFICES ASSUME IInv, [ApprovalsNext]_approvalVars PROVE IInv'
  OBVIOUS
<1>1. ASSUME NEW c \in Calls, Pause(c) PROVE IInv'
  BY <1>1, PauseStep
<1>2. ASSUME NEW c \in Calls, RunApproved(c) PROVE IInv'
  BY <1>2, RunApprovedStep
<1>3. ASSUME NEW c \in Calls, RefuseApproved(c) \/ RefuseRejected(c) PROVE IInv'
  <2>1. pending' \subseteq pending /\ UNCHANGED <<issued, now, approvalHistory>>
    BY <1>3, UnexpiredPart DEF RefuseApproved, RefuseRejected, Consume, AfterConsuming, approvalHistory
  <2> QED
    BY <2>1, RemovalStep
<1>4. CASE ListApprovals \/ ResolveMissing \/ Restart
  <2>1. pending' \subseteq pending /\ UNCHANGED <<issued, now, approvalHistory>>
    BY <1>4, UnexpiredPart DEF ListApprovals, ResolveMissing, Restart
  <2> QED
    BY <2>1, RemovalStep
<1>5. ASSUME NEW p \in pending, NEW d \in Decisions, Resolve(p, d) PROVE IInv'
  BY <1>5, ResolveStep
<1>6. CASE ApprovalTick
  BY <1>6, TickStep
<1>7. CASE UNCHANGED approvalVars
  BY <1>7, RemovalStep DEF approvalVars, approvalHistory
<1> QED
  BY <1>1, <1>2, <1>3, <1>4, <1>5, <1>6, <1>7 DEF ApprovalsNext

(* The invariant holds in every behaviour.                                 *)
LEMMA ApprovalsInductive == ApprovalsSpec => []IInv
  BY InitIInv, NextIInv, PTL DEF ApprovalsSpec

(* Every variable keeps its type.                                          *)
THEOREM ApprovalTypes == ApprovalsSpec => []ApprovalsTypeOK
  BY ApprovalsInductive, PTL DEF IInv

(* A call starts at most once for every approval of exactly that call.     *)
THEOREM SingleUse == ApprovalsSpec => []RunsWithinGrants
  BY ApprovalsInductive, PTL DEF IInv

(* Open or decided, a call has one record.                                 *)
THEOREM NoDuplicateRecord == ApprovalsSpec => []OneRecordPerCall
  BY ApprovalsInductive, PTL DEF IInv

-----------------------------------------------------------------------------
(* What a step that starts a call relies on.                               *)

LEMMA RunIsBacked ==
  ASSUME IInv, [ApprovalsNext]_approvalVars, NEW c \in Calls, ran'[c] # ran[c]
  PROVE  \E p \in pending : /\ p.call = c /\ p.decision = "approve"
                            /\ lastWord[c] = "approve" /\ now - p.at <= Ttl
<1>1. ASSUME NEW d \in Calls, RunApproved(d)
      PROVE  \E p \in pending : /\ p.call = c /\ p.decision = "approve"
                                /\ lastWord[c] = "approve" /\ now - p.at <= Ttl
  <2>1. c = d
    BY <1>1 DEF RunApproved, IInv, ApprovalsTypeOK
  <2>2. PICK p \in Decided(c) : p.decision = "approve"
    BY <1>1, <2>1 DEF RunApproved, Consume
  <2>3. p \in pending /\ p.call = c /\ p.at >= now - Ttl
    BY <2>2 DEF Decided, Unexpired
  <2>4. p.at \in Nat /\ now \in Nat
    BY <2>3 DEF IInv, ApprovalsTypeOK, Records
  <2> QED
    BY <2>2, <2>3, <2>4 DEF IInv, ApprovalsBacked
<1>2. ASSUME ~ \E d \in Calls : RunApproved(d)
      PROVE  UNCHANGED ran
  BY <1>2 DEF ApprovalsNext, approvalVars, approvalHistory, Pause, RefuseApproved, RefuseRejected, ListApprovals,
              Resolve, ResolveMissing, ApprovalTick, Restart
<1> QED
  BY <1>1, <1>2

(* A call starts only while the last word of the owner on it is an         *)
(* approval, and on a request that has not outlived its lifetime.          *)
THEOREM OnlyStandingApprovals == ApprovalsSpec => StartsOnStandingApproval
<1>1. IInv /\ [ApprovalsNext]_approvalVars =>
        [\A c \in Calls : ran'[c] # ran[c] =>
           /\ lastWord[c] = "approve"
           /\ \E p \in pending : /\ p.call = c /\ p.decision = "approve"
                                 /\ now - p.at <= Ttl]_approvalVars
  BY RunIsBacked
<1> QED
  BY <1>1, ApprovalsInductive, PTL DEF ApprovalsSpec, StartsOnStandingApproval

-----------------------------------------------------------------------------
(* The table stays within its bound.                                       *)

BInv == IsFiniteSet(pending) /\ TableBounded

LEMMA SmallerTable ==
  ASSUME BInv, NEW P, P \subseteq pending
  PROVE  IsFiniteSet(P) /\ Cardinality(P) \in Nat /\ Cardinality(P) <= MaxPending
  BY FS_Subset, FS_CardinalityType DEF BInv, TableBounded

LEMMA OneMore ==
  ASSUME NEW S, IsFiniteSet(S), NEW x
  PROVE  IsFiniteSet(S \cup {x}) /\ Cardinality(S \cup {x}) <= Cardinality(S) + 1
<1>1. Cardinality(S) \in Nat
  BY FS_CardinalityType
<1> QED
  BY <1>1, FS_AddElement

LEMMA PauseBounded ==
  ASSUME BInv, NEW c \in Calls, Pause(c)
  PROVE  BInv'
<1>1. CASE pending' = Unexpired
  BY <1>1, UnexpiredPart, SmallerTable DEF BInv, TableBounded
<1>2. ASSUME NEW kept \in MakeRoom(Unexpired), pending' = kept \cup {Requested(c)}
      PROVE  BInv'
  <2>1. IsFiniteSet(kept) /\ Cardinality(kept) \in Nat /\ Cardinality(kept) < MaxPending
    <3>1. IsFiniteSet(Unexpired) /\ Cardinality(Unexpired) \in Nat
          /\ Cardinality(Unexpired) <= MaxPending
      BY UnexpiredPart, SmallerTable
    <3>2. CASE Cardinality(Unexpired) < MaxPending
      BY <3>1, <3>2, <1>2 DEF MakeRoom
    <3>3. CASE ~(Cardinality(Unexpired) < MaxPending)
      <4>1. PICK p \in Unexpired : kept = Unexpired \ {p}
        BY <3>3, <1>2 DEF MakeRoom
      <4>2. IsFiniteSet(kept) /\ Cardinality(kept) = Cardinality(Unexpired) - 1
        BY <4>1, <3>1, FS_RemoveElement
      <4> QED
        BY <4>2, <3>1, FS_CardinalityType
    <3> QED
      BY <3>2, <3>3
  <2>2. IsFiniteSet(pending') /\ Cardinality(pending') <= Cardinality(kept) + 1
    BY <2>1, <1>2, OneMore
  <2> QED
    BY <2>1, <2>2, FS_CardinalityType DEF BInv, TableBounded
<1> QED
  BY <1>1, <1>2 DEF Pause

LEMMA ResolveBounded ==
  ASSUME BInv, NEW p \in pending, NEW d \in Decisions, Resolve(p, d)
  PROVE  BInv'
<1>1. p \in Unexpired /\ pending' = (Unexpired \ {p}) \cup {[p EXCEPT !.decision = d]}
  BY DEF Resolve, Resolvable
<1>2. IsFiniteSet(Unexpired) /\ Cardinality(Unexpired) \in Nat
      /\ Cardinality(Unexpired) <= MaxPending
  BY UnexpiredPart, SmallerTable
<1>3. IsFiniteSet(Unexpired \ {p}) /\ Cardinality(Unexpired \ {p}) = Cardinality(Unexpired) - 1
  BY <1>1, <1>2, FS_RemoveElement
<1>4. IsFiniteSet(pending') /\ Cardinality(pending') <= Cardinality(Unexpired \ {p}) + 1
  BY <1>1, <1>2, <1>3, OneMore
<1> QED
  BY <1>2, <1>3, <1>4, FS_CardinalityType DEF BInv, TableBounded

(* However many requests are made, the table holds MaxPending at most.     *)
THEOREM RecordsStayBounded == ApprovalsSpec => []TableBounded
<1>1. ApprovalsInit => BInv
  BY FS_EmptySet DEF ApprovalsInit, BInv, TableBounded
<1>2. BInv /\ [ApprovalsNext]_approvalVars => BInv'
  <2> SUFFICES ASSUME BInv, [ApprovalsNext]_approvalVars PROVE BInv'
    OBVIOUS
  <2>1. ASSUME NEW c \in Calls, Pause(c) PROVE BInv'
    BY <2>1, PauseBounded
  <2>2. ASSUME NEW p \in pending, NEW d \in Decisions, Resolve(p, d) PROVE BInv'
    BY <2>2, ResolveBounded
  <2>3. CASE pending' \subseteq pending
    BY <2>3, SmallerTable DEF BInv, TableBounded
  <2>4. ASSUME \/ \E c \in Calls : RunApproved(c) \/ RefuseApproved(c) \/ RefuseRejected(c)
               \/ ListApprovals \/ ResolveMissing \/ ApprovalTick \/ Restart \/ UNCHANGED approvalVars
        PROVE  pending' \subseteq pending
    BY <2>4, UnexpiredPart DEF RunApproved, RefuseApproved, RefuseRejected, Consume,
             AfterConsuming, ListApprovals, ResolveMissing, ApprovalTick, Restart, approvalVars
  <2> QED
    BY <2>1, <2>2, <2>3, <2>4 DEF ApprovalsNext
<1>3. BInv => TableBounded
  BY DEF BInv
<1> QED
  BY <1>1, <1>2, <1>3, PTL DEF ApprovalsSpec
=============================================================================
