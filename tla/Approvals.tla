------------------------------ MODULE Approvals -----------------------------
(***************************************************************************)
(* The owner's approvals of sensitive tool calls.                          *)
(*                                                                         *)
(*   norax/runtime/interrupts.py    InterruptManager                       *)
(*   norax/brain/agent_loop.py      _run_one_tool (the interrupt gate)     *)
(*   norax/commands/__init__.py     /approvals, /approve, /reject          *)
(*                                                                         *)
(* Turns of any channel retry a call at any time; the owner answers with   *)
(* an id read at any earlier time.  From the gate to the start of the tool *)
(* nothing is awaited, so a call's passage is one step.  Calls are the     *)
(* exact (tool, arguments) pairs that the rules pause.                     *)
(***************************************************************************)
EXTENDS Integers, FiniteSets

CONSTANTS
    Calls,
    MaxPending,     \* _max_pending
    Ttl,            \* _ttl_seconds, in ticks
    MaxRequests,    \* bound: interrupt ids ever created
    MaxNow         \* bound: ticks

ASSUME ApprovalsAssumption ==
    /\ MaxPending \in Nat \ {0} /\ Ttl \in Nat \ {0}
    /\ MaxRequests \in Nat /\ MaxNow \in Nat

VARIABLES
    pending,    \* the records of _pending; ids grow in insertion order
    issued,     \* interrupt ids created so far
    now,
    granted,    \* history: approvals the owner gave, per call
    ran,        \* history: executions started, per call
    lastWord    \* history: the owner's last decision, per call

approvalVars    == <<pending, issued, now, granted, ran, lastWord>>
approvalHistory == <<granted, ran, lastWord>>

Decisions == {"approve", "reject"}

Records == [id : 1..issued, call : Calls, at : 0..now,
            decision : Decisions \cup {"none"}]

ApprovalsTypeOK ==
    /\ issued \in 0..MaxRequests
    /\ now \in 0..MaxNow
    /\ pending \subseteq Records
    /\ granted \in [Calls -> Nat] /\ ran \in [Calls -> Nat]
    /\ lastWord \in [Calls -> Decisions \cup {"none"}]

ApprovalsInit ==
    /\ pending = {} /\ issued = 0 /\ now = 0
    /\ granted = [c \in Calls |-> 0] /\ ran = [c \in Calls |-> 0]
    /\ lastWord = [c \in Calls |-> "none"]

-----------------------------------------------------------------------------
(* InterruptManager *)

Unexpired == {p \in pending : p.at >= now - Ttl}

Resolved(p) == p.decision # "none"

(* create_interrupt: an identical unresolved request is returned as it is, *)
(* else the oldest records make room.                                      *)
AskedAnew(P, c) == FALSE                              \* mutant: no deduplication
Asked(P, c) == \E p \in P : p.call = c /\ ~Resolved(p)

IsOldest(p, P) ==
    p \in P /\ \A q \in P : p.at < q.at \/ (p.at = q.at /\ p.id <= q.id)

MakeRoom(P) ==
    IF Cardinality(P) < MaxPending THEN {P} ELSE {P \ {p} : p \in {q \in P : IsOldest(q, P)}}

Requested(c) == [id |-> issued + 1, call |-> c, at |-> now, decision |-> "none"]

(* consume_resolution: the first resolved record of this exact call *)
AnyDecided(c) == {p \in pending : p.call = c /\ Resolved(p)}  \* mutant: never expires
Decided(c)    == {p \in Unexpired : p.call = c /\ Resolved(p)}

IsFirst(p, P) == p \in P /\ \A q \in P : p.id <= q.id

AfterInspecting(p) == Unexpired                       \* mutant: apply, not consume
AfterConsuming(p)  == Unexpired \ {p}

(* resolve_interrupt: the record it changes, once *)
Resolvable(p) == p \in Unexpired /\ ~Resolved(p)

-----------------------------------------------------------------------------
(* _run_one_tool *)

Pause(c) ==
    /\ Decided(c) = {}
    /\ IF Asked(Unexpired, c)
         THEN pending' = Unexpired /\ UNCHANGED issued
         ELSE /\ issued < MaxRequests
              /\ \E kept \in MakeRoom(Unexpired) : pending' = kept \cup {Requested(c)}
              /\ issued' = issued + 1
    /\ UNCHANGED <<now, approvalHistory>>

Consume(c, decision) ==
    \E p \in Decided(c) :
       /\ IsFirst(p, Decided(c)) /\ p.decision = decision
       /\ pending' = AfterConsuming(p)
       /\ UNCHANGED <<issued, now, granted, lastWord>>

RunApproved(c) ==
    /\ Consume(c, "approve")
    /\ ran' = [ran EXCEPT ![c] = @ + 1]

(* The approval is spent although the call is refused further on: an       *)
(* unknown tool, bad arguments, an open circuit, no MCP connection.        *)
RefuseApproved(c) ==
    /\ Consume(c, "approve")
    /\ UNCHANGED ran

RefuseRejected(c) ==
    /\ Consume(c, "reject")
    /\ UNCHANGED ran

-----------------------------------------------------------------------------
(* The owner's commands *)

ListApprovals ==
    /\ pending' = Unexpired
    /\ UNCHANGED <<issued, now, approvalHistory>>

Resolve(p, decision) ==
    /\ Resolvable(p)
    /\ pending' = (Unexpired \ {p}) \cup {[p EXCEPT !.decision = decision]}
    /\ granted' = IF decision = "approve" THEN [granted EXCEPT ![p.call] = @ + 1] ELSE granted
    /\ lastWord' = [lastWord EXCEPT ![p.call] = decision]
    /\ UNCHANGED <<issued, now, ran>>

(* An id that is expired, evicted, consumed or already resolved. *)
ResolveMissing ==
    /\ \E id \in 1..issued : ~ \E p \in pending : p.id = id /\ Resolvable(p)
    /\ pending' = Unexpired
    /\ UNCHANGED <<issued, now, approvalHistory>>

-----------------------------------------------------------------------------
(* Environment *)

ApprovalTick ==
    /\ now < MaxNow
    /\ now' = now + 1
    /\ UNCHANGED <<pending, issued, approvalHistory>>

(* The manager lives in memory only. *)
Restart ==
    /\ pending # {}
    /\ pending' = {}
    /\ UNCHANGED <<issued, now, approvalHistory>>

ApprovalsNext ==
    \/ \E c \in Calls : Pause(c) \/ RunApproved(c) \/ RefuseApproved(c) \/ RefuseRejected(c)
    \/ ListApprovals
    \/ \E p \in pending, d \in Decisions : Resolve(p, d)
    \/ ResolveMissing
    \/ ApprovalTick \/ Restart

ApprovalsSpec == ApprovalsInit /\ [][ApprovalsNext]_approvalVars

-----------------------------------------------------------------------------
(* Properties *)

(* Single use: however calls are retried and requests repeated, a call     *)
(* never starts more often than the owner approved exactly that call.      *)
RunsWithinGrants == \A c \in Calls : ran[c] <= granted[c]

(* A call has one record at most, open or decided, so an id the owner did  *)
(* not answer cannot stand beside one that is answered.                    *)
OneRecordPerCall ==
    \A p, q \in pending : p.call = q.call => p = q

(* A call starts only on an approval that stands: "The rejected call will  *)
(* not execute", whatever was approved before the owner's last word on it, *)
(* and the request that was approved has not outlived its lifetime,        *)
(* whatever was or was not called in between.                              *)
StartsOnStandingApproval ==
    [][\A c \in Calls : ran'[c] # ran[c] =>
          /\ lastWord[c] = "approve"
          /\ \E p \in pending : /\ p.call = c /\ p.decision = "approve"
                                /\ now - p.at <= Ttl]_approvalVars

(* The table never holds more than _max_pending records. *)
TableBounded == Cardinality(pending) <= MaxPending
=============================================================================
