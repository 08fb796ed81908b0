------------------------------ MODULE MCStores ------------------------------
(* Five stores that are changed in steps, in one run: a behaviour is one   *)
(* of a single component, and the others stay as they began.               *)
EXTENDS Approvals, RemoteRelay, PaidSessions, Providers, SleepMemory, TLC

VARIABLE about      \* the component that moves, for two of them a half of it

MCInit ==
    /\ about \in {"approvals", "sockets", "polls", "payments", "providers", "selection", "drain", "index"}
    /\ ApprovalsInit /\ RelayInit /\ Init /\ ProvidersInit /\ MemoryInit

(* Two connections and no poll, or two polls and one connection: the two   *)
(* share the queue, which one of them at a time empties.                   *)
MCRelay ==
    \/ about = "sockets" /\ RelayNext /\ UNCHANGED poll
    \/ about = "polls" /\ RelayNext /\ Cardinality({c \in Conns : conn'[c] # "new"}) <= 1

(* Edits meet at most one selection of a model, and three selections meet  *)
(* no edit: the two only share the model in use.                           *)
MCProviders ==
    \/ about = "providers" /\ ProvidersNext /\ choices' <= 1
    \/ about = "selection" /\ ProvidersNext /\ edits' = 0

(* The drains, with spills of one fact each, one note and no build of the  *)
(* index; or the index, with two notes, two callers and the drain of a     *)
(* buffer: the two share the lock and the canonical files.                 *)
MCMemory ==
    \/ /\ about = "drain" /\ MemoryNext
       /\ UNCHANGED sync
       /\ \A s \in Spills : says'[s] # says[s] => Cardinality(says'[s]) = 1
       /\ Cardinality({n \in Notes : turn'[n] # "none"}) <= 1
    \/ /\ about = "index" /\ MemoryNext
       /\ at'["worker"] = "idle"
       /\ \A s \in Spills : place'[s] = "none"

MCNext ==
    /\ UNCHANGED about
    /\ \/ /\ about = "approvals" /\ ApprovalsNext
          /\ UNCHANGED <<relayVars, vars, providerVars, memoryVars>>
       \/ MCRelay /\ UNCHANGED <<approvalVars, vars, providerVars, memoryVars>>
       \/ /\ about = "payments" /\ Next
          /\ UNCHANGED <<approvalVars, relayVars, providerVars, memoryVars>>
       \/ MCProviders /\ UNCHANGED <<approvalVars, relayVars, vars, memoryVars>>
       \/ MCMemory /\ UNCHANGED <<approvalVars, relayVars, vars, providerVars>>

MCSpec ==
    MCInit /\ [][MCNext]_<<approvalVars, relayVars, vars, providerVars, memoryVars, about>>

(* Several components use the same set of interchangeable values: each     *)
(* permutation costs time in every state.                                  *)
Symmetry == UNION {Permutations(S) : S \in {Workers, Payments, Requests}}

(* A worker that has not seen the session file as it is loads it before it *)
(* uses its copy, so what an old copy holds makes no difference.           *)
Loaded == [w \in fresh |-> cache[w]]
Seen   == <<approvalVars, relayVars, disk, Loaded, request, clock, told, served, lost, faulted,
            providerVars, memoryVars, about>>
=============================================================================
