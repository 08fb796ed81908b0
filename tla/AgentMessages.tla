---------------------------- MODULE AgentMessages ----------------------------
(***************************************************************************)
(* The conversation the agent loop sends to the model, round after round.  *)
(*                                                                         *)
(*   norax/brain/agent_loop.py         run_agent_loop,                     *)
(*                                     _evict_middle_tool_traces           *)
(*   norax/runtime/turn_pipeline.py    the prior messages                  *)
(*   norax/gateway_client/__init__.py  _repair_tool_pairing                *)
(*                                                                         *)
(* An assistant message carries the ids of its tool calls, a tool message  *)
(* the id of the call it answers.  A strict provider refuses a request in  *)
(* which the two do not pair.                                              *)
(***************************************************************************)
EXTENDS Filters, FiniteSets

CONSTANTS
    PriorTurns,     \* bound: turns with a tool call in the history
    MaxSends,       \* bound: generations
    MaxWidth,       \* bound: calls in one response
    MaxMessages,    \* max_messages
    KeepRecent      \* keep_recent_rounds

ASSUME MessagesAssumption ==
    {PriorTurns, MaxSends, MaxWidth, MaxMessages, KeepRecent} \subseteq Nat

VARIABLES
    messages,
    point,      \* "top" of the loop, "ask" (a request is being sent), "done"
    sends       \* generations asked for

messageVars == <<messages, point, sends>>

Says(role)       == [role |-> role, ids |-> {}]
CallMessage(ids) == [role |-> "assistant", ids |-> ids]
Result(id)       == [role |-> "tool", ids |-> {id}]
Request          == Says("request")           \* user: the prompt of this turn
Marker           == Says("evicted")           \* user: EVICTED_CONTEXT
Note             == Says("note")              \* user: nudge, recovery, refocus

(* A round: the assistant message and the results in the order of the calls. *)
Ids(round, n)   == {<<round, k>> : k \in 1..n}
Round(round, n) == <<CallMessage(Ids(round, n))>> \o [k \in 1..n |-> Result(<<round, k>>)]

(* Turns of the window: a question, a call with its result, an answer. *)
PriorTurn(round) ==
    <<Says("user"), CallMessage(Ids(round, 1)), Result(<<round, 1>>), Says("assistant")>>
History(n)       == [i \in 1..4 * n |-> PriorTurn((i - 1) \div 4 - n)[1 + ((i - 1) % 4)]]

MessagesInit ==
    /\ \E n \in 0..PriorTurns : messages = <<Says("system")>> \o History(n) \o <<Request>>
    /\ point = "top" /\ sends = 0

-----------------------------------------------------------------------------
(* _evict_middle_tool_traces *)

IsCall(m)   == m.role = "assistant" /\ m.ids # {}
IsResult(m) == m.role = "tool"

(* The ids of the last KeepRecent results. *)
ProtectedIds(b) ==
    LET at   == {i \in DOMAIN b : IsResult(b[i])}
        last == {i \in at : Cardinality({j \in at : j > i}) < KeepRecent}
    IN  UNION {b[i].ids : i \in last}

FirstCall(b) == CHOOSE i \in DOMAIN b : IsCall(b[i]) /\ \A j \in 1..i - 1 : ~IsCall(b[j])

(* A message that is neither is protected behind a protected one. *)
IsProtected(b, i) ==
    LET own(j) == (IsCall(b[j]) \/ IsResult(b[j])) /\ b[j].ids \subseteq ProtectedIds(b)
    IN  IF IsCall(b[i]) \/ IsResult(b[i]) THEN own(i)
        ELSE \E j \in FirstCall(b)..i - 1 : own(j)

Evicted(b) ==
    LET calls     == \E i \in DOMAIN b : IsCall(b[i])
        kept(i)   == IsProtected(b, i)
        tail      == FirstCall(b)..Len(b)
        keptIn    == Only([i \in DOMAIN b |-> i], {i \in tail : kept(i)})
    IN  IF Len(b) <= MaxMessages \/ ~calls \/ \A i \in tail : kept(i) THEN b
        ELSE SubSeq(b, 1, FirstCall(b) - 1) \o <<Marker>> \o [k \in DOMAIN keptIn |-> b[keptIn[k]]]

-----------------------------------------------------------------------------
(* _repair_tool_pairing, for a strict provider *)

(* What has been repaired, and the calls of its last assistant message     *)
(* that are still to be answered.                                          *)
RepairStep(acc, m) ==
    LET last == acc.assistant
        out  == acc.out
    IN
    IF m.role = "assistant"
      THEN [out |-> Append(out, m), assistant |-> Len(out) + 1, open |-> m.ids]
    ELSE IF ~IsResult(m)
      THEN [out |-> Append(out, m), assistant |-> 0, open |-> {}]
    ELSE IF m.ids \subseteq acc.open
      THEN [acc EXCEPT !.out = Append(out, m), !.open = @ \ m.ids]
    ELSE IF last # 0
      THEN [acc EXCEPT !.out = Append([out EXCEPT ![last].ids = @ \cup m.ids], m)]
    ELSE [out |-> out \o <<CallMessage(m.ids), m>>, assistant |-> Len(out) + 1, open |-> {}]

Unrepaired(b) == b                                    \* mutant: sent as it is
Repaired(b) ==
    LET done[n \in 0..Len(b)] ==
          IF n = 0 THEN [out |-> <<>>, assistant |-> 0, open |-> {}] ELSE RepairStep(done[n - 1], b[n])
    IN  done
Payload(b) == Repaired(b)[Len(b)].out

-----------------------------------------------------------------------------
(* The loop *)

Evict ==
    /\ point = "top" /\ sends < MaxSends
    /\ messages' = Evicted(messages)
    /\ point' = "ask" /\ sends' = sends + 1

(* The model answered with n calls; their results, and a recovery or a     *)
(* refocus message, follow.  A stalled or drifting turn asks once more     *)
(* without a look at the size.                                             *)
CallTools(n, notes) ==
    /\ point = "ask"
    /\ messages' = messages \o Round(sends, n) \o [k \in 1..notes |-> Note]
    /\ \/ point' = "top" /\ UNCHANGED sends
       \/ notes > 0 /\ sends < MaxSends /\ point' = "ask" /\ sends' = sends + 1

(* A text that is not accepted as final. *)
Nudge ==
    /\ point = "ask"
    /\ messages' = Append(messages, Note)
    /\ point' = "top"
    /\ UNCHANGED sends

Finish ==
    /\ point = "ask"
    /\ point' = "done"
    /\ UNCHANGED <<messages, sends>>

MessagesNext ==
    \/ Evict \/ Nudge \/ Finish
    \/ \E n \in 1..MaxWidth, notes \in 0..2 : CallTools(n, notes)

MessagesSpec == MessagesInit /\ [][MessagesNext]_messageVars

-----------------------------------------------------------------------------
(* Properties *)

(* In every request to a strict provider each result stands in the run of  *)
(* results behind the assistant message that made its call, and each call  *)
(* has one result there, whatever has been evicted between them.           *)
Paired(b) ==
    \A i \in DOMAIN b :
      LET run == {j \in DOMAIN b : j > i /\ \A k \in i + 1..j : IsResult(b[k])} IN
      IF IsResult(b[i])
        THEN \E c \in 1..i - 1 :
               /\ IsCall(b[c]) /\ b[i].ids \subseteq b[c].ids
               /\ \A k \in c + 1..i : IsResult(b[k])
        ELSE /\ UNION {b[j].ids : j \in run} = b[i].ids
             /\ Cardinality(run) = Cardinality(b[i].ids)

PayloadPaired == point = "ask" => Paired(Payload(messages))

(* agent_loop.py:916, of what the eviction preserves: "The original user   *)
(* prompt (second message)".                                               *)
RequestKept == \E i \in DOMAIN messages : messages[i] = Request
=============================================================================
