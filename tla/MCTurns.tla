------------------------------ MODULE MCTurns ------------------------------
(* The queue of turns, the inside of one turn and what turns leave behind, *)
(* in one run: a behaviour is one of TurnQueue, of AgentLoop, of           *)
(* AgentMessages, of Generation, of TurnPipeline, of StreamReply or of     *)
(* EventLog, and the others stay as they began.                            *)
EXTENDS TurnQueue, AgentLoop, AgentMessages, Generation, TurnPipeline, StreamReply, EventLog

CONSTANTS g1, g2, g3

Fallbacks == <<g2, g3>>

VARIABLE about      \* the component this behaviour is about

MCInit ==
    /\ about \in {"queue", "loop", "messages", "generation", "pipeline", "stream", "log"}
    /\ Init /\ LoopInit /\ MessagesInit /\ GenerationInit /\ PipelineInit
    /\ StreamInit /\ LogInit
    /\ about # "loop" => turn = [action |-> TRUE, maxRounds |-> HardCap]
    /\ about # "messages" => Len(messages) = 2
    /\ about # "generation" => streams
    /\ about = "pipeline" <=> said # {}
    /\ about # "stream" => direct

(* A channel meets two troubles at most, moves from outside, failures of a *)
(* turn, of its saving or of its checkpoint and failed loads together.     *)
Troubles == moves + Cardinality({n \in Turn : ended[n] \in {"unsaved", "failed"}})
              + Cardinality(unrecorded) + (IF unread = {} THEN 0 ELSE 1)

MCNext ==
    \/ /\ about = "queue" /\ Next
       /\ UNCHANGED <<loopVars, messageVars, generationVars, pipelineVars, streamVars, logVars, about>>
    \/ /\ about = "loop" /\ LoopNext
       /\ UNCHANGED <<vars, messageVars, generationVars, pipelineVars, streamVars, logVars, about>>
    \/ /\ about = "messages" /\ MessagesNext
       /\ UNCHANGED <<vars, loopVars, generationVars, pipelineVars, streamVars, logVars, about>>
    \/ /\ about = "generation" /\ GenerationNext
       /\ UNCHANGED <<vars, loopVars, messageVars, pipelineVars, streamVars, logVars, about>>
    \/ /\ about = "pipeline" /\ PipelineNext /\ Troubles' <= MaxMoves
       /\ UNCHANGED <<vars, loopVars, messageVars, generationVars, streamVars, logVars, about>>
    \/ /\ about = "stream" /\ StreamNext
       /\ UNCHANGED <<vars, loopVars, messageVars, generationVars, pipelineVars, logVars, about>>
    \/ /\ about = "log" /\ LogNext
       /\ UNCHANGED <<vars, loopVars, messageVars, generationVars, pipelineVars, streamVars, about>>

mcVars == <<vars, loopVars, messageVars, generationVars, pipelineVars, streamVars, logVars, about>>

MCSpec == MCInit /\ [][MCNext]_mcVars
=============================================================================
