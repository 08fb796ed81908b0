----------------------------- MODULE Generation -----------------------------
(***************************************************************************)
(* The generations of one turn: one streaming attempt, failover to other   *)
(* models and the last resort, inside the deadline of the turn.            *)
(*                                                                         *)
(*   norax/brain/agent_loop.py   _chat_maybe_stream,                       *)
(*                               _chat_maybe_stream_inner                  *)
(*                                                                         *)
(* What a provider does with a request is nondeterministic.  A revision of *)
(* a draft does not stream, and its failure does not end the turn.         *)
(***************************************************************************)
EXTENDS Integers, Sequences

CONSTANTS
    Primary,
    Failover,           \* failover_models, in order
    MaxGenerations      \* bound

ASSUME GenerationAssumption == MaxGenerations \in Nat

Models == {Primary} \cup {Failover[i] : i \in DOMAIN Failover}

VARIABLES
    streams,    \* on_delta is wired
    active,     \* active_model
    unhealthy,  \* unhealthy_models
    gen,        \* the generation under way: kind, way, first model, model asked, error
    generations,
    failed,     \* history: models whose request failed over in this turn
    replaced    \* history: models another one has answered for

generationVars == <<streams, active, unhealthy, gen, generations, failed, replaced>>

NoGeneration == [kind |-> "none", way |-> "none", first |-> Primary, at |-> Primary,
                 error |-> "none"]

GenerationInit ==
    /\ streams \in BOOLEAN
    /\ active = Primary /\ unhealthy = {}
    /\ gen = NoGeneration /\ generations = 0
    /\ failed = {} /\ replaced = {}

GenerationTypeOK ==
    /\ streams \in BOOLEAN
    /\ active \in Models
    /\ unhealthy \subseteq Models /\ failed \subseteq Models /\ replaced \subseteq Models
    /\ gen \in [kind : {"none", "loop", "revision"},
                way : {"none", "stream", "chat", "fallback", "resort", "raised"},
                first : Models, at : Models, error : {"none", "down", "denied", "spend"}]
    /\ generations \in 0..MaxGenerations

-----------------------------------------------------------------------------
Asking == gen.way \in {"stream", "chat", "fallback", "resort"}

Generate(kind) ==
    /\ gen.way = "none" /\ generations < MaxGenerations
    /\ gen' = [kind |-> kind, first |-> active, at |-> active, error |-> "none",
               way |-> IF streams /\ kind = "loop" THEN "stream" ELSE "chat"]
    /\ generations' = generations + 1
    /\ UNCHANGED <<streams, active, unhealthy, failed, replaced>>

(* The generation ends; a failure ends the turn unless it was a revision's *)
(* and not the spend guard's.                                              *)
Answered == gen' = NoGeneration

Raises(error) ==
    gen' = IF gen.kind = "revision" /\ error # "spend"
             THEN NoGeneration ELSE [gen EXCEPT !.way = "raised"]

(* The models behind the present one in the list that may still be asked.  *)
Eligible(bad) ==
    {i \in DOMAIN Failover :
       /\ Failover[i] # gen.first /\ Failover[i] \notin bad
       /\ \A j \in DOMAIN Failover : gen.way = "fallback" /\ Failover[j] = gen.at => i > j}

(* After a failure: the next fallback, for an error that calls for one.    *)
(* Then the stream's own model is asked once more, without streaming,      *)
(* unless fallbacks were asked and also failed over.                       *)
NextTry(error, bad) ==
    LET eligible == Eligible(bad)
        asked    == gen.way = "fallback"
    IN
    IF error = "down" /\ eligible # {}
      THEN \E next \in eligible :
             /\ \A j \in eligible : next <= j
             /\ gen' = [gen EXCEPT !.way = "fallback", !.at = Failover[next], !.error = error]
    ELSE IF ~(streams /\ gen.kind = "loop") \/ (asked /\ error = "down")
      THEN Raises(error)
    ELSE gen' = [gen EXCEPT !.way = "resort", !.at = gen.first, !.error = error]

(* A complete answer. *)
KeepActive == active                                  \* mutant: failover does not stick
Sticky     == IF gen.way = "fallback" THEN gen.at ELSE active

Answer ==
    /\ Asking
    /\ active' = Sticky
    /\ replaced' = IF gen.way = "fallback" THEN replaced \cup {gen.first} ELSE replaced
    /\ Answered
    /\ UNCHANGED <<streams, unhealthy, generations, failed>>

(* The provider fails in a way that calls for another model: credentials,  *)
(* throttling, time-out, transport, an empty stream; a stream that ends    *)
(* without its final envelope, whatever part of it was shown; or a         *)
(* complete response that is cut off or hidden reasoning only, which has   *)
(* made a fallback the active model already.                               *)
Down(complete) ==
    /\ Asking
    /\ active' = IF complete THEN Sticky ELSE active
    /\ failed' = failed \cup {gen.at}
    /\ IF gen.way = "resort"
         THEN Raises(gen.error) /\ UNCHANGED unhealthy
         ELSE /\ unhealthy' = unhealthy \cup {gen.at}
              /\ NextTry("down", unhealthy')
    /\ UNCHANGED <<streams, generations, replaced>>

(* A refusal another model must not bypass, or the spend guard.            *)
Refused(error) ==
    /\ Asking
    /\ CASE gen.way \in {"stream", "chat"} -> Raises(error)
         [] gen.way = "fallback"           -> NextTry(error, unhealthy)
         [] gen.way = "resort"             -> Raises(gen.error)
    /\ UNCHANGED <<streams, active, unhealthy, generations, failed, replaced>>

(* The deadline of the turn: the answer says so. *)
TimeRunsOut ==
    /\ Asking
    /\ Answered
    /\ UNCHANGED <<streams, active, unhealthy, generations, failed, replaced>>

GenerationNext ==
    \/ \E kind \in {"loop", "revision"} : Generate(kind)
    \/ Answer \/ TimeRunsOut
    \/ \E complete \in BOOLEAN : Down(complete)
    \/ \E error \in {"denied", "spend"} : Refused(error)

GenerationSpec == GenerationInit /\ [][GenerationNext]_generationVars

-----------------------------------------------------------------------------
(* Properties *)

(* "Once a provider/model fails over successfully, keep using the healthy  *)
(* model": a model that another has answered for is not asked again in the *)
(* turn, nor is a model that failed ever the fallback of another.          *)
FailoverSticks ==
    Asking => /\ gen.at \notin replaced
              /\ gen.way = "fallback" => gen.at \notin failed
=============================================================================
