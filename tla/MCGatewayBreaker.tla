-------------------------- MODULE MCGatewayBreaker --------------------------
(* The two edges of the runtime, in one run: a behaviour is one of the     *)
(* breaker of the gateway or of the ingress bus, and the other stays as it *)
(* began.                                                                  *)
EXTENDS GatewayBreaker, IngressBus

CONSTANTS http, discord

Two == <<http, discord>>

VARIABLE about      \* the component this behaviour is about

gatewayRun == about = "gateway" /\ UNCHANGED <<busVars, about>>
ingressRun == about = "ingress" /\ UNCHANGED <<vars, about>>

MCInit == about \in {"gateway", "ingress"} /\ Init /\ BusInit

MCNext ==
    \/ gatewayRun /\ Next
    \/ ingressRun /\ BusNext

mcVars == <<vars, busVars, about>>

(* Fairness of GatewayBreaker, and BusFairness. *)
MCFairness ==
    /\ WF_mcVars(gatewayRun /\ Tick)
    /\ \A c \in Calls :
         /\ SF_mcVars(gatewayRun /\ Begin(c))
         /\ WF_mcVars(gatewayRun /\ (Succeed(c) \/ Fail(c) \/ Abandon(c)))
         /\ SF_mcVars(gatewayRun /\ Succeed(c))
    /\ WF_mcVars(ingressRun /\ (StartDone \/ CancelPumps \/ WakeStream))
    /\ WF_mcVars(ingressRun /\ (GetItem \/ EventHandled))
    /\ \A a \in Adapter :
         WF_mcVars(ingressRun /\ (TakeEvent(a) \/ PutEvent(a) \/ StreamEnds(a) \/ PutFailure(a)))

MCSpec == MCInit /\ [][MCNext]_mcVars /\ MCFairness
=============================================================================
