----------------------------- MODULE ToolCircuit ----------------------------
(***************************************************************************)
(* The circuit breaker of one tool and the calls that go through it.       *)
(*                                                                         *)
(*   norax/runtime/circuit_breaker.py   Circuit                            *)
(*   norax/brain/agent_loop.py          _run_one_tool (native tools)       *)
(*                                                                         *)
(* Calls of a tool run concurrently: parallel calls of a round, turns of   *)
(* several channels.  Each asks can_execute(), awaits the tool and then    *)
(* reports, by which time other calls may have moved the circuit.  An MCP  *)
(* tool behaves the same, except that a refused call cannot report.        *)
(***************************************************************************)
EXTENDS Integers, FiniteSets

CONSTANTS
    Calls,              \* concurrent callers
    FailureThreshold,
    SuccessThreshold,
    CooldownSec,        \* in ticks
    MaxCooldownSec,
    HalfOpenMaxCalls

ASSUME CallsAssumption == IsFiniteSet(Calls)

ASSUME ConfigAssumption ==
    /\ FailureThreshold \in Nat \ {0}
    /\ SuccessThreshold \in Nat \ {0}
    /\ HalfOpenMaxCalls \in Nat \ {0}
    /\ CooldownSec \in Nat \ {0} /\ MaxCooldownSec \in Nat
    /\ CooldownSec <= MaxCooldownSec

VARIABLES
    circuit,    \* the Circuit; left = _opened_at + _cooldown - now
    call,       \* per caller: "idle", "flying" or "refused"
    healthy,    \* the tool and the event log work from now on
    probes,     \* history: calls in flight admitted in this half-open period
    failRun,    \* history: failures since a success or the last closing
    okRun       \* history: successes since the circuit became half-open

vars    == <<circuit, call, healthy, probes, failRun, okRun>>
history == <<probes, failRun, okRun>>

Least(a, b)    == IF a < b THEN a ELSE b
Greatest(a, b) == IF a < b THEN b ELSE a

(* A count is only ever compared with its threshold: it saturates there.   *)
Bump(n, threshold) == Least(n + 1, threshold)

Circuits ==
    [state     : {"CLOSED", "OPEN", "HALF_OPEN"},
     failures  : 0..FailureThreshold,       \* _consecutive_failures
     successes : 0..SuccessThreshold,       \* _consecutive_successes
     inFlight  : 0..HalfOpenMaxCalls,       \* _half_open_in_flight
     cooldown  : {0} \cup CooldownSec..MaxCooldownSec,
     left      : 0..MaxCooldownSec]

TypeOK ==
    /\ circuit \in Circuits
    /\ call \in [Calls -> {"idle", "flying", "refused"}]
    /\ healthy \in BOOLEAN
    /\ probes \subseteq {c \in Calls : call[c] = "flying"}
    /\ failRun \in 0..FailureThreshold
    /\ okRun \in 0..SuccessThreshold

Init ==
    /\ circuit = [state |-> "CLOSED", failures |-> 0, successes |-> 0,
                  inFlight |-> 0, cooldown |-> 0, left |-> 0]
    /\ call = [c \in Calls |-> "idle"]
    /\ healthy = FALSE
    /\ probes = {} /\ failRun = 0 /\ okRun = 0

-----------------------------------------------------------------------------
(* Circuit *)

(* _open: 1.5 times the last cooldown, within 20% of it, inside the limits *)
Backoff(last) == IF last = 0 THEN CooldownSec ELSE Least((3 * last) \div 2, MaxCooldownSec)
Jittered(d)   == ((8 * d) \div 10) .. ((12 * d + 9) \div 10)
Cooldowns(last) ==
    {Least(MaxCooldownSec, Greatest(CooldownSec, d)) : d \in Jittered(Backoff(last))}

Opened(k) == {[k EXCEPT !.state = "OPEN", !.cooldown = d, !.left = d] :
                 d \in Cooldowns(k.cooldown)}

(* can_execute: the transition it makes before it decides *)
HalfOpen(k) ==
    IF k.state = "OPEN" /\ k.left = 0
      THEN [k EXCEPT !.state = "HALF_OPEN", !.inFlight = 0, !.successes = 0]
      ELSE k

Allowed(k) ==
    \/ k.state = "CLOSED"
    \/ k.state = "HALF_OPEN" /\ k.inFlight < HalfOpenMaxCalls

Admitted(k) == IF k.state = "HALF_OPEN" THEN [k EXCEPT !.inFlight = @ + 1] ELSE k

ReleaseSlot(k) == [k EXCEPT !.inFlight = Greatest(0, @ - 1)]

(* mutant: the failures before the outage are remembered *)
ClosedKeepsFailures(k) ==
    [k EXCEPT !.state = "CLOSED", !.successes = 0, !.cooldown = 0]
Closed(k) ==
    [k EXCEPT !.state = "CLOSED", !.failures = 0, !.successes = 0, !.cooldown = 0]

RecordSuccess(k) ==
    IF k.state = "HALF_OPEN"
      THEN LET s == [ReleaseSlot(k) EXCEPT !.successes = Bump(@, SuccessThreshold)]
           IN  IF s.successes >= SuccessThreshold THEN Closed(s) ELSE s
      ELSE [k EXCEPT !.failures = 0]

(* mutant: a late failure opens the circuit again *)
RecordFailureReopens(k) ==
    LET f == [k EXCEPT !.failures = Bump(@, FailureThreshold)] IN
    IF k.state = "HALF_OPEN" THEN Opened(ReleaseSlot(f))
    ELSE IF f.failures >= FailureThreshold THEN Opened(f) ELSE {f}
RecordFailure(k) ==
    LET f == [k EXCEPT !.failures = Bump(@, FailureThreshold)] IN
    IF k.state = "OPEN" THEN {f}
    ELSE IF k.state = "HALF_OPEN" THEN Opened(ReleaseSlot(f))
    ELSE IF f.failures >= FailureThreshold THEN Opened(f)
    ELSE {f}

AbandonNothing(k) == k                                \* mutant: slot not released
AbandonProbe(k) == IF k.state = "HALF_OPEN" THEN ReleaseSlot(k) ELSE k

-----------------------------------------------------------------------------
(* Calls *)

Admit(c) ==
    LET k == HalfOpen(circuit) IN
    /\ call[c] = "idle"
    /\ Allowed(k)
    /\ circuit' = Admitted(k)
    /\ call' = [call EXCEPT ![c] = "flying"]
    /\ probes' = IF k.state # "HALF_OPEN" THEN {}
                 ELSE IF circuit.state = "HALF_OPEN" THEN probes \cup {c} ELSE {c}
    /\ okRun' = IF circuit.state = "OPEN" THEN 0 ELSE okRun
    /\ UNCHANGED <<healthy, failRun>>

(* The refused call still has to append its event to the log. *)
Refuse(c) ==
    /\ call[c] = "idle"
    /\ ~Allowed(HalfOpen(circuit))
    /\ call' = [call EXCEPT ![c] = "refused"]
    /\ UNCHANGED <<circuit, healthy, history>>

Return(c) == call' = [call EXCEPT ![c] = "idle"] /\ UNCHANGED healthy

StillProbes(c) == probes' = IF circuit'.state = "HALF_OPEN" THEN probes \ {c} ELSE {}

(* The tool answered: a result, an application error or a TypeError. *)
Succeed(c) ==
    /\ call[c] = "flying"
    /\ circuit' = RecordSuccess(circuit)
    /\ failRun' = 0
    /\ okRun' = Bump(okRun, SuccessThreshold)
    /\ StillProbes(c) /\ Return(c)

(* Timeout, exception or an infrastructure error. *)
Fail(c) ==
    /\ call[c] = "flying" /\ ~healthy
    /\ circuit' \in RecordFailure(circuit)
    /\ failRun' = Bump(failRun, FailureThreshold)
    /\ UNCHANGED okRun
    /\ StillProbes(c) /\ Return(c)

Cancel(c) ==
    /\ call[c] = "flying"
    /\ circuit' = AbandonProbe(circuit)
    /\ UNCHANGED <<failRun, okRun>>
    /\ StillProbes(c) /\ Return(c)

RefusalLogged(c) ==
    /\ call[c] = "refused"
    /\ Return(c)
    /\ UNCHANGED <<circuit, history>>

(* The append of a refused call is inside the try block as well: when it   *)
(* is cancelled or raises, the handlers report for a call never made.      *)
RefusalCancelled(c) ==
    /\ call[c] = "refused"
    /\ circuit' = AbandonProbe(circuit)
    /\ UNCHANGED history
    /\ Return(c)

RefusalNotLogged(c) ==
    /\ call[c] = "refused" /\ ~healthy
    /\ circuit' \in RecordFailure(circuit)
    /\ failRun' = Bump(failRun, FailureThreshold)
    /\ UNCHANGED okRun
    /\ StillProbes(c) /\ Return(c)

-----------------------------------------------------------------------------
(* Environment: time passes; the outage ends for good. *)
Tick ==
    /\ circuit.state = "OPEN" /\ circuit.left > 0
    /\ circuit' = [circuit EXCEPT !.left = @ - 1]
    /\ UNCHANGED <<call, healthy, history>>

Heal ==
    /\ ~healthy
    /\ healthy' = TRUE
    /\ UNCHANGED <<circuit, call, history>>

Next ==
    \/ \E c \in Calls :
         \/ Admit(c) \/ Refuse(c)
         \/ Succeed(c) \/ Fail(c) \/ Cancel(c)
         \/ RefusalLogged(c) \/ RefusalCancelled(c) \/ RefusalNotLogged(c)
    \/ Tick \/ Heal

Spec == Init /\ [][Next]_vars

(* The clock runs, the agent keeps trying the tool, every call ends (there *)
(* is a timeout around it) and not every call is cancelled.                *)
Fairness ==
    /\ WF_vars(Tick)
    /\ \A c \in Calls : /\ WF_vars(Admit(c))
                        /\ WF_vars(Succeed(c) \/ Fail(c) \/ Cancel(c))
                        /\ SF_vars(Succeed(c))
                        /\ WF_vars(RefusalLogged(c) \/ RefusalCancelled(c) \/ RefusalNotLogged(c))

FairSpec == Spec /\ Fairness

-----------------------------------------------------------------------------
(* Properties *)

(* A slot is only taken by a probe that is still in flight: whatever ends  *)
(* a call, and in whatever order calls report, none is left behind, so a   *)
(* half-open circuit with no call in flight admits the next one.           *)
NoLeakedSlot ==
    circuit.state = "HALF_OPEN" => circuit.inFlight <= Cardinality(probes)

(* Calls admitted before the circuit opened may fail after it: the end of  *)
(* the cooldown is not moved by them.                                      *)
OneCooldownPerOutage ==
    [][(circuit.state = "OPEN" /\ circuit'.state = "OPEN") =>
         circuit'.left <= circuit.left /\ circuit'.cooldown = circuit.cooldown]_vars

(* The counts are of the present period only: a closed circuit opens after *)
(* FailureThreshold failures in a row, none of them from before it last    *)
(* closed, and closes after SuccessThreshold successes since it half-opened*)
(* although calls of every earlier period report in between.               *)
CountsOfThisPeriod ==
    [][/\ (circuit.state = "CLOSED" /\ circuit'.state = "OPEN") => failRun' = FailureThreshold
       /\ (circuit.state = "HALF_OPEN" /\ circuit'.state = "CLOSED") => okRun' = SuccessThreshold]_vars

(* Once the outage is over the circuit closes: half-open never sticks.     *)
Recovers == healthy ~> circuit.state = "CLOSED"
=============================================================================
