--------------------------- MODULE GatewayBreaker ---------------------------
(***************************************************************************)
(* Calls of a model gateway: its sliding-window circuit breaker and the    *)
(* process-wide spend guard behind it.                                     *)
(*                                                                         *)
(*   norax/observability/circuit.py           CircuitBreaker               *)
(*   norax/gateway_client/__init__.py         SpendGuard,                  *)
(*                                            _begin_upstream_call, chat,  *)
(*                                            chat_stream                  *)
(*                                                                         *)
(* Time stamps are kept as ages, in ticks; an age past every window it is  *)
(* compared with stays there, which keeps the clock unbounded.             *)
(***************************************************************************)
EXTENDS Integers, Sequences, FiniteSets, Filters

CONSTANTS
    Calls,              \* concurrent callers
    FailureThreshold,
    WindowSeconds,
    OpenSeconds,
    PerMin, PerHour,    \* limits of the spend guard, 0 switches one off
    Minute, Hour        \* its windows

ASSUME BreakerAssumption ==
    /\ FailureThreshold \in Nat \ {0}
    /\ WindowSeconds \in Nat \ {0} /\ OpenSeconds \in Nat
    /\ PerMin \in Nat /\ PerHour \in Nat
    /\ Minute \in Nat \ {0} /\ Hour \in Nat /\ Minute <= Hour

VARIABLES
    breaker,    \* the CircuitBreaker; left = _opened_at + open_seconds - now
    minute,     \* _minute_stamps, as ages, oldest first
    hour,       \* _hour_stamps
    call,       \* per caller: "idle" or "flying"
    healthy,    \* from now on calls succeed, or are cancelled and report it
    probers,    \* history: calls in flight that took the half-open slot
    lost,       \* history: a call ended in this half-open period unreported
    sent        \* history: ages of the calls sent upstream

vars    == <<breaker, minute, hour, call, healthy, probers, lost, sent>>
stamps  == <<minute, hour, sent>>

Ages(limit) == Seq(0..limit + 1)

TypeOK ==
    /\ breaker.state \in {"CLOSED", "OPEN", "HALF_OPEN"}
    /\ breaker.failures \in Ages(WindowSeconds)
    /\ breaker.left \in 0..OpenSeconds
    /\ breaker.probe \in BOOLEAN
    /\ minute \in Ages(Minute) /\ hour \in Ages(Hour)
    /\ call \in [Calls -> {"idle", "flying"}]
    /\ healthy \in BOOLEAN /\ lost \in BOOLEAN
    /\ probers \subseteq {c \in Calls : call[c] = "flying"}

Init ==
    /\ breaker = [state |-> "CLOSED", failures |-> <<>>, left |-> 0, probe |-> FALSE]
    /\ minute = <<>> /\ hour = <<>>
    /\ call = [c \in Calls |-> "idle"]
    /\ healthy = FALSE
    /\ probers = {} /\ lost = FALSE /\ sent = <<>>

-----------------------------------------------------------------------------
(* CircuitBreaker *)

Young(ages, limit) == Only(ages, 0..limit)
Older(ages, limit) == [i \in DOMAIN ages |-> IF ages[i] > limit THEN ages[i] ELSE ages[i] + 1]

MaybeTransition(b) ==
    IF b.state = "OPEN" /\ b.left = 0
      THEN [b EXCEPT !.state = "HALF_OPEN", !.probe = FALSE]
      ELSE b

Passes(b) == b.state = "CLOSED" \/ (b.state = "HALF_OPEN" /\ ~b.probe)

BeforeCall(b) == [b EXCEPT !.probe = (b.state = "HALF_OPEN")]

OnSuccess(b) ==
    IF b.state = "HALF_OPEN"
      THEN [b EXCEPT !.state = "CLOSED", !.probe = FALSE, !.failures = <<>>]
      ELSE b

Trip(b) == [b EXCEPT !.state = "OPEN", !.left = OpenSeconds, !.probe = FALSE]

Prune(ages)    == Young(ages, WindowSeconds)

OnFailure(b) ==
    LET f == [b EXCEPT !.failures = Prune(Append(@, 0))] IN
    IF b.state = "OPEN" THEN f
    ELSE IF b.state = "HALF_OPEN" \/ Len(f.failures) >= FailureThreshold THEN Trip(f)
    ELSE f

KeepProbe(b)   == b                                   \* mutant: slot not released
OnAbandoned(b) == IF b.state = "HALF_OPEN" THEN [b EXCEPT !.probe = FALSE] ELSE b

-----------------------------------------------------------------------------
(* SpendGuard *)

(* mutant: a stamp is dropped when it is as old as the window *)
InMinuteTooShort(ages) == Young(ages, Minute - 1)
InMinute(ages)         == Young(ages, Minute)
InHour(ages)           == Young(ages, Hour)

Affordable ==
    /\ PerMin > 0 => Len(InMinute(minute)) < PerMin
    /\ PerHour > 0 => Len(InHour(hour)) < PerHour

RecordSpend ==
    /\ minute' = IF PerMin > 0 THEN Append(InMinute(minute), 0) ELSE minute
    /\ hour' = IF PerHour > 0 THEN Append(InHour(hour), 0) ELSE hour
    /\ sent' = IF PerMin + PerHour > 0 THEN Append(Young(sent, Hour), 0) ELSE sent

-----------------------------------------------------------------------------
(* Calls of GatewayClient *)

(* _begin_upstream_call: the breaker, then the spend guard.                *)
Begin(c) ==
    LET b == MaybeTransition(breaker) IN
    /\ call[c] = "idle"
    /\ Passes(b) /\ Affordable
    /\ breaker' = BeforeCall(b)
    /\ RecordSpend
    /\ call' = [call EXCEPT ![c] = "flying"]
    /\ probers' = IF b.state # "HALF_OPEN" THEN {}
                  ELSE IF breaker.state = "OPEN" THEN {c} ELSE probers \cup {c}
    /\ lost' = (lost /\ breaker.state = "HALF_OPEN")
    /\ UNCHANGED healthy

(* The guard trips: the slot just taken is released, nothing is sent.      *)
SpendGuardTripped(c) ==
    LET b == MaybeTransition(breaker) IN
    /\ call[c] = "idle"
    /\ Passes(b) /\ ~Affordable
    /\ breaker' = OnAbandoned(BeforeCall(b))
    /\ probers' = IF breaker.state = "OPEN" THEN {} ELSE probers
    /\ lost' = (lost /\ breaker.state = "HALF_OPEN")
    /\ UNCHANGED <<stamps, call, healthy>>

(* The call of c ends with breaker' reported. *)
End(c) ==
    /\ call[c] = "flying"
    /\ call' = [call EXCEPT ![c] = "idle"]
    /\ probers' = IF breaker'.state = "HALF_OPEN" THEN probers \ {c} ELSE {}
    /\ UNCHANGED <<stamps, healthy>>

Succeed(c) ==
    /\ breaker' = OnSuccess(breaker)
    /\ End(c)
    /\ lost' = (lost /\ breaker'.state = "HALF_OPEN")

(* 5xx, 408, 409, 425, 429, a transport error, an unusable or empty answer *)
Fail(c) ==
    /\ ~healthy
    /\ breaker' = OnFailure(breaker)
    /\ End(c)
    /\ lost' = FALSE

(* Cancelled, or a 4xx status, which says nothing about the provider.      *)
Abandon(c) ==
    /\ breaker' = OnAbandoned(breaker)
    /\ End(c)
    /\ UNCHANGED lost

(* An error envelope with a 4xx status inside a 200 answer, or a stream    *)
(* closed at its last delta, after the try block: nothing is reported.     *)
EndUnreported(c) ==
    /\ ~healthy
    /\ UNCHANGED breaker
    /\ End(c)
    /\ lost' = (lost \/ c \in probers)

-----------------------------------------------------------------------------
Tick ==
    /\ breaker' = [breaker EXCEPT !.left = IF @ > 0 THEN @ - 1 ELSE 0,
                                  !.failures = Older(@, WindowSeconds)]
    /\ minute' = Older(minute, Minute)
    /\ hour' = Older(hour, Hour)
    /\ sent' = Older(sent, Hour)
    /\ UNCHANGED <<call, healthy, probers, lost>>

Heal ==
    /\ ~healthy
    /\ healthy' = TRUE
    /\ UNCHANGED <<breaker, stamps, call, probers, lost>>

Next ==
    \/ \E c \in Calls :
         \/ Begin(c) \/ SpendGuardTripped(c)
         \/ Succeed(c) \/ Fail(c) \/ Abandon(c) \/ EndUnreported(c)
    \/ Tick \/ Heal

Spec == Init /\ [][Next]_vars

(* The clock runs, clients keep calling, every call ends (the transport    *)
(* has timeouts) and not every call is cancelled.                          *)
Fairness ==
    /\ WF_vars(Tick)
    /\ \A c \in Calls : /\ SF_vars(Begin(c))
                        /\ WF_vars(Succeed(c) \/ Fail(c) \/ Abandon(c))
                        /\ SF_vars(Succeed(c))

FairSpec == Spec /\ Fairness

-----------------------------------------------------------------------------
(* Properties *)

CountWithin(ages, limit) == Cardinality({i \in DOMAIN ages : ages[i] <= limit})

(* In no window are more calls sent upstream than the spend guard allows,  *)
(* whichever limit refuses and however calls and refusals interleave.      *)
SpendBounded ==
    /\ PerMin > 0 => CountWithin(sent, Minute) <= PerMin
    /\ PerHour > 0 => CountWithin(sent, Hour) <= PerHour

(* When the provider is well again the circuit closes, if no call was lost.*)
Recovers == (healthy /\ ~lost) ~> (breaker.state = "CLOSED")

(* circuit.py:87: "half-open probe is already in flight".                  *)
RefusalMeansProbe == breaker.probe => \E c \in Calls : call[c] = "flying"
=============================================================================
