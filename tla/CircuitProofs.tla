--------------------------- MODULE CircuitProofs ----------------------------
(* What is proved of the circuit breaker of the tools (ToolCircuit), for   *)
(* any callers, thresholds and cooldowns, and of the reminders             *)
(* (Reminders), for any set of them, any delays, stops and crashes.        *)
EXTENDS ToolCircuit, Reminders, FiniteSetTheorems, TLAPS

(* The operations of the circuit stay within Circuits.                     *)

LEMMA ZeroCounts ==
    /\ 0 \in 0..FailureThreshold /\ 0 \in 0..SuccessThreshold
    /\ 0 \in 0..HalfOpenMaxCalls /\ 0 \in 0..MaxCooldownSec
    /\ 0 \in {0} \cup CooldownSec..MaxCooldownSec
  BY ConfigAssumption

LEMMA BumpType ==
    ASSUME NEW t \in Nat \ {0}, NEW n \in 0..t
    PROVE  Bump(n, t) \in 0..t
  BY DEF Bump, Least

LEMMA CooldownType ==
    ASSUME NEW last \in {0} \cup CooldownSec..MaxCooldownSec,
           NEW d \in Cooldowns(last)
    PROVE  d \in CooldownSec..MaxCooldownSec
  <1> DEFINE b == Backoff(last)
  <1>1. b \in Int
    BY ConfigAssumption DEF Backoff, Least
  <1>2. Jittered(b) \subseteq Int
    BY <1>1 DEF Jittered
  <1>3. PICK e \in Jittered(b) : d = Least(MaxCooldownSec, Greatest(CooldownSec, e))
    BY DEF Cooldowns
  <1> QED
    BY <1>2, <1>3, ConfigAssumption DEF Least, Greatest

LEMMA OpenedType ==
    ASSUME NEW k \in Circuits, NEW r \in Opened(k)
    PROVE  /\ r \in Circuits
           /\ r.state = "OPEN"
  <1>1. PICK d \in Cooldowns(k.cooldown) :
          r = [k EXCEPT !.state = "OPEN", !.cooldown = d, !.left = d]
    BY DEF Opened
  <1>2. d \in CooldownSec..MaxCooldownSec
    BY <1>1, CooldownType DEF Circuits
  <1>3. d \in 0..MaxCooldownSec
    BY <1>2, ConfigAssumption
  <1> QED
    BY <1>1, <1>2, <1>3 DEF Circuits

LEMMA HalfOpenType ==
    ASSUME NEW k \in Circuits
    PROVE  /\ HalfOpen(k) \in Circuits
           /\ HalfOpen(k) = k \/ (/\ k.state = "OPEN"
                                  /\ HalfOpen(k).state = "HALF_OPEN"
                                  /\ HalfOpen(k).inFlight = 0)
  <1>1. CASE k.state = "OPEN" /\ k.left = 0
    BY <1>1, ZeroCounts DEF HalfOpen, Circuits
  <1>2. CASE ~(k.state = "OPEN" /\ k.left = 0)
    BY <1>2 DEF HalfOpen
  <1> QED
    BY <1>1, <1>2

LEMMA AdmittedType ==
    ASSUME NEW k \in Circuits, Allowed(k)
    PROVE  /\ Admitted(k) \in Circuits
           /\ Admitted(k).state = k.state
           /\ k.state = "HALF_OPEN" => Admitted(k).inFlight = k.inFlight + 1
  BY ConfigAssumption DEF Admitted, Allowed, Circuits

LEMMA ReleaseSlotType ==
    ASSUME NEW k \in Circuits
    PROVE  /\ ReleaseSlot(k) \in Circuits
           /\ ReleaseSlot(k).state = k.state
           /\ ReleaseSlot(k).successes = k.successes
           /\ k.inFlight > 0 => ReleaseSlot(k).inFlight = k.inFlight - 1
           /\ ReleaseSlot(k).inFlight <= k.inFlight
           /\ k.inFlight = 0 => ReleaseSlot(k).inFlight = 0
  <1>1. Greatest(0, k.inFlight - 1) \in 0..HalfOpenMaxCalls
    BY ConfigAssumption DEF Circuits, Greatest
  <1> QED
    BY <1>1, ConfigAssumption DEF ReleaseSlot, Circuits, Greatest

(* What every report does to a half-open circuit that stays half-open:     *)
(* it releases one slot, if one is taken.                                  *)
Released(k, r) ==
    r.state = "HALF_OPEN" =>
        /\ k.state = "HALF_OPEN"
        /\ r.inFlight <= k.inFlight
        /\ k.inFlight > 0 => r.inFlight = k.inFlight - 1

LEMMA SuccessReleases ==
    ASSUME NEW k \in Circuits
    PROVE  /\ RecordSuccess(k) \in Circuits
           /\ Released(k, RecordSuccess(k))
  <1> DEFINE s == [ReleaseSlot(k) EXCEPT !.successes = Bump(@, SuccessThreshold)]
  <1>1. CASE k.state = "HALF_OPEN"
    <2>1. Bump(ReleaseSlot(k).successes, SuccessThreshold) \in 0..SuccessThreshold
      BY ReleaseSlotType, BumpType, ConfigAssumption DEF Circuits
    <2>2. /\ s \in Circuits
          /\ s.state = "HALF_OPEN"
          /\ s.inFlight = ReleaseSlot(k).inFlight
      BY <1>1, <2>1, ReleaseSlotType DEF Circuits
    <2>3. Closed(s) \in Circuits /\ Closed(s).state = "CLOSED"
      BY <2>2, ZeroCounts DEF Closed, Circuits
    <2>4. RecordSuccess(k) = IF s.successes >= SuccessThreshold THEN Closed(s) ELSE s
      BY <1>1 DEF RecordSuccess
    <2> QED
      BY <1>1, <2>2, <2>3, <2>4, ReleaseSlotType DEF Released
  <1>2. CASE k.state # "HALF_OPEN"
    <2>1. RecordSuccess(k) = [k EXCEPT !.failures = 0]
      BY <1>2 DEF RecordSuccess
    <2> QED
      BY <1>2, <2>1, ConfigAssumption DEF Circuits, Released
  <1> QED
    BY <1>1, <1>2

LEMMA FailureReleases ==
    ASSUME NEW k \in Circuits, NEW r \in RecordFailure(k)
    PROVE  /\ r \in Circuits
           /\ Released(k, r)
           /\ k.state = "OPEN" => /\ r.left = k.left
                                  /\ r.cooldown = k.cooldown
  <1> DEFINE f == [k EXCEPT !.failures = Bump(@, FailureThreshold)]
  <1>1. Bump(k.failures, FailureThreshold) \in 0..FailureThreshold
    BY BumpType, ConfigAssumption DEF Circuits
  <1>2. f \in Circuits /\ f.state = k.state /\ f.left = k.left /\ f.cooldown = k.cooldown
    BY <1>1 DEF Circuits
  <1>3. CASE k.state = "OPEN"
    <2>1. r = f
      BY <1>3 DEF RecordFailure
    <2> QED
      BY <1>2, <1>3, <2>1 DEF Released
  <1>4. CASE k.state = "HALF_OPEN"
    <2>1. r \in Opened(ReleaseSlot(f))
      BY <1>4 DEF RecordFailure
    <2>2. r \in Circuits /\ r.state = "OPEN"
      BY <2>1, <1>2, ReleaseSlotType, OpenedType
    <2> QED
      BY <2>2, <1>4 DEF Released
  <1>5. CASE k.state = "CLOSED"
    <2>1. r \in Opened(f) \/ r = f
      BY <1>5 DEF RecordFailure
    <2>2. r \in Circuits /\ r.state # "HALF_OPEN"
      BY <2>1, <1>2, <1>5, OpenedType
    <2> QED
      BY <2>2, <1>5 DEF Released
  <1> QED
    BY <1>3, <1>4, <1>5 DEF Circuits

LEMMA AbandonReleases ==
    ASSUME NEW k \in Circuits
    PROVE  /\ AbandonProbe(k) \in Circuits
           /\ Released(k, AbandonProbe(k))
           /\ k.state = "OPEN" => AbandonProbe(k) = k
  <1>1. CASE k.state = "HALF_OPEN"
    BY <1>1, ReleaseSlotType DEF AbandonProbe, Released
  <1>2. CASE k.state # "HALF_OPEN"
    BY <1>2 DEF AbandonProbe, Released
  <1> QED
    BY <1>1, <1>2

-----------------------------------------------------------------------------
(* Type correctness: the circuit is always one of Circuits, and only calls *)
(* in flight are counted as probes.                                        *)

LEMMA TypeStep == TypeOK /\ [Next]_vars => TypeOK'
  <1> SUFFICES ASSUME TypeOK, [Next]_vars PROVE TypeOK'
    OBVIOUS
  <1> USE DEF TypeOK
  <1>1. ASSUME NEW c \in Calls, Admit(c) PROVE TypeOK'
    <2>1. circuit' \in Circuits
      BY <1>1, HalfOpenType, AdmittedType DEF Admit
    <2>2. okRun' \in 0..SuccessThreshold
      BY <1>1, ConfigAssumption DEF Admit
    <2>3. call' \in [Calls -> {"idle", "flying", "refused"}] /\ call'[c] = "flying"
          /\ \A x \in Calls \ {c} : call'[x] = call[x]
      BY <1>1 DEF Admit
    <2>4. probes' \subseteq probes \cup {c}
      BY <1>1 DEF Admit
    <2> QED
      BY <1>1, <2>1, <2>2, <2>3, <2>4 DEF Admit
  <1>2. ASSUME NEW c \in Calls, Refuse(c) PROVE TypeOK'
    <2>1. call' \in [Calls -> {"idle", "flying", "refused"}]
          /\ \A x \in Calls \ {c} : call'[x] = call[x]
      BY <1>2 DEF Refuse
    <2>2. c \notin probes
      BY <1>2 DEF Refuse
    <2> QED
      BY <1>2, <2>1, <2>2 DEF Refuse, history
  <1>3. ASSUME NEW c \in Calls, Return(c), call[c] \in {"flying", "refused"},
               StillProbes(c), circuit' \in Circuits,
               failRun' \in 0..FailureThreshold, okRun' \in 0..SuccessThreshold
        PROVE  TypeOK'
    <2>1. call' \in [Calls -> {"idle", "flying", "refused"}]
          /\ \A x \in Calls \ {c} : call'[x] = call[x]
      BY <1>3 DEF Return
    <2>2. probes' \subseteq probes \ {c}
      BY <1>3 DEF StillProbes
    <2> QED
      BY <1>3, <2>1, <2>2 DEF Return
  <1>4. ASSUME NEW c \in Calls, Succeed(c) PROVE TypeOK'
    <2>1. okRun' \in 0..SuccessThreshold
      BY <1>4, BumpType, ConfigAssumption DEF Succeed
    <2>2. failRun' \in 0..FailureThreshold
      BY <1>4, ConfigAssumption DEF Succeed
    <2> QED
      BY <1>3, <1>4, <2>1, <2>2, SuccessReleases DEF Succeed
  <1>5. ASSUME NEW c \in Calls, Fail(c) \/ RefusalNotLogged(c) PROVE TypeOK'
    <2>1. failRun' \in 0..FailureThreshold
      BY <1>5, BumpType, ConfigAssumption DEF Fail, RefusalNotLogged
    <2> QED
      BY <1>3, <1>5, <2>1, FailureReleases DEF Fail, RefusalNotLogged
  <1>6. ASSUME NEW c \in Calls, Cancel(c) PROVE TypeOK'
    BY <1>3, <1>6, AbandonReleases DEF Cancel
  <1>7. ASSUME NEW c \in Calls, RefusalLogged(c) \/ RefusalCancelled(c) PROVE TypeOK'
    <2>1. call' \in [Calls -> {"idle", "flying", "refused"}]
          /\ \A x \in Calls \ {c} : call'[x] = call[x]
      BY <1>7 DEF RefusalLogged, RefusalCancelled, Return
    <2>2. c \notin probes
      BY <1>7 DEF RefusalLogged, RefusalCancelled
    <2>3. circuit' \in Circuits
      BY <1>7, AbandonReleases DEF RefusalLogged, RefusalCancelled
    <2> QED
      BY <1>7, <2>1, <2>2, <2>3 DEF RefusalLogged, RefusalCancelled, Return, history
  <1>8. ASSUME Tick PROVE TypeOK'
    BY <1>8, ConfigAssumption DEF Tick, Circuits, history
  <1>9. ASSUME Heal PROVE TypeOK'
    BY <1>9 DEF Heal, history
  <1>10. ASSUME UNCHANGED vars PROVE TypeOK'
    BY <1>10 DEF vars
  <1> QED
    BY <1>1, <1>2, <1>4, <1>5, <1>6, <1>7, <1>8, <1>9, <1>10 DEF Next

LEMMA TypeInit == Init => TypeOK
  <1> SUFFICES ASSUME Init PROVE TypeOK
    OBVIOUS
  <1>1. circuit \in Circuits
    BY ZeroCounts DEF Init, Circuits
  <1>2. call \in [Calls -> {"idle", "flying", "refused"}]
    BY DEF Init
  <1> QED
    BY <1>1, <1>2, ZeroCounts DEF Init, TypeOK

THEOREM CircuitTypeCorrect == Spec => []TypeOK
  BY TypeInit, TypeStep, PTL DEF Spec

-----------------------------------------------------------------------------
(* No slot leaks.  NoLeakedSlot is inductive with TypeOK: a report takes   *)
(* one call out of probes and one slot out of inFlight; a report by a call *)
(* that is no probe only makes inFlight smaller.                           *)

LEMMA ProbesFinite == TypeOK => IsFiniteSet(probes) /\ Cardinality(probes) \in Nat
  BY CallsAssumption, FS_Subset, FS_CardinalityType DEF TypeOK

LEMMA ReportKeepsSlots ==
    ASSUME TypeOK, NoLeakedSlot, NEW c \in Calls,
           circuit' \in Circuits, Released(circuit, circuit'), StillProbes(c)
    PROVE  NoLeakedSlot'
  <1> SUFFICES ASSUME circuit'.state = "HALF_OPEN"
               PROVE  circuit'.inFlight <= Cardinality(probes')
    BY DEF NoLeakedSlot
  <1>1. probes' = probes \ {c}
    BY DEF StillProbes
  <1>2. circuit.inFlight <= Cardinality(probes)
    BY DEF Released, NoLeakedSlot
  <1>3. circuit.inFlight \in Nat /\ circuit'.inFlight \in Nat
    BY ConfigAssumption DEF TypeOK, Circuits
  <1>4. CASE c \in probes
    <2>1. Cardinality(probes') = Cardinality(probes) - 1
      BY <1>1, <1>4, ProbesFinite, FS_RemoveElement
    <2>2. Cardinality(probes) >= 1
      BY <1>4, ProbesFinite, FS_EmptySet
    <2> QED
      BY <1>2, <1>3, <2>1, <2>2, ProbesFinite DEF Released
  <1>5. CASE c \notin probes
    <2>1. probes' = probes
      BY <1>1, <1>5
    <2> QED
      BY <1>2, <1>3, <2>1, ProbesFinite DEF Released
  <1> QED
    BY <1>4, <1>5

LEMMA SlotStep == TypeOK /\ TypeOK' /\ NoLeakedSlot /\ [Next]_vars => NoLeakedSlot'
  <1> SUFFICES ASSUME TypeOK, TypeOK', NoLeakedSlot, [Next]_vars PROVE NoLeakedSlot'
    OBVIOUS
  <1>0. circuit \in Circuits /\ circuit' \in Circuits
    BY DEF TypeOK
  <1>1. ASSUME NEW c \in Calls, Admit(c) PROVE NoLeakedSlot'
    <2> DEFINE k == HalfOpen(circuit)
    <2>1. /\ k \in Circuits /\ Allowed(k) /\ circuit' = Admitted(k)
          /\ call[c] = "idle"
      BY <1>0, <1>1, HalfOpenType DEF Admit
    <2>2. k = circuit \/ (circuit.state = "OPEN" /\ k.state = "HALF_OPEN" /\ k.inFlight = 0)
      BY <1>0, HalfOpenType
    <2>3. probes' = IF k.state # "HALF_OPEN" THEN {}
                    ELSE IF circuit.state = "HALF_OPEN" THEN probes \cup {c} ELSE {c}
      BY <1>1 DEF Admit
    <2>4. k.inFlight \in Nat
      BY <2>1, ConfigAssumption DEF Circuits
    <2>5. circuit'.state = k.state
          /\ (k.state = "HALF_OPEN" => circuit'.inFlight = k.inFlight + 1)
      BY <2>1, AdmittedType
    <2> HIDE DEF k
    <2>6. CASE k.state # "HALF_OPEN"
      BY <2>5, <2>6 DEF NoLeakedSlot
    <2>7. CASE k.state = "HALF_OPEN" /\ circuit.state = "HALF_OPEN"
      <3>1. c \notin probes
        BY <2>1 DEF TypeOK
      <3>2. Cardinality(probes') = Cardinality(probes) + 1
        BY <2>3, <2>7, <3>1, ProbesFinite, FS_AddElement
      <3>3. k.inFlight <= Cardinality(probes)
        BY <2>2, <2>7 DEF NoLeakedSlot
      <3> QED
        BY <2>4, <2>5, <2>7, <3>2, <3>3, ProbesFinite DEF NoLeakedSlot
    <2>8. CASE k.state = "HALF_OPEN" /\ circuit.state # "HALF_OPEN"
      <3>1. Cardinality(probes') = 1
        BY <2>3, <2>8, FS_Singleton
      <3>2. k.inFlight = 0
        BY <2>2, <2>8
      <3> QED
        BY <2>5, <2>8, <3>1, <3>2 DEF NoLeakedSlot
    <2> QED
      BY <2>6, <2>7, <2>8
  <1>2. ASSUME NEW c \in Calls, Succeed(c) PROVE NoLeakedSlot'
    BY <1>0, <1>2, SuccessReleases, ReportKeepsSlots DEF Succeed
  <1>3. ASSUME NEW c \in Calls, Fail(c) \/ RefusalNotLogged(c) PROVE NoLeakedSlot'
    BY <1>0, <1>3, FailureReleases, ReportKeepsSlots DEF Fail, RefusalNotLogged
  <1>4. ASSUME NEW c \in Calls, Cancel(c) PROVE NoLeakedSlot'
    BY <1>0, <1>4, AbandonReleases, ReportKeepsSlots DEF Cancel
  <1>5. ASSUME NEW c \in Calls, RefusalCancelled(c) PROVE NoLeakedSlot'
    <2>1. Released(circuit, circuit') /\ probes' = probes
      BY <1>0, <1>5, AbandonReleases DEF RefusalCancelled, history
    <2>2. circuit.inFlight \in Nat /\ circuit'.inFlight \in Nat
      BY <1>0, ConfigAssumption DEF Circuits
    <2> QED
      BY <2>1, <2>2, ProbesFinite DEF Released, NoLeakedSlot
  <1>6. ASSUME \/ \E c \in Calls : Refuse(c) \/ RefusalLogged(c)
               \/ Heal \/ UNCHANGED vars
        PROVE  NoLeakedSlot'
    BY <1>6 DEF Refuse, RefusalLogged, Heal, vars, history, NoLeakedSlot
  <1>7. ASSUME Tick PROVE NoLeakedSlot'
    <2>1. circuit'.state = "OPEN"
      BY <1>0, <1>7 DEF Tick, Circuits
    <2> QED
      BY <2>1 DEF NoLeakedSlot
  <1> QED
    BY <1>1, <1>2, <1>3, <1>4, <1>5, <1>6, <1>7 DEF Next

(* In a half-open circuit every taken slot belongs to a call in flight.    *)
THEOREM SlotsNeverLeak == Spec => []NoLeakedSlot
  <1>1. Init => NoLeakedSlot
    BY DEF Init, NoLeakedSlot
  <1> QED
    BY <1>1, TypeInit, TypeStep, SlotStep, PTL DEF Spec

(* No step moves the end of a cooldown that is running.                    *)
THEOREM CooldownNeverExtended == Spec => OneCooldownPerOutage
  <1> DEFINE Kept == (circuit.state = "OPEN" /\ circuit'.state = "OPEN") =>
                       circuit'.left <= circuit.left /\ circuit'.cooldown = circuit.cooldown
  <1>1. TypeOK /\ [Next]_vars => [Kept]_vars
    <2> SUFFICES ASSUME TypeOK, Next, circuit.state = "OPEN", circuit'.state = "OPEN"
                 PROVE  circuit'.left <= circuit.left /\ circuit'.cooldown = circuit.cooldown
      OBVIOUS
    <2>0. circuit \in Circuits /\ circuit.left \in Nat
      BY ConfigAssumption DEF TypeOK, Circuits
    <2>1. ASSUME NEW c \in Calls, Admit(c) PROVE FALSE
      <3>1. Allowed(HalfOpen(circuit)) /\ circuit'.state = HalfOpen(circuit).state
        BY <2>0, <2>1, HalfOpenType, AdmittedType DEF Admit
      <3> QED
        BY <3>1 DEF Allowed
    <2>2. ASSUME NEW c \in Calls, Succeed(c)
          PROVE  circuit'.left = circuit.left /\ circuit'.cooldown = circuit.cooldown
      <3>1. circuit' = [circuit EXCEPT !.failures = 0]
        BY <2>2 DEF Succeed, RecordSuccess
      <3> QED
        BY <2>0, <3>1 DEF Circuits
    <2>3. ASSUME NEW c \in Calls, Fail(c) \/ RefusalNotLogged(c)
          PROVE  circuit'.left = circuit.left /\ circuit'.cooldown = circuit.cooldown
      BY <2>0, <2>3, FailureReleases DEF Fail, RefusalNotLogged
    <2>4. ASSUME NEW c \in Calls, Cancel(c) \/ RefusalCancelled(c)
          PROVE  circuit' = circuit
      BY <2>0, <2>4, AbandonReleases DEF Cancel, RefusalCancelled
    <2>5. ASSUME \/ \E c \in Calls : Refuse(c) \/ RefusalLogged(c)
                 \/ Heal
          PROVE  circuit' = circuit
      BY <2>5 DEF Refuse, RefusalLogged, Heal
    <2>6. ASSUME Tick
          PROVE  circuit'.left <= circuit.left /\ circuit'.cooldown = circuit.cooldown
      BY <2>0, <2>6 DEF Tick, Circuits
    <2> QED
      BY <2>0, <2>1, <2>2, <2>3, <2>4, <2>5, <2>6 DEF Next
  <1> QED
    BY <1>1, TypeInit, TypeStep, PTL DEF Spec, OneCooldownPerOutage

-----------------------------------------------------------------------------
(* The counts of the circuit.  In a closed circuit it has counted no       *)
(* failure that was not in a row since it closed, and in a half-open one   *)
(* no success from before this period.                                     *)
CountInv ==
    /\ circuit.state = "CLOSED" => circuit.failures <= failRun
    /\ circuit.state = "HALF_OPEN" => circuit.successes <= okRun

LEMMA BumpKeepsOrder ==
    ASSUME NEW t \in Nat \ {0}, NEW m \in 0..t, NEW n \in 0..t, m <= n
    PROVE  Bump(m, t) <= Bump(n, t)
  BY DEF Bump, Least

(* What a report that succeeded leaves of the counts.                      *)
LEMMA SuccessCounts ==
    ASSUME NEW k \in Circuits
    PROVE  /\ RecordSuccess(k).state = "CLOSED" => RecordSuccess(k).failures = 0
           /\ RecordSuccess(k).state = "HALF_OPEN" =>
                /\ k.state = "HALF_OPEN"
                /\ RecordSuccess(k).successes = Bump(k.successes, SuccessThreshold)
           /\ k.state = "HALF_OPEN" /\ RecordSuccess(k).state = "CLOSED" =>
                Bump(k.successes, SuccessThreshold) >= SuccessThreshold
           /\ k.state = "CLOSED" => RecordSuccess(k).state = "CLOSED"
  <1> DEFINE s == [ReleaseSlot(k) EXCEPT !.successes = Bump(@, SuccessThreshold)]
  <1>1. CASE k.state = "HALF_OPEN"
    <2>1. /\ s.state = "HALF_OPEN" /\ s.successes = Bump(k.successes, SuccessThreshold)
          /\ s \in Circuits
      <3>1. Bump(k.successes, SuccessThreshold) \in 0..SuccessThreshold
        BY BumpType, ConfigAssumption DEF Circuits
      <3> QED
        BY <1>1, <3>1, ReleaseSlotType DEF Circuits
    <2>2. Closed(s).state = "CLOSED" /\ Closed(s).failures = 0
      BY <2>1 DEF Closed, Circuits
    <2>3. RecordSuccess(k) = IF s.successes >= SuccessThreshold THEN Closed(s) ELSE s
      BY <1>1 DEF RecordSuccess
    <2> HIDE DEF s
    <2> QED
      BY <1>1, <2>1, <2>2, <2>3
  <1>2. CASE k.state # "HALF_OPEN"
    <2>1. RecordSuccess(k) = [k EXCEPT !.failures = 0]
      BY <1>2 DEF RecordSuccess
    <2> QED
      BY <1>2, <2>1 DEF Circuits
  <1> QED
    BY <1>1, <1>2

(* And one that failed: it leaves no half-open circuit, and opens a closed *)
(* one at the threshold only.                                              *)
LEMMA FailureCounts ==
    ASSUME NEW k \in Circuits, NEW r \in RecordFailure(k)
    PROVE  /\ r.state = "CLOSED" => /\ k.state = "CLOSED"
                                    /\ r.failures = Bump(k.failures, FailureThreshold)
           /\ r.state # "HALF_OPEN"
           /\ k.state = "CLOSED" /\ r.state = "OPEN" =>
                Bump(k.failures, FailureThreshold) >= FailureThreshold
           /\ k.state = "HALF_OPEN" => r.state = "OPEN"
  <1> DEFINE f == [k EXCEPT !.failures = Bump(@, FailureThreshold)]
  <1>1. Bump(k.failures, FailureThreshold) \in 0..FailureThreshold
    BY BumpType, ConfigAssumption DEF Circuits
  <1>2. f \in Circuits /\ f.state = k.state /\ f.failures = Bump(k.failures, FailureThreshold)
    BY <1>1 DEF Circuits
  <1>3. CASE k.state = "OPEN"
    BY <1>2, <1>3 DEF RecordFailure
  <1>4. CASE k.state = "HALF_OPEN"
    <2>1. r \in Opened(ReleaseSlot(f))
      BY <1>4 DEF RecordFailure
    <2> QED
      BY <2>1, <1>2, <1>4, ReleaseSlotType, OpenedType
  <1>5. CASE k.state = "CLOSED"
    <2>1. IF f.failures >= FailureThreshold THEN r \in Opened(f) ELSE r = f
      BY <1>5 DEF RecordFailure
    <2>2. r \in Opened(f) => r.state = "OPEN"
      BY <1>2, OpenedType
    <2> HIDE DEF f
    <2> QED
      BY <1>2, <1>5, <2>1, <2>2
  <1> QED
    BY <1>3, <1>4, <1>5 DEF Circuits

LEMMA AbandonCounts ==
    ASSUME NEW k \in Circuits
    PROVE  /\ AbandonProbe(k).state = k.state
           /\ AbandonProbe(k).failures = k.failures
           /\ AbandonProbe(k).successes = k.successes
  BY DEF AbandonProbe, ReleaseSlot, Circuits

(* What a step does to the counts, and when it opens or closes.            *)
OpensOrCloses ==
    /\ (circuit.state = "CLOSED" /\ circuit'.state = "OPEN") => failRun' = FailureThreshold
    /\ (circuit.state = "HALF_OPEN" /\ circuit'.state = "CLOSED") => okRun' = SuccessThreshold

LEMMA CountStep == TypeOK /\ TypeOK' /\ CountInv /\ [Next]_vars => CountInv' /\ [OpensOrCloses]_vars
  <1> SUFFICES ASSUME TypeOK, TypeOK', CountInv, [Next]_vars
               PROVE  CountInv' /\ (OpensOrCloses \/ UNCHANGED vars)
    OBVIOUS
  <1>0. /\ circuit \in Circuits /\ circuit' \in Circuits
        /\ circuit.failures \in 0..FailureThreshold /\ failRun \in 0..FailureThreshold
        /\ circuit.successes \in 0..SuccessThreshold /\ okRun \in 0..SuccessThreshold
        /\ failRun' \in 0..FailureThreshold /\ okRun' \in 0..SuccessThreshold
    BY DEF TypeOK, Circuits
  <1>00. FailureThreshold \in Nat \ {0} /\ SuccessThreshold \in Nat \ {0}
    BY ConfigAssumption
  <1>1. ASSUME NEW c \in Calls, Admit(c) PROVE CountInv' /\ OpensOrCloses
    <2> DEFINE k == HalfOpen(circuit)
    <2>1. /\ k \in Circuits /\ Allowed(k) /\ circuit' = Admitted(k)
          /\ failRun' = failRun /\ okRun' = IF circuit.state = "OPEN" THEN 0 ELSE okRun
      BY <1>0, <1>1, HalfOpenType DEF Admit
    <2>2. /\ circuit'.state = k.state /\ circuit'.failures = k.failures
          /\ circuit'.successes = k.successes
      BY <2>1 DEF Admitted, Circuits
    <2>3. k = circuit \/ (circuit.state = "OPEN" /\ k.state = "HALF_OPEN" /\ k.successes = 0)
      BY <1>0 DEF HalfOpen, Circuits
    <2>4. k.state \in {"CLOSED", "HALF_OPEN"}
      BY <2>1 DEF Allowed
    <2> HIDE DEF k
    <2> QED
      BY <2>1, <2>2, <2>3, <2>4 DEF CountInv, OpensOrCloses
  <1>2. ASSUME NEW c \in Calls, Succeed(c) PROVE CountInv' /\ OpensOrCloses
    <2>1. circuit' = RecordSuccess(circuit) /\ failRun' = 0 /\ okRun' = Bump(okRun, SuccessThreshold)
      BY <1>2 DEF Succeed
    <2>2. circuit.state = "HALF_OPEN" => Bump(circuit.successes, SuccessThreshold) <= okRun'
      BY <1>0, <1>00, <2>1, BumpKeepsOrder DEF CountInv
    <2>3. Bump(circuit.successes, SuccessThreshold) \in 0..SuccessThreshold
      BY <1>0, <1>00, BumpType
    <2> QED
      BY <1>0, <1>00, <2>1, <2>2, <2>3, SuccessCounts DEF CountInv, OpensOrCloses
  <1>3. ASSUME NEW c \in Calls, Fail(c) \/ RefusalNotLogged(c) PROVE CountInv' /\ OpensOrCloses
    <2>1. circuit' \in RecordFailure(circuit) /\ failRun' = Bump(failRun, FailureThreshold)
      BY <1>3 DEF Fail, RefusalNotLogged
    <2>2. circuit.state = "CLOSED" => Bump(circuit.failures, FailureThreshold) <= failRun'
      BY <1>0, <1>00, <2>1, BumpKeepsOrder DEF CountInv
    <2>3. Bump(circuit.failures, FailureThreshold) \in 0..FailureThreshold
      BY <1>0, <1>00, BumpType
    <2> QED
      BY <1>0, <1>00, <2>1, <2>2, <2>3, FailureCounts DEF CountInv, OpensOrCloses
  <1>4. ASSUME NEW c \in Calls, Cancel(c) \/ RefusalCancelled(c) PROVE CountInv' /\ OpensOrCloses
    <2>1. circuit' = AbandonProbe(circuit) /\ failRun' = failRun /\ okRun' = okRun
      BY <1>4 DEF Cancel, RefusalCancelled, history
    <2> QED
      BY <1>0, <2>1, AbandonCounts DEF CountInv, OpensOrCloses
  <1>5. ASSUME \/ \E c \in Calls : Refuse(c) \/ RefusalLogged(c)
               \/ Heal \/ UNCHANGED vars
        PROVE  CountInv' /\ OpensOrCloses
    <2>1. UNCHANGED <<circuit, failRun, okRun>>
      BY <1>5 DEF Refuse, RefusalLogged, Heal, vars, history
    <2> QED
      BY <2>1 DEF CountInv, OpensOrCloses
  <1>6. ASSUME Tick PROVE CountInv' /\ OpensOrCloses
    <2>1. circuit.state = "OPEN" /\ circuit'.state = "OPEN"
      BY <1>0, <1>6 DEF Tick, Circuits
    <2> QED
      BY <2>1 DEF CountInv, OpensOrCloses
  <1> QED
    BY <1>1, <1>2, <1>3, <1>4, <1>5, <1>6 DEF Next

(* A closed circuit opens only after FailureThreshold failures in a row    *)
(* since it closed, and a half-open one closes only after SuccessThreshold *)
(* successes of its own period, whichever late calls report in between.    *)
THEOREM OldReportsDoNotCount == Spec => CountsOfThisPeriod
  <1>1. Init => CountInv
    BY DEF Init, CountInv
  <1>2. TypeOK /\ TypeOK' /\ CountInv /\ [Next]_vars => [OpensOrCloses]_vars
    BY CountStep
  <1> QED
    BY <1>1, <1>2, TypeInit, TypeStep, CountStep, PTL DEF Spec, CountsOfThisPeriod, OpensOrCloses

-----------------------------------------------------------------------------
(* Reminders                                                               *)

(* Types *)

LEMMA DelayIsNat ==
  ASSUME RemindersTypeOK, NEW r \in Ids
  PROVE  NextDelay(r) \in Nat
  BY ReminderAssumption DEF NextDelay, Lesser, RemindersTypeOK

LEMMA SoonerIsTime ==
  ASSUME RemindersTypeOK, NEW t \in Nat
  PROVE  /\ Sooner(t) \in Nat /\ Sooner(t) <= t
         /\ nextDue # Never => Sooner(t) <= nextDue
  BY ReminderAssumption DEF Sooner, Lesser, RemindersTypeOK

(* What Recorded and the outcome of a send do to the variables they set.   *)
LEMMA RecordedType ==
  ASSUME RemindersTypeOK, step = "write", Recorded
  PROVE  /\ exists' = exists /\ delivered' \subseteq exists
         /\ left' \in [Ids -> Nat] /\ delay' \in [Ids -> Nat]
<1>1. current \in exists /\ current \in Ids
  BY ReminderAssumption DEF RemindersTypeOK
<1>2. NextDelay(current) \in Nat
  BY <1>1, DelayIsNat
<1> QED
  BY <1>1, <1>2 DEF Recorded, Marked, RemindersTypeOK

LEMMA PerhapsAcceptedType ==
  ASSUME RemindersTypeOK, step = "send", PerhapsAccepted
  PROVE  accepted' \subseteq exists /\ blamed' \subseteq accepted'
  BY ReminderAssumption DEF PerhapsAccepted, historyOf, RemindersTypeOK

(* A write of the result of a send that was accepted is of an accepted one.*)
WritesAccepted == step = "write" /\ ok => current \in accepted
ScanInv == loop # "scanning" => step = "none"
TypeInv == RemindersTypeOK /\ WritesAccepted /\ ScanInv

Flags == ok \in BOOLEAN /\ wake \in BOOLEAN /\ calm \in BOOLEAN

LEMMA FlagsStep == Flags /\ [RemindersNext]_reminderVars => Flags'
<1> SUFFICES ASSUME Flags, [RemindersNext]_reminderVars PROVE Flags'
  OBVIOUS
<1> USE DEF Flags, fileVars, scanVars, clockVars, faultVars, historyOf
<1>1. ASSUME NEW r \in Ids, \/ \E ticks \in 0..MaxDelay : ScheduleWrites(r, ticks)
                           \/ ScheduleWakes(r) \/ ScheduleIsCut(r)
      PROVE  Flags'
  BY <1>1, Zenon DEF ScheduleWrites, ScheduleWakes, ScheduleIsCut
<1>2. ASSUME NEW r \in Ids, SkipDelivered(r) \/ Unreadable(r) \/ NotYet(r) \/ StartSending(r)
      PROVE  Flags'
  BY <1>2, Zenon DEF SkipDelivered, Unreadable, NotYet, StartSending
<1>3. ASSUME ClearWake \/ BeginScan \/ ListingFails \/ ScanFails \/ StartLoop \/ FallAsleep
      PROVE  Flags'
  BY <1>3, Zenon DEF ClearWake, BeginScan, ListingFails, ScanFails, StartLoop, FallAsleep
<1>4. ASSUME Sent \/ SendFailed \/ WriteResult \/ WriteResultFails PROVE Flags'
  BY <1>4, Zenon DEF Sent, SendFailed, WriteResult, WriteResultFails
<1>5. ASSUME TimePasses \/ StopLoop \/ CrashLoop \/ FaultsEnd \/ UNCHANGED reminderVars
      PROVE  Flags'
  BY <1>5, Zenon DEF TimePasses, StopLoop, CrashLoop, GoesDown, FaultsEnd, reminderVars
<1> QED
  BY <1>1, <1>2, <1>3, <1>4, <1>5, Zenon DEF RemindersNext, Scan

LEMMA ReminderTypesStep == TypeInv /\ [RemindersNext]_reminderVars => TypeInv'
<1> SUFFICES ASSUME TypeInv, [RemindersNext]_reminderVars PROVE TypeInv'
  OBVIOUS
<1> USE DEF TypeInv, WritesAccepted, ScanInv, fileVars, scanVars, clockVars, faultVars, historyOf
<1>0. RemindersTypeOK /\ Nobody \notin Ids /\ Never \notin Nat /\ MaxBackoff \in Nat
      /\ Rescan \in Nat /\ PollTicks \in Nat /\ MaxDelay \in Nat
  BY ReminderAssumption
<1>f. Flags'
  BY <1>0, FlagsStep DEF Flags, RemindersTypeOK
<1> USE <1>f DEF Flags
<1>1. ASSUME NEW r \in Ids, NEW ticks \in 0..MaxDelay, ScheduleWrites(r, ticks) PROVE TypeInv'
  BY <1>0, <1>1 DEF ScheduleWrites, RemindersTypeOK
<1>2. ASSUME NEW r \in Ids, ScheduleWakes(r) \/ ScheduleIsCut(r) PROVE TypeInv'
  BY <1>0, <1>2 DEF ScheduleWakes, ScheduleIsCut, RemindersTypeOK
<1>3. ASSUME ClearWake \/ BeginScan \/ ListingFails \/ ScanFails \/ StartLoop PROVE TypeInv'
  BY <1>0, <1>3 DEF ClearWake, BeginScan, ListingFails, ScanFails, StartLoop, RemindersTypeOK
<1>4. ASSUME NEW r \in Ids, SkipDelivered(r) \/ Unreadable(r) \/ StartSending(r) PROVE TypeInv'
  BY <1>0, <1>4 DEF SkipDelivered, Unreadable, StartSending, Scanned, RemindersTypeOK
<1>5. ASSUME NEW r \in Ids, NotYet(r) PROVE TypeInv'
  <2>1. nextDue' \in Nat
    BY <1>0, <1>5, SoonerIsTime DEF NotYet, RememberDue, RemindersTypeOK
  <2> QED
    BY <1>0, <1>5, <2>1 DEF NotYet, Scanned, RemindersTypeOK
<1>6. ASSUME Sent PROVE TypeInv'
  BY <1>0, <1>6 DEF Sent, RemindersTypeOK
<1>7. ASSUME SendFailed PROVE TypeInv'
  <2>1. accepted' \subseteq exists /\ blamed' \subseteq accepted'
    BY <1>7, PerhapsAcceptedType DEF SendFailed
  <2>2. nextDue' \in Nat
    <3>1. current \in Ids
      BY <1>0, <1>7 DEF SendFailed, RemindersTypeOK
    <3> QED
      BY <3>1, <1>7, DelayIsNat, SoonerIsTime DEF SendFailed
  <2> QED
    BY <1>0, <1>7, <2>1, <2>2 DEF SendFailed, RemindersTypeOK
<1>8. ASSUME WriteResult PROVE TypeInv'
  <2>1. /\ exists' = exists /\ delivered' \subseteq exists
        /\ left' \in [Ids -> Nat] /\ delay' \in [Ids -> Nat]
    BY <1>8, RecordedType DEF WriteResult
  <2> QED
    BY <1>0, <1>8, <2>1 DEF WriteResult, RemindersTypeOK
<1>9. ASSUME WriteResultFails PROVE TypeInv'
  BY <1>0, <1>9 DEF WriteResultFails, Unrecorded, RemindersTypeOK
<1>10. ASSUME FallAsleep PROVE TypeInv'
  BY <1>0, <1>10 DEF FallAsleep, RemindersTypeOK
<1>11. ASSUME TimePasses PROVE TypeInv'
  BY <1>0, <1>11 DEF TimePasses, Less, RemindersTypeOK
<1>12. ASSUME StopLoop PROVE TypeInv'
  <2>1. CASE step = "write"
    <3>1. /\ exists' = exists /\ delivered' \subseteq exists
          /\ left' \in [Ids -> Nat] /\ delay' \in [Ids -> Nat]
      BY <1>12, <2>1, RecordedType DEF StopLoop
    <3> QED
      BY <1>0, <1>12, <2>1, <3>1 DEF StopLoop, GoesDown, RemindersTypeOK
  <2>2. CASE step # "write"
    <3>1. accepted' \subseteq exists /\ blamed' \subseteq accepted'
      BY <1>12, <2>2, PerhapsAcceptedType DEF StopLoop, CutOff, RemindersTypeOK
    <3> QED
      BY <1>0, <1>12, <2>2, <3>1 DEF StopLoop, GoesDown, RemindersTypeOK
  <2> QED
    BY <2>1, <2>2
<1>13. ASSUME CrashLoop PROVE TypeInv'
  <2>1. UNCHANGED fileVars
    BY <1>13 DEF CrashLoop, Unrecorded
  <2>2. accepted' \subseteq exists /\ blamed' \subseteq accepted'
    <3>1. CASE step = "write"
      BY <1>13, <3>1 DEF CrashLoop, Unrecorded, RemindersTypeOK
    <3>2. CASE step # "write"
      BY <1>13, <3>2, PerhapsAcceptedType DEF CrashLoop, CutOff, RemindersTypeOK
    <3> QED
      BY <3>1, <3>2
  <2>3. author' \in [Ids -> {"new", "written", "done", "cut"}]
    BY <1>0, <1>13 DEF CrashLoop, RemindersTypeOK
  <2> QED
    BY <1>0, <1>13, <2>1, <2>2, <2>3 DEF CrashLoop, GoesDown, RemindersTypeOK
<1>14. ASSUME FaultsEnd \/ UNCHANGED reminderVars PROVE TypeInv'
  BY <1>0, <1>14 DEF FaultsEnd, reminderVars, RemindersTypeOK
<1> QED
  BY <1>1, <1>2, <1>3, <1>4, <1>5, <1>6, <1>7, <1>8, <1>9, <1>10, <1>11, <1>12, <1>13, <1>14
  DEF RemindersNext, Scan

LEMMA ReminderTypesInit == RemindersInit => TypeInv
<1> SUFFICES ASSUME RemindersInit PROVE TypeInv
  OBVIOUS
<1>1. Flags
  BY Zenon DEF RemindersInit, Flags
<1>2. left \in [Ids -> Nat] /\ delay \in [Ids -> Nat]
      /\ author \in [Ids -> {"new", "written", "done", "cut"}]
  BY DEF RemindersInit
<1> QED
  BY <1>1, <1>2, ReminderAssumption
  DEF Flags, RemindersInit, TypeInv, WritesAccepted, ScanInv, RemindersTypeOK

(* Every reachable state of the scheduler and its files is well typed.     *)
THEOREM ReminderTypes == RemindersSpec => []RemindersTypeOK
<1>1. TypeInv => RemindersTypeOK
  BY DEF TypeInv
<1> QED
  BY <1>1, ReminderTypesInit, ReminderTypesStep, PTL DEF RemindersSpec

-----------------------------------------------------------------------------
(* An acceptance that did not go astray is in the file, or about to be     *)
(* written there; and what is being sent is not marked in its file.        *)
Known == IF step = "write" /\ ok THEN delivered \cup {current} ELSE delivered

OnceInv ==
    /\ accepted \subseteq blamed \cup Known
    /\ step = "send" => current \notin delivered

LEMMA OnceStep ==
  TypeInv /\ OnceInv /\ [RemindersNext]_reminderVars => OnceInv'
<1> SUFFICES ASSUME TypeInv, OnceInv, [RemindersNext]_reminderVars PROVE OnceInv'
  OBVIOUS
<1> USE DEF OnceInv, Known, fileVars, scanVars, clockVars, faultVars, historyOf
<1>1. ASSUME NEW r \in Ids, \/ \E ticks \in 0..MaxDelay : ScheduleWrites(r, ticks)
                           \/ ScheduleWakes(r) \/ ScheduleIsCut(r)
      PROVE  OnceInv'
  BY <1>1 DEF ScheduleWrites, ScheduleWakes, ScheduleIsCut
<1>2. ASSUME NEW r \in Ids, SkipDelivered(r) \/ Unreadable(r) \/ NotYet(r) PROVE OnceInv'
  BY <1>2 DEF SkipDelivered, Unreadable, NotYet
<1>3. ASSUME NEW r \in Ids, StartSending(r) PROVE OnceInv'
  BY <1>3 DEF StartSending, Scanned
<1>4. ASSUME ClearWake \/ BeginScan \/ ListingFails \/ ScanFails \/ StartLoop \/ FallAsleep
      PROVE  OnceInv'
  BY <1>4 DEF ClearWake, BeginScan, ListingFails, ScanFails, StartLoop, FallAsleep
<1>5. ASSUME Sent PROVE OnceInv'
  BY <1>5 DEF Sent
<1>6. ASSUME SendFailed PROVE OnceInv'
  BY <1>6 DEF SendFailed, PerhapsAccepted
<1>7. ASSUME WriteResult PROVE OnceInv'
  BY <1>7 DEF WriteResult, Recorded, Marked
<1>8. ASSUME WriteResultFails PROVE OnceInv'
  BY <1>8 DEF WriteResultFails, Unrecorded
<1>9. ASSUME StopLoop PROVE OnceInv'
  BY <1>9 DEF StopLoop, GoesDown, Recorded, Marked, CutOff, PerhapsAccepted
<1>10. ASSUME CrashLoop PROVE OnceInv'
  BY <1>10 DEF CrashLoop, GoesDown, Unrecorded, CutOff, PerhapsAccepted
<1>11. ASSUME TimePasses \/ FaultsEnd \/ UNCHANGED reminderVars PROVE OnceInv'
  BY <1>11 DEF TimePasses, FaultsEnd, reminderVars
<1> QED
  BY <1>1, <1>2, <1>3, <1>4, <1>5, <1>6, <1>7, <1>8, <1>9, <1>10, <1>11 DEF RemindersNext, Scan

(* The channel gets a reminder a second time only when its first           *)
(* acceptance was not recorded.                                            *)
THEOREM SentOnceIfRecorded == RemindersSpec => []OnceUnlessUnrecorded
<1>1. RemindersInit => OnceInv
  BY DEF RemindersInit, OnceInv, Known
<1>2. OnceInv => OnceUnlessUnrecorded
  BY DEF OnceInv, Known, OnceUnlessUnrecorded
<1> QED
  BY <1>1, <1>2, ReminderTypesInit, ReminderTypesStep, OnceStep, PTL DEF RemindersSpec

-----------------------------------------------------------------------------
(* The sleep.  While the loop scans undisturbed, what it has dealt with is *)
(* not due before _next_due_at, nor is the retry it is about to write.     *)
DealtWith == exists \ (delivered \cup missed \cup todo \cup {current})

NotBefore(t) == nextDue # Never /\ nextDue <= t

WakeInv ==
    /\ loop = "scanning" /\ ~wake =>
         \A r \in DealtWith : author[r] = "done" => NotBefore(left[r])
    /\ step = "write" /\ ~ok => NotBefore(NextDelay(current))
    /\ NoSleepPastDue

LEMMA WakeStep ==
  TypeInv /\ TypeInv' /\ WakeInv /\ [RemindersNext]_reminderVars => WakeInv'
<1> SUFFICES ASSUME TypeInv, TypeInv', WakeInv, [RemindersNext]_reminderVars PROVE WakeInv'
  OBVIOUS
<1> USE DEF WakeInv, DealtWith, NotBefore, NoSleepPastDue, NextDelay, TypeInv, ScanInv,
            fileVars, scanVars, clockVars, faultVars, historyOf
<1>0. RemindersTypeOK /\ Nobody \notin Ids /\ Never \notin Nat
  BY ReminderAssumption
<1>1. ASSUME NEW r \in Ids, NEW ticks \in 0..MaxDelay, ScheduleWrites(r, ticks) PROVE WakeInv'
  BY <1>0, <1>1 DEF ScheduleWrites, RemindersTypeOK
<1>2. ASSUME NEW r \in Ids, ScheduleWakes(r) \/ ScheduleIsCut(r) PROVE WakeInv'
  BY <1>0, <1>2 DEF ScheduleWakes, ScheduleIsCut, RemindersTypeOK
<1>3. ASSUME ClearWake \/ BeginScan \/ ListingFails \/ ScanFails PROVE WakeInv'
  BY <1>0, <1>3 DEF ClearWake, BeginScan, ListingFails, ScanFails, RemindersTypeOK
<1>4. ASSUME NEW r \in Ids, SkipDelivered(r) \/ Unreadable(r) \/ StartSending(r) PROVE WakeInv'
  BY <1>0, <1>4 DEF SkipDelivered, Unreadable, StartSending, Scanned, RemindersTypeOK
<1>5. ASSUME NEW r \in Ids, NotYet(r) PROVE WakeInv'
  <2>1. /\ nextDue' \in Nat /\ nextDue' <= left[r]
        /\ nextDue # Never => nextDue' <= nextDue
    BY <1>0, <1>5, SoonerIsTime DEF NotYet, RememberDue, RemindersTypeOK
  <2> QED
    BY <1>0, <1>5, <2>1 DEF NotYet, Scanned, RemindersTypeOK
<1>6. ASSUME Sent PROVE WakeInv'
  BY <1>0, <1>6 DEF Sent, RemindersTypeOK
<1>7. ASSUME SendFailed PROVE WakeInv'
  <2>1. current \in Ids
    BY <1>0, <1>7 DEF SendFailed, RemindersTypeOK
  <2>2. /\ nextDue' \in Nat /\ nextDue' <= NextDelay(current)
        /\ nextDue # Never => nextDue' <= nextDue
    BY <2>1, <1>0, <1>7, DelayIsNat, SoonerIsTime DEF SendFailed
  <2> QED
    BY <1>0, <1>7, <2>1, <2>2 DEF SendFailed, RemindersTypeOK
<1>8. ASSUME WriteResult PROVE WakeInv'
  BY <1>0, <1>8 DEF WriteResult, Recorded, Marked, RemindersTypeOK
<1>9. ASSUME WriteResultFails PROVE WakeInv'
  BY <1>0, <1>9 DEF WriteResultFails, Unrecorded, RemindersTypeOK
<1>10. ASSUME FallAsleep PROVE WakeInv'
  BY <1>0, <1>10 DEF FallAsleep, RemindersTypeOK
<1>11. ASSUME TimePasses PROVE WakeInv'
  BY <1>0, <1>11 DEF TimePasses, Less, RemindersTypeOK
<1>12. ASSUME StopLoop \/ CrashLoop PROVE WakeInv'
  BY <1>0, <1>12 DEF StopLoop, CrashLoop, GoesDown, RemindersTypeOK
<1>13. ASSUME StartLoop \/ FaultsEnd \/ UNCHANGED reminderVars PROVE WakeInv'
  BY <1>0, <1>13 DEF StartLoop, FaultsEnd, reminderVars, RemindersTypeOK
<1> QED
  BY <1>1, <1>2, <1>3, <1>4, <1>5, <1>6, <1>7, <1>8, <1>9, <1>10, <1>11, <1>12, <1>13
  DEF RemindersNext, Scan

(* The loop never sleeps past the next attempt of a reminder it knows.     *)
THEOREM WakesInTime == RemindersSpec => []NoSleepPastDue
<1>1. RemindersInit => WakeInv
  BY DEF RemindersInit, WakeInv, DealtWith, NoSleepPastDue
<1>2. WakeInv => NoSleepPastDue
  BY DEF WakeInv
<1> QED
  BY <1>1, <1>2, ReminderTypesInit, ReminderTypesStep, WakeStep, PTL DEF RemindersSpec
=============================================================================
