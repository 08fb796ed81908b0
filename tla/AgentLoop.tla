----------------------------- MODULE AgentLoop -----------------------------
(***************************************************************************)
(* One turn of the agent loop: rounds of generation and tool calls, its    *)
(* limits, and the gates between the last draft and the reply.             *)
(*                                                                         *)
(*   norax/brain/agent_loop.py              run_agent_loop                 *)
(*   norax/brain/strong_model_scaffold.py   TaskState.note_tool,           *)
(*                                          enforce_final_verification,    *)
(*                                          summarize_mutation_trace       *)
(*   norax/brain/weak_model_boost.py        TurnToolCache                  *)
(*   norax/dispatch/loop_guard.py           LoopGuard                      *)
(*                                                                         *)
(* A call names what it asks for: a change of state, or a read that shows  *)
(* whether the last change took effect.  What a generation answers, how a  *)
(* tool ends and what a gate finds is nondeterministic.                    *)
(***************************************************************************)
EXTENDS Integers, FiniteSets, SequencesExt, Filters

CONSTANTS
    Changes, Reads,     \* calls that change state, calls that run in parallel
    Width,              \* bound: calls in one response
    MaxCalls,           \* MAX_TOOL_CALLS_PER_TURN
    HardCap,            \* HARD_ROUND_CAP
    StallLimit,         \* NO_PROGRESS_ROUND_LIMIT
    NudgeLimit,         \* FINAL_VERIFICATION_NUDGE_LIMIT
    StreakLimit,        \* NO_TOOL_STREAK_LIMIT
    StreakTotal,        \* MAX_NO_TOOL_ROUNDS_TOTAL
    RepeatThreshold,    \* LoopGuard.repeat_threshold
    PingPongCycles      \* LoopGuard.pingpong_min_cycles

ASSUME LoopAssumption ==
    /\ Changes \cap Reads = {}
    /\ {Width, MaxCalls} \subseteq Nat /\ HardCap \in Nat \ {0}

VARIABLES
    turn,       \* [action: is_action_command(goal), maxRounds]
    at,         \* where the loop stands
    late,       \* the deadline has passed
    rounds,
    streak,     \* [silent, nudges, idle]: the counters of the loop
    asked,      \* the calls of this round
    log,        \* history: what became of each call, in the order it was done
    total,      \* total_tool_calls: how many of them are noted
    noted,      \* TaskState: [last, writes, verified]
    trace,      \* the trace
    once,       \* successful_mutation_calls
    turnCache,      \* turn_cache
    observed,   \* LoopGuard._history
    draft,      \* final_resp
    gates,      \* the gates that are wired, as far as that has mattered
    blocking    \* correction_blocking and ov_report.has_issues

loopVars == <<turn, at, late, rounds, streak, asked, log, total, noted, trace, once,
              turnCache, observed, draft, gates, blocking>>
given   == <<turn, late>>
work    == <<asked, log, total, noted, trace, once, turnCache, observed>>

Tools == Changes \cup Reads

(* facts and review: what the gates last found in this very text *)
Draft(incomplete, empty) ==
    [incomplete |-> incomplete, empty |-> empty, facts |-> "unchecked", review |-> "unchecked"]
Full       == Draft(FALSE, FALSE)
Incomplete == Draft(TRUE, FALSE)

LoopInit ==
    /\ turn \in [action : BOOLEAN, maxRounds : {HardCap - 1, HardCap}]
    /\ at = "top" /\ late = FALSE
    /\ rounds = 0 /\ streak = [silent |-> 0, nudges |-> 0, idle |-> 0]
    /\ asked = <<>> /\ log = <<>> /\ total = 0 /\ trace = <<>>
    /\ noted = [last |-> "none", writes |-> FALSE, verified |-> FALSE]
    /\ once = {} /\ turnCache = {} /\ observed = <<>>
    /\ draft = Incomplete
    /\ gates = {} /\ blocking = {}

Finishes(d)     == draft' = d /\ at' = "correct"
Returns(d)  == draft' = d /\ at' = "returned"
Gated       == ~draft.empty /\ ~draft.incomplete
FollowUp    == rounds < turn.maxRounds /\ rounds < HardCap /\ ~late

-----------------------------------------------------------------------------
(* The top of the loop *)

Top(stopped) ==
    /\ at = "top"
    /\ IF stopped \/ late THEN Returns(Incomplete)
       ELSE IF rounds >= turn.maxRounds THEN Finishes(Incomplete)
       ELSE at' = "ask" /\ UNCHANGED draft
    /\ rounds' = IF at' = "ask" THEN rounds + 1 ELSE rounds
    /\ UNCHANGED <<given, streak, work, gates, blocking>>

(* Calls beyond the ceiling are cut off; the last permitted round runs none. *)
Uncapped == Width                                     \* mutant: the ceiling forgotten
Slots    == IF MaxCalls - total < Width THEN MaxCalls - total ELSE Width

AskTools(calls) ==
    /\ at = "ask" /\ ~late
    /\ IF rounds >= HardCap THEN Finishes(Incomplete) /\ UNCHANGED asked
       ELSE at' = "reads" /\ asked' = calls /\ UNCHANGED draft
    /\ UNCHANGED <<given, rounds, streak, log, total, noted, trace, once, turnCache, observed,
                   gates, blocking>>

(* A text.  It needs one more pass when the last change failed or is not   *)
(* verified, and when it promises more, which is left to chance.           *)
Unfinished == noted.last = "failed" \/ (noted.writes /\ ~noted.verified)

Say(empty, promises) ==
    LET silent == IF turn.action THEN streak.silent + 1 ELSE 0
        nudge  == promises \/ Unfinished
        nudges == IF nudge THEN streak.nudges + 1 ELSE streak.nudges
    IN
    /\ at = "ask" /\ ~late
    /\ streak' = [streak EXCEPT !.silent = silent, !.nudges = nudges]
    /\ IF silent >= StreakTotal THEN Finishes(Draft(TRUE, empty))
       ELSE IF nudge THEN IF nudges > NudgeLimit THEN Finishes(Draft(TRUE, empty))
                          ELSE at' = "top" /\ draft' = Draft(FALSE, empty)
       ELSE Finishes(Draft(silent >= StreakLimit, empty))
    /\ UNCHANGED <<given, rounds, work, gates, blocking>>

(* _flow_deadline_response; or the generation fails and the turn with it.  *)
OutOfTime ==
    /\ at \in {"ask", "last"} /\ late
    /\ Finishes(Incomplete)
    /\ rounds' = IF at = "last" THEN rounds + 1 ELSE rounds
    /\ UNCHANGED <<given, streak, work, gates, blocking>>

Raise ==
    /\ \/ at \in {"ask", "last", "recorrect", "reverify"}
       \/ at = "best" /\ Gated /\ FollowUp
    /\ at' = "raised"
    /\ UNCHANGED <<given, rounds, streak, work, draft, gates, blocking>>

-----------------------------------------------------------------------------
(* _dispatch *)

Done(outcome) == outcome \in {"ok", "cached"}           \* _tool_result_ok
Executed(outcome) == outcome \in {"ok", "bad", "timeout"}
Novel(outcome) == outcome \notin {"cached", "open", "duplicate", "loop"}

(* LoopGuard.observe *)
Looping(history) ==
    LET n    == Len(history)
        back(k) == history[n - k]
    IN  \/ n >= RepeatThreshold /\ \A k \in 1..RepeatThreshold - 1 : back(k) = back(0)
        \/ /\ n >= 2 * PingPongCycles /\ back(1) # back(0)
           /\ \A k \in 2..2 * PingPongCycles - 1 : back(k) = back(k - 2)

(* How a call ends that is neither known nor cached; a read cut off by the *)
(* deadline is a bad one before it.                                        *)
Outcomes(history) ==
    IF Looping(history) THEN {"loop"}
    ELSE IF late THEN {"expired"}
    ELSE {"ok", "bad", "refused", "open"}

Entry(k, outcome) == [call |-> asked[k], outcome |-> outcome, round |-> rounds, k |-> k]
PlacesOf(kind)    == Only([k \in DOMAIN asked |-> k], {k \in DOMAIN asked : asked[k] \in kind})
Results           == SubSeq(log, total + 1, Len(log))

(* The reads of the round run together: none sees what another has cached. *)
RunReads ==
    LET places == PlacesOf(Reads)
        misses(n) == Only([i \in 1..n |-> asked[places[i]]], Reads \ turnCache)
    IN
    /\ at = "reads"
    /\ \E outcome \in [DOMAIN places -> {"ok", "bad", "refused", "open", "cached", "loop",
                                         "expired"}] :
         /\ \A i \in DOMAIN places :
              outcome[i] \in IF asked[places[i]] \in turnCache THEN {"cached"}
                             ELSE Outcomes(observed \o misses(i))
         /\ log' = log \o [i \in DOMAIN places |-> Entry(places[i], outcome[i])]
         /\ turnCache' = turnCache \cup
                          {asked[places[i]] : i \in {j \in DOMAIN places : outcome[j] = "ok"}}
    /\ observed' = observed \o misses(Len(places))
    /\ at' = "changes"
    /\ UNCHANGED <<given, rounds, streak, asked, total, noted, trace, once, draft, gates, blocking>>

(* The changes of the round, one after the other. *)
Pending == Only(PlacesOf(Changes), DOMAIN asked \ {Results[i].k : i \in DOMAIN Results})

KeepsCache(outcome) == turnCache                      \* mutant: observations not invalidated
CacheAfter(outcome) == IF outcome = "ok" THEN {} ELSE turnCache

RunChange ==
    LET k == Head(Pending)
        history == Append(observed, asked[k])
    IN
    /\ at = "changes" /\ Pending # <<>>
    /\ IF asked[k] \in once
         THEN /\ log' = Append(log, Entry(k, "duplicate"))
              /\ UNCHANGED <<once, turnCache, observed>>
         ELSE \E outcome \in Outcomes(history) :
              /\ log' = Append(log, Entry(k, outcome))
              /\ observed' = history
              /\ once' = IF outcome = "ok" THEN once \cup {asked[k]} ELSE once
              /\ turnCache' = CacheAfter(outcome)
    /\ UNCHANGED <<given, at, rounds, streak, asked, total, noted, trace, draft, gates, blocking>>

(* The deadline cuts a call off; its effect is unknown. *)
CutOff ==
    /\ at = "changes" /\ Pending # <<>> /\ ~late
    /\ LET k == Head(Pending) IN
       /\ asked[k] \notin once /\ ~Looping(Append(observed, asked[k]))
       /\ log' = Append(log, Entry(k, "timeout"))
       /\ observed' = Append(observed, asked[k])
    /\ late' = TRUE
    /\ UNCHANGED <<turn, at, rounds, streak, asked, total, noted, trace, once, turnCache, draft,
                   gates, blocking>>

-----------------------------------------------------------------------------
(* After the calls *)

(* TaskState.note_tool *)
NoteTool(state, entry) ==
    IF entry.call \in Changes
      THEN IF ~Executed(entry.outcome) THEN state
           ELSE [last |-> IF Done(entry.outcome) THEN "done" ELSE "failed",
                 writes |-> state.writes \/ Done(entry.outcome), verified |-> FALSE]
      ELSE IF Done(entry.outcome) /\ state.writes /\ state.last = "done"
             THEN [state EXCEPT !.verified = TRUE] ELSE state

(* The results in the order of the calls. *)
InCallOrder == [k \in DOMAIN asked |->
                  Results[CHOOSE i \in DOMAIN Results : Results[i].k = k]]

NotedUpTo(results) ==
    LET state[n \in 0..Len(results)] ==
          IF n = 0 THEN noted ELSE NoteTool(state[n - 1], results[n])
    IN  state

NoteAll(results) == NotedUpTo(results)[Len(results)]

CallOrderNoted == NoteAll(InCallOrder)                \* mutant: noted as it was asked
Noted          == NoteAll(Results)

TraceUnlessLate == IF late THEN trace ELSE trace \o InCallOrder  \* mutant: the last round hidden
TraceAfter      == trace \o InCallOrder

(* Then the limits, in this order: the deadline, rounds without anything   *)
(* new, the ceiling on calls, and a drift from the goal that calls for an  *)
(* end, which is left to chance.                                           *)
Settle(drifts) ==
    LET idle == IF \E i \in DOMAIN Results : Novel(Results[i].outcome) THEN 0 ELSE streak.idle + 1
        summary == IF FollowUp THEN at' = "last" /\ UNCHANGED draft ELSE Finishes(Incomplete)
    IN
    /\ at = "changes" /\ Pending = <<>>
    /\ total' = Len(log)
    /\ noted' = Noted
    /\ trace' = TraceAfter
    /\ asked' = <<>>
    /\ IF late
         THEN Finishes(Incomplete) /\ UNCHANGED streak
         ELSE /\ streak' = [streak EXCEPT !.silent = 0, !.idle = idle]
              /\ IF idle >= StallLimit THEN summary
                 ELSE IF Len(log) >= MaxCalls THEN Finishes(Incomplete)
                 ELSE IF drifts THEN summary
                 ELSE at' = "top" /\ UNCHANGED draft
    /\ UNCHANGED <<given, rounds, log, once, turnCache, observed, gates, blocking>>

(* The summary asked for when the loop gives up. *)
Summarize(empty) ==
    /\ at = "last" /\ ~late
    /\ rounds' = rounds + 1
    /\ Finishes(Draft(TRUE, empty))
    /\ UNCHANGED <<given, streak, work, gates, blocking>>

-----------------------------------------------------------------------------
(* The gates: a fact check, an output verifier, a second candidate *)

SkipGate(gate, next) ==
    /\ at = gate
    /\ at' = next
    /\ UNCHANGED <<given, rounds, streak, work, draft, gates, blocking>>

Skip ==
    \/ SkipGate("correct", "verify")
    \/ SkipGate("verify", "best")
    \/ SkipGate("best", "end")

(* A gate with a fault found asks for a revision, or refuses to return the *)
(* draft when the budget is used up.                                       *)
PassGate(gate, aspect, verdict, fault, revise, next) ==
    /\ at = gate /\ Gated
    /\ gates' = gates \cup {aspect}
    /\ IF verdict # fault
         THEN at' = next /\ draft' = [draft EXCEPT ![aspect] = verdict] /\ UNCHANGED blocking
         ELSE /\ blocking' = blocking \cup {aspect}
              /\ IF FollowUp
                   THEN at' = revise /\ draft' = [draft EXCEPT ![aspect] = verdict]
                   ELSE at' = next /\ draft' = Incomplete
    /\ UNCHANGED <<given, rounds, streak, work>>

Correct(verdict) == ~late /\ PassGate("correct", "facts", verdict, "conflict", "recorrect", "verify")
Verify(verdict)  == PassGate("verify", "review", verdict, "flawed", "reverify", "best")

(* The fact check, or the revision of either gate, outlives the deadline.  *)
GateOutOfTime ==
    /\ late
    /\ \/ at = "correct" /\ Gated /\ at' = "verify" /\ blocking' = blocking \cup {"facts"}
       \/ at = "recorrect" /\ at' = "verify" /\ UNCHANGED blocking
       \/ at = "reverify" /\ at' = "best" /\ UNCHANGED blocking
    /\ draft' = Incomplete
    /\ rounds' \in IF at = "correct" THEN {rounds} ELSE {rounds + 1}
    /\ UNCHANGED <<given, streak, work, gates>>

(* A revision is fact-checked again; anything but a clean one is refused.  *)
Recorrect(clean) ==
    /\ at = "recorrect" /\ ~late
    /\ rounds' = rounds + 1
    /\ at' = "verify"
    /\ IF clean THEN draft' = [Full EXCEPT !.facts = "clean"] /\ blocking' = blocking \ {"facts"}
       ELSE draft' = Incomplete /\ UNCHANGED blocking
    /\ UNCHANGED <<given, streak, work, gates>>

(* A revision with fewer faults replaces the draft, without a fact check.  *)
Reverify(improved, verdict) ==
    /\ at = "reverify" /\ ~late
    /\ rounds' = rounds + 1
    /\ at' = "best"
    /\ IF improved
         THEN /\ draft' = [Full EXCEPT !.review = verdict]
              /\ blocking' = IF verdict = "good" THEN blocking \ {"review"} ELSE blocking
         ELSE draft' = Incomplete /\ UNCHANGED blocking
    /\ UNCHANGED <<given, streak, work, gates>>

(* Asking for a revision fails (but not on the spend guard), or checking   *)
(* it does: the draft stays what it was.                                   *)
RevisionFails(counts) ==
    /\ \/ at = "recorrect" /\ at' = "verify"
       \/ at = "reverify" /\ at' = "best" /\ counts = 0
    /\ rounds' = rounds + counts
    /\ UNCHANGED <<given, streak, work, draft, gates, blocking>>

(* A candidate must pass the gates that are wired to replace the draft.    *)
SafeCandidate(c) ==
    /\ "facts" \in gates => c.facts = "clean"
    /\ "review" \in gates => c.review = "good"

Candidate(facts, review) ==
    LET c == [Full EXCEPT !.facts = facts, !.review = review] IN
    /\ at = "best" /\ Gated /\ FollowUp
    /\ facts = "unchecked" <=> "facts" \notin gates
    /\ review = "unchecked" <=> "review" \notin gates
    /\ SafeCandidate(c)
    /\ draft' = c
    /\ blocking' = blocking \ gates
    /\ at' = "end"
    /\ UNCHANGED <<given, rounds, streak, work, gates>>

(* summarize_mutation_trace, over the trace *)
Attempted == {i \in DOMAIN trace : trace[i].call \in Changes /\ Executed(trace[i].outcome)}
SupportsSuccess ==
    \E i \in Attempted :
        /\ \A j \in Attempted : j <= i
        /\ Done(trace[i].outcome)
        /\ \E j \in i + 1..Len(trace) : trace[j].call \in Reads /\ Done(trace[j].outcome)

AcceptedOutcome ==
    blocking = {} /\ Gated /\ (Attempted # {} => SupportsSuccess)

Return ==
    /\ at = "end"
    /\ at' = IF AcceptedOutcome THEN "accepted" ELSE "returned"
    /\ UNCHANGED <<given, rounds, streak, work, draft, gates, blocking>>

-----------------------------------------------------------------------------
Ended == at \in {"returned", "accepted", "raised"}

Expire ==
    /\ ~Ended /\ ~late
    /\ late' = TRUE
    /\ UNCHANGED <<turn, at, rounds, streak, work, draft, gates, blocking>>

LoopNext ==
    \/ \E stopped \in BOOLEAN : Top(stopped)           \* stop_check()
    \/ OutOfTime \/ Raise
    \/ \E n \in 1..Slots : \E calls \in [1..n -> Tools] : AskTools(calls)
    \/ \E empty \in BOOLEAN : Summarize(empty) \/ \E promises \in BOOLEAN : Say(empty, promises)
    \/ RunReads \/ RunChange \/ CutOff
    \/ \E drifts \in BOOLEAN : Settle(drifts)
    \/ Skip \/ GateOutOfTime
    \/ \E verdict \in {"clean", "unsure", "conflict"} : Correct(verdict)
    \/ \E verdict \in {"good", "flawed"} :
         Verify(verdict) \/ \E improved \in BOOLEAN : Reverify(improved, verdict)
    \/ \E clean \in BOOLEAN : Recorrect(clean)
    \/ \E counts \in 0..1 : RevisionFails(counts)
    \/ \E facts \in {"unchecked", "clean", "unsure", "conflict"},
          review \in {"unchecked", "good", "flawed"} : Candidate(facts, review)
    \/ Return
    \/ Expire

LoopSpec == LoopInit /\ [][LoopNext]_loopVars

-----------------------------------------------------------------------------
(* Properties *)

Points   == {"top", "ask", "reads", "changes", "last", "correct", "recorrect", "verify",
             "reverify", "best", "end", "returned", "accepted", "raised"}
Outcome  == {"ok", "bad", "refused", "open", "cached", "loop", "expired", "duplicate", "timeout"}
Entries  == [call : Tools, outcome : Outcome, round : Nat, k : Nat]

(* The types of the loop's variables and of the history. *)
LoopTypeOK ==
    /\ turn \in [action : BOOLEAN, maxRounds : Int]
    /\ at \in Points /\ late \in BOOLEAN /\ rounds \in Nat
    /\ streak \in [silent : Nat, nudges : Nat, idle : Nat]
    /\ asked \in Seq(Tools) /\ log \in Seq(Entries) /\ trace \in Seq(Entries)
    /\ total \in 0..Len(log)
    /\ noted \in [last : {"none", "done", "failed"}, writes : BOOLEAN, verified : BOOLEAN]
    /\ once \subseteq Changes /\ turnCache \subseteq Reads /\ observed \in Seq(Tools)
    /\ draft \in [incomplete : BOOLEAN, empty : BOOLEAN,
                  facts : {"unchecked", "clean", "unsure", "conflict"},
                  review : {"unchecked", "good", "flawed"}]
    /\ gates \subseteq {"facts", "review"} /\ blocking \subseteq {"facts", "review"}

(* Neither the calls of parallel reads and of a last summary nor the       *)
(* revisions the gates ask for exceed the limits of the turn.              *)
WithinLimits == Len(log) <= MaxCalls /\ rounds <= turn.maxRounds

(* A change that succeeded is not made again in the turn, and the cache    *)
(* answers with nothing read before a change that succeeded.               *)
MadeOnceSeenFresh ==
    LET made == {i \in DOMAIN log : log[i].call \in Changes /\ log[i].outcome = "ok"} IN
    /\ \A i, j \in made : log[i].call = log[j].call => i = j
    /\ \A i \in DOMAIN log : log[i].outcome = "cached" =>
         \E j \in 1..i - 1 :
           /\ log[j].call = log[i].call /\ log[j].outcome = "ok"
           /\ \A c \in made : ~(j < c /\ c < i)

(* What was done is in the trace the turn returns, also when a limit ends  *)
(* it in the very round.                                                   *)
NothingDoneUnseen ==
    Ended /\ at # "raised" => Len(trace) = Len(log) /\ Range(trace) = Range(log)

(* An accepted reply is one in which no gate found a fault, of a turn      *)
(* whose last change succeeded and was seen, after it was made, to hold.   *)
AcceptedIsSound ==
    at = "accepted" =>
      /\ draft.facts # "conflict" /\ draft.review # "flawed"
      /\ LET made == {i \in DOMAIN log : log[i].call \in Changes /\ Executed(log[i].outcome)} IN
         \A i \in made : (\A j \in made : j <= i) =>
           /\ log[i].outcome = "ok"
           /\ \E j \in i + 1..Len(log) : log[j].call \in Reads /\ Done(log[j].outcome)

(* The trace and the outcome of a turn are those of what was really done.  *)
ReportIsTrue == NothingDoneUnseen /\ AcceptedIsSound
=============================================================================
