---------------------------- MODULE TurnContract ----------------------------
(***************************************************************************)
(* What the runtime promises for the turns it accepts, without tasks,      *)
(* semaphores, callbacks or deque objects: one bounded FIFO queue per      *)
(* channel, turns that run once, and a stop that empties queues.           *)
(***************************************************************************)
EXTENDS Naturals, FiniteSets, SequencesExt

CONSTANTS Channels, Turns, MaxPendingTurns

VARIABLES
    waiting,  \* the accepted turns of each channel, in order of arrival
    running,  \* the turns that were begun
    ended     \* the turns that are over, or were refused

cvars == <<waiting, running, ended>>

Waiting == UNION {ToSet(waiting[c]) : c \in Channels}

Known == Waiting \cup running \cup {t \in Turns : ended[t]}

End(S) == ended' = [t \in Turns |-> ended[t] \/ t \in S]

Init ==
    /\ waiting = [c \in Channels |-> <<>>]
    /\ running = {}
    /\ ended = [t \in Turns |-> FALSE]

Accept(c, t) ==
    /\ t \notin Known
    /\ Cardinality(Waiting \cup running) < MaxPendingTurns
    /\ waiting' = [waiting EXCEPT ![c] = Append(@, t)]
    /\ UNCHANGED <<running, ended>>

Refuse(t) ==
    /\ t \notin Known
    /\ End({t})
    /\ UNCHANGED <<waiting, running>>

(* A worker begins the oldest turn, ending the one it had, if any. *)
Begin(c, over) ==
    /\ waiting[c] # <<>>
    /\ over \subseteq running
    /\ waiting' = [waiting EXCEPT ![c] = Tail(@)]
    /\ running' = (running \ over) \cup {Head(waiting[c])}
    /\ End(over)

(* A worker ends its turn and, at a drain, drops what waits with it. *)
Finish(over, C) ==
    /\ over \subseteq running
    /\ waiting' = [c \in Channels |-> IF c \in C THEN <<>> ELSE waiting[c]]
    /\ running' = running \ over
    /\ End(over \cup UNION {ToSet(waiting[c]) : c \in C})

AtMostOne(S) == {over \in SUBSET S : Cardinality(over) <= 1}

Next ==
    \/ \E c \in Channels, t \in Turns : Accept(c, t)
    \/ \E t \in Turns : Refuse(t)
    \/ \E c \in Channels, over \in AtMostOne(running) : Begin(c, over)
    \/ \E over \in AtMostOne(running), C \in SUBSET Channels : Finish(over, C)

Spec == Init /\ [][Next]_cvars
=============================================================================
