---------------------------- MODULE AgentProofs -----------------------------
(* What is proved of the rounds of a turn: the agent loop (AgentLoop), for *)
(* any calls and any limits, the failover between models (Generation), for *)
(* any list of models, the spend guard of the gateway client               *)
(* (GatewayBreaker), for any number of callers, windows and limits, and    *)
(* the conversation sent to a model (AgentMessages), for any history,      *)
(* rounds and bounds of the eviction.                                      *)
EXTENDS AgentLoop, AgentMessages, Generation, GatewayBreaker, FilterProofs, FiniteSetTheorems, TLAPS

(* AgentLoop: the fold of NoteTool over the results                        *)

NotedPart(s, m, f) == f = [n \in 0..m |-> IF n = 0 THEN noted ELSE NoteTool(f[n - 1], s[n])]

LEMMA NotedLonger ==
  ASSUME NEW s, NEW m \in Nat, NEW f, NotedPart(s, m, f)
  PROVE  \E g : NotedPart(s, m + 1, g)
<1> DEFINE Step(t, n) == NoteTool(t, s[n])
           g == [n \in 0..(m + 1) |-> IF n = m + 1 THEN Step(f[m], m + 1) ELSE f[n]]
<1>1. f = [n \in 0..m |-> IF n = 0 THEN noted ELSE Step(f[n - 1], n)]
  BY DEF NotedPart
<1>2. \A h : h = [n \in 0..(m + 1) |-> IF n = 0 THEN noted ELSE Step(h[n - 1], n)]
               => NotedPart(s, m + 1, h)
  BY DEF NotedPart
<1> HIDE DEF Step
<1>3. ASSUME NEW n \in 0..(m + 1)
      PROVE  g[n] = IF n = 0 THEN noted ELSE Step(g[n - 1], n)
  <2>1. CASE n = m + 1
    BY <2>1
  <2>2. CASE n # m + 1 /\ n # 0
    <3>1. n \in 0..m /\ n - 1 \in 0..m /\ n - 1 # m + 1
      BY <2>2
    <3>2. f[n] = Step(f[n - 1], n)
      BY <1>1, <2>2, <3>1
    <3> QED
      BY <2>2, <3>1, <3>2
  <2>3. CASE n = 0
    BY <1>1, <2>3
  <2> QED
    BY <2>1, <2>2, <2>3
<1>4. g = [n \in 0..(m + 1) |-> IF n = 0 THEN noted ELSE Step(g[n - 1], n)]
  BY <1>3
<1> HIDE DEF g
<1>5. NotedPart(s, m + 1, g)
  BY <1>2, <1>4
<1> QED
  BY <1>5

LEMMA NotedStep ==
  ASSUME NEW s, Len(s) \in Nat
  PROVE  /\ NotedUpTo(s)[0] = noted
         /\ \A n \in 1..Len(s) : NotedUpTo(s)[n] = NoteTool(NotedUpTo(s)[n - 1], s[n])
<1> DEFINE T == {m \in Nat : \E f : NotedPart(s, m, f)}
<1>1. 0 \in T
  <2>1. NotedPart(s, 0, [n \in 0..0 |-> noted])
    BY DEF NotedPart
  <2> QED
    BY <2>1
<1>2. ASSUME NEW m \in Nat, m \in T PROVE m + 1 \in T
  <2>1. PICK f : NotedPart(s, m, f)
    BY <1>2
  <2>2. \E g : NotedPart(s, m + 1, g)
    BY <2>1, NotedLonger
  <2> QED
    BY <2>2
<1> HIDE DEF T
<1>3. Len(s) \in T
  BY <1>1, <1>2, Inductive
<1>4. \E f : NotedPart(s, Len(s), f)
  BY <1>3 DEF T
<1>5. NotedUpTo(s) = CHOOSE f : NotedPart(s, Len(s), f)
  BY DEF NotedUpTo, NotedPart
<1> DEFINE k == NotedUpTo(s)
<1>6. NotedPart(s, Len(s), k)
  BY <1>4, <1>5
<1> HIDE DEF k
<1>7. k[0] = noted
  BY <1>6 DEF NotedPart
<1>8. ASSUME NEW n \in 1..Len(s) PROVE k[n] = NoteTool(k[n - 1], s[n])
  <2>1. n \in 0..Len(s) /\ n # 0
    OBVIOUS
  <2> QED
    BY <1>6, <2>1 DEF NotedPart
<1> QED
  BY <1>7, <1>8 DEF k

OkChange(e) == e.call \in Changes /\ e.outcome = "ok"
Ran(e)      == e.call \in Changes /\ Executed(e.outcome)
Sighting(e) == e.call \in Reads /\ Done(e.outcome)
Memory      == [last : {"none", "done", "failed"}, writes : BOOLEAN, verified : BOOLEAN]

(* What state says of the last change among the first n of s.              *)
Describes(state, s, n) ==
    /\ state \in Memory
    /\ \A i \in 1..n : Ran(s[i]) /\ (\A j \in i + 1..n : ~Ran(s[j])) =>
         /\ state.last = IF s[i].outcome = "ok" THEN "done" ELSE "failed"
         /\ state.last = "done" => state.writes
         /\ state.verified => \E j \in i + 1..n : Sighting(s[j])

LEMMA NoteToolDescribes ==
  ASSUME NEW s \in Seq(Entries), NEW n \in Nat, n + 1 <= Len(s),
         \A i \in 1..Len(s) : s[i].call \in Changes => s[i].outcome # "cached",
         NEW st, Describes(st, s, n)
  PROVE  Describes(NoteTool(st, s[n + 1]), s, n + 1)
<1> DEFINE e == s[n + 1]
           u == NoteTool(st, e)
<1>1. /\ e \in Entries /\ e.call \in Tools /\ (e.call \in Changes => e.outcome # "cached")
      /\ st \in Memory
  <2>1. n + 1 \in 1..Len(s)
    OBVIOUS
  <2>2. e \in Entries
    BY <2>1
  <2>3. e.call \in Changes => e.outcome # "cached"
    BY <2>1
  <2> QED
    BY <2>2, <2>3 DEF Entries, Describes
<1>2. /\ st.last \in {"none", "done", "failed"} /\ st.writes \in BOOLEAN /\ st.verified \in BOOLEAN
  BY <1>1 DEF Memory
<1>3. CASE Ran(e)
  <2>1. u = [last |-> IF Done(e.outcome) THEN "done" ELSE "failed",
             writes |-> st.writes \/ Done(e.outcome), verified |-> FALSE]
    BY <1>3 DEF Ran, NoteTool
  <2>2. Done(e.outcome) <=> e.outcome = "ok"
    BY <1>1, <1>3 DEF Ran, Done
  <2>3. u \in Memory
    BY <1>2, <2>1 DEF Memory, Done
  <2>4. /\ u.last = IF e.outcome = "ok" THEN "done" ELSE "failed"
        /\ u.last = "done" => u.writes
        /\ ~u.verified
    <3>1. u.last = IF Done(e.outcome) THEN "done" ELSE "failed"
      BY <2>1
    <3>2. u.writes = (st.writes \/ Done(e.outcome)) /\ u.verified = FALSE
      BY <2>1
    <3> HIDE DEF u, e
    <3> QED
      BY <2>2, <3>1, <3>2
  <2>5. ASSUME NEW i \in 1..n + 1, \A j \in i + 1..n + 1 : ~Ran(s[j])
        PROVE  i = n + 1
    <3>1. CASE i # n + 1
      <4>1. n + 1 \in i + 1..n + 1
        BY <3>1
      <4> QED
        BY <1>3, <2>5, <4>1
    <3> QED
      BY <3>1
  <2> HIDE DEF u, e
  <2>6. ASSUME NEW i \in 1..n + 1, Ran(s[i]), \A j \in i + 1..n + 1 : ~Ran(s[j])
        PROVE  /\ u.last = IF s[i].outcome = "ok" THEN "done" ELSE "failed"
               /\ u.last = "done" => u.writes
               /\ u.verified => \E j \in i + 1..n + 1 : Sighting(s[j])
    <3>1. i = n + 1 /\ s[i] = e
      BY <2>5, <2>6 DEF e
    <3> QED
      BY <2>4, <3>1
  <2>7. Describes(u, s, n + 1)
    BY <2>3, <2>6 DEF Describes
  <2> QED
    BY <2>7 DEF u, e
<1>4. CASE ~Ran(e)
  <2>1. /\ u \in Memory /\ u.last = st.last /\ u.writes = st.writes
        /\ u.verified => st.verified \/ Sighting(e)
    <3>1. u = st \/ (u = [st EXCEPT !.verified = TRUE] /\ Sighting(e))
      BY <1>1, <1>4 DEF Ran, NoteTool, Tools, Sighting
    <3> QED
      BY <1>1, <1>2, <3>1 DEF Memory
  <2> HIDE DEF u
  <2>2. ASSUME NEW i \in 1..n + 1, Ran(s[i]), \A j \in i + 1..n + 1 : ~Ran(s[j])
        PROVE  /\ u.last = IF s[i].outcome = "ok" THEN "done" ELSE "failed"
               /\ u.last = "done" => u.writes
               /\ u.verified => \E j \in i + 1..n + 1 : Sighting(s[j])
    <3>1. i \in 1..n
      BY <1>4, <2>2
    <3>2. \A j \in i + 1..n : j \in i + 1..n + 1
      OBVIOUS
    <3>3. n + 1 \in i + 1..n + 1
      BY <3>1
    <3>4. \A j \in i + 1..n : ~Ran(s[j])
      BY <2>2, <3>2
    <3>5. /\ st.last = IF s[i].outcome = "ok" THEN "done" ELSE "failed"
          /\ st.last = "done" => st.writes
          /\ st.verified => \E j \in i + 1..n : Sighting(s[j])
      BY <2>2, <3>1, <3>4 DEF Describes
    <3> QED
      BY <2>1, <3>2, <3>3, <3>5
  <2>3. Describes(u, s, n + 1)
    BY <2>1, <2>2 DEF Describes
  <2> QED
    BY <2>3 DEF u
<1> QED
  BY <1>3, <1>4

LEMMA ResultsAre ==
  ASSUME log \in Seq(Entries), total \in 0..Len(log)
  PROVE  /\ Len(log) - total \in Nat /\ Len(log) \in Nat
         /\ Results \in Seq(Entries) /\ Len(Results) = Len(log) - total
         /\ DOMAIN Results = 1..(Len(log) - total)
         /\ \A i \in 1..(Len(log) - total) : Results[i] = log[total + i] /\ total + i \in total + 1..Len(log)
         /\ \A j \in total + 1..Len(log) : j - total \in DOMAIN Results /\ Results[j - total] = log[j]
<1>1. Len(log) \in Nat /\ total \in Nat /\ Len(log) - total \in Nat
  OBVIOUS
<1>2. /\ Results \in Seq(Entries) /\ Len(Results) = Len(log) - total
      /\ \A i \in 1..(Len(log) - total) : Results[i] = log[total + i]
  <2>1. \A i \in total + 1..Len(log) : log[i] \in Entries
    BY <1>1
  <2> QED
    BY <1>1, <2>1, SubSeqProperties DEF Results
<1>3. DOMAIN Results = 1..(Len(log) - total)
  BY <1>2
<1> HIDE DEF Results
<1>4. \A i \in 1..(Len(log) - total) : total + i \in total + 1..Len(log)
  BY <1>1
<1>5. \A j \in total + 1..Len(log) : j - total \in 1..(Len(log) - total) /\ total + (j - total) = j
  BY <1>1
<1> QED
  BY <1>1, <1>2, <1>3, <1>4, <1>5

(* The results of a round that is settled are described by what is noted.  *)
LEMMA NotedDescribes ==
  ASSUME log \in Seq(Entries), total \in 0..Len(log),
         \A i \in 1..Len(log) : log[i].call \in Changes => log[i].outcome # "cached",
         Describes(noted, log, total)
  PROVE  Describes(Noted, log, Len(log))
<1> DEFINE R == Results
           N == NotedUpTo(R)
           d == Len(log) - total
           T == {m \in Nat : m <= d => Describes(N[m], log, total + m)}
<1>1. Len(log) \in Nat /\ total \in Nat /\ d \in Nat /\ total + d = Len(log)
  OBVIOUS
<1>2. Len(R) = d /\ \A m \in 1..d : R[m] = log[total + m]
  BY ResultsAre
<1>3. N[0] = noted /\ \A m \in 1..d : N[m] = NoteTool(N[m - 1], R[m])
  <2>1. Len(R) \in Nat
    BY <1>1, <1>2
  <2> QED
    BY <1>2, <2>1, NotedStep
<1> HIDE DEF R, N
<1>4. 0 \in T
  <2>1. total + 0 = total
    OBVIOUS
  <2> QED
    BY <1>3, <2>1
<1>5. ASSUME NEW m \in Nat, m \in T PROVE m + 1 \in T
  <2>1. ASSUME m + 1 <= d PROVE Describes(N[m + 1], log, total + (m + 1))
    <3>1. /\ m + 1 \in 1..d /\ (m + 1) - 1 = m /\ m <= d /\ total + m \in Nat
          /\ total + (m + 1) = (total + m) + 1 /\ (total + m) + 1 <= Len(log)
      BY <1>1, <2>1
    <3>2. Describes(N[m], log, total + m)
      BY <1>5, <3>1
    <3>3. N[m + 1] = NoteTool(N[m], log[(total + m) + 1])
      BY <1>2, <1>3, <3>1
    <3>4. Describes(NoteTool(N[m], log[(total + m) + 1]), log, (total + m) + 1)
      BY <3>1, <3>2, NoteToolDescribes
    <3> QED
      BY <3>1, <3>3, <3>4
  <2>2. m + 1 \in Nat
    OBVIOUS
  <2> QED
    BY <2>1, <2>2
<1> HIDE DEF T
<1>6. d \in T
  BY <1>1, <1>4, <1>5, Inductive
<1>7. Describes(N[d], log, Len(log))
  <2>1. d <= d
    BY <1>1
  <2> QED
    BY <1>1, <1>6, <2>1 DEF T
<1> QED
  BY <1>2, <1>7 DEF Noted, NoteAll, N, R

-----------------------------------------------------------------------------
(* AgentLoop: the invariant                                                *)

(* The entries of log behind the first total are results of calls asked    *)
(* for, one for each call, and every read of the round has one.            *)
RoundInv ==
    /\ at = "reads" => total = Len(log)
    /\ at \in {"reads", "changes"} => Len(asked) <= MaxCalls - total
    /\ at = "changes" =>
         /\ \A i \in total + 1..Len(log) : log[i].k \in DOMAIN asked /\ log[i].call = asked[log[i].k]
         /\ \A i, j \in total + 1..Len(log) : log[i].k = log[j].k => i = j
         /\ \A k \in DOMAIN asked : asked[k] \in Reads => \E i \in total + 1..Len(log) : log[i].k = k
    /\ at \notin {"reads", "changes"} => total = Len(log) /\ Len(log) <= MaxCalls

(* The trace holds the entries that are noted, if in another order.        *)
TraceInv ==
    /\ Len(trace) = total
    /\ {trace[i] : i \in 1..total} = {log[i] : i \in 1..total}

(* What answers again instead of the tool is known to be fresh.            *)
OnceInv ==
    /\ \A i \in 1..Len(log) : log[i].call \in Changes =>
         log[i].outcome # "cached" /\ (log[i].outcome = "ok" => log[i].call \in once)
    /\ \A i, j \in 1..Len(log) : OkChange(log[i]) /\ OkChange(log[j]) /\ log[i].call = log[j].call
                                   => i = j

Seen(s, r, n) ==
    \E j \in 1..n : /\ s[j].call = r /\ s[j].outcome = "ok"
                    /\ \A c \in j + 1..n : ~OkChange(s[c])

CacheInv == \A r \in turnCache : Seen(log, r, Len(log))

FreshInv == \A i \in 1..Len(log) : log[i].outcome = "cached" => Seen(log, log[i].call, i - 1)

NotedInv == Describes(noted, log, total)

(* Only a draft that needs nothing more goes through the gates, and a      *)
(* fault they found blocks until a revision was found clean.               *)
Closing == {"correct", "recorrect", "verify", "reverify", "best", "end", "accepted"}

DraftInv ==
    /\ draft.facts = "conflict" => "facts" \in blocking
    /\ draft.review = "flawed" \/ at = "reverify" => "review" \in blocking
    /\ at \in {"recorrect", "reverify"} => ~draft.incomplete
    /\ at \in Closing /\ ~draft.incomplete => ~Unfinished
    /\ at = "accepted" => blocking = {} /\ ~draft.incomplete

RoundsInv ==
    /\ rounds <= turn.maxRounds
    /\ at \in {"last", "recorrect", "reverify"} => rounds < turn.maxRounds

LogInv  == OnceInv /\ CacheInv /\ FreshInv
LoopInv == LoopTypeOK /\ RoundInv /\ TraceInv /\ LogInv /\ NotedInv /\ DraftInv /\ RoundsInv

-----------------------------------------------------------------------------
(* AgentLoop: the calls of a round, and its results                        *)

LEMMA PlacesAre ==
  ASSUME asked \in Seq(Tools), NEW kind
  PROVE  /\ PlacesOf(kind) \in Seq(DOMAIN asked) /\ Injective(PlacesOf(kind))
         /\ \A k : Has(PlacesOf(kind), k) <=> k \in DOMAIN asked /\ asked[k] \in kind
<1> DEFINE s == [k \in DOMAIN asked |-> k]
           Q == {k \in DOMAIN asked : asked[k] \in kind}
<1>1. DOMAIN asked = 1..Len(asked) /\ Len(asked) \in Nat
  OBVIOUS
<1>2. s \in Seq(DOMAIN asked) /\ Len(s) = Len(asked)
  BY <1>1
<1>3. Injective(s) /\ \A k : Has(s, k) <=> k \in DOMAIN asked
  BY <1>1, <1>2 DEF Injective, Has
<1> HIDE DEF s
<1>4. /\ Only(s, Q) \in Seq(DOMAIN asked) /\ Injective(Only(s, Q))
      /\ \A k : Has(Only(s, Q), k) <=> k \in Q /\ Has(s, k)
  BY <1>2, <1>3, OnlyKeeps
<1>5. PlacesOf(kind) = Only(s, Q)
  BY DEF PlacesOf, s
<1> QED
  BY <1>3, <1>4, <1>5

LEMMA PendingIs ==
  ASSUME asked \in Seq(Tools), log \in Seq(Entries), total \in 0..Len(log)
  PROVE  /\ Pending \in Seq(DOMAIN asked)
         /\ \A k : Has(Pending, k) <=> /\ k \in DOMAIN asked /\ asked[k] \in Changes
                                       /\ \A i \in total + 1..Len(log) : log[i].k # k
<1> DEFINE P == PlacesOf(Changes)
           Q == DOMAIN asked \ {Results[i].k : i \in DOMAIN Results}
<1>1. P \in Seq(DOMAIN asked) /\ \A k : Has(P, k) <=> k \in DOMAIN asked /\ asked[k] \in Changes
  BY PlacesAre
<1> HIDE DEF P
<1>2. /\ Only(P, Q) \in Seq(DOMAIN asked)
      /\ \A k : Has(Only(P, Q), k) <=> k \in Q /\ Has(P, k)
  BY <1>1, OnlyKeeps
<1>3. \A k : (k \in Q) <=> k \in DOMAIN asked /\ \A i \in total + 1..Len(log) : log[i].k # k
  <2>1. ASSUME NEW k, k \in DOMAIN asked, NEW i \in DOMAIN Results, Results[i].k = k
        PROVE  \E j \in total + 1..Len(log) : log[j].k = k
    BY <2>1, ResultsAre
  <2>2. ASSUME NEW k, k \in DOMAIN asked, NEW j \in total + 1..Len(log), log[j].k = k
        PROVE  \E i \in DOMAIN Results : Results[i].k = k
    BY <2>2, ResultsAre
  <2> QED
    BY <2>1, <2>2
<1>4. Pending = Only(P, Q)
  BY DEF Pending, P
<1> HIDE DEF Q
<1> QED
  BY <1>1, <1>2, <1>3, <1>4

(* The call that is made next. *)
LEMMA NextCall ==
  ASSUME asked \in Seq(Tools), log \in Seq(Entries), total \in 0..Len(log), Pending # <<>>
  PROVE  /\ Head(Pending) \in DOMAIN asked /\ asked[Head(Pending)] \in Changes
         /\ \A i \in total + 1..Len(log) : log[i].k # Head(Pending)
<1>1. PICK p \in Seq(DOMAIN asked) : p = Pending
  BY PendingIs
<1>2. Has(p, Head(p))
  BY <1>1, TailHas
<1> QED
  BY <1>1, <1>2, PendingIs

-----------------------------------------------------------------------------
(* AgentLoop: what a tool call adds to the log                             *)

(* The entries of new are results of calls of this round that had none.    *)
Extends(new) ==
    /\ new \in Seq(Entries)
    /\ at \in {"reads", "changes"}
    /\ \A i \in 1..Len(new) : new[i].k \in DOMAIN asked /\ new[i].call = asked[new[i].k]
    /\ \A i, j \in 1..Len(new) : new[i].k = new[j].k => i = j
    /\ at = "changes" => \A i \in 1..Len(new) : \A j \in total + 1..Len(log) : log[j].k # new[i].k
    /\ at = "reads" => \A k \in DOMAIN asked : asked[k] \in Reads => \E i \in 1..Len(new) : new[i].k = k

(* And they repeat no change, and are from the cache only when it has them. *)
Sound(new) ==
    /\ \A i \in 1..Len(new) : new[i].call \in Changes =>
         new[i].outcome # "cached" /\ (new[i].outcome = "ok" => new[i].call \in once' \ once)
    /\ once \subseteq once'
    /\ \A i, j \in 1..Len(new) : OkChange(new[i]) => new[j].outcome # "cached" /\ (OkChange(new[j]) => i = j)
    /\ \A i \in 1..Len(new) : new[i].outcome = "cached" => new[i].call \in turnCache
    /\ \A r \in turnCache' :
         /\ \A i \in 1..Len(new) : ~OkChange(new[i])
         /\ r \in turnCache \/ \E i \in 1..Len(new) : new[i].call = r /\ new[i].outcome = "ok"

Extended(new) ==
    /\ Extends(new) /\ Sound(new)
    /\ log' = log \o new /\ at' = "changes"
    /\ UNCHANGED <<turn, rounds, asked, total, noted, trace, draft, gates, blocking>>

LEMMA ReadsEffect ==
  ASSUME LoopTypeOK, RunReads
  PROVE  /\ \E new : Extended(new)
         /\ observed' \in Seq(Tools) /\ turnCache' \subseteq Reads /\ once' = once /\ late' = late
<1>a. /\ asked \in Seq(Tools) /\ log \in Seq(Entries) /\ observed \in Seq(Tools) /\ turnCache \subseteq Reads
      /\ rounds \in Nat /\ DOMAIN asked \subseteq Nat /\ Reads \subseteq Tools
  BY DEF LoopTypeOK, Tools
<1> DEFINE P == PlacesOf(Reads)
<1>1. P = PlacesOf(Reads)
  OBVIOUS
<1>2. /\ P \in Seq(DOMAIN asked) /\ Injective(P) /\ DOMAIN P = 1..Len(P)
      /\ \A k : Has(P, k) <=> k \in DOMAIN asked /\ asked[k] \in Reads
  <2>1. P \in Seq(DOMAIN asked) => DOMAIN P = 1..Len(P)
    OBVIOUS
  <2> QED
    BY <1>1, <1>a, <2>1, PlacesAre
<1>3. \A i \in 1..Len(P) : P[i] \in DOMAIN asked /\ asked[P[i]] \in Reads
  <2>1. \A i \in 1..Len(P) : Has(P, P[i])
    BY DEF Has
  <2> QED
    BY <1>2, <2>1
<1>4. PICK outcome \in [DOMAIN P -> {"ok", "bad", "refused", "open", "cached", "loop", "expired"}] :
        /\ \A i \in DOMAIN P : outcome[i] = "cached" => asked[P[i]] \in turnCache
        /\ log' = log \o [i \in DOMAIN P |-> Entry(P[i], outcome[i])]
        /\ turnCache' = turnCache \cup {asked[P[i]] : i \in {j \in DOMAIN P : outcome[j] = "ok"}}
  <2>1. PICK outcome \in [DOMAIN P -> {"ok", "bad", "refused", "open", "cached", "loop", "expired"}] :
        /\ \A i \in DOMAIN P :
             \E h : outcome[i] \in IF asked[P[i]] \in turnCache THEN {"cached"} ELSE Outcomes(h)
        /\ log' = log \o [i \in DOMAIN P |-> Entry(P[i], outcome[i])]
        /\ turnCache' = turnCache \cup {asked[P[i]] : i \in {j \in DOMAIN P : outcome[j] = "ok"}}
    BY DEF RunReads
  <2>2. \A h : "cached" \notin Outcomes(h)
    BY DEF Outcomes
  <2>3. \A i \in DOMAIN P : outcome[i] = "cached" => asked[P[i]] \in turnCache
    BY <2>1, <2>2
  <2> QED
    BY <2>1, <2>3
<1> HIDE DEF P
<1> DEFINE new == [i \in DOMAIN P |-> Entry(P[i], outcome[i])]
<1>5. /\ \A i \in 1..Len(P) : new[i] = Entry(P[i], outcome[i])
      /\ new \in Seq(Entries) /\ Len(new) = Len(P)
  <2>1. \A i \in 1..Len(P) : Entry(P[i], outcome[i]) \in Entries
    BY <1>a, <1>2, <1>3, <1>4 DEF Entry, Entries, Outcome
  <2>2. new \in [1..Len(P) -> Entries] /\ Len(P) \in Nat
    BY <1>2, <2>1
  <2>3. new \in Seq(Entries) /\ Len(new) = Len(P)
    BY <2>2
  <2>4. \A i \in 1..Len(P) : new[i] = Entry(P[i], outcome[i])
    BY <1>2
  <2> QED
    BY <2>3, <2>4
<1> HIDE DEF new
<1>6. \A i \in 1..Len(P) : new[i].call = asked[P[i]] /\ new[i].outcome = outcome[i] /\ new[i].k = P[i]
  <2>1. \A p, o : Entry(p, o).call = asked[p] /\ Entry(p, o).outcome = o /\ Entry(p, o).k = p
    BY DEF Entry
  <2> QED
    BY <1>5, <2>1
<1>7. at = "reads" /\ at' = "changes" /\ log' = log \o new
      /\ UNCHANGED <<turn, late, rounds, asked, total, noted, trace, once, draft, gates, blocking>>
  BY <1>4 DEF RunReads, new, given
<1>8. Extends(new)
  <2>1. \A i \in 1..Len(new) : new[i].k \in DOMAIN asked /\ new[i].call = asked[new[i].k]
    BY <1>3, <1>5, <1>6
  <2>2. \A i, j \in 1..Len(new) : new[i].k = new[j].k => i = j
    BY <1>2, <1>5, <1>6 DEF Injective
  <2>3. \A k \in DOMAIN asked : asked[k] \in Reads => \E i \in 1..Len(new) : new[i].k = k
    BY <1>2, <1>5, <1>6 DEF Has
  <2> QED
    BY <1>5, <1>7, <2>1, <2>2, <2>3 DEF Extends
<1>9. Sound(new)
  <2>1. \A i \in 1..Len(new) : new[i].call \notin Changes
    BY <1>3, <1>5, <1>6, LoopAssumption
  <2>2. \A i \in 1..Len(new) : new[i].outcome = "cached" => new[i].call \in turnCache
    BY <1>2, <1>4, <1>5, <1>6
  <2>3. ASSUME NEW r \in turnCache', r \notin turnCache
        PROVE  \E i \in 1..Len(new) : new[i].call = r /\ new[i].outcome = "ok"
    <3>1. PICK i \in DOMAIN P : outcome[i] = "ok" /\ r = asked[P[i]]
      BY <1>4, <2>3
    <3>2. i \in 1..Len(P) /\ i \in 1..Len(new)
      BY <1>2, <1>5
    <3> QED
      BY <1>6, <3>1, <3>2
  <2> QED
    BY <1>7, <2>1, <2>2, <2>3 DEF Sound, OkChange
<1>10. turnCache' \subseteq Reads
  BY <1>a, <1>2, <1>3, <1>4
<1>11. observed' \in Seq(Tools)
  <2>1. [i \in 1..Len(P) |-> asked[P[i]]] \in Seq(Tools)
    BY <1>a, <1>2, <1>3
  <2>2. Only([i \in 1..Len(P) |-> asked[P[i]]], Reads \ turnCache) \in Seq(Tools)
    BY <2>1, OnlyKeeps
  <2>3. observed' = observed \o Only([i \in 1..Len(P) |-> asked[P[i]]], Reads \ turnCache)
    BY <1>1 DEF RunReads
  <2> QED
    BY <1>a, <2>2, <2>3
<1> QED
  BY <1>7, <1>8, <1>9, <1>10, <1>11 DEF Extended

(* A change, and one that the deadline cuts off. *)
LEMMA OneEffect ==
  ASSUME LoopTypeOK, NEW e \in Entries, Pending # <<>>, at = "changes", at' = "changes",
         e.k = Head(Pending), e.call = asked[Head(Pending)],
         e.outcome # "cached", log' = Append(log, e),
         IF e.outcome = "ok" THEN e.call \notin once /\ once' = once \cup {e.call} /\ turnCache' = {}
                             ELSE UNCHANGED <<once, turnCache>>,
         UNCHANGED <<turn, rounds, asked, total, noted, trace, draft, gates, blocking>>
  PROVE  \E new : Extended(new)
<1>a. asked \in Seq(Tools) /\ log \in Seq(Entries) /\ total \in 0..Len(log)
  BY DEF LoopTypeOK
<1>1. /\ e.k \in DOMAIN asked /\ asked[e.k] \in Changes
      /\ \A i \in total + 1..Len(log) : log[i].k # e.k
  BY <1>a, NextCall
<1> DEFINE new == <<e>>
<1>2. new \in Seq(Entries) /\ Len(new) = 1 /\ new[1] = e /\ log' = log \o new /\ 1..1 = {1}
  BY <1>a
<1> HIDE DEF new
<1>3. Extends(new)
  BY <1>1, <1>2 DEF Extends
<1>4. Sound(new)
  <2>1. CASE e.outcome = "ok"
    BY <1>1, <1>2, <2>1 DEF Sound, OkChange
  <2>2. CASE e.outcome # "ok"
    BY <1>1, <1>2, <2>2 DEF Sound, OkChange
  <2> QED
    BY <2>1, <2>2
<1> QED
  BY <1>2, <1>3, <1>4 DEF Extended

LEMMA ChangesEffect ==
  ASSUME LoopTypeOK, RunChange \/ CutOff
  PROVE  /\ \E new : Extended(new)
         /\ observed' \in Seq(Tools) /\ turnCache' \subseteq Reads /\ once' \subseteq Changes
         /\ late' \in BOOLEAN
<1>a. /\ asked \in Seq(Tools) /\ log \in Seq(Entries) /\ total \in 0..Len(log) /\ rounds \in Nat
      /\ observed \in Seq(Tools) /\ turnCache \subseteq Reads /\ once \subseteq Changes /\ late \in BOOLEAN
  BY DEF LoopTypeOK
<1> DEFINE k == Head(Pending)
<1>1. Pending # <<>> /\ at = "changes" /\ at' = "changes"
  BY DEF RunChange, CutOff
<1>2. k \in DOMAIN asked /\ asked[k] \in Changes /\ asked[k] \in Tools /\ k \in Nat
  <2>1. k \in DOMAIN asked /\ asked[k] \in Changes
    BY <1>a, <1>1, NextCall
  <2> QED
    BY <1>a, <2>1 DEF Tools
<1> HIDE DEF k
<1>3. UNCHANGED <<turn, rounds, asked, total, noted, trace, draft, gates, blocking>>
  BY DEF RunChange, CutOff, given
<1>4. PICK outcome \in Outcome \ {"cached"} :
        /\ log' = Append(log, Entry(k, outcome))
        /\ IF outcome = "ok" THEN asked[k] \notin once /\ once' = once \cup {asked[k]} /\ turnCache' = {}
                             ELSE UNCHANGED <<once, turnCache>>
  <2>1. CASE RunChange /\ asked[k] \in once
    BY <2>1 DEF RunChange, k, Outcome
  <2>2. CASE RunChange /\ asked[k] \notin once
    <3>1. PICK outcome \in Outcomes(Append(observed, asked[k])) :
            /\ log' = Append(log, Entry(k, outcome))
            /\ once' = IF outcome = "ok" THEN once \cup {asked[k]} ELSE once
            /\ turnCache' = CacheAfter(outcome)
      BY <2>2 DEF RunChange, k
    <3>2. outcome \in Outcome \ {"cached"}
      BY DEF Outcomes, Outcome
    <3> QED
      BY <2>2, <3>1, <3>2 DEF CacheAfter
  <2>3. CASE CutOff
    BY <2>3 DEF CutOff, k, Outcome
  <2> QED
    BY <2>1, <2>2, <2>3
<1>5. PICK e : e = Entry(k, outcome)
  OBVIOUS
<1>6. e \in Entries /\ e.k = k /\ e.call = asked[k] /\ e.outcome = outcome
  BY <1>a, <1>2, <1>5 DEF Entry, Entries
<1>7. \E new : Extended(new)
  BY <1>1, <1>3, <1>4, <1>5, <1>6, OneEffect DEF k
<1>8. observed' \in Seq(Tools)
  <2>1. Append(observed, asked[k]) \in Seq(Tools)
    BY <1>a, <1>2
  <2>2. observed' = observed \/ observed' = Append(observed, asked[k])
    BY DEF RunChange, CutOff, k
  <2> QED
    BY <1>a, <2>1, <2>2
<1>9. turnCache' \subseteq Reads /\ once' \subseteq Changes
  BY <1>a, <1>2, <1>4
<1>10. late' \in BOOLEAN
  BY <1>a DEF RunChange, CutOff, given
<1> QED
  BY <1>7, <1>8, <1>9, <1>10

LEMMA Longer2 ==
  ASSUME LoopTypeOK, NEW new, Extended(new)
  PROVE  /\ Len(log) \in Nat /\ Len(new) \in Nat /\ total \in 0..Len(log) /\ new \in Seq(Entries)
         /\ log' \in Seq(Entries) /\ Len(log') = Len(log) + Len(new)
         /\ \A i \in 1..Len(log) : log'[i] = log[i]
         /\ \A i \in 1..Len(new) : log'[Len(log) + i] = new[i]
         /\ \A i \in 1..Len(log') : i \in 1..Len(log) \/ (i - Len(log) \in 1..Len(new)
                                                          /\ log'[i] = new[i - Len(log)])
<1>1. log \in Seq(Entries) /\ new \in Seq(Entries) /\ log' = log \o new /\ total \in 0..Len(log)
  BY DEF LoopTypeOK, Extended, Extends
<1>2. /\ Len(log) \in Nat /\ Len(new) \in Nat /\ log' \in Seq(Entries) /\ Len(log') = Len(log) + Len(new)
      /\ \A i \in 1..Len(log) + Len(new) : log'[i] = IF i <= Len(log) THEN log[i] ELSE new[i - Len(log)]
  BY <1>1, ConcatProperties
<1>3. ASSUME NEW i \in 1..Len(new) PROVE log'[Len(log) + i] = new[i]
  <2>1. /\ Len(log) + i \in 1..Len(log) + Len(new) /\ ~(Len(log) + i <= Len(log))
        /\ (Len(log) + i) - Len(log) = i
    BY <1>2
  <2> QED
    BY <1>2, <2>1
<1>4. ASSUME NEW i \in 1..Len(log) PROVE log'[i] = log[i]
  BY <1>2
<1>5. ASSUME NEW i \in 1..Len(log')
      PROVE  i \in 1..Len(log) \/ (i - Len(log) \in 1..Len(new) /\ log'[i] = new[i - Len(log)])
  BY <1>2
<1> QED
  BY <1>1, <1>2, <1>3, <1>4, <1>5

LEMMA RoundExtended ==
  ASSUME LoopTypeOK, RoundInv, NEW new, Extended(new)
  PROVE  RoundInv'
<1> DEFINE L == Len(log)
           M == Len(new)
<1>1. /\ L \in Nat /\ M \in Nat /\ Len(log') = L + M /\ total \in 0..L
      /\ \A i \in 1..L : log'[i] = log[i]
      /\ \A i \in 1..M : log'[L + i] = new[i]
      /\ \A i \in 1..Len(log') : i \in 1..L \/ (i - L \in 1..M /\ log'[i] = new[i - L])
  BY Longer2
<1>2. at' = "changes" /\ at \in {"reads", "changes"} /\ UNCHANGED <<asked, total>>
  BY DEF Extended, Extends
<1>3. /\ \A i \in 1..M : new[i].k \in DOMAIN asked /\ new[i].call = asked[new[i].k]
      /\ \A i, j \in 1..M : new[i].k = new[j].k => i = j
      /\ at = "changes" => \A i \in 1..M : \A j \in total + 1..L : log[j].k # new[i].k
      /\ at = "reads" => \A k \in DOMAIN asked : asked[k] \in Reads => \E i \in 1..M : new[i].k = k
  BY DEF Extended, Extends
<1>4. /\ at = "reads" => total = L
      /\ Len(asked) <= MaxCalls - total
      /\ at = "changes" =>
           /\ \A i \in total + 1..L : log[i].k \in DOMAIN asked /\ log[i].call = asked[log[i].k]
           /\ \A i, j \in total + 1..L : log[i].k = log[j].k => i = j
           /\ \A k \in DOMAIN asked : asked[k] \in Reads => \E i \in total + 1..L : log[i].k = k
  BY <1>2 DEF RoundInv
<1>5. \A i \in total + 1..Len(log') :
        \/ i \in total + 1..L /\ at = "changes" /\ log'[i] = log[i]
        \/ i - L \in 1..M /\ log'[i] = new[i - L]
  BY <1>1, <1>2, <1>4
<1>6. \A i \in total + 1..Len(log') : log'[i].k \in DOMAIN asked /\ log'[i].call = asked[log'[i].k]
  <2>1. ASSUME NEW i \in total + 1..Len(log')
        PROVE  log'[i].k \in DOMAIN asked /\ log'[i].call = asked[log'[i].k]
    <3>1. CASE i \in total + 1..L /\ at = "changes" /\ log'[i] = log[i]
      BY <1>4, <3>1
    <3>2. CASE i - L \in 1..M /\ log'[i] = new[i - L]
      BY <1>3, <3>2
    <3> QED
      BY <1>5, <3>1, <3>2
  <2> QED
    BY <2>1
<1>7. ASSUME NEW i \in total + 1..Len(log'), NEW j \in total + 1..Len(log'), log'[i].k = log'[j].k
      PROVE  i = j
  <2> HIDE DEF L, M
  <2>1. CASE i \in total + 1..L /\ at = "changes" /\ log'[i] = log[i]
    <3>1. CASE j \in total + 1..L /\ log'[j] = log[j]
      BY <1>4, <1>7, <2>1, <3>1
    <3>2. CASE j - L \in 1..M /\ log'[j] = new[j - L]
      BY <1>3, <1>7, <2>1, <3>2
    <3> QED
      BY <1>5, <3>1, <3>2
  <2>2. CASE i - L \in 1..M /\ log'[i] = new[i - L]
    <3>1. CASE j \in total + 1..L /\ at = "changes" /\ log'[j] = log[j]
      BY <1>3, <1>7, <2>2, <3>1
    <3>2. CASE j - L \in 1..M /\ log'[j] = new[j - L]
      <4>1. i - L = j - L
        BY <1>3, <1>7, <2>2, <3>2
      <4>2. i \in Int /\ j \in Int /\ L \in Int
        BY <1>1
      <4> QED
        BY <4>1, <4>2
    <3> QED
      BY <1>5, <3>1, <3>2
  <2> QED
    BY <1>5, <2>1, <2>2
<1>8. ASSUME NEW k \in DOMAIN asked, asked[k] \in Reads
      PROVE  \E i \in total + 1..Len(log') : log'[i].k = k
  <2>1. CASE at = "changes"
    <3>1. PICK i \in total + 1..L : log[i].k = k
      BY <1>4, <1>8, <2>1
    <3>2. i \in total + 1..Len(log') /\ log'[i] = log[i]
      BY <1>1
    <3> QED
      BY <3>1, <3>2
  <2>2. CASE at = "reads"
    <3>1. PICK i \in 1..M : new[i].k = k
      BY <1>3, <1>8, <2>2
    <3>2. L + i \in total + 1..Len(log') /\ log'[L + i] = new[i]
      BY <1>1
    <3> QED
      BY <3>1, <3>2
  <2> QED
    BY <1>2, <2>1, <2>2
<1> HIDE DEF L, M
<1> QED
  BY <1>2, <1>4, <1>6, <1>7, <1>8 DEF RoundInv

LEMMA TraceExtended ==
  ASSUME LoopTypeOK, TraceInv, NotedInv, NEW new, Extended(new)
  PROVE  TraceInv' /\ NotedInv'
<1>1. total' = total /\ trace' = trace /\ noted' = noted
  BY DEF Extended
<1>2. \A i \in 1..total : log'[i] = log[i]
  BY Longer2
<1>3. total \in Nat
  BY Longer2
<1>4. TraceInv'
  <2>1. {log'[i] : i \in 1..total} = {log[i] : i \in 1..total}
    BY <1>2
  <2> QED
    BY <1>1, <2>1 DEF TraceInv
<1>5. Describes(noted, log', total)
  <2>1. ASSUME NEW i \in 1..total, Ran(log'[i]), \A j \in i + 1..total : ~Ran(log'[j])
        PROVE  /\ noted.last = IF log'[i].outcome = "ok" THEN "done" ELSE "failed"
               /\ noted.last = "done" => noted.writes
               /\ noted.verified => \E j \in i + 1..total : Sighting(log'[j])
    <3>1. \A j \in i + 1..total : log'[j] = log[j]
      BY <1>2, <1>3
    <3>2. Ran(log[i]) /\ \A j \in i + 1..total : ~Ran(log[j])
      BY <1>2, <2>1, <3>1
    <3> QED
      BY <1>2, <3>1, <3>2 DEF NotedInv, Describes
  <2> QED
    BY <2>1 DEF NotedInv, Describes
<1> QED
  BY <1>1, <1>4, <1>5 DEF NotedInv

LEMMA LogExtended ==
  ASSUME LoopTypeOK, LogInv, NEW new, Extended(new)
  PROVE  LogInv'
<1> DEFINE L == Len(log)
           M == Len(new)
<1>1. /\ L \in Nat /\ M \in Nat /\ Len(log') = L + M
      /\ \A i \in 1..L : log'[i] = log[i]
      /\ \A i \in 1..M : log'[L + i] = new[i]
      /\ \A i \in 1..Len(log') : i \in 1..L \/ (i - L \in 1..M /\ log'[i] = new[i - L])
  BY Longer2
<1>2. Sound(new)
  BY DEF Extended
<1>3. OnceInv /\ CacheInv /\ FreshInv
  BY DEF LogInv
<1> HIDE DEF L, M
<1>4. ASSUME NEW r, NEW n \in 0..L, Seen(log, r, n)
      PROVE  Seen(log', r, n)
  <2>1. PICK j \in 1..n : /\ log[j].call = r /\ log[j].outcome = "ok"
                          /\ \A c \in j + 1..n : ~OkChange(log[c])
    BY <1>4 DEF Seen
  <2>2. log'[j] = log[j] /\ \A c \in j + 1..n : log'[c] = log[c]
    BY <1>1
  <2> QED
    BY <2>1, <2>2 DEF Seen
<1>5. ASSUME NEW r, NEW n \in L..L + M, Seen(log, r, L), \A i \in 1..M : ~OkChange(new[i])
      PROVE  Seen(log', r, n)
  <2>1. PICK j \in 1..L : /\ log'[j].call = r /\ log'[j].outcome = "ok"
                          /\ \A c \in j + 1..L : ~OkChange(log'[c])
    <3>1. L \in 0..L
      BY <1>1
    <3> QED
      BY <1>4, <1>5, <3>1 DEF Seen
  <2>2. ASSUME NEW c \in j + 1..n PROVE ~OkChange(log'[c])
    <3>1. c \in j + 1..L \/ (c - L \in 1..M /\ log'[c] = new[c - L])
      BY <1>1
    <3> QED
      BY <1>5, <2>1, <3>1
  <2>3. j \in 1..n
    BY <1>1
  <2> QED
    BY <2>1, <2>2, <2>3 DEF Seen
<1>6. CacheInv'
  <2>1. ASSUME NEW r \in turnCache' PROVE Seen(log', r, L + M)
    <3>1. \A i \in 1..M : ~OkChange(new[i])
      BY <1>2 DEF Sound, M
    <3>2. CASE r \in turnCache
      <4>1. Seen(log, r, L) /\ L + M \in L..L + M
        BY <1>1, <1>3, <3>2 DEF CacheInv, L
      <4> QED
        BY <1>5, <3>1, <4>1
    <3>3. CASE \E i \in 1..M : new[i].call = r /\ new[i].outcome = "ok"
      <4>1. PICK i \in 1..M : new[i].call = r /\ new[i].outcome = "ok"
        BY <3>3
      <4>2. L + i \in 1..L + M /\ log'[L + i] = new[i]
        BY <1>1
      <4>3. ASSUME NEW c \in (L + i) + 1..L + M PROVE ~OkChange(log'[c])
        <5>1. c \in 1..Len(log') /\ c \notin 1..L
          BY <1>1
        <5> QED
          BY <1>1, <3>1, <5>1
      <4> QED
        BY <4>1, <4>2, <4>3 DEF Seen
    <3> QED
      BY <1>2, <3>2, <3>3 DEF Sound, M
  <2> QED
    BY <1>1, <2>1 DEF CacheInv
<1>7. FreshInv'
  <2>1. ASSUME NEW i \in 1..L + M, log'[i].outcome = "cached"
        PROVE  Seen(log', log'[i].call, i - 1)
    <3>1. CASE i \in 1..L
      <4>1. log'[i] = log[i] /\ i - 1 \in 0..L
        BY <1>1, <3>1
      <4>2. Seen(log, log[i].call, i - 1)
        BY <1>3, <2>1, <3>1, <4>1 DEF FreshInv, L
      <4> QED
        BY <1>4, <4>1, <4>2
    <3>2. CASE i - L \in 1..M /\ log'[i] = new[i - L]
      <4>1. new[i - L].call \in turnCache /\ \A j \in 1..M : ~OkChange(new[j])
        BY <1>2, <2>1, <3>2 DEF Sound, M
      <4>2. Seen(log, new[i - L].call, L) /\ i - 1 \in L..L + M
        BY <1>1, <1>3, <3>2, <4>1 DEF CacheInv, L
      <4> QED
        BY <1>5, <3>2, <4>1, <4>2
    <3> QED
      BY <1>1, <3>1, <3>2
  <2> QED
    BY <1>1, <2>1 DEF FreshInv
<1>8. OnceInv'
  <2>1. ASSUME NEW i \in 1..L + M, log'[i].call \in Changes
        PROVE  log'[i].outcome # "cached" /\ (log'[i].outcome = "ok" => log'[i].call \in once')
    <3>1. CASE i \in 1..L
      <4>1. log'[i] = log[i]
        BY <1>1, <3>1
      <4> QED
        BY <1>2, <1>3, <2>1, <3>1, <4>1 DEF OnceInv, Sound, L
    <3>2. CASE i - L \in 1..M /\ log'[i] = new[i - L]
      BY <1>2, <2>1, <3>2 DEF Sound, M
    <3> QED
      BY <1>1, <3>1, <3>2
  <2>2. ASSUME NEW i \in 1..L, NEW j \in 1..M, OkChange(log[i]), OkChange(new[j])
        PROVE  log[i].call # new[j].call
    <3>1. log[i].call \in once
      BY <1>3, <2>2 DEF OnceInv, OkChange, L
    <3>2. new[j].call \notin once
      BY <1>2, <2>2 DEF Sound, OkChange, M
    <3> QED
      BY <3>1, <3>2
  <2>3. ASSUME NEW i \in 1..L + M, NEW j \in 1..L + M, OkChange(log'[i]), OkChange(log'[j]),
               log'[i].call = log'[j].call
        PROVE  i = j
    <3>1. CASE i \in 1..L /\ j \in 1..L
      BY <1>1, <1>3, <2>3, <3>1 DEF OnceInv, L
    <3>2. CASE i \in 1..L /\ j - L \in 1..M /\ log'[j] = new[j - L]
      BY <1>1, <2>2, <2>3, <3>2
    <3>3. CASE j \in 1..L /\ i - L \in 1..M /\ log'[i] = new[i - L]
      BY <1>1, <2>2, <2>3, <3>3
    <3>4. CASE i - L \in 1..M /\ log'[i] = new[i - L] /\ j - L \in 1..M /\ log'[j] = new[j - L]
      <4>1. i - L = j - L
        BY <1>2, <2>3, <3>4 DEF Sound, M
      <4>2. i \in Int /\ j \in Int /\ L \in Int
        BY <1>1
      <4> QED
        BY <4>1, <4>2
    <3> QED
      BY <1>1, <3>1, <3>2, <3>3, <3>4
  <2> QED
    BY <1>1, <2>1, <2>3 DEF OnceInv
<1> QED
  BY <1>6, <1>7, <1>8 DEF LogInv

-----------------------------------------------------------------------------
(* AgentLoop: a round is settled                                           *)

(* As many results as calls: one each. *)
LEMMA ResultPlaces ==
  ASSUME LoopTypeOK, RoundInv, at = "changes"
  PROVE  /\ Len(log) - total <= Len(asked)
         /\ (\A k \in DOMAIN asked : \E i \in total + 1..Len(log) : log[i].k = k)
              => Len(log) - total = Len(asked)
<1> DEFINE n == Len(log) - total
           m == Len(asked)
           f == [i \in 1..n |-> log[total + i].k]
<1>1. /\ total \in Nat /\ Len(log) \in Nat /\ n \in Nat /\ m \in Nat /\ DOMAIN asked = 1..m
  BY DEF LoopTypeOK
<1>2. /\ \A i \in total + 1..Len(log) : log[i].k \in DOMAIN asked
      /\ \A i, j \in total + 1..Len(log) : log[i].k = log[j].k => i = j
  BY DEF RoundInv
<1>3. \A i \in 1..n : total + i \in total + 1..Len(log)
  BY <1>1
<1>4. f \in [1..n -> 1..m]
  BY <1>1, <1>2, <1>3
<1>5. \A i, j \in 1..n : f[i] = f[j] => i = j
  <2>1. ASSUME NEW i \in 1..n, NEW j \in 1..n, f[i] = f[j] PROVE i = j
    <3>1. total + i = total + j
      BY <1>2, <1>3, <2>1
    <3> QED
      BY <1>1, <3>1
  <2> QED
    BY <2>1
<1>6. f \in Injection(1..n, 1..m)
  <2> HIDE DEF f
  <2>1. DOMAIN f = 1..n
    BY <1>4
  <2> QED
    BY <1>4, <1>5, <2>1 DEF Injection, IsInjective
<1>7. /\ IsFiniteSet(1..m) /\ Cardinality(1..n) = n /\ Cardinality(1..m) = m
  <2>1. \A j \in Nat : IsFiniteSet(1..j) /\ Cardinality(1..j) = j
    <3>1. ASSUME NEW j \in Nat PROVE IsFiniteSet(1..j) /\ Cardinality(1..j) = j
      <4>1. 1 \in Int /\ j \in Int /\ (IF 1 > j THEN 0 ELSE j - 1 + 1) = j
        OBVIOUS
      <4> QED
        BY <4>1, FS_Interval
    <3> QED
      BY <3>1
  <2> HIDE DEF n, m
  <2> QED
    BY <1>1, <2>1
<1>8. n <= m /\ (n = m <=> f \in Surjection(1..n, 1..m))
  BY <1>6, <1>7, FS_Injection
<1>9. ASSUME \A k \in DOMAIN asked : \E i \in total + 1..Len(log) : log[i].k = k
      PROVE  f \in Surjection(1..n, 1..m)
  <2>1. ASSUME NEW k \in 1..m PROVE \E i \in 1..n : f[i] = k
    <3>1. PICK j \in total + 1..Len(log) : log[j].k = k
      BY <1>1, <1>9
    <3>2. j - total \in 1..n /\ total + (j - total) = j
      BY <1>1
    <3> QED
      BY <3>1, <3>2
  <2> QED
    BY <1>4, <2>1 DEF Surjection
<1> QED
  BY <1>8, <1>9

LEMMA Settled ==
  ASSUME LoopTypeOK, RoundInv, at = "changes", Pending = <<>>
  PROVE  /\ Len(log) <= MaxCalls
         /\ InCallOrder \in Seq(Entries) /\ Len(InCallOrder) = Len(log) - total
         /\ {InCallOrder[k] : k \in DOMAIN asked} = {log[i] : i \in total + 1..Len(log)}
         /\ DOMAIN asked = 1..Len(log) - total
<1>a. /\ asked \in Seq(Tools) /\ log \in Seq(Entries) /\ total \in 0..Len(log) /\ total \in Nat
      /\ Len(log) \in Nat /\ Len(asked) \in Nat /\ DOMAIN asked = 1..Len(asked)
  BY DEF LoopTypeOK
<1>1. \A k \in DOMAIN asked : \E i \in total + 1..Len(log) : log[i].k = k
  <2>1. ASSUME NEW k \in DOMAIN asked, asked[k] \in Changes
        PROVE  \E i \in total + 1..Len(log) : log[i].k = k
    <3>1. ~Has(Pending, k)
      BY EmptyHas
    <3> QED
      BY <1>a, <2>1, <3>1, PendingIs
  <2>2. \A k \in DOMAIN asked : asked[k] \in Changes \/ asked[k] \in Reads
    BY <1>a DEF Tools
  <2> QED
    BY <2>1, <2>2 DEF RoundInv
<1>2. Len(log) - total = Len(asked)
  BY <1>1, ResultPlaces
<1>3. Len(log) <= MaxCalls
  <2>1. Len(asked) <= MaxCalls - total /\ MaxCalls \in Nat
    BY LoopAssumption DEF RoundInv
  <2> QED
    BY <1>a, <1>2, <2>1
<1> DEFINE O == [k \in DOMAIN asked |-> Results[CHOOSE i \in DOMAIN Results : Results[i].k = k]]
<1>4. ASSUME NEW k \in DOMAIN asked
      PROVE  \E i \in total + 1..Len(log) : O[k] = log[i] /\ log[i].k = k
  <2>1. PICK c : c = CHOOSE i \in DOMAIN Results : Results[i].k = k
    OBVIOUS
  <2>2. \E i \in DOMAIN Results : Results[i].k = k
    <3>1. PICK j \in total + 1..Len(log) : log[j].k = k
      BY <1>1
    <3> QED
      BY <1>a, <3>1, ResultsAre
  <2>3. c \in DOMAIN Results /\ Results[c].k = k /\ O[k] = Results[c]
    BY <2>1, <2>2
  <2>4. c \in 1..(Len(log) - total) /\ Results[c] = log[total + c] /\ total + c \in total + 1..Len(log)
    BY <1>a, <2>3, ResultsAre
  <2> QED
    BY <2>3, <2>4
<1>5. InCallOrder = O
  BY DEF InCallOrder
<1> HIDE DEF O
<1>6. O \in Seq(Entries) /\ Len(O) = Len(asked)
  <2>1. \A k \in 1..Len(asked) : O[k] \in Entries
    <3>1. \A i \in total + 1..Len(log) : log[i] \in Entries
      BY <1>a
    <3> QED
      BY <1>a, <1>4, <3>1
  <2>2. O \in [1..Len(asked) -> Entries]
    BY <1>a, <2>1 DEF O
  <2> QED
    BY <1>a, <2>2
<1>7. {O[k] : k \in DOMAIN asked} = {log[i] : i \in total + 1..Len(log)}
  <2>1. ASSUME NEW i \in total + 1..Len(log)
        PROVE  \E k \in DOMAIN asked : O[k] = log[i]
    <3>1. log[i].k \in DOMAIN asked
      BY DEF RoundInv
    <3>2. PICK j \in total + 1..Len(log) : O[log[i].k] = log[j] /\ log[j].k = log[i].k
      BY <1>4, <3>1
    <3>3. i = j
      BY <3>2 DEF RoundInv
    <3> QED
      BY <3>1, <3>2, <3>3
  <2> QED
    BY <1>4, <2>1
<1> QED
  BY <1>a, <1>2, <1>3, <1>5, <1>6, <1>7

LEMMA SettleStep ==
  ASSUME LoopInv, NEW drifts \in BOOLEAN, Settle(drifts)
  PROVE  /\ RoundInv' /\ TraceInv' /\ LogInv' /\ NotedInv'
         /\ trace' \in Seq(Entries) /\ total' \in 0..Len(log') /\ noted' \in Memory
<1>a. LoopTypeOK /\ RoundInv /\ TraceInv /\ LogInv /\ NotedInv
  BY DEF LoopInv
<1>b. /\ log \in Seq(Entries) /\ total \in 0..Len(log) /\ total \in Nat /\ Len(log) \in Nat
      /\ trace \in Seq(Entries)
  BY <1>a DEF LoopTypeOK
<1>1. /\ at = "changes" /\ Pending = <<>> /\ total' = Len(log) /\ noted' = Noted
      /\ trace' = trace \o InCallOrder /\ at' \in {"last", "correct", "top"}
      /\ UNCHANGED <<log, once, turnCache>>
  BY DEF Settle, TraceAfter, Finishes
<1>2. /\ Len(log) <= MaxCalls
      /\ InCallOrder \in Seq(Entries) /\ Len(InCallOrder) = Len(log) - total
      /\ {InCallOrder[k] : k \in DOMAIN asked} = {log[i] : i \in total + 1..Len(log)}
      /\ DOMAIN asked = 1..Len(log) - total
  BY <1>1, <1>a, Settled
<1>3. RoundInv'
  BY <1>1, <1>2 DEF RoundInv
<1>4. LogInv'
  BY <1>1, <1>a DEF LogInv, OnceInv, CacheInv, FreshInv
<1>5. Describes(Noted, log, Len(log))
  BY <1>a, <1>b, NotedDescribes DEF NotedInv, LogInv, OnceInv
<1>6. NotedInv' /\ noted' \in Memory
  BY <1>1, <1>5 DEF NotedInv, Describes
<1>7. PICK o : o = InCallOrder
  OBVIOUS
<1>8. /\ trace' = trace \o o /\ o \in Seq(Entries) /\ Len(o) = Len(log) - total
      /\ {o[k] : k \in 1..Len(log) - total} = {log[i] : i \in total + 1..Len(log)}
  BY <1>1, <1>2, <1>7
<1>9. /\ trace' \in Seq(Entries) /\ Len(trace') = Len(trace) + Len(o)
      /\ \A i \in 1..Len(trace) + Len(o) : trace'[i] = IF i <= Len(trace) THEN trace[i]
                                                       ELSE o[i - Len(trace)]
  BY <1>b, <1>8, ConcatProperties
<1>10. Len(trace) = total /\ {trace[i] : i \in 1..total} = {log[i] : i \in 1..total}
  BY <1>a DEF TraceInv
<1>11. Len(trace') = Len(log)
  BY <1>b, <1>8, <1>9, <1>10
<1>12. {trace'[i] : i \in 1..Len(log)} = {log[i] : i \in 1..Len(log)}
  <2>1. ASSUME NEW i \in 1..Len(log) PROVE \E j \in 1..Len(log) : trace'[i] = log[j]
    <3>1. CASE i <= total
      <4>1. trace'[i] = trace[i] /\ i \in 1..total
        BY <1>b, <1>9, <1>10, <1>11, <3>1
      <4>2. \A j \in 1..total : j \in 1..Len(log)
        BY <1>b
      <4> QED
        BY <1>10, <4>1, <4>2
    <3>2. CASE ~(i <= total)
      <4>1. trace'[i] = o[i - total] /\ i - total \in 1..Len(log) - total
        BY <1>b, <1>9, <1>10, <1>11, <3>2
      <4>2. \A j \in total + 1..Len(log) : j \in 1..Len(log)
        BY <1>b
      <4> QED
        BY <1>8, <4>1, <4>2
    <3> QED
      BY <3>1, <3>2
  <2>2. ASSUME NEW j \in 1..Len(log) PROVE \E i \in 1..Len(log) : trace'[i] = log[j]
    <3>1. CASE j <= total
      <4>1. PICK i \in 1..total : trace[i] = log[j]
        <5>1. j \in 1..total
          BY <1>b, <3>1
        <5> QED
          BY <1>10, <5>1
      <4>2. i \in 1..Len(log) /\ trace'[i] = trace[i]
        BY <1>b, <1>9, <1>10, <1>11
      <4> QED
        BY <4>1, <4>2
    <3>2. CASE ~(j <= total)
      <4>1. PICK k \in 1..Len(log) - total : o[k] = log[j]
        <5>1. j \in total + 1..Len(log)
          BY <1>b, <3>2
        <5> QED
          BY <1>8, <5>1
      <4>2. /\ total + k \in 1..Len(log) /\ ~(total + k <= Len(trace)) /\ (total + k) - Len(trace) = k
        BY <1>b, <1>10
      <4>3. trace'[total + k] = o[k]
        BY <1>9, <1>11, <4>2
      <4> QED
        BY <4>1, <4>2, <4>3
    <3> QED
      BY <3>1, <3>2
  <2>3. {trace'[i] : i \in 1..Len(log)} \subseteq {log[i] : i \in 1..Len(log)}
    BY <2>1
  <2>4. {log[i] : i \in 1..Len(log)} \subseteq {trace'[i] : i \in 1..Len(log)}
    BY <2>2
  <2> QED
    BY <2>3, <2>4
<1>13. TraceInv'
  BY <1>1, <1>11, <1>12 DEF TraceInv
<1>14. total' \in 0..Len(log')
  BY <1>1, <1>b
<1> QED
  BY <1>3, <1>4, <1>6, <1>9, <1>13, <1>14

-----------------------------------------------------------------------------
(* AgentLoop: steps that leave the work of the turn alone                  *)

Control == <<turn, at, late, rounds, streak, draft, gates, blocking>>
Drafts  == [incomplete : BOOLEAN, empty : BOOLEAN,
            facts : {"unchecked", "clean", "unsure", "conflict"},
            review : {"unchecked", "good", "flawed"}]

ControlTypes ==
    /\ turn \in [action : BOOLEAN, maxRounds : Int]
    /\ at \in Points /\ late \in BOOLEAN /\ rounds \in Nat
    /\ streak \in [silent : Nat, nudges : Nat, idle : Nat]
    /\ draft \in Drafts
    /\ gates \subseteq {"facts", "review"} /\ blocking \subseteq {"facts", "review"}

WorkTypes ==
    /\ asked \in Seq(Tools) /\ log \in Seq(Entries) /\ trace \in Seq(Entries)
    /\ total \in 0..Len(log) /\ noted \in Memory
    /\ once \subseteq Changes /\ turnCache \subseteq Reads /\ observed \in Seq(Tools)

LEMMA TypesSplit == LoopTypeOK <=> ControlTypes /\ WorkTypes
  BY DEF LoopTypeOK, ControlTypes, WorkTypes, Drafts, Memory

LEMMA DraftFields ==
  ASSUME NEW a \in BOOLEAN, NEW b \in BOOLEAN
  PROVE  /\ Draft(a, b) \in Drafts
         /\ Draft(a, b).incomplete = a /\ Draft(a, b).empty = b
         /\ Draft(a, b).facts = "unchecked" /\ Draft(a, b).review = "unchecked"
  BY DEF Draft, Drafts

LEMMA FactsMarked ==
  ASSUME NEW d \in Drafts, NEW f \in {"unchecked", "clean", "unsure", "conflict"}
  PROVE  /\ [d EXCEPT !["facts"] = f] \in Drafts /\ [d EXCEPT !["facts"] = f].facts = f
         /\ [d EXCEPT !["facts"] = f].review = d.review
         /\ [d EXCEPT !["facts"] = f].incomplete = d.incomplete
  BY DEF Drafts

LEMMA ReviewMarked ==
  ASSUME NEW d \in Drafts, NEW r \in {"unchecked", "good", "flawed"}
  PROVE  /\ [d EXCEPT !["review"] = r] \in Drafts /\ [d EXCEPT !["review"] = r].review = r
         /\ [d EXCEPT !["review"] = r].facts = d.facts
         /\ [d EXCEPT !["review"] = r].incomplete = d.incomplete
  BY DEF Drafts

(* What such a step may do to the draft, the rounds and the blocks.        *)
Busy == {"reads", "changes"}

Still ==
    /\ UNCHANGED work
    /\ at' = at \/ (at \notin Busy /\ at' \notin Busy)

LEMMA StillKeeps ==
  ASSUME LoopInv, Still
  PROVE  RoundInv' /\ TraceInv' /\ LogInv' /\ NotedInv' /\ WorkTypes' /\ (Unfinished' <=> Unfinished)
<1>1. UNCHANGED <<asked, log, total, noted, trace, once, turnCache, observed>>
  BY DEF Still, work
<1>2. LoopTypeOK /\ RoundInv /\ TraceInv /\ LogInv /\ NotedInv /\ WorkTypes
  BY TypesSplit DEF LoopInv
<1>3. RoundInv'
  <2>1. CASE at' = at
    BY <1>1, <1>2, <2>1 DEF RoundInv
  <2>2. CASE at \notin Busy /\ at' \notin Busy
    BY <1>1, <1>2, <2>2 DEF RoundInv, Busy
  <2> QED
    BY <2>1, <2>2 DEF Still
<1>4. TraceInv'
  <2>1. trace' = trace /\ total' = total /\ log' = log
    BY <1>1
  <2>2. /\ {trace'[i] : i \in 1..total'} = {trace[i] : i \in 1..total}
        /\ {log'[i] : i \in 1..total'} = {log[i] : i \in 1..total}
    BY <2>1
  <2> QED
    BY <1>2, <2>1, <2>2 DEF TraceInv
<1>5. LogInv'
  BY <1>1, <1>2 DEF LogInv, OnceInv, CacheInv, FreshInv
<1>6. NotedInv'
  BY <1>1, <1>2 DEF NotedInv
<1>7. WorkTypes'
  BY <1>1, <1>2 DEF WorkTypes
<1>8. Unfinished' <=> Unfinished
  BY <1>1 DEF Unfinished
<1> QED
  BY <1>3, <1>4, <1>5, <1>6, <1>7, <1>8

(* The facts about the control state that a step starts from. *)
LEMMA ControlFacts ==
  ASSUME LoopInv
  PROVE  /\ turn \in [action : BOOLEAN, maxRounds : Int] /\ turn.maxRounds \in Int
         /\ at \in Points /\ late \in BOOLEAN /\ rounds \in Nat
         /\ streak \in [silent : Nat, nudges : Nat, idle : Nat]
         /\ draft \in Drafts /\ draft.incomplete \in BOOLEAN
         /\ gates \subseteq {"facts", "review"} /\ blocking \subseteq {"facts", "review"}
         /\ draft.facts = "conflict" => "facts" \in blocking
         /\ draft.review = "flawed" \/ at = "reverify" => "review" \in blocking
         /\ at \in {"recorrect", "reverify"} => ~draft.incomplete
         /\ at \in Closing /\ ~draft.incomplete => ~Unfinished
         /\ at = "accepted" => blocking = {} /\ ~draft.incomplete
         /\ rounds <= turn.maxRounds
         /\ at \in {"last", "recorrect", "reverify"} => rounds < turn.maxRounds
<1>1. ControlTypes /\ DraftInv /\ RoundsInv
  BY TypesSplit DEF LoopInv
<1>2. turn.maxRounds \in Int
  BY <1>1 DEF ControlTypes
<1>3. draft.incomplete \in BOOLEAN
  BY <1>1 DEF ControlTypes, Drafts
<1> QED
  BY <1>1, <1>2, <1>3 DEF ControlTypes, DraftInv, RoundsInv

(* Putting a step together that leaves the work alone. *)
LEMMA StillStep ==
  ASSUME LoopInv, Still, ControlTypes', RoundsInv', (Unfinished' <=> Unfinished) => DraftInv'
  PROVE  LoopInv'
<1>1. LoopTypeOK'
  <2>1. ControlTypes' /\ WorkTypes'
    BY StillKeeps
  <2> QED
    BY <2>1, TypesSplit, PTL
<1> QED
  BY <1>1, StillKeeps DEF LoopInv

LEMMA IncompleteIs == /\ Incomplete \in Drafts /\ Incomplete.incomplete /\ Incomplete.facts = "unchecked"
                      /\ Incomplete.review = "unchecked"
  BY DraftFields DEF Incomplete

(* Each step that leaves the work alone. *)
LEMMA TopStep ==
  ASSUME LoopInv, NEW stopped \in BOOLEAN, Top(stopped)
  PROVE  LoopInv'
<1>1. /\ UNCHANGED <<turn, late, streak, gates, blocking>> /\ UNCHANGED work
      /\ at = "top" /\ at' \in {"returned", "correct", "ask"}
      /\ rounds' = IF at' = "ask" THEN rounds + 1 ELSE rounds
      /\ at' = "ask" => rounds < turn.maxRounds
      /\ draft' = draft \/ draft' = Incomplete
      /\ at' = "correct" => draft' = Incomplete
  BY ControlFacts DEF Top, Returns, Finishes, given
<1>2. /\ Incomplete \in Drafts /\ Incomplete.incomplete /\ Incomplete.facts # "conflict"
      /\ Incomplete.review # "flawed"
  BY IncompleteIs
<1>3. Still
  BY <1>1 DEF Still, Busy
<1>4. ControlTypes'
  <2>1. rounds' \in Nat /\ draft' \in Drafts /\ at' \in Points
    BY <1>1, <1>2, ControlFacts DEF Points
  <2> QED
    BY <1>1, <2>1, ControlFacts DEF ControlTypes
<1>5. RoundsInv'
  BY <1>1, ControlFacts DEF RoundsInv
<1>6. (Unfinished' <=> Unfinished) => DraftInv'
  BY <1>1, <1>2, ControlFacts DEF DraftInv, Closing
<1> QED
  BY <1>3, <1>4, <1>5, <1>6, StillStep

LEMMA SayStep ==
  ASSUME LoopInv, NEW empty \in BOOLEAN, NEW promises \in BOOLEAN, Say(empty, promises)
  PROVE  LoopInv'
<1> DEFINE silent == IF turn.action THEN streak.silent + 1 ELSE 0
           nudge  == promises \/ Unfinished
           nudges == IF nudge THEN streak.nudges + 1 ELSE streak.nudges
<1>1. /\ UNCHANGED <<turn, late, rounds, gates, blocking>> /\ UNCHANGED work /\ at = "ask"
      /\ streak' = [streak EXCEPT !.silent = silent, !.nudges = nudges]
      /\ at' \in {"correct", "top"}
      /\ \E i \in BOOLEAN : draft' = Draft(i, empty) /\ (at' = "correct" /\ ~i => ~Unfinished)
  <2>1. /\ UNCHANGED <<turn, late, rounds, gates, blocking>> /\ UNCHANGED work /\ at = "ask"
        /\ streak' = [streak EXCEPT !.silent = silent, !.nudges = nudges]
    BY DEF Say, given
  <2>2. \/ at' = "correct" /\ draft' = Draft(TRUE, empty)
        \/ at' = "top" /\ draft' = Draft(FALSE, empty)
        \/ ~nudge /\ at' = "correct" /\ draft' = Draft(silent >= StreakLimit, empty)
    BY DEF Say, Finishes
  <2>3. (silent >= StreakLimit) \in BOOLEAN
    OBVIOUS
  <2> HIDE DEF silent, nudges
  <2> QED
    BY <2>1, <2>2, <2>3
<1>2. streak' \in [silent : Nat, nudges : Nat, idle : Nat]
  <2>1. silent \in Nat /\ nudges \in Nat
    BY ControlFacts
  <2> HIDE DEF silent, nudges
  <2> QED
    BY <1>1, <2>1, ControlFacts
<1> HIDE DEF silent, nudges, nudge
<1>3. PICK i \in BOOLEAN : draft' = Draft(i, empty) /\ (at' = "correct" /\ ~i => ~Unfinished)
  BY <1>1
<1>4. /\ draft' \in Drafts /\ draft'.incomplete = i /\ draft'.facts = "unchecked"
      /\ draft'.review = "unchecked"
  BY <1>3, DraftFields
<1>5. Still
  BY <1>1 DEF Still, Busy
<1>6. ControlTypes'
  <2>1. rounds' \in Nat /\ draft' \in Drafts /\ at' \in Points
    BY <1>1, <1>2, <1>4, ControlFacts DEF Points
  <2> QED
    BY <1>1, <1>2, <1>4, <2>1, ControlFacts DEF ControlTypes
<1>7. RoundsInv'
  BY <1>1, ControlFacts DEF RoundsInv
<1>8. (Unfinished' <=> Unfinished) => DraftInv'
  BY <1>1, <1>3, <1>4, ControlFacts DEF DraftInv, Closing
<1> QED
  BY <1>5, <1>6, <1>7, <1>8, StillStep

LEMMA OutOfTimeStep ==
  ASSUME LoopInv, OutOfTime
  PROVE  LoopInv'
<1>1. /\ UNCHANGED <<turn, late, streak, gates, blocking>> /\ UNCHANGED work
      /\ at \in {"ask", "last"} /\ at' = "correct" /\ draft' = Incomplete
      /\ rounds' = IF at = "last" THEN rounds + 1 ELSE rounds
  BY DEF OutOfTime, Finishes, given
<1>2. Still
  BY <1>1 DEF Still, Busy
<1>3. ControlTypes'
  <2>1. rounds' \in Nat /\ draft' \in Drafts /\ at' \in Points
    BY <1>1, IncompleteIs, ControlFacts DEF Points
  <2> QED
    BY <1>1, IncompleteIs, <2>1, ControlFacts DEF ControlTypes
<1>4. RoundsInv'
  BY <1>1, ControlFacts DEF RoundsInv
<1>5. (Unfinished' <=> Unfinished) => DraftInv'
  BY <1>1, IncompleteIs, ControlFacts DEF DraftInv
<1> QED
  BY <1>2, <1>3, <1>4, <1>5, StillStep

LEMMA SummarizeStep ==
  ASSUME LoopInv, NEW empty \in BOOLEAN, Summarize(empty)
  PROVE  LoopInv'
<1>1. /\ UNCHANGED <<turn, late, streak, gates, blocking>> /\ UNCHANGED work
      /\ at = "last" /\ at' = "correct" /\ draft' = Draft(TRUE, empty) /\ rounds' = rounds + 1
  BY DEF Summarize, Finishes, given
<1>2. /\ draft' \in Drafts /\ draft'.incomplete /\ draft'.facts = "unchecked"
      /\ draft'.review = "unchecked"
  BY <1>1, DraftFields
<1>3. Still
  BY <1>1 DEF Still, Busy
<1>4. ControlTypes'
  <2>1. rounds' \in Nat /\ at' \in Points
    BY <1>1, ControlFacts DEF Points
  <2>2. draft' \in Drafts
    BY <1>2
  <2> QED
    BY <1>1, <2>1, <2>2, ControlFacts DEF ControlTypes
<1>5. RoundsInv'
  BY <1>1, ControlFacts DEF RoundsInv
<1>6. (Unfinished' <=> Unfinished) => DraftInv'
  BY <1>1, <1>2, ControlFacts DEF DraftInv
<1> QED
  BY <1>3, <1>4, <1>5, <1>6, StillStep

(* The steps that change neither the draft nor the blocks. *)
LEMMA PlainStep ==
  ASSUME LoopInv, Raise \/ Skip \/ Return \/ Expire \/ \E counts \in 0..1 : RevisionFails(counts)
  PROVE  LoopInv'
<1>1. /\ UNCHANGED <<turn, streak, gates, blocking, draft>> /\ UNCHANGED work /\ late' \in BOOLEAN
      /\ \/ at' = "raised" /\ at \notin Busy /\ rounds' = rounds
         \/ at \in {"correct", "verify", "best"} /\ at' \in {"verify", "best", "end"} /\ rounds' = rounds
         \/ at = "end" /\ at' \in {"accepted", "returned"} /\ rounds' = rounds
            /\ (at' = "accepted" => AcceptedOutcome)
         \/ at' = at /\ at # "accepted" /\ rounds' = rounds
         \/ at \in {"recorrect", "reverify"} /\ at' \in {"verify", "best"}
            /\ rounds' \in {rounds, rounds + 1}
  <2>1. CASE Raise
    BY <2>1, ControlFacts DEF Raise, given, Busy
  <2>2. CASE Skip
    BY <2>2, ControlFacts DEF Skip, SkipGate, given
  <2>3. CASE Return
    BY <2>3, ControlFacts DEF Return, given
  <2>4. CASE Expire
    BY <2>4, ControlFacts DEF Expire, Ended
  <2>5. CASE \E counts \in 0..1 : RevisionFails(counts)
    <3>1. PICK counts \in 0..1 : RevisionFails(counts)
      BY <2>5
    <3>2. counts = 0 \/ counts = 1
      OBVIOUS
    <3>3. rounds + counts \in {rounds, rounds + 1}
      BY <3>2, ControlFacts
    <3> QED
      BY <3>1, <3>3, ControlFacts DEF RevisionFails, given
  <2> QED
    BY <2>1, <2>2, <2>3, <2>4, <2>5
<1>2. Still
  BY <1>1 DEF Still, Busy
<1>3. ControlTypes'
  <2>1. rounds' \in Nat /\ draft' \in Drafts /\ at' \in Points
    BY <1>1, ControlFacts DEF Points
  <2> QED
    BY <1>1, <2>1, ControlFacts DEF ControlTypes
<1>4. RoundsInv'
  BY <1>1, ControlFacts DEF RoundsInv
<1>5. AcceptedOutcome => blocking = {} /\ ~draft.incomplete
  BY DEF AcceptedOutcome, Gated
<1>6. (Unfinished' <=> Unfinished) => DraftInv'
  <2>1. SUFFICES ASSUME Unfinished' <=> Unfinished PROVE DraftInv'
    OBVIOUS
  <2>2. at' \in Closing => at \in Closing
    BY <1>1 DEF Closing, Busy
  <2>3. /\ draft' = draft /\ blocking' = blocking /\ (at' = "accepted" => AcceptedOutcome)
        /\ at' = "reverify" => at = "reverify"
        /\ at' = "recorrect" => at = "recorrect"
    BY <1>1
  <2> QED
    BY <1>5, <2>1, <2>2, <2>3, ControlFacts DEF DraftInv
<1> QED
  BY <1>2, <1>3, <1>4, <1>6, StillStep

(* The gates. *)
LEMMA PassGateEffect ==
  ASSUME LoopInv, NEW verdict,
         \/ /\ PassGate("correct", "facts", verdict, "conflict", "recorrect", "verify")
            /\ verdict \in {"clean", "unsure", "conflict"}
         \/ /\ PassGate("verify", "review", verdict, "flawed", "reverify", "best")
            /\ verdict \in {"good", "flawed"}
  PROVE  LoopInv'
<1>1. /\ UNCHANGED <<turn, late, streak, rounds>> /\ UNCHANGED work /\ ~draft.incomplete
      /\ gates' \subseteq {"facts", "review"} /\ blocking \subseteq blocking'
      /\ blocking' \subseteq {"facts", "review"}
      /\ at \in {"correct", "verify"} /\ at' \in {"recorrect", "verify", "reverify", "best"}
      /\ at' \in {"recorrect", "reverify"} => FollowUp
  BY ControlFacts DEF PassGate, Gated, given
<1>2. /\ draft' \in Drafts
      /\ draft'.facts = "conflict" => draft.facts = "conflict" \/ "facts" \in blocking'
      /\ draft'.review = "flawed" => draft.review = "flawed" \/ "review" \in blocking'
      /\ draft'.incomplete \/ ~draft'.incomplete
      /\ at' \in {"recorrect", "reverify"} => ~draft'.incomplete
      /\ at' = "reverify" => "review" \in blocking'
  <2>1. draft \in Drafts
    BY ControlFacts
  <2>2. CASE /\ PassGate("correct", "facts", verdict, "conflict", "recorrect", "verify")
             /\ verdict \in {"clean", "unsure", "conflict"}
    <3>1. \/ draft' = Incomplete /\ at' = "verify"
          \/ draft' = [draft EXCEPT !["facts"] = verdict] /\ at' \in {"recorrect", "verify"}
             /\ (verdict = "conflict" => "facts" \in blocking')
      BY <2>2 DEF PassGate
    <3> QED
      <4>1. CASE draft' = Incomplete /\ at' = "verify"
        BY <4>1, IncompleteIs
      <4>2. CASE draft' = [draft EXCEPT !["facts"] = verdict]
        <5>1. /\ draft' \in Drafts /\ draft'.facts = verdict /\ draft'.review = draft.review
              /\ draft'.incomplete = draft.incomplete
          <6>1. verdict \in {"unchecked", "clean", "unsure", "conflict"}
            BY <2>2
          <6> QED
            BY <2>1, <4>2, <6>1, FactsMarked
        <5> QED
          BY <1>1, <3>1, <5>1, IncompleteIs
      <4> QED
        BY <3>1, <4>1, <4>2
  <2>3. CASE /\ PassGate("verify", "review", verdict, "flawed", "reverify", "best")
             /\ verdict \in {"good", "flawed"}
    <3>1. \/ draft' = Incomplete /\ at' = "best"
          \/ draft' = [draft EXCEPT !["review"] = verdict] /\ at' \in {"reverify", "best"}
             /\ (verdict = "flawed" \/ at' = "reverify" => "review" \in blocking')
      BY <2>3 DEF PassGate
    <3> QED
      <4>1. CASE draft' = Incomplete /\ at' = "best"
        BY <4>1, IncompleteIs
      <4>2. CASE draft' = [draft EXCEPT !["review"] = verdict]
        <5>1. /\ draft' \in Drafts /\ draft'.review = verdict /\ draft'.facts = draft.facts
              /\ draft'.incomplete = draft.incomplete
          <6>1. verdict \in {"unchecked", "good", "flawed"}
            BY <2>3
          <6> QED
            BY <2>1, <4>2, <6>1, ReviewMarked
        <5> QED
          BY <1>1, <3>1, <5>1, IncompleteIs
      <4> QED
        BY <3>1, <4>1, <4>2
  <2> QED
    BY <2>2, <2>3
<1>3. Still
  BY <1>1 DEF Still, Busy
<1>4. ControlTypes'
  <2>1. at' \in Points
    BY <1>1 DEF Points
  <2> QED
    BY <1>1, <1>2, <2>1, ControlFacts DEF ControlTypes
<1>5. RoundsInv'
  <2>1. at' \in {"last", "recorrect", "reverify"} => rounds < turn.maxRounds
    BY <1>1 DEF FollowUp
  <2> QED
    BY <1>1, <2>1, ControlFacts DEF RoundsInv
<1>6. (Unfinished' <=> Unfinished) => DraftInv'
  <2>1. ~Unfinished
    BY <1>1, ControlFacts DEF Closing
  <2>2. at' # "accepted"
    BY <1>1
  <2>3. /\ draft'.facts = "conflict" => "facts" \in blocking'
        /\ draft'.review = "flawed" \/ at' = "reverify" => "review" \in blocking'
    BY <1>1, <1>2, ControlFacts
  <2> QED
    BY <1>2, <2>1, <2>2, <2>3 DEF DraftInv
<1> QED
  BY <1>3, <1>4, <1>5, <1>6, StillStep

LEMMA GateOutOfTimeStep ==
  ASSUME LoopInv, GateOutOfTime
  PROVE  LoopInv'
<1>1. /\ UNCHANGED <<turn, late, streak, gates>> /\ UNCHANGED work /\ draft' = Incomplete
      /\ blocking' \subseteq {"facts", "review"}
      /\ at \in {"correct", "recorrect", "reverify"} /\ at' \in {"verify", "best"}
      /\ rounds' = rounds \/ (rounds' = rounds + 1 /\ at # "correct")
  BY ControlFacts DEF GateOutOfTime, given
<1>2. Still
  BY <1>1 DEF Still, Busy
<1>3. ControlTypes'
  <2>1. rounds' \in Nat /\ draft' \in Drafts /\ at' \in Points
    BY <1>1, IncompleteIs, ControlFacts DEF Points
  <2> QED
    BY <1>1, <2>1, ControlFacts DEF ControlTypes
<1>4. RoundsInv'
  BY <1>1, ControlFacts DEF RoundsInv
<1>5. (Unfinished' <=> Unfinished) => DraftInv'
  BY <1>1, IncompleteIs DEF DraftInv
<1> QED
  BY <1>2, <1>3, <1>4, <1>5, StillStep

LEMMA FullIs == /\ Full \in Drafts /\ ~Full.incomplete /\ Full.facts = "unchecked"
                /\ Full.review = "unchecked"
  BY DraftFields DEF Full

LEMMA RecorrectStep ==
  ASSUME LoopInv, NEW clean \in BOOLEAN, Recorrect(clean)
  PROVE  LoopInv'
<1>1. /\ UNCHANGED <<turn, late, streak, gates>> /\ UNCHANGED work
      /\ at = "recorrect" /\ at' = "verify" /\ rounds' = rounds + 1
      /\ \/ draft' = Incomplete /\ blocking' = blocking
         \/ draft' = [Full EXCEPT !.facts = "clean"] /\ blocking' = blocking \ {"facts"}
  BY DEF Recorrect, given
<1>2. /\ draft' \in Drafts /\ draft'.facts # "conflict" /\ draft'.review # "flawed"
  <2>1. CASE draft' = Incomplete
    BY <2>1, IncompleteIs
  <2>2. CASE draft' = [Full EXCEPT !["facts"] = "clean"]
    BY <2>2, FullIs, FactsMarked
  <2> QED
    BY <1>1, <2>1, <2>2
<1>3. ~Unfinished
  BY <1>1, ControlFacts DEF Closing
<1>4. Still
  BY <1>1 DEF Still, Busy
<1>5. ControlTypes'
  <2>1. rounds' \in Nat /\ at' \in Points /\ blocking' \subseteq {"facts", "review"}
    BY <1>1, ControlFacts DEF Points
  <2> QED
    BY <1>1, <1>2, <2>1, ControlFacts DEF ControlTypes
<1>6. RoundsInv'
  BY <1>1, ControlFacts DEF RoundsInv
<1>7. (Unfinished' <=> Unfinished) => DraftInv'
  BY <1>1, <1>2, <1>3 DEF DraftInv
<1> QED
  BY <1>4, <1>5, <1>6, <1>7, StillStep

LEMMA ReverifyStep ==
  ASSUME LoopInv, NEW improved \in BOOLEAN, NEW verdict \in {"good", "flawed"},
         Reverify(improved, verdict)
  PROVE  LoopInv'
<1>1. /\ UNCHANGED <<turn, late, streak, gates>> /\ UNCHANGED work
      /\ at = "reverify" /\ at' = "best" /\ rounds' = rounds + 1
      /\ \/ draft' = Incomplete /\ blocking' = blocking
         \/ draft' = [Full EXCEPT !.review = verdict]
            /\ blocking' = IF verdict = "good" THEN blocking \ {"review"} ELSE blocking
  BY DEF Reverify, given
<1>2. /\ draft' \in Drafts /\ draft'.facts # "conflict"
      /\ draft'.review = "flawed" => "review" \in blocking'
  <2>1. CASE draft' = Incomplete
    BY <2>1, IncompleteIs
  <2>2. CASE draft' = [Full EXCEPT !["review"] = verdict]
    <3>1. draft' \in Drafts /\ draft'.facts = "unchecked" /\ draft'.review = verdict
      <4>1. verdict \in {"unchecked", "good", "flawed"}
        OBVIOUS
      <4> QED
        BY <2>2, <4>1, FullIs, ReviewMarked
    <3>2. verdict = "flawed" => "review" \in blocking'
      BY <1>1, ControlFacts
    <3> QED
      BY <3>1, <3>2
  <2> QED
    BY <1>1, <2>1, <2>2
<1>3. ~Unfinished
  BY <1>1, ControlFacts DEF Closing
<1>4. Still
  BY <1>1 DEF Still, Busy
<1>5. ControlTypes'
  <2>1. rounds' \in Nat /\ at' \in Points /\ blocking' \subseteq {"facts", "review"}
    BY <1>1, ControlFacts DEF Points
  <2> QED
    BY <1>1, <1>2, <2>1, ControlFacts DEF ControlTypes
<1>6. RoundsInv'
  BY <1>1, ControlFacts DEF RoundsInv
<1>7. (Unfinished' <=> Unfinished) => DraftInv'
  BY <1>1, <1>2, <1>3 DEF DraftInv
<1> QED
  BY <1>4, <1>5, <1>6, <1>7, StillStep

LEMMA CandidateStep ==
  ASSUME LoopInv, NEW facts \in {"unchecked", "clean", "unsure", "conflict"},
         NEW review \in {"unchecked", "good", "flawed"}, Candidate(facts, review)
  PROVE  LoopInv'
<1> DEFINE c == [Full EXCEPT !.facts = facts, !.review = review]
<1>1. /\ UNCHANGED <<turn, late, streak, gates, rounds>> /\ UNCHANGED work
      /\ at = "best" /\ ~draft.incomplete /\ at' = "end" /\ blocking' = blocking \ gates
      /\ draft' = c /\ SafeCandidate(c)
      /\ facts = "unchecked" <=> "facts" \notin gates
      /\ review = "unchecked" <=> "review" \notin gates
  BY DEF Candidate, Gated, given
<1>2. c \in Drafts /\ c.facts = facts /\ c.review = review
  BY DEF Full, Draft, Drafts
<1> HIDE DEF c
<1>3. draft' \in Drafts /\ draft'.facts # "conflict" /\ draft'.review # "flawed"
  BY <1>1, <1>2 DEF SafeCandidate
<1>4. ~Unfinished
  BY <1>1, ControlFacts DEF Closing
<1>5. Still
  BY <1>1 DEF Still, Busy
<1>6. ControlTypes'
  <2>1. at' \in Points /\ blocking' \subseteq {"facts", "review"}
    BY <1>1, ControlFacts DEF Points
  <2> QED
    BY <1>1, <1>3, <2>1, ControlFacts DEF ControlTypes
<1>7. RoundsInv'
  BY <1>1, ControlFacts DEF RoundsInv
<1>8. (Unfinished' <=> Unfinished) => DraftInv'
  BY <1>1, <1>3, <1>4 DEF DraftInv
<1> QED
  BY <1>5, <1>6, <1>7, <1>8, StillStep

-----------------------------------------------------------------------------
(* AgentLoop: the steps that do the work                                   *)

(* Putting a step together that does work but leaves the draft alone.      *)
LEMMA WorkStep ==
  ASSUME LoopInv, WorkTypes', RoundInv', TraceInv', LogInv', NotedInv',
         UNCHANGED <<turn, rounds, gates, blocking>>, late' \in BOOLEAN,
         streak' \in [silent : Nat, nudges : Nat, idle : Nat],
         \/ at' \in {"reads", "changes", "top"} /\ draft' = draft
         \/ at' = "last" /\ draft' = draft /\ rounds < turn.maxRounds
         \/ at' = "correct" /\ draft' = Incomplete
  PROVE  LoopInv'
<1>1. draft' \in Drafts
  BY IncompleteIs, ControlFacts
<1>2. ControlTypes'
  <2>1. at' \in Points
    BY DEF Points
  <2> QED
    BY <1>1, <2>1, ControlFacts DEF ControlTypes
<1>3. LoopTypeOK'
  BY <1>2, TypesSplit, PTL
<1>4. RoundsInv'
  BY ControlFacts DEF RoundsInv
<1>5. DraftInv'
  <2>1. draft'.facts = "conflict" => "facts" \in blocking'
    BY IncompleteIs, ControlFacts
  <2>2. draft'.review = "flawed" => "review" \in blocking'
    BY IncompleteIs, ControlFacts
  <2>3. at' \in {"correct", "reads", "changes", "top", "last"}
    OBVIOUS
  <2>4. at' \in Closing => draft'.incomplete
    BY IncompleteIs DEF Closing
  <2> QED
    BY <2>1, <2>2, <2>3, <2>4 DEF DraftInv
<1> QED
  BY <1>3, <1>4, <1>5 DEF LoopInv

LEMMA AskToolsStep ==
  ASSUME LoopInv, NEW n \in 1..Slots, NEW calls \in [1..n -> Tools], AskTools(calls)
  PROVE  LoopInv'
<1>a. /\ RoundInv /\ TraceInv /\ LogInv /\ NotedInv /\ WorkTypes
  BY TypesSplit DEF LoopInv
<1>b. /\ asked \in Seq(Tools) /\ total \in 0..Len(log) /\ log \in Seq(Entries) /\ Len(log) \in Nat
  BY <1>a DEF WorkTypes
<1>1. /\ UNCHANGED <<turn, late, streak, rounds, gates, blocking>>
      /\ UNCHANGED <<log, total, noted, trace, once, turnCache, observed>> /\ at = "ask"
      /\ \/ at' = "correct" /\ draft' = Incomplete /\ asked' = asked
         \/ at' = "reads" /\ draft' = draft /\ asked' = calls
  BY DEF AskTools, Finishes, given
<1>2. total = Len(log) /\ Len(log) <= MaxCalls
  BY <1>1, <1>a DEF RoundInv
<1>3. n \in Nat /\ n <= MaxCalls - total
  <2>1. Slots \in Int /\ Slots <= MaxCalls - total
    BY <1>b, LoopAssumption DEF Slots
  <2>2. n \in Nat /\ n <= Slots /\ MaxCalls - total \in Int
    BY <1>b, <2>1, LoopAssumption
  <2> QED
    BY <2>1, <2>2
<1>4. calls \in Seq(Tools) /\ Len(calls) = n
  BY <1>3
<1>5. WorkTypes'
  <2>1. asked' \in Seq(Tools)
    BY <1>1, <1>4, <1>b
  <2> QED
    BY <1>1, <1>a, <2>1 DEF WorkTypes
<1>6. RoundInv'
  <2>1. CASE at' = "correct"
    BY <1>1, <1>2, <2>1 DEF RoundInv
  <2>2. CASE at' = "reads"
    <3>1. total' = Len(log') /\ Len(asked') <= MaxCalls - total'
      BY <1>1, <1>2, <1>3, <1>4, <2>2
    <3> QED
      BY <2>2, <3>1 DEF RoundInv
  <2> QED
    BY <1>1, <2>1, <2>2
<1>7. TraceInv'
  <2>1. trace' = trace /\ total' = total /\ log' = log
    BY <1>1
  <2>2. /\ {trace'[i] : i \in 1..total'} = {trace[i] : i \in 1..total}
        /\ {log'[i] : i \in 1..total'} = {log[i] : i \in 1..total}
    BY <2>1
  <2> QED
    BY <1>a, <2>1, <2>2 DEF TraceInv
<1>8. LogInv'
  BY <1>1, <1>a DEF LogInv, OnceInv, CacheInv, FreshInv
<1>9. NotedInv'
  BY <1>1, <1>a DEF NotedInv
<1>10. late' \in BOOLEAN /\ streak' \in [silent : Nat, nudges : Nat, idle : Nat]
  BY <1>1, ControlFacts
<1>11. \/ at' \in {"reads", "changes", "top"} /\ draft' = draft
       \/ at' = "last" /\ draft' = draft /\ rounds < turn.maxRounds
       \/ at' = "correct" /\ draft' = Incomplete
  BY <1>1
<1>12. UNCHANGED <<turn, rounds, gates, blocking>>
  BY <1>1
<1> QED
  BY <1>5, <1>6, <1>7, <1>8, <1>9, <1>10, <1>11, <1>12, WorkStep

LEMMA CallStep ==
  ASSUME LoopInv, RunReads \/ RunChange \/ CutOff
  PROVE  LoopInv'
<1>a. LoopTypeOK /\ RoundInv /\ TraceInv /\ LogInv /\ NotedInv /\ WorkTypes
  BY TypesSplit DEF LoopInv
<1>1. /\ \E new : Extended(new)
      /\ observed' \in Seq(Tools) /\ turnCache' \subseteq Reads /\ once' \subseteq Changes
      /\ late' \in BOOLEAN
  <2>1. CASE RunReads
    BY <1>a, <2>1, ReadsEffect DEF LoopTypeOK
  <2>2. CASE RunChange \/ CutOff
    BY <1>a, <2>2, ChangesEffect
  <2> QED
    BY <2>1, <2>2
<1>2. PICK new : Extended(new)
  BY <1>1
<1>3. RoundInv' /\ TraceInv' /\ NotedInv' /\ LogInv'
  BY <1>a, <1>2, RoundExtended, TraceExtended, LogExtended
<1>4. /\ UNCHANGED <<turn, rounds, asked, total, noted, trace, draft, gates, blocking>>
      /\ at' = "changes"
  BY <1>2 DEF Extended
<1>5. WorkTypes'
  <2>1. log' \in Seq(Entries) /\ total \in 0..Len(log')
    BY <1>a, <1>2, Longer2
  <2> QED
    BY <1>a, <1>1, <1>4, <2>1 DEF WorkTypes
<1>6. streak' = streak
  BY DEF RunReads, RunChange, CutOff
<1>7. streak' \in [silent : Nat, nudges : Nat, idle : Nat]
  BY <1>6, ControlFacts
<1>8. UNCHANGED <<turn, rounds, gates, blocking>> /\ draft' = draft
  BY <1>4
<1> QED
  BY <1>1, <1>3, <1>4, <1>5, <1>7, <1>8, WorkStep

LEMMA SettlesStep ==
  ASSUME LoopInv, NEW drifts \in BOOLEAN, Settle(drifts)
  PROVE  LoopInv'
<1>a. WorkTypes
  BY TypesSplit DEF LoopInv
<1>1. /\ RoundInv' /\ TraceInv' /\ LogInv' /\ NotedInv'
      /\ trace' \in Seq(Entries) /\ total' \in 0..Len(log') /\ noted' \in Memory
  BY SettleStep
<1>2. /\ UNCHANGED <<turn, late, rounds, log, once, turnCache, observed, gates, blocking>>
      /\ asked' = <<>>
  BY DEF Settle, given
<1>3. WorkTypes'
  <2>1. asked' \in Seq(Tools)
    BY <1>2
  <2> QED
    BY <1>a, <1>1, <1>2, <2>1 DEF WorkTypes
<1>4. streak' \in [silent : Nat, nudges : Nat, idle : Nat]
  <2>1. \E idle \in Nat : streak' = streak \/ streak' = [streak EXCEPT !.silent = 0, !.idle = idle]
    <3>1. streak.idle + 1 \in Nat /\ 0 \in Nat
      BY ControlFacts
    <3> QED
      BY <3>1 DEF Settle
  <2>2. PICK idle \in Nat : streak' = streak \/ streak' = [streak EXCEPT !.silent = 0, !.idle = idle]
    BY <2>1
  <2>3. [streak EXCEPT !.silent = 0, !.idle = idle] \in [silent : Nat, nudges : Nat, idle : Nat]
    BY ControlFacts
  <2> QED
    BY <2>2, <2>3, ControlFacts
<1>5. \/ at' \in {"reads", "changes", "top"} /\ draft' = draft
      \/ at' = "last" /\ draft' = draft /\ rounds < turn.maxRounds
      \/ at' = "correct" /\ draft' = Incomplete
  BY DEF Settle, Finishes, FollowUp
<1>6. UNCHANGED <<turn, rounds, gates, blocking>> /\ late' \in BOOLEAN
  BY <1>2, ControlFacts
<1> QED
  BY <1>1, <1>3, <1>4, <1>5, <1>6, WorkStep

-----------------------------------------------------------------------------
(* AgentLoop: the theorems                                                 *)

LEMMA LoopStarts == LoopInit => LoopInv
<1> SUFFICES ASSUME LoopInit PROVE LoopInv
  OBVIOUS
<1>1. /\ at = "top" /\ late = FALSE /\ rounds = 0 /\ asked = <<>> /\ log = <<>> /\ total = 0
      /\ trace = <<>> /\ once = {} /\ turnCache = {} /\ observed = <<>> /\ gates = {} /\ blocking = {}
      /\ draft = Incomplete /\ Len(log) = 0 /\ Len(trace) = 0 /\ 1..0 = {}
  BY DEF LoopInit
<1>2. noted = [last |-> "none", writes |-> FALSE, verified |-> FALSE]
  BY DEF LoopInit
<1>3. noted \in Memory
  BY <1>2 DEF Memory
<1>4. WorkTypes
  BY <1>1, <1>3 DEF WorkTypes
<1>5. turn \in [action : BOOLEAN, maxRounds : Int] /\ 0 <= turn.maxRounds
  <2>1. turn \in [action : BOOLEAN, maxRounds : {HardCap - 1, HardCap}]
    BY DEF LoopInit
  <2>2. HardCap - 1 \in Nat /\ HardCap \in Int
    BY LoopAssumption
  <2>3. turn.maxRounds \in {HardCap - 1, HardCap} /\ turn.action \in BOOLEAN
    BY <2>1
  <2>4. turn = [action |-> turn.action, maxRounds |-> turn.maxRounds]
    BY <2>1
  <2>5. turn.maxRounds \in Int /\ 0 <= turn.maxRounds
    BY <2>2, <2>3
  <2> QED
    BY <2>3, <2>4, <2>5
<1>6. ControlTypes
  <2>1. streak \in [silent : Nat, nudges : Nat, idle : Nat]
    BY DEF LoopInit
  <2> QED
    BY <1>1, <1>5, <2>1, IncompleteIs DEF ControlTypes, Points
<1>7. RoundInv
  BY <1>1, LoopAssumption DEF RoundInv
<1>8. TraceInv
  BY <1>1 DEF TraceInv
<1>9. LogInv
  BY <1>1 DEF LogInv, OnceInv, CacheInv, FreshInv
<1>10. NotedInv
  BY <1>1, <1>3 DEF NotedInv, Describes
<1>11. DraftInv
  BY <1>1, IncompleteIs DEF DraftInv, Closing
<1>12. RoundsInv
  BY <1>1, <1>5 DEF RoundsInv
<1> QED
  BY <1>4, <1>6, <1>7, <1>8, <1>9, <1>10, <1>11, <1>12, TypesSplit DEF LoopInv

LEMMA LoopSteps == LoopInv /\ [LoopNext]_loopVars => LoopInv'
<1> SUFFICES ASSUME LoopInv, [LoopNext]_loopVars PROVE LoopInv'
  OBVIOUS
<1>1. CASE UNCHANGED loopVars
  <2>1. UNCHANGED work /\ UNCHANGED Control
    BY <1>1 DEF loopVars, work, Control
  <2>2. Still
    BY <1>1 DEF Still, loopVars, work
  <2>3. ControlTypes' /\ RoundsInv'
    BY <2>1, TypesSplit DEF LoopInv, ControlTypes, RoundsInv, Control
  <2>4. (Unfinished' <=> Unfinished) => DraftInv'
    BY <2>1 DEF LoopInv, DraftInv, Control
  <2> QED
    BY <2>2, <2>3, <2>4, StillStep
<1>2. CASE \E stopped \in BOOLEAN : Top(stopped)
  BY <1>2, TopStep
<1>3. CASE OutOfTime
  BY <1>3, OutOfTimeStep
<1>4. CASE \E n \in 1..Slots : \E calls \in [1..n -> Tools] : AskTools(calls)
  BY <1>4, AskToolsStep
<1>5. CASE \E empty \in BOOLEAN : Summarize(empty) \/ \E promises \in BOOLEAN : Say(empty, promises)
  BY <1>5, SummarizeStep, SayStep
<1>6. CASE RunReads \/ RunChange \/ CutOff
  BY <1>6, CallStep
<1>7. CASE \E drifts \in BOOLEAN : Settle(drifts)
  BY <1>7, SettlesStep
<1>8. CASE GateOutOfTime
  BY <1>8, GateOutOfTimeStep
<1>9. CASE \E verdict \in {"clean", "unsure", "conflict"} : Correct(verdict)
  BY <1>9, PassGateEffect DEF Correct
<1>10. CASE \E verdict \in {"good", "flawed"} :
              Verify(verdict) \/ \E improved \in BOOLEAN : Reverify(improved, verdict)
  BY <1>10, PassGateEffect, ReverifyStep DEF Verify
<1>11. CASE \E clean \in BOOLEAN : Recorrect(clean)
  BY <1>11, RecorrectStep
<1>12. CASE \E facts \in {"unchecked", "clean", "unsure", "conflict"},
               review \in {"unchecked", "good", "flawed"} : Candidate(facts, review)
  BY <1>12, CandidateStep
<1>13. CASE Raise \/ Skip \/ Return \/ Expire \/ \E counts \in 0..1 : RevisionFails(counts)
  BY <1>13, PlainStep
<1> QED
  BY <1>1, <1>2, <1>3, <1>4, <1>5, <1>6, <1>7, <1>8, <1>9, <1>10, <1>11, <1>12, <1>13 DEF LoopNext

LEMMA LoopInvariant == LoopSpec => []LoopInv
  BY LoopStarts, LoopSteps, PTL DEF LoopSpec

(* The variables of the loop keep their types. *)
THEOREM LoopTypes == LoopSpec => []LoopTypeOK
<1>1. LoopInv => LoopTypeOK
  BY DEF LoopInv
<1> QED
  BY <1>1, LoopInvariant, PTL

(* No turn makes more calls or asks for more generations than its limits   *)
(* allow: the calls of the last round, the summary and the revisions of    *)
(* the gates are in the account.                                           *)
THEOREM LimitsHold == LoopSpec => []WithinLimits
<1>1. LoopInv => WithinLimits
  <2> SUFFICES ASSUME LoopInv PROVE WithinLimits
    OBVIOUS
  <2>a. LoopTypeOK /\ RoundInv /\ RoundsInv
    BY DEF LoopInv
  <2>b. Len(log) \in Nat /\ total \in 0..Len(log) /\ Len(asked) \in Nat /\ MaxCalls \in Nat
    BY <2>a, LoopAssumption DEF LoopTypeOK
  <2>1. CASE at = "changes"
    <3>1. Len(log) - total <= Len(asked)
      BY <2>a, <2>1, ResultPlaces
    <3>2. Len(asked) <= MaxCalls - total
      BY <2>a, <2>1 DEF RoundInv
    <3> QED
      BY <2>a, <2>b, <3>1, <3>2 DEF WithinLimits, RoundsInv
  <2>2. CASE at = "reads"
    <3>1. total = Len(log) /\ Len(asked) <= MaxCalls - total
      BY <2>a, <2>2 DEF RoundInv
    <3> QED
      BY <2>a, <2>b, <3>1 DEF WithinLimits, RoundsInv
  <2>3. CASE at \notin {"reads", "changes"}
    BY <2>a, <2>3 DEF WithinLimits, RoundsInv, RoundInv
  <2> QED
    BY <2>1, <2>2, <2>3
<1> QED
  BY <1>1, LoopInvariant, PTL

(* A turn makes no change twice, and its cache never answers with what was *)
(* read before the last change that succeeded.                             *)
THEOREM NothingTwiceNothingStale == LoopSpec => []MadeOnceSeenFresh
<1>1. LoopInv => MadeOnceSeenFresh
  <2> SUFFICES ASSUME LoopInv PROVE MadeOnceSeenFresh
    OBVIOUS
  <2>a. OnceInv /\ FreshInv /\ DOMAIN log = 1..Len(log) /\ Len(log) \in Nat
    BY DEF LoopInv, LogInv, LoopTypeOK
  <2> DEFINE made == {i \in DOMAIN log : log[i].call \in Changes /\ log[i].outcome = "ok"}
  <2>1. \A i : i \in made <=> i \in 1..Len(log) /\ OkChange(log[i])
    BY <2>a DEF OkChange
  <2>2. \A i, j \in made : log[i].call = log[j].call => i = j
    BY <2>a, <2>1 DEF OnceInv
  <2> HIDE DEF made
  <2>3. ASSUME NEW i \in DOMAIN log, log[i].outcome = "cached"
        PROVE  \E j \in 1..i - 1 : /\ log[j].call = log[i].call /\ log[j].outcome = "ok"
                                   /\ \A c \in made : ~(j < c /\ c < i)
    <3>1. Seen(log, log[i].call, i - 1)
      BY <2>a, <2>3 DEF FreshInv
    <3>2. PICK j \in 1..i - 1 : /\ log[j].call = log[i].call /\ log[j].outcome = "ok"
                                /\ \A c \in j + 1..i - 1 : ~OkChange(log[c])
      BY <3>1 DEF Seen
    <3>3. ASSUME NEW c \in made, j < c, c < i PROVE FALSE
      <4>1. c \in j + 1..i - 1 /\ OkChange(log[c])
        BY <2>a, <2>1, <3>3
      <4> QED
        BY <3>2, <4>1
    <3> QED
      BY <3>2, <3>3
  <2> QED
    BY <2>2, <2>3 DEF MadeOnceSeenFresh, made
<1> QED
  BY <1>1, LoopInvariant, PTL

(* Whatever limit, gate or answer ends a turn, its trace is what was done, *)
(* and a reply is accepted only when the last change was made and seen.    *)
THEOREM TheReportIsTrue == LoopSpec => []ReportIsTrue
<1>1. LoopInv => NothingDoneUnseen
  <2> SUFFICES ASSUME LoopInv, Ended, at # "raised"
               PROVE  Len(trace) = Len(log) /\ Range(trace) = Range(log)
    BY DEF NothingDoneUnseen
  <2>a. LoopTypeOK /\ RoundInv /\ TraceInv
    BY DEF LoopInv
  <2>1. total = Len(log)
    BY <2>a DEF RoundInv, Ended
  <2>2. Len(trace) = Len(log)
    BY <2>1, <2>a DEF TraceInv
  <2>3. DOMAIN trace = 1..total /\ DOMAIN log = 1..total
    BY <2>1, <2>2, <2>a DEF LoopTypeOK
  <2>4. Range(trace) = Range(log)
    <3>1. {trace[i] : i \in 1..total} = {log[i] : i \in 1..total}
      BY <2>a DEF TraceInv
    <3> QED
      BY <2>3, <3>1 DEF Range
  <2> QED
    BY <2>2, <2>4
<1>2. LoopInv => AcceptedIsSound
  <2> SUFFICES ASSUME LoopInv, at = "accepted"
               PROVE  /\ draft.facts # "conflict" /\ draft.review # "flawed"
                      /\ LET made == {i \in DOMAIN log : log[i].call \in Changes /\ Executed(log[i].outcome)} IN
                         \A i \in made : (\A j \in made : j <= i) =>
                           /\ log[i].outcome = "ok"
                           /\ \E j \in i + 1..Len(log) : log[j].call \in Reads /\ Done(log[j].outcome)
    BY DEF AcceptedIsSound
  <2>a. LoopTypeOK /\ RoundInv /\ NotedInv
    BY DEF LoopInv
  <2>1. draft.facts # "conflict" /\ draft.review # "flawed" /\ ~Unfinished
    BY ControlFacts DEF Closing
  <2>2. DOMAIN log = 1..Len(log) /\ Len(log) \in Nat /\ total = Len(log)
    BY <2>a DEF RoundInv, LoopTypeOK
  <2> DEFINE made == {i \in DOMAIN log : log[i].call \in Changes /\ Executed(log[i].outcome)}
  <2>3. \A i : i \in made <=> i \in 1..Len(log) /\ Ran(log[i])
    BY <2>2 DEF Ran
  <2> HIDE DEF made
  <2>4. ASSUME NEW i \in made, \A j \in made : j <= i
        PROVE  /\ log[i].outcome = "ok"
               /\ \E j \in i + 1..Len(log) : log[j].call \in Reads /\ Done(log[j].outcome)
    <3>1. i \in 1..Len(log) /\ Ran(log[i])
      BY <2>3
    <3>2. ASSUME NEW j \in i + 1..Len(log) PROVE ~Ran(log[j])
      BY <2>2, <2>3, <2>4, <3>1
    <3>3. /\ noted.last = IF log[i].outcome = "ok" THEN "done" ELSE "failed"
          /\ noted.last = "done" => noted.writes
          /\ noted.verified => \E j \in i + 1..Len(log) : Sighting(log[j])
      BY <2>a, <2>2, <3>1, <3>2 DEF NotedInv, Describes
    <3>4. noted.last # "failed" /\ (noted.writes => noted.verified)
      BY <2>1 DEF Unfinished
    <3> QED
      BY <3>3, <3>4 DEF Sighting
  <2> QED
    BY <2>1, <2>4 DEF made
<1> QED
  BY <1>1, <1>2, LoopInvariant, PTL DEF ReportIsTrue

-----------------------------------------------------------------------------
(* Generation                                                              *)

(* Where a generation stands: a stream or a plain request asks the model   *)
(* it began with, a fallback a model not yet known to be unhealthy, and    *)
(* both a fallback and the last resort follow a failure of the first one.  *)
StandsInv ==
    /\ gen.way \in {"stream", "chat", "resort"} => gen.at = gen.first
    /\ gen.way = "fallback" => gen.at \notin unhealthy
    /\ gen.way \in {"fallback", "resort"} => gen.first \in unhealthy

(* What failed or was replaced is unhealthy, and neither the active model  *)
(* nor the one a generation began with has been replaced.                  *)
HealthInv ==
    /\ failed \subseteq unhealthy /\ replaced \subseteq unhealthy
    /\ active \notin replaced
    /\ Asking => gen.first \notin replaced

GenerationInv == GenerationTypeOK /\ StandsInv /\ HealthInv

GenerationRecord ==
    [kind : {"none", "loop", "revision"},
     way : {"none", "stream", "chat", "fallback", "resort", "raised"},
     first : Models, at : Models, error : {"none", "down", "denied", "spend"}]

LEMMA NoGenerationTyped == NoGeneration \in GenerationRecord /\ Primary \in Models
<1>1. Primary \in Models
  BY DEF Models
<1> QED
  BY <1>1 DEF NoGeneration, GenerationRecord

LEMMA RaisesStands ==
  ASSUME gen \in GenerationRecord, NEW error, Raises(error)
  PROVE  gen' \in GenerationRecord /\ gen'.way \in {"none", "raised"}
<1>1. NoGeneration.way = "none"
  BY DEF NoGeneration
<1> QED
  BY <1>1, NoGenerationTyped DEF Raises, GenerationRecord

LEMMA EligibleModels ==
  ASSUME NEW bad, NEW i \in Eligible(bad)
  PROVE  Failover[i] \in Models /\ Failover[i] \notin bad /\ Failover[i] # gen.first
  BY DEF Eligible, Models

(* The next try of a generation that asks: another fallback, the last      *)
(* resort, or none.                                                        *)
LEMMA NextTryStands ==
  ASSUME GenerationTypeOK, Asking, NEW bad, NEW error \in {"down", "denied", "spend"},
         gen.first \in bad, NextTry(error, bad)
  PROVE  /\ gen' \in GenerationRecord
         /\ \/ gen'.way \in {"none", "raised"}
            \/ gen'.way = "resort" /\ gen'.at = gen.first /\ gen'.first = gen.first
            \/ gen'.way = "fallback" /\ gen'.at \notin bad /\ gen'.first = gen.first
<1>1. CASE error = "down" /\ Eligible(bad) # {}
  <2>1. PICK next \in Eligible(bad) :
          gen' = [gen EXCEPT !.way = "fallback", !.at = Failover[next], !.error = error]
    BY <1>1, Zenon DEF NextTry
  <2> QED
    BY <2>1, EligibleModels DEF GenerationTypeOK, GenerationRecord
<1>2. CASE ~(error = "down" /\ Eligible(bad) # {}) /\ Raises(error)
  BY <1>2, RaisesStands DEF GenerationTypeOK, GenerationRecord
<1>3. CASE ~(error = "down" /\ Eligible(bad) # {})
           /\ gen' = [gen EXCEPT !.way = "resort", !.at = gen.first, !.error = error]
  BY <1>3 DEF GenerationTypeOK, GenerationRecord
<1> QED
  BY <1>1, <1>2, <1>3, Zenon DEF NextTry

LEMMA GenerationInvInit == GenerationInit => GenerationInv
<1> SUFFICES ASSUME GenerationInit PROVE GenerationInv
  OBVIOUS
<1>1. gen.way = "none" /\ GenerationTypeOK
  BY GenerationAssumption, NoGenerationTyped
     DEF GenerationInit, NoGeneration, GenerationTypeOK, GenerationRecord
<1> QED
  BY <1>1 DEF GenerationInit, GenerationInv, StandsInv, HealthInv, Asking

LEMMA GenerationInvStep == GenerationInv /\ [GenerationNext]_generationVars => GenerationInv'
<1> SUFFICES ASSUME GenerationInv, [GenerationNext]_generationVars PROVE GenerationInv'
  OBVIOUS
<1> USE DEF GenerationInv
<1>1. ASSUME NEW kind \in {"loop", "revision"}, Generate(kind) PROVE GenerationInv'
  BY <1>1, GenerationAssumption DEF Generate, GenerationTypeOK, StandsInv, HealthInv, Asking
<1>2. CASE Answer
  <2>1. Asking /\ gen' = NoGeneration /\ active' = Sticky /\ UNCHANGED <<unhealthy, failed, streams, generations>>
        /\ replaced' = IF gen.way = "fallback" THEN replaced \cup {gen.first} ELSE replaced
    BY <1>2 DEF Answer, Answered
  <2>2. GenerationTypeOK'
    BY <2>1 DEF GenerationTypeOK, Sticky, NoGeneration, Models
  <2>3. gen.way = "fallback" => gen.at # gen.first
    BY DEF StandsInv
  <2> QED
    BY <2>1, <2>2, <2>3 DEF StandsInv, HealthInv, Sticky, NoGeneration, Asking
<1>3. CASE TimeRunsOut
  BY <1>3 DEF TimeRunsOut, Answered, NoGeneration, GenerationTypeOK, StandsInv, HealthInv, Asking,
              Models
<1>4. ASSUME NEW complete \in BOOLEAN, Down(complete) PROVE GenerationInv'
  <2>1. /\ Asking /\ failed' = failed \cup {gen.at} /\ UNCHANGED <<streams, generations, replaced>>
        /\ active' = IF complete THEN Sticky ELSE active
    BY <1>4 DEF Down
  <2>2. active' \in Models /\ active' \notin replaced
    BY <2>1 DEF Sticky, GenerationTypeOK, StandsInv, HealthInv
  <2>3. gen.first \notin replaced /\ gen.at \in Models /\ gen.first \in Models
    BY <2>1 DEF HealthInv, GenerationTypeOK
  <2>4. CASE gen.way = "resort"
    <3>1. Raises(gen.error) /\ UNCHANGED unhealthy
      BY <1>4, <2>4 DEF Down
    <3>2. gen'.way \in {"none", "raised"} /\ GenerationTypeOK'
      BY <3>1, <2>1, <2>2, RaisesStands DEF GenerationTypeOK, GenerationRecord
    <3> QED
      BY <3>1, <3>2, <2>1, <2>2, <2>4 DEF StandsInv, HealthInv, Asking
  <2>5. CASE gen.way # "resort"
    <3>1. unhealthy' = unhealthy \cup {gen.at} /\ NextTry("down", unhealthy')
      BY <1>4, <2>5 DEF Down
    <3>2. gen.first \in unhealthy'
      BY <2>1, <2>5, <3>1 DEF StandsInv, Asking
    <3>3. /\ gen' \in GenerationRecord
          /\ \/ gen'.way \in {"none", "raised"}
             \/ gen'.way = "resort" /\ gen'.at = gen.first /\ gen'.first = gen.first
             \/ gen'.way = "fallback" /\ gen'.at \notin unhealthy' /\ gen'.first = gen.first
      BY <2>1, <3>1, <3>2, NextTryStands
    <3>4. GenerationTypeOK'
      BY <2>1, <2>2, <2>3, <3>1, <3>3 DEF GenerationTypeOK, GenerationRecord
    <3> QED
      BY <2>1, <2>2, <2>3, <3>1, <3>2, <3>3, <3>4 DEF StandsInv, HealthInv, Asking
  <2> QED
    BY <2>4, <2>5
<1>5. ASSUME NEW error \in {"denied", "spend"}, Refused(error) PROVE GenerationInv'
  <2>1. Asking /\ UNCHANGED <<streams, active, unhealthy, generations, failed, replaced>>
    BY <1>5 DEF Refused
  <2>2. /\ gen' \in GenerationRecord
        /\ \/ gen'.way \in {"none", "raised"}
           \/ gen'.way = "resort" /\ gen'.at = gen.first /\ gen'.first = gen.first
                /\ gen.first \in unhealthy
    <3>0. gen \in GenerationRecord
      BY DEF GenerationTypeOK, GenerationRecord
    <3>1. CASE gen.way \in {"stream", "chat"}
      <4>1. Raises(error)
        BY <1>5, <3>1 DEF Refused
      <4> QED
        BY <4>1, <3>0, RaisesStands
    <3>2. CASE gen.way = "fallback"
      <4>1. NextTry(error, unhealthy) /\ gen.first \in unhealthy
        BY <1>5, <3>2 DEF Refused, StandsInv
      <4>2. CASE Raises(error)
        BY <4>2, <3>0, RaisesStands
      <4>3. CASE gen' = [gen EXCEPT !.way = "resort", !.at = gen.first, !.error = error]
        BY <4>1, <4>3, <3>0 DEF GenerationRecord
      <4> QED
        BY <4>1, <4>2, <4>3 DEF NextTry
    <3>3. CASE gen.way = "resort"
      <4>1. Raises(gen.error)
        BY <1>5, <3>3 DEF Refused
      <4> QED
        BY <4>1, <3>0, RaisesStands
    <3> QED
      BY <2>1, <3>1, <3>2, <3>3 DEF Asking
  <2>3. GenerationTypeOK'
    BY <2>1, <2>2 DEF GenerationTypeOK, GenerationRecord
  <2> QED
    BY <2>1, <2>2, <2>3 DEF StandsInv, HealthInv, Asking
<1>6. CASE UNCHANGED generationVars
  BY <1>6 DEF generationVars, GenerationTypeOK, StandsInv, HealthInv, Asking
<1> QED
  BY <1>1, <1>2, <1>3, <1>4, <1>5, <1>6 DEF GenerationNext

(* The model a turn talks to, the models it has given up and the request   *)
(* under way have the types the code gives them, whatever is answered.     *)
THEOREM GenerationTypeCorrect == GenerationSpec => []GenerationTypeOK
<1>1. GenerationInv => GenerationTypeOK
  BY DEF GenerationInv
<1> QED
  BY <1>1, GenerationInvInit, GenerationInvStep, PTL DEF GenerationSpec

(* Once another model has answered for one that failed, that one is not    *)
(* asked again in the turn, and a model that failed is nobody's fallback:  *)
(* for any list of failover models, also one that repeats the primary.     *)
THEOREM FailoversStick == GenerationSpec => []FailoverSticks
<1>1. GenerationInv => FailoverSticks
  BY DEF GenerationInv, StandsInv, HealthInv, FailoverSticks, Asking
<1> QED
  BY <1>1, GenerationInvInit, GenerationInvStep, PTL DEF GenerationSpec

-----------------------------------------------------------------------------
(* GatewayBreaker: counting in a filter                                    *)

(* How many of the first n items are in R. *)
Count(s, n, R) == Cardinality({i \in 1..n : s[i] \in R})

LEMMA CountType ==
  ASSUME NEW s, NEW n \in Nat, NEW R
  PROVE  IsFiniteSet({i \in 1..n : s[i] \in R}) /\ Count(s, n, R) \in Nat
<1>1. IsFiniteSet(1..n)
  BY FS_Interval
<1>2. IsFiniteSet({i \in 1..n : s[i] \in R})
  BY <1>1, FS_Subset
<1> QED
  BY <1>2, FS_CardinalityType DEF Count

LEMMA CountStep ==
  ASSUME NEW s, NEW n \in Nat, NEW R
  PROVE  Count(s, n + 1, R) = Count(s, n, R) + (IF s[n + 1] \in R THEN 1 ELSE 0)
<1> DEFINE C(k) == {i \in 1..k : s[i] \in R}
<1>1. IsFiniteSet(C(n)) /\ Count(s, n, R) \in Nat
  BY CountType
<1>2. n + 1 \notin C(n)
  OBVIOUS
<1>3. CASE s[n + 1] \in R
  <2>1. C(n + 1) = C(n) \cup {n + 1}
    BY <1>3
  <2>2. Cardinality(C(n) \cup {n + 1}) = Cardinality(C(n)) + 1
    BY <1>1, <1>2, FS_AddElement
  <2> QED
    BY <1>3, <2>1, <2>2 DEF Count
<1>4. CASE s[n + 1] \notin R
  <2>1. C(n + 1) = C(n)
    BY <1>4
  <2> QED
    BY <1>1, <1>4, <2>1 DEF Count
<1> QED
  BY <1>3, <1>4

LEMMA CountAgrees ==
  ASSUME NEW s, NEW t, NEW n \in Nat, NEW R, NEW Q, \A i \in 1..n : s[i] \in R <=> t[i] \in Q
  PROVE  Count(s, n, R) = Count(t, n, Q)
<1>1. {i \in 1..n : s[i] \in R} = {i \in 1..n : t[i] \in Q}
  OBVIOUS
<1> QED
  BY <1>1 DEF Count

(* One item more at the end. *)
LEMMA CountAppend ==
  ASSUME NEW S, NEW s \in Seq(S), NEW x \in S, NEW R
  PROVE  Count(Append(s, x), Len(Append(s, x)), R)
           = Count(s, Len(s), R) + (IF x \in R THEN 1 ELSE 0)
<1> DEFINE t == Append(s, x)
           m == Len(s)
<1>1. Len(t) = m + 1 /\ m \in Nat /\ t[m + 1] = x /\ \A i \in 1..m : t[i] = s[i]
  BY AppendProperties
<1> HIDE DEF t, m
<1>2. Count(t, m, R) = Count(s, m, R)
  BY <1>1, CountAgrees
<1>3. Count(t, m + 1, R) = Count(t, m, R) + (IF t[m + 1] \in R THEN 1 ELSE 0)
  BY <1>1, CountStep
<1>4. Count(t, Len(t), R) = Count(s, m, R) + (IF x \in R THEN 1 ELSE 0)
  BY <1>1, <1>2, <1>3
<1> QED
  BY <1>4 DEF t, m

(* A filter keeps the count of what it lets through. *)
LEMMA OnlyCount ==
  ASSUME NEW S, NEW s \in Seq(S), NEW Q, NEW R, R \subseteq Q
  PROVE  Count(Only(s, Q), Len(Only(s, Q)), R) = Count(s, Len(s), R)
<1> DEFINE k == Kept(s, Q)
           T == {n \in Nat : n <= Len(s) => /\ k[n] \in Seq(S)
                                            /\ Count(k[n], Len(k[n]), R) = Count(s, n, R)}
<1>1. Len(s) \in Nat
  OBVIOUS
<1>2. /\ k[0] = <<>>
      /\ \A n \in 1..Len(s) : k[n] = IF s[n] \in Q THEN Append(k[n - 1], s[n]) ELSE k[n - 1]
  BY <1>1, KeptStep
<1> HIDE DEF k
<1>3. 0 \in T
  <2>1. Len(<<>>) = 0 /\ <<>> \in Seq(S)
    OBVIOUS
  <2>2. Count(<<>>, 0, R) = Count(s, 0, R)
    BY DEF Count
  <2> QED
    BY <1>2, <2>1, <2>2
<1>4. ASSUME NEW n \in Nat, n \in T PROVE n + 1 \in T
  <2>1. ASSUME n + 1 <= Len(s)
        PROVE  k[n + 1] \in Seq(S) /\ Count(k[n + 1], Len(k[n + 1]), R) = Count(s, n + 1, R)
    <3>1. n + 1 \in 1..Len(s) /\ (n + 1) - 1 = n /\ n <= Len(s)
      BY <1>1, <2>1
    <3>2. k[n + 1] = IF s[n + 1] \in Q THEN Append(k[n], s[n + 1]) ELSE k[n]
      BY <1>2, <3>1
    <3>3. k[n] \in Seq(S) /\ Count(k[n], Len(k[n]), R) = Count(s, n, R) /\ s[n + 1] \in S
      BY <1>4, <3>1
    <3>4. Count(s, n + 1, R) = Count(s, n, R) + (IF s[n + 1] \in R THEN 1 ELSE 0)
      BY CountStep
    <3>5. Count(s, n, R) \in Nat
      BY CountType
    <3>6. CASE s[n + 1] \in Q
      <4>1. Count(Append(k[n], s[n + 1]), Len(Append(k[n], s[n + 1])), R)
              = Count(k[n], Len(k[n]), R) + (IF s[n + 1] \in R THEN 1 ELSE 0)
        BY <3>3, CountAppend
      <4>2. Append(k[n], s[n + 1]) \in Seq(S)
        BY <3>3, AppendProperties
      <4> QED
        BY <3>2, <3>3, <3>4, <3>6, <4>1, <4>2
    <3>7. CASE s[n + 1] \notin Q
      <4>1. s[n + 1] \notin R
        BY <3>7
      <4> QED
        BY <3>2, <3>3, <3>4, <3>5, <3>7, <4>1
    <3> QED
      BY <3>6, <3>7
  <2>2. n + 1 \in Nat
    OBVIOUS
  <2> QED
    BY <2>1, <2>2
<1> HIDE DEF T
<1>5. Len(s) \in T
  BY <1>1, <1>3, <1>4, Inductive
<1> QED
  BY <1>1, <1>5 DEF T, Only, k

(* And it is as long as the number of what it lets through. *)
LEMMA OnlyLength ==
  ASSUME NEW S, NEW s \in Seq(S), NEW Q
  PROVE  Len(Only(s, Q)) = Count(s, Len(s), Q)
<1> DEFINE o == Only(s, Q)
<1>1. o \in Seq(S) /\ Len(o) \in Nat /\ \A x : Has(o, x) => x \in Q
  BY OnlyKeeps
<1> HIDE DEF o
<1>2. {i \in 1..Len(o) : o[i] \in Q} = 1..Len(o)
  BY <1>1 DEF Has
<1>3. Cardinality(1..Len(o)) = Len(o)
  <2>1. PICK n \in Nat : n = Len(o)
    BY <1>1
  <2>2. Cardinality(1..n) = IF 1 > n THEN 0 ELSE n - 1 + 1
    BY FS_Interval
  <2>3. Cardinality(1..n) = n
    BY <2>2
  <2> QED
    BY <2>1, <2>3
<1>4. Count(o, Len(o), Q) = Count(s, Len(s), Q)
  BY OnlyCount DEF o
<1> QED
  BY <1>2, <1>3, <1>4 DEF Count, o

-----------------------------------------------------------------------------
(* GatewayBreaker: the spend guard                                         *)

LEMMA WithinIsCount ==
  ASSUME NEW s \in Seq(Nat), NEW w \in Int
  PROVE  /\ CountWithin(s, w) = Count(s, Len(s), 0..w)
         /\ CountWithin(s, w) \in Nat
<1>1. DOMAIN s = 1..Len(s) /\ Len(s) \in Nat /\ \A i \in 1..Len(s) : s[i] \in Nat
  OBVIOUS
<1>2. {i \in DOMAIN s : s[i] <= w} = {i \in 1..Len(s) : s[i] \in 0..w}
  BY <1>1
<1>3. CountWithin(s, w) = Count(s, Len(s), 0..w)
  BY <1>2 DEF CountWithin, Count
<1> QED
  BY <1>1, <1>3, CountType

LEMMA YoungCount ==
  ASSUME NEW s \in Seq(Nat), NEW limit \in Nat
  PROVE  /\ Young(s, limit) \in Seq(Nat)
         /\ Len(Young(s, limit)) = CountWithin(s, limit)
         /\ \A w \in Int : w <= limit => CountWithin(Young(s, limit), w) = CountWithin(s, w)
<1>1. Young(s, limit) \in Seq(Nat)
  BY OnlyKeeps DEF Young
<1>2. Len(Young(s, limit)) = CountWithin(s, limit)
  BY OnlyLength, WithinIsCount DEF Young
<1>3. ASSUME NEW w \in Int, w <= limit PROVE CountWithin(Young(s, limit), w) = CountWithin(s, w)
  <2>1. 0..w \subseteq 0..limit
    BY <1>3
  <2>2. Count(Only(s, 0..limit), Len(Only(s, 0..limit)), 0..w) = Count(s, Len(s), 0..w)
    BY <2>1, OnlyCount
  <2> QED
    BY <1>1, <2>2, WithinIsCount DEF Young
<1> QED
  BY <1>1, <1>2, <1>3

(* One stamp more, of this moment. *)
LEMMA StampCount ==
  ASSUME NEW s \in Seq(Nat), NEW w \in Int
  PROVE  /\ Append(s, 0) \in Seq(Nat)
         /\ CountWithin(Append(s, 0), w) = CountWithin(s, w) + (IF w >= 0 THEN 1 ELSE 0)
<1>1. Append(s, 0) \in Seq(Nat)
  BY AppendProperties
<1>2. Count(Append(s, 0), Len(Append(s, 0)), 0..w)
        = Count(s, Len(s), 0..w) + (IF 0 \in 0..w THEN 1 ELSE 0)
  BY CountAppend
<1>3. 0 \in 0..w <=> w >= 0
  OBVIOUS
<1> QED
  BY <1>1, <1>2, <1>3, WithinIsCount

(* A moment later the ages up to w are those that were up to w - 1. *)
LEMMA OlderCount ==
  ASSUME NEW s \in Seq(Nat), NEW limit \in Nat
  PROVE  /\ Older(s, limit) \in Seq(Nat)
         /\ \A w \in Int : w <= limit => CountWithin(Older(s, limit), w) = CountWithin(s, w - 1)
<1> DEFINE o == Older(s, limit)
<1>1. /\ DOMAIN s = 1..Len(s) /\ Len(s) \in Nat /\ \A i \in 1..Len(s) : s[i] \in Nat
      /\ o = [i \in 1..Len(s) |-> IF s[i] > limit THEN s[i] ELSE s[i] + 1]
  BY DEF Older
<1> HIDE DEF o
<1>2. o \in Seq(Nat) /\ DOMAIN o = 1..Len(s)
  BY <1>1
<1>3. ASSUME NEW w \in Int, w <= limit PROVE CountWithin(o, w) = CountWithin(s, w - 1)
  <2>1. \A i \in 1..Len(s) : o[i] <= w <=> s[i] <= w - 1
    BY <1>1, <1>3
  <2>2. {i \in DOMAIN o : o[i] <= w} = {i \in DOMAIN s : s[i] <= w - 1}
    BY <1>1, <1>2, <2>1
  <2> QED
    BY <2>2 DEF CountWithin
<1> QED
  BY <1>2, <1>3 DEF o

LEMMA FewerBefore ==
  ASSUME NEW s \in Seq(Nat), NEW w \in Int
  PROVE  CountWithin(s, w - 1) <= CountWithin(s, w)
<1> DEFINE D(v) == {i \in 1..Len(s) : s[i] \in 0..v}
<1>1. IsFiniteSet(D(w))
  <2>1. Len(s) \in Nat
    OBVIOUS
  <2> QED
    BY <2>1, CountType
<1>2. D(w - 1) \in SUBSET D(w)
  OBVIOUS
<1>3. Cardinality(D(w - 1)) <= Cardinality(D(w))
  BY <1>1, <1>2, FS_Subset
<1> QED
  BY <1>3, WithinIsCount DEF Count

(* The stamps of a limit are those of the calls sent, as far back as its   *)
(* window reaches, and there are not more of them than it allows.          *)
Follows(stamp, calls, limit, allowed) ==
    /\ \A w \in Int : w <= limit => CountWithin(stamp, w) = CountWithin(calls, w)
    /\ CountWithin(stamp, limit) <= allowed

SpendInv ==
    /\ minute \in Seq(Nat) /\ hour \in Seq(Nat) /\ sent \in Seq(Nat)
    /\ PerMin > 0 => Follows(minute, sent, Minute, PerMin)
    /\ PerHour > 0 => Follows(hour, sent, Hour, PerHour)

LEMMA SpendInit == Init => SpendInv
<1> SUFFICES ASSUME Init PROVE SpendInv
  OBVIOUS
<1>1. minute = <<>> /\ hour = <<>> /\ sent = <<>> /\ <<>> \in Seq(Nat)
  BY DEF Init
<1>2. \A w : CountWithin(<<>>, w) = 0
  <2>1. \A w : {i \in DOMAIN <<>> : <<>>[i] <= w} = {}
    OBVIOUS
  <2> QED
    BY <2>1, FS_EmptySet DEF CountWithin
<1> QED
  BY <1>1, <1>2, BreakerAssumption DEF SpendInv, Follows

LEMMA TickFollows ==
  ASSUME NEW s \in Seq(Nat), NEW c \in Seq(Nat), NEW limit \in Nat, NEW far \in Nat, limit <= far,
         NEW allowed \in Nat, Follows(s, c, limit, allowed)
  PROVE  Follows(Older(s, limit), Older(c, far), limit, allowed)
<1>1. /\ \A w \in Int : w <= limit => CountWithin(Older(s, limit), w) = CountWithin(s, w - 1)
      /\ \A w \in Int : w <= far => CountWithin(Older(c, far), w) = CountWithin(c, w - 1)
  BY OlderCount
<1>2. ASSUME NEW w \in Int, w <= limit
      PROVE  CountWithin(Older(s, limit), w) = CountWithin(Older(c, far), w)
  <2>1. w <= far /\ w - 1 \in Int /\ w - 1 <= limit
    BY <1>2
  <2> QED
    BY <1>1, <1>2, <2>1 DEF Follows
<1>3. CountWithin(s, limit - 1) <= CountWithin(s, limit)
  BY FewerBefore
<1>4. /\ CountWithin(s, limit - 1) \in Nat /\ CountWithin(s, limit) \in Nat
      /\ CountWithin(Older(s, limit), limit) = CountWithin(s, limit - 1)
  BY <1>1, WithinIsCount
<1> QED
  BY <1>2, <1>3, <1>4 DEF Follows

LEMMA CallFollows ==
  ASSUME NEW s \in Seq(Nat), NEW c \in Seq(Nat), NEW limit \in Nat, NEW far \in Nat, limit <= far,
         NEW allowed \in Nat, Follows(s, c, limit, allowed), Len(Young(s, limit)) < allowed
  PROVE  Follows(Append(Young(s, limit), 0), Append(Young(c, far), 0), limit, allowed)
<1> DEFINE y == Young(s, limit)
           z == Young(c, far)
<1>1. /\ y \in Seq(Nat) /\ Len(y) = CountWithin(s, limit)
      /\ \A w \in Int : w <= limit => CountWithin(y, w) = CountWithin(s, w)
  BY YoungCount
<1>2. /\ z \in Seq(Nat)
      /\ \A w \in Int : w <= far => CountWithin(z, w) = CountWithin(c, w)
  BY YoungCount
<1>3. Len(y) < allowed
  OBVIOUS
<1> HIDE DEF y, z
<1>4. ASSUME NEW w \in Int, w <= limit
      PROVE  CountWithin(Append(y, 0), w) = CountWithin(Append(z, 0), w)
  <2>1. w <= far
    BY <1>4
  <2>2. CountWithin(y, w) = CountWithin(z, w)
    BY <1>1, <1>2, <1>4, <2>1 DEF Follows
  <2>3. /\ CountWithin(Append(y, 0), w) = CountWithin(y, w) + (IF w >= 0 THEN 1 ELSE 0)
        /\ CountWithin(Append(z, 0), w) = CountWithin(z, w) + (IF w >= 0 THEN 1 ELSE 0)
    BY <1>1, <1>2, StampCount
  <2> QED
    BY <2>2, <2>3
<1>5. CountWithin(Append(y, 0), limit) <= allowed
  <2>1. CountWithin(Append(y, 0), limit) = CountWithin(y, limit) + 1
    BY <1>1, StampCount
  <2>2. CountWithin(y, limit) = Len(y) /\ Len(y) \in Nat
    BY <1>1
  <2> QED
    BY <1>3, <2>1, <2>2
<1> QED
  BY <1>4, <1>5 DEF Follows, y, z

LEMMA SpendStep == SpendInv /\ [Next]_vars => SpendInv'
<1> SUFFICES ASSUME SpendInv, [Next]_vars PROVE SpendInv'
  OBVIOUS
<1> USE DEF stamps
<1>1. ASSUME UNCHANGED stamps PROVE SpendInv'
  BY <1>1 DEF SpendInv
<1>2. PICK m \in Nat, h \in Nat, pm \in Nat, ph \in Nat :
        m = Minute /\ h = Hour /\ pm = PerMin /\ ph = PerHour /\ m <= h
  BY BreakerAssumption
<1>3. /\ minute \in Seq(Nat) /\ hour \in Seq(Nat) /\ sent \in Seq(Nat)
      /\ pm > 0 => Follows(minute, sent, m, pm)
      /\ ph > 0 => Follows(hour, sent, h, ph)
  BY <1>2 DEF SpendInv
<1>4. ASSUME NEW c \in Calls, Begin(c) PROVE SpendInv'
  <2>1. /\ pm > 0 => Len(Young(minute, m)) < pm
        /\ ph > 0 => Len(Young(hour, h)) < ph
        /\ minute' = IF pm > 0 THEN Append(Young(minute, m), 0) ELSE minute
        /\ hour' = IF ph > 0 THEN Append(Young(hour, h), 0) ELSE hour
        /\ sent' = IF pm + ph > 0 THEN Append(Young(sent, h), 0) ELSE sent
    BY <1>2, <1>4 DEF Begin, Affordable, RecordSpend, InMinute, InHour
  <2>2. /\ Append(Young(minute, m), 0) \in Seq(Nat) /\ Append(Young(hour, h), 0) \in Seq(Nat)
        /\ Append(Young(sent, h), 0) \in Seq(Nat)
    <3>1. Young(minute, m) \in Seq(Nat) /\ Young(hour, h) \in Seq(Nat) /\ Young(sent, h) \in Seq(Nat)
      BY <1>3, YoungCount
    <3>2. 0 \in Nat
      OBVIOUS
    <3> QED
      BY <3>1, <3>2, AppendProperties
  <2>3. minute' \in Seq(Nat) /\ hour' \in Seq(Nat) /\ sent' \in Seq(Nat)
    BY <1>3, <2>1, <2>2
  <2>4. ASSUME pm > 0 PROVE Follows(minute', sent', m, pm)
    <3>1. pm + ph > 0
      BY <1>2, <2>4
    <3>2. Follows(Append(Young(minute, m), 0), Append(Young(sent, h), 0), m, pm)
      BY <1>2, <1>3, <2>1, <2>4, CallFollows
    <3> QED
      BY <2>1, <2>4, <3>1, <3>2
  <2>5. ASSUME ph > 0 PROVE Follows(hour', sent', h, ph)
    <3>1. pm + ph > 0 /\ h <= h
      BY <1>2, <2>5
    <3>2. Follows(Append(Young(hour, h), 0), Append(Young(sent, h), 0), h, ph)
      BY <1>2, <1>3, <2>1, <2>5, <3>1, CallFollows
    <3> QED
      BY <2>1, <2>5, <3>1, <3>2
  <2> QED
    BY <1>2, <2>3, <2>4, <2>5 DEF SpendInv
<1>5. ASSUME Tick PROVE SpendInv'
  <2>1. minute' = Older(minute, m) /\ hour' = Older(hour, h) /\ sent' = Older(sent, h) /\ h <= h
    BY <1>2, <1>5 DEF Tick
  <2>2. minute' \in Seq(Nat) /\ hour' \in Seq(Nat) /\ sent' \in Seq(Nat)
    BY <1>3, <2>1, OlderCount
  <2>3. pm > 0 => Follows(minute', sent', m, pm)
    BY <1>2, <1>3, <2>1, TickFollows
  <2>4. ph > 0 => Follows(hour', sent', h, ph)
    BY <1>2, <1>3, <2>1, TickFollows
  <2> QED
    BY <1>2, <2>2, <2>3, <2>4 DEF SpendInv
<1>6. ASSUME NEW c \in Calls,
             SpendGuardTripped(c) \/ Succeed(c) \/ Fail(c) \/ Abandon(c) \/ EndUnreported(c)
      PROVE  SpendInv'
  BY <1>1, <1>6 DEF SpendGuardTripped, Succeed, Fail, Abandon, EndUnreported, End
<1>7. ASSUME Heal PROVE SpendInv'
  BY <1>1, <1>7 DEF Heal
<1>8. ASSUME UNCHANGED vars PROVE SpendInv'
  BY <1>1, <1>8 DEF vars
<1> QED
  BY <1>4, <1>5, <1>6, <1>7, <1>8 DEF Next

(* No window of a minute or an hour sees more calls than its limit allows, *)
(* for any number of callers and any windows and limits.                   *)
THEOREM SpendStaysBounded == Spec => []SpendBounded
<1>1. SpendInv => SpendBounded
  <2> SUFFICES ASSUME SpendInv PROVE SpendBounded
    OBVIOUS
  <2>1. Minute \in Int /\ Hour \in Int /\ Minute <= Minute /\ Hour <= Hour
    BY BreakerAssumption
  <2> QED
    BY <2>1 DEF SpendInv, SpendBounded, Follows
<1> QED
  BY <1>1, SpendInit, SpendStep, PTL DEF Spec

(* AgentMessages: what the rounds of a conversation look like              *)

MsgId   == Int \X Int
Roles   == {"system", "user", "assistant", "tool", "request", "evicted", "note"}
Shaped(m) ==
    /\ m.role = "tool" => \E id \in MsgId : m.ids = {id}
    /\ m.role \notin {"tool", "assistant"} => m.ids = {}
Message == {m \in [role : Roles, ids : SUBSET MsgId] : Shaped(m)}

(* All messages behind place i, up to place j, are results.                *)
Run(b, i, j)     == \A k \in 1..Len(b) : i < k /\ k <= j => b[k].role = "tool"
Answers(m, id)   == m.role = "tool" /\ m.ids = {id}
ResultFollows(b, i, id) == \E j \in 1..Len(b) : i < j /\ Answers(b[j], id) /\ Run(b, i, j)

(* No two results have the same id; the run behind a call has its results. *)
OneEach(b) == \A i, j \in 1..Len(b) : b[i].role = "tool" /\ b[j].role = "tool" /\ b[i].ids = b[j].ids => i = j
Whole(b) ==
    /\ OneEach(b)
    /\ \A i \in 1..Len(b) : b[i].role = "assistant" => \A id \in b[i].ids : ResultFollows(b, i, id)

(* The rounds told so far are before round n.                              *)
Before(b, n) == \A i \in 1..Len(b) : \A id \in b[i].ids : id[1] < n

MessagesInv ==
    /\ messages \in Seq(Message) /\ sends \in Nat /\ point \in {"top", "ask", "done"}
    /\ Whole(messages)
    /\ Before(messages, IF point = "ask" THEN sends ELSE sends + 1)

LEMMA SaysIs ==
  /\ \A r \in Roles \ {"tool", "assistant"} : Says(r) \in Message /\ Says(r).role = r /\ Says(r).ids = {}
  /\ Says("assistant") \in Message /\ Says("assistant").role = "assistant" /\ Says("assistant").ids = {}
  BY DEF Says, Message, Shaped, Roles

LEMMA CallIs ==
  ASSUME NEW ids \in SUBSET MsgId
  PROVE  CallMessage(ids) \in Message /\ CallMessage(ids).role = "assistant" /\ CallMessage(ids).ids = ids
  BY DEF CallMessage, Message, Shaped, Roles

LEMMA ResultIs ==
  ASSUME NEW id \in MsgId
  PROVE  Result(id) \in Message /\ Result(id).role = "tool" /\ Result(id).ids = {id}
  BY DEF Result, Message, Shaped, Roles

LEMMA MessageIs ==
  ASSUME NEW m \in Message
  PROVE  /\ m.role \in Roles /\ m.ids \in SUBSET MsgId
         /\ m.role = "tool" => \E id \in MsgId : m.ids = {id}
         /\ m.role \notin {"tool", "assistant"} => m.ids = {}
  BY DEF Message, Shaped

(* Nothing happens to a sequence of messages without calls and results.    *)
LEMMA QuietWhole ==
  ASSUME NEW b \in Seq(Message), \A i \in 1..Len(b) : b[i].ids = {}
  PROVE  Whole(b) /\ \A n : Before(b, n)
<1>1. ASSUME NEW i \in 1..Len(b) PROVE b[i].role # "tool"
  <2>1. b[i] \in Message /\ b[i].ids = {}
    OBVIOUS
  <2> QED
    BY <2>1, MessageIs
<1> QED
  BY <1>1 DEF Whole, OneEach, Before

LEMMA JoinIs ==
  ASSUME NEW S, NEW b \in Seq(S), NEW c \in Seq(S)
  PROVE  /\ b \o c \in Seq(S) /\ Len(b) \in Nat /\ Len(c) \in Nat /\ Len(b \o c) = Len(b) + Len(c)
         /\ \A i \in 1..Len(b) : (b \o c)[i] = b[i] /\ i \in 1..Len(b \o c)
         /\ \A j \in 1..Len(c) : (b \o c)[Len(b) + j] = c[j] /\ Len(b) + j \in 1..Len(b \o c)
         /\ \A i \in 1..Len(b \o c) : i \in 1..Len(b) \/ \E j \in 1..Len(c) : i = Len(b) + j
<1> DEFINE d == b \o c
<1>1. /\ d \in Seq(S) /\ Len(b) \in Nat /\ Len(c) \in Nat /\ Len(d) = Len(b) + Len(c)
      /\ \A i \in 1..Len(b) + Len(c) : d[i] = IF i <= Len(b) THEN b[i] ELSE c[i - Len(b)]
  BY ConcatProperties
<1> HIDE DEF d
<1>2. \A i \in 1..Len(b) : i \in 1..Len(b) + Len(c) /\ i <= Len(b)
  BY <1>1
<1>3. \A j \in 1..Len(c) : Len(b) + j \in 1..Len(b) + Len(c) /\ ~(Len(b) + j <= Len(b))
                          /\ (Len(b) + j) - Len(b) = j
  BY <1>1
<1>4. ASSUME NEW i \in 1..Len(d), i \notin 1..Len(b) PROVE \E j \in 1..Len(c) : i = Len(b) + j
  <2>1. i - Len(b) \in 1..Len(c) /\ i = Len(b) + (i - Len(b))
    BY <1>1, <1>4
  <2> QED
    BY <2>1
<1> QED
  BY <1>1, <1>2, <1>3, <1>4 DEF d

LEMMA ConcatWhole ==
  ASSUME NEW b \in Seq(Message), NEW c \in Seq(Message), Whole(b), Whole(c),
         \A i \in 1..Len(b), j \in 1..Len(c) :
             b[i].role = "tool" /\ c[j].role = "tool" => b[i].ids # c[j].ids
  PROVE  b \o c \in Seq(Message) /\ Whole(b \o c)
<1> DEFINE d == b \o c
           N == Len(b)
<1>1. /\ d \in Seq(Message) /\ N \in Nat /\ Len(c) \in Nat /\ Len(d) = N + Len(c)
      /\ \A i \in 1..N : d[i] = b[i] /\ i \in 1..Len(d)
      /\ \A j \in 1..Len(c) : d[N + j] = c[j] /\ N + j \in 1..Len(d)
      /\ \A i \in 1..Len(d) : i \in 1..N \/ \E j \in 1..Len(c) : i = N + j
  BY JoinIs
<1> HIDE DEF d
<1>4. OneEach(d)
  <2>1. SUFFICES ASSUME NEW i \in 1..Len(d), NEW j \in 1..Len(d),
                        d[i].role = "tool", d[j].role = "tool", d[i].ids = d[j].ids
                 PROVE  i = j
    BY DEF OneEach
  <2>2. CASE i \in 1..N /\ j \in 1..N
    BY <1>1, <2>1, <2>2 DEF Whole, OneEach
  <2>3. CASE i \in 1..N /\ \E y \in 1..Len(c) : j = N + y
    <3>1. PICK y \in 1..Len(c) : j = N + y
      BY <2>3
    <3>2. d[j] = c[y] /\ d[i] = b[i] /\ c[y].role = "tool" /\ b[i].role = "tool"
      BY <1>1, <2>1, <2>3, <3>1
    <3> QED
      BY <2>1, <2>3, <3>2
  <2>4. CASE (\E x \in 1..Len(c) : i = N + x) /\ j \in 1..N
    <3>1. PICK x \in 1..Len(c) : i = N + x
      BY <2>4
    <3>2. d[i] = c[x] /\ d[j] = b[j] /\ c[x].role = "tool" /\ b[j].role = "tool"
      BY <1>1, <2>1, <2>4, <3>1
    <3> QED
      BY <2>1, <2>4, <3>2
  <2>5. CASE (\E x \in 1..Len(c) : i = N + x) /\ \E y \in 1..Len(c) : j = N + y
    <3>1. PICK x \in 1..Len(c), y \in 1..Len(c) : i = N + x /\ j = N + y
      BY <2>5
    <3>2. d[i] = c[x] /\ d[j] = c[y]
      BY <1>1, <3>1
    <3>3. x = y
      BY <2>1, <3>2 DEF Whole, OneEach
    <3> QED
      BY <3>1, <3>3
  <2> QED
    BY <1>1, <2>2, <2>3, <2>4, <2>5
<1>5. ASSUME NEW i \in 1..Len(d), d[i].role = "assistant", NEW id \in d[i].ids PROVE ResultFollows(d, i, id)
  <2>1. CASE i \in 1..N
    <3>1. ResultFollows(b, i, id)
      BY <1>1, <1>5, <2>1 DEF Whole
    <3>2. PICK j \in 1..N : i < j /\ Answers(b[j], id) /\ Run(b, i, j)
      BY <3>1 DEF ResultFollows
    <3>3. Run(d, i, j)
      <4>1. \A k \in 1..Len(d) : k <= j => k \in 1..N
        BY <1>1, <3>2
      <4> QED
        BY <1>1, <3>2, <4>1 DEF Run
    <3> QED
      BY <1>1, <3>2, <3>3 DEF ResultFollows
  <2>2. CASE i \notin 1..N
    <3>1. PICK x \in 1..Len(c) : i = N + x /\ d[i] = c[x]
      BY <1>1, <2>2
    <3>2. ResultFollows(c, x, id)
      BY <1>5, <3>1 DEF Whole
    <3>3. PICK y \in 1..Len(c) : x < y /\ Answers(c[y], id) /\ Run(c, x, y)
      BY <3>2 DEF ResultFollows
    <3>4. Run(d, i, N + y)
      <4>1. SUFFICES ASSUME NEW k \in 1..Len(d), i < k, k <= N + y PROVE d[k].role = "tool"
        BY DEF Run
      <4>2. k \notin 1..N
        BY <1>1, <3>1, <4>1
      <4>3. PICK z \in 1..Len(c) : k = N + z
        BY <1>1, <4>2
      <4>4. x < z /\ z <= y /\ d[k] = c[z]
        BY <1>1, <3>1, <4>1, <4>3
      <4> QED
        BY <3>3, <4>4 DEF Run
    <3>5. N + y \in 1..Len(d) /\ i < N + y /\ d[N + y] = c[y]
      BY <1>1, <3>1, <3>3
    <3> QED
      BY <3>3, <3>4, <3>5 DEF ResultFollows
  <2> QED
    BY <2>1, <2>2
<1>6. Whole(d)
  BY <1>4, <1>5 DEF Whole
<1> QED
  BY <1>1, <1>6 DEF d

LEMMA ConcatBefore ==
  ASSUME NEW b \in Seq(Message), NEW c \in Seq(Message), NEW n, Before(b, n), Before(c, n)
  PROVE  Before(b \o c, n)
<1> DEFINE d == b \o c
           N == Len(b)
<1>1. /\ d \in Seq(Message) /\ N \in Nat /\ Len(c) \in Nat /\ Len(d) = N + Len(c)
      /\ \A i \in 1..N : d[i] = b[i] /\ i \in 1..Len(d)
      /\ \A j \in 1..Len(c) : d[N + j] = c[j] /\ N + j \in 1..Len(d)
      /\ \A i \in 1..Len(d) : i \in 1..N \/ \E j \in 1..Len(c) : i = N + j
  BY JoinIs
<1> HIDE DEF d
<1>3. ASSUME NEW i \in 1..Len(d), NEW id \in d[i].ids PROVE id[1] < n
  <2>1. CASE i \in 1..N
    BY <1>1, <1>3, <2>1 DEF Before
  <2>2. CASE \E j \in 1..Len(c) : i = N + j
    BY <1>1, <1>3, <2>2 DEF Before
  <2> QED
    BY <1>1, <2>1, <2>2
<1> QED
  BY <1>3 DEF d, Before

(* A message without ids, behind a conversation or before it.              *)
LEMMA QuietConcat ==
  ASSUME NEW b \in Seq(Message), Whole(b), NEW m \in Message, m.ids = {}
  PROVE  /\ <<m>> \in Seq(Message) /\ Whole(<<m>>) /\ \A n : Before(<<m>>, n)
         /\ b \o <<m>> \in Seq(Message) /\ Whole(b \o <<m>>)
         /\ <<m>> \o b \in Seq(Message) /\ Whole(<<m>> \o b)
<1>1. <<m>> \in Seq(Message) /\ Len(<<m>>) = 1 /\ <<m>>[1] = m
  OBVIOUS
<1> DEFINE q == <<m>>
<1>2. q \in Seq(Message) /\ \A i \in 1..Len(q) : q[i].ids = {} /\ q[i].role # "tool"
  BY <1>1, MessageIs
<1> HIDE DEF q
<1>3. Whole(q) /\ \A n : Before(q, n)
  BY <1>2, QuietWhole
<1>4. b \o q \in Seq(Message) /\ Whole(b \o q) /\ q \o b \in Seq(Message) /\ Whole(q \o b)
  BY <1>2, <1>3, ConcatWhole
<1> QED
  BY <1>2, <1>3, <1>4 DEF q

LEMMA RoundWhole ==
  ASSUME NEW round \in Int, NEW n \in Nat
  PROVE  LET b == Round(round, n)
         IN  /\ b \in Seq(Message) /\ Whole(b)
             /\ \A i \in 1..Len(b) : \A id \in b[i].ids : id[1] = round
<1> DEFINE rest == [k \in 1..n |-> Result(<<round, k>>)]
           head == <<CallMessage(Ids(round, n))>>
           b == head \o rest
<1>1. Ids(round, n) \in SUBSET MsgId /\ \A id \in Ids(round, n) : id[1] = round
  BY DEF Ids, MsgId
<1>2. \A k \in 1..n : <<round, k>> \in MsgId /\ <<round, k>>[1] = round
  BY DEF MsgId
<1>3. \A k \in 1..n : Result(<<round, k>>) \in Message
  BY <1>2, ResultIs
<1>4. rest \in Seq(Message) /\ Len(rest) = n /\ \A k \in 1..n : rest[k] = Result(<<round, k>>)
  BY <1>3
<1>5. CallMessage(Ids(round, n)) \in Message /\ CallMessage(Ids(round, n)).role = "assistant"
      /\ CallMessage(Ids(round, n)).ids = Ids(round, n)
  BY <1>1, CallIs
<1>6. head \in Seq(Message) /\ Len(head) = 1 /\ head[1] = CallMessage(Ids(round, n))
  BY <1>5
<1> HIDE DEF rest, head
<1>7. /\ b \in Seq(Message) /\ Len(b) = n + 1 /\ b[1] = CallMessage(Ids(round, n))
      /\ \A k \in 1..n : b[1 + k] = Result(<<round, k>>)
  <2>1. /\ b \in Seq(Message) /\ Len(b) = Len(head) + Len(rest)
        /\ \A i \in 1..Len(head) : b[i] = head[i]
        /\ \A j \in 1..Len(rest) : b[Len(head) + j] = rest[j]
    <3>1. head \in Seq(Message) /\ rest \in Seq(Message)
      BY <1>4, <1>6
    <3> QED
      BY <3>1, JoinIs
  <2>2. 1 \in 1..Len(head) /\ 1..Len(rest) = 1..n /\ \A k \in 1..n : Len(head) + k = 1 + k
    BY <1>4, <1>6
  <2>3. Len(head) + Len(rest) = n + 1
    BY <1>4, <1>6
  <2>4. \A k \in 1..n : b[1 + k] = rest[k]
    BY <2>1, <2>2
  <2> HIDE DEF b
  <2> QED
    BY <1>4, <1>6, <2>1, <2>2, <2>3, <2>4
<1>8. b = Round(round, n)
  BY DEF Round, head, rest
<1> HIDE DEF b
<1>9. ASSUME NEW i \in 1..Len(b), i # 1
      PROVE  i - 1 \in 1..n /\ i = 1 + (i - 1) /\ b[i].role = "tool" /\ b[i].ids = {<<round, i - 1>>}
  <2>1. i - 1 \in 1..n /\ i = 1 + (i - 1)
    BY <1>7, <1>9
  <2>2. PICK k \in 1..n : k = i - 1
    BY <2>1
  <2>3. b[i] = Result(<<round, k>>) /\ <<round, k>> \in MsgId
    BY <1>2, <1>7, <2>1, <2>2
  <2> QED
    BY <2>1, <2>2, <2>3, ResultIs
<1>10. OneEach(b)
  <2>1. SUFFICES ASSUME NEW i \in 1..Len(b), NEW j \in 1..Len(b),
                        b[i].role = "tool", b[j].role = "tool", b[i].ids = b[j].ids
                 PROVE  i = j
    BY DEF OneEach
  <2>2. i # 1 /\ j # 1
    BY <1>5, <1>7, <2>1
  <2>3. {<<round, i - 1>>} = {<<round, j - 1>>}
    BY <1>9, <2>1, <2>2
  <2>4. <<round, i - 1>>[2] = <<round, j - 1>>[2]
    BY <2>3
  <2>5. i - 1 = j - 1
    BY <2>4
  <2> QED
    BY <1>7, <2>5
<1>11. ASSUME NEW i \in 1..Len(b), b[i].role = "assistant", NEW id \in b[i].ids PROVE ResultFollows(b, i, id)
  <2>1. i = 1
    BY <1>9, <1>11
  <2>2. PICK k \in 1..n : id = <<round, k>>
    BY <1>5, <1>7, <1>11, <2>1 DEF Ids
  <2>3. 1 + k \in 1..Len(b) /\ 1 + k # 1 /\ (1 + k) - 1 = k /\ 1 < 1 + k
    BY <1>7
  <2>4. Answers(b[1 + k], id)
    BY <1>9, <2>2, <2>3 DEF Answers
  <2>5. Run(b, 1, 1 + k)
    BY <1>9 DEF Run
  <2> QED
    BY <2>1, <2>3, <2>4, <2>5 DEF ResultFollows
<1>12. Whole(b)
  BY <1>10, <1>11 DEF Whole
<1>13. ASSUME NEW i \in 1..Len(b), NEW id \in b[i].ids PROVE id[1] = round
  <2>1. CASE i = 1
    BY <1>1, <1>5, <1>7, <1>13, <2>1
  <2>2. CASE i # 1
    BY <1>9, <1>13, <2>2
  <2> QED
    BY <2>1, <2>2
<1> QED
  BY <1>7, <1>8, <1>12, <1>13

(* Choosing some messages of a conversation, each call with its results.   *)
LEMMA ChosenWhole ==
  ASSUME NEW b \in Seq(Message), Whole(b), NEW K \in SUBSET (1..Len(b)),
         NEW p \in Seq(Nat), Increasing(p), \A x : Has(p, x) <=> x \in K,
         \A i \in K, j \in 1..Len(b) : \A id \in b[i].ids :
             b[i].role = "assistant" /\ i < j /\ Answers(b[j], id) => j \in K
  PROVE  LET c == [k \in DOMAIN p |-> b[p[k]]]
         IN  /\ c \in Seq(Message) /\ Whole(c)
             /\ \A k \in 1..Len(c) : \E i \in K : c[k] = b[i]
<1> DEFINE c == [k \in DOMAIN p |-> b[p[k]]]
<1>1. Len(p) \in Nat /\ DOMAIN p = 1..Len(p) /\ Len(b) \in Nat
  OBVIOUS
<1>2. ASSUME NEW k \in 1..Len(p) PROVE p[k] \in K /\ p[k] \in 1..Len(b) /\ b[p[k]] \in Message
  <2>1. Has(p, p[k])
    BY DEF Has
  <2> QED
    BY <2>1
<1>3. c = [k \in 1..Len(p) |-> b[p[k]]]
  BY <1>1
<1>4. c \in Seq(Message) /\ Len(c) = Len(p) /\ \A k \in 1..Len(p) : c[k] = b[p[k]]
  BY <1>1, <1>2, <1>3
<1> HIDE DEF c
<1>5. \A k, l \in 1..Len(p) : p[k] < p[l] => k < l
  <2>1. SUFFICES ASSUME NEW k \in 1..Len(p), NEW l \in 1..Len(p), p[k] < p[l], l <= k PROVE FALSE
    BY <1>1
  <2>2. p[l] <= p[k]
    <3>1. CASE l = k
      BY <1>2, <3>1
    <3>2. CASE l < k
      BY <1>2, <3>2 DEF Increasing
    <3> QED
      BY <1>1, <2>1, <3>1, <3>2
  <2> QED
    BY <1>2, <2>1, <2>2
<1>6. \A k, l \in 1..Len(p) : p[k] = p[l] => k = l
  <2>1. SUFFICES ASSUME NEW k \in 1..Len(p), NEW l \in 1..Len(p), p[k] = p[l], k < l PROVE FALSE
    BY <1>1
  <2> QED
    BY <1>2, <2>1 DEF Increasing
<1>7. OneEach(c)
  <2>1. SUFFICES ASSUME NEW k \in 1..Len(c), NEW l \in 1..Len(c),
                        c[k].role = "tool", c[l].role = "tool", c[k].ids = c[l].ids
                 PROVE  k = l
    BY DEF OneEach
  <2>2. /\ p[k] \in 1..Len(b) /\ c[k] = b[p[k]]
        /\ p[l] \in 1..Len(b) /\ c[l] = b[p[l]]
    BY <1>2, <1>4
  <2>3. p[k] = p[l]
    BY <2>1, <2>2 DEF Whole, OneEach
  <2> QED
    BY <1>4, <1>6, <2>3
<1>8. ASSUME NEW k \in 1..Len(c), c[k].role = "assistant", NEW id \in c[k].ids PROVE ResultFollows(c, k, id)
  <2>1. p[k] \in K /\ p[k] \in 1..Len(b) /\ c[k] = b[p[k]] /\ k \in 1..Len(p)
    BY <1>2, <1>4
  <2>2. ResultFollows(b, p[k], id)
    BY <1>8, <2>1 DEF Whole
  <2>3. PICK j \in 1..Len(b) : p[k] < j /\ Answers(b[j], id) /\ Run(b, p[k], j)
    BY <2>2 DEF ResultFollows
  <2>4. j \in K
    BY <1>8, <2>1, <2>3
  <2>5. PICK l \in 1..Len(p) : p[l] = j
    BY <2>4 DEF Has
  <2>6. k < l
    BY <1>5, <2>1, <2>3, <2>5
  <2>7. Run(c, k, l)
    <3>1. SUFFICES ASSUME NEW x \in 1..Len(c), k < x, x <= l PROVE c[x].role = "tool"
      BY DEF Run
    <3>2. x \in 1..Len(p) /\ p[x] \in 1..Len(b) /\ c[x] = b[p[x]]
      BY <1>2, <1>4
    <3>3. p[k] < p[x]
      BY <2>1, <3>1, <3>2 DEF Increasing
    <3>4. p[x] <= p[l]
      <4>1. CASE x = l
        BY <3>2, <4>1
      <4>2. CASE x < l
        BY <1>2, <3>2, <4>2 DEF Increasing
      <4> QED
        BY <1>4, <3>1, <4>1, <4>2
    <3> QED
      BY <2>3, <2>5, <3>2, <3>3, <3>4 DEF Run
  <2> QED
    BY <1>4, <2>3, <2>5, <2>6, <2>7 DEF ResultFollows
<1>9. \A k \in 1..Len(c) : \E i \in K : c[k] = b[i]
  BY <1>2, <1>4
<1> QED
  BY <1>4, <1>7, <1>8, <1>9 DEF Whole, c

LEMMA FirstCallIs ==
  ASSUME NEW b \in Seq(Message), \E i \in DOMAIN b : IsCall(b[i])
  PROVE  FirstCall(b) \in 1..Len(b) /\ \A j \in 1..FirstCall(b) - 1 : ~IsCall(b[j])
<1> DEFINE S == {i \in 1..Len(b) : IsCall(b[i])}
<1>1. S \in SUBSET Nat /\ S # {} /\ DOMAIN b = 1..Len(b) /\ Len(b) \in Nat
  OBVIOUS
<1>2. PICK x \in S : \A y \in S : x <= y
  BY <1>1, LeastOne
<1>3. x \in DOMAIN b /\ IsCall(b[x]) /\ \A j \in 1..x - 1 : ~IsCall(b[j])
  <2>1. ASSUME NEW j \in 1..x - 1, IsCall(b[j]) PROVE FALSE
    <3>1. j \in S /\ j < x
      BY <1>1, <2>1
    <3> QED
      BY <1>1, <1>2, <3>1
  <2> QED
    BY <1>1, <2>1
<1> QED
  BY <1>1, <1>3 DEF FirstCall

LEMMA EvictedWhole ==
  ASSUME NEW b \in Seq(Message), Whole(b)
  PROVE  /\ Evicted(b) \in Seq(Message) /\ Whole(Evicted(b))
         /\ \A n : Before(b, n) => Before(Evicted(b), n)
<1> DEFINE f == FirstCall(b)
           K == {i \in f..Len(b) : IsProtected(b, i)}
           p == Only([i \in DOMAIN b |-> i], K)
           c == [k \in DOMAIN p |-> b[p[k]]]
           pre == SubSeq(b, 1, f - 1)
           head == pre \o <<Marker>>
<1>1. CASE Evicted(b) = b
  BY <1>1
<1>2. CASE Evicted(b) # b
  <2>1. (\E i \in DOMAIN b : IsCall(b[i])) /\ Evicted(b) = head \o c
    BY <1>2 DEF Evicted
  <2>2. f \in 1..Len(b) /\ (\A j \in 1..f - 1 : ~IsCall(b[j])) /\ Len(b) \in Nat /\ DOMAIN b = 1..Len(b)
    BY <2>1, FirstCallIs
  <2>3. K \in SUBSET (1..Len(b)) /\ \A i \in K : f <= i
    BY <2>2
  <2>4. p \in Seq(Nat) /\ Increasing(p) /\ \A x : Has(p, x) <=> x \in K
    <3>1. [i \in DOMAIN b |-> i] = Numbers(Len(b))
      BY <2>2 DEF Numbers
    <3> HIDE DEF K
    <3>2. /\ p \in Seq(Nat) /\ Increasing(p)
          /\ \A x : Has(p, x) <=> x \in K /\ x \in 1..Len(b)
      BY <2>2, <3>1, NumbersKept
    <3> QED
      BY <2>3, <3>2
  <2>5. ASSUME NEW i \in K, NEW j \in 1..Len(b), NEW id \in b[i].ids,
               b[i].role = "assistant", i < j, Answers(b[j], id)
        PROVE  j \in K
    <3>1. IsCall(b[i]) /\ IsProtected(b, i) /\ i \in f..Len(b)
      BY <2>5 DEF IsCall
    <3>2. id \in ProtectedIds(b)
      BY <2>5, <3>1 DEF IsProtected
    <3>3. IsResult(b[j]) /\ b[j].ids = {id}
      BY <2>5 DEF IsResult, Answers
    <3>4. IsProtected(b, j)
      BY <3>2, <3>3 DEF IsProtected
    <3>5. j \in f..Len(b)
      BY <2>2, <2>5, <3>1
    <3> QED
      BY <3>4, <3>5
  <2> HIDE DEF K, p
  <2>6. c \in Seq(Message) /\ Whole(c) /\ \A k \in 1..Len(c) : \E i \in K : c[k] = b[i]
    BY <2>3, <2>4, <2>5, ChosenWhole
  <2> HIDE DEF c
  <2>7. pre \in Seq(Message) /\ Len(pre) = f - 1 /\ \A i \in 1..f - 1 : pre[i] = b[i] /\ i \in 1..Len(b)
    <3>1. \A i \in 1..f - 1 : i \in 1..Len(b)
      BY <2>2
    <3>2. 1 \in Int /\ f - 1 \in Int /\ \A i \in 1..f - 1 : b[i] \in Message
      BY <2>2, <3>1
    <3>3. /\ pre \in Seq(Message)
          /\ Len(pre) = IF 1 <= f - 1 THEN f - 1 - 1 + 1 ELSE 0
          /\ \A i \in 1..(f - 1 - 1 + 1) : pre[i] = b[1 + i - 1]
      BY <3>2, SubSeqProperties
    <3>4. f - 1 - 1 + 1 = f - 1 /\ \A i \in 1..f - 1 : 1 + i - 1 = i
      BY <2>2
    <3>5. Len(pre) = f - 1
      BY <2>2, <3>3
    <3> QED
      BY <3>1, <3>3, <3>4, <3>5
  <2> HIDE DEF pre
  <2>8. Whole(pre)
    <3>1. OneEach(pre)
      BY <2>7 DEF OneEach, Whole
    <3>2. \A i \in 1..Len(pre) : pre[i].role = "assistant" => pre[i].ids = {}
      BY <2>2, <2>7 DEF IsCall
    <3> QED
      BY <3>1, <3>2 DEF Whole
  <2>9. Marker \in Message /\ Marker.ids = {} /\ Marker.role # "tool"
    BY SaysIs DEF Marker, Roles
  <2>10. head \in Seq(Message) /\ Whole(head) /\ Len(head) = Len(pre) + 1
         /\ (\A i \in 1..Len(pre) : head[i] = pre[i]) /\ head[Len(pre) + 1] = Marker
    <3>1. head \in Seq(Message) /\ Whole(head)
      BY <2>7, <2>8, <2>9, QuietConcat
    <3>2. head = Append(pre, Marker)
      BY <2>7, <2>9
    <3> QED
      BY <2>7, <2>9, <3>1, <3>2, AppendProperties
  <2>11. ASSUME NEW i \in 1..Len(head), NEW k \in 1..Len(c), head[i].role = "tool", c[k].role = "tool"
         PROVE  head[i].ids # c[k].ids
    <3>1. i \in 1..Len(pre)
      BY <2>7, <2>9, <2>10, <2>11
    <3>2. PICK j \in K : c[k] = b[j]
      BY <2>6
    <3>3. i \in 1..Len(b) /\ j \in 1..Len(b) /\ i # j /\ head[i] = b[i]
      BY <2>2, <2>3, <2>7, <2>10, <3>1, <3>2
    <3> QED
      BY <2>11, <3>2, <3>3 DEF Whole, OneEach
  <2>12. ASSUME NEW n, Before(b, n) PROVE Before(head, n) /\ Before(c, n)
    <3>1. Before(c, n)
      BY <2>3, <2>6, <2>12 DEF Before
    <3>2. \A i \in 1..Len(head) : i \in 1..Len(pre) \/ i = Len(pre) + 1
      BY <2>2, <2>7, <2>10
    <3>3. Before(head, n)
      BY <2>7, <2>9, <2>10, <2>12, <3>2 DEF Before
    <3> QED
      BY <3>1, <3>3
  <2> HIDE DEF head
  <2>13. head \o c \in Seq(Message) /\ Whole(head \o c)
    BY <2>6, <2>10, <2>11, ConcatWhole
  <2>14. \A n : Before(b, n) => Before(head \o c, n)
    BY <2>6, <2>10, <2>12, ConcatBefore
  <2> QED
    BY <2>1, <2>13, <2>14
<1> QED
  BY <1>1, <1>2

(* AgentMessages: the repair of the pairing                                *)

(* What is repaired pairs, but for the open calls of the last assistant    *)
(* message, whose results come next.                                       *)
Asks(m, id) == m.role = "assistant" /\ id \in m.ids
Repairing(out, a, open) ==
    /\ out \in Seq(Message) /\ a \in Nat /\ open \in SUBSET MsgId
    /\ OneEach(out)
    /\ \A j \in 1..Len(out) : \A id \in MsgId : Answers(out[j], id) =>
           \E c \in 1..Len(out) : c < j /\ Asks(out[c], id) /\ Run(out, c, j)
    /\ \A i \in 1..Len(out) : \A id \in MsgId : Asks(out[i], id) =>
           ResultFollows(out, i, id) \/ (i = a /\ id \in open)
    /\ a = 0 => open = {}
    /\ a # 0 => /\ a \in 1..Len(out) /\ out[a].role = "assistant" /\ open \subseteq out[a].ids
                /\ Run(out, a, Len(out))

LEMMA AddMessage ==
  ASSUME NEW out, NEW a, Repairing(out, a, {}), NEW m \in Message, m.role # "tool"
  PROVE  LET u == Append(out, m) IN
         /\ u \in Seq(Message) /\ Len(u) = Len(out) + 1 /\ u[Len(out) + 1] = m
         /\ \A i \in 1..Len(out) : u[i] = out[i]
         /\ m.role = "assistant" => Repairing(u, Len(out) + 1, m.ids)
         /\ m.role # "assistant" => Repairing(u, 0, {})
<1> DEFINE u == Append(out, m)
           N == Len(out)
           last == IF m.role = "assistant" THEN N + 1 ELSE 0
           new  == IF m.role = "assistant" THEN m.ids ELSE {}
<1>1. out \in Seq(Message)
  BY DEF Repairing
<1>2. /\ u \in Seq(Message) /\ N \in Nat /\ Len(u) = N + 1 /\ u[N + 1] = m
      /\ \A i \in 1..N : u[i] = out[i]
  BY <1>1, AppendProperties
<1> HIDE DEF u
<1>3. 1..N + 1 = 1..N \cup {N + 1} /\ N + 1 \notin 1..N /\ \A i \in 1..N : i < N + 1 /\ i <= N
  BY <1>2
<1>4. m.ids \in SUBSET MsgId
  BY MessageIs
<1>5. OneEach(u)
  <2>1. \A i \in 1..N + 1 : u[i].role = "tool" => i \in 1..N
    BY <1>2, <1>3
  <2> QED
    BY <1>2, <2>1 DEF OneEach, Repairing
<1>6. ASSUME NEW i \in 1..N, NEW j \in 1..N, Run(out, i, j) PROVE Run(u, i, j)
  BY <1>2, <1>3, <1>6 DEF Run
<1>7. ASSUME NEW j \in 1..N + 1, NEW id \in MsgId, Answers(u[j], id)
      PROVE  \E c \in 1..N + 1 : c < j /\ Asks(u[c], id) /\ Run(u, c, j)
  <2>1. j \in 1..N
    BY <1>2, <1>3, <1>7 DEF Answers
  <2>2. PICK c \in 1..N : c < j /\ Asks(out[c], id) /\ Run(out, c, j)
    BY <1>2, <1>7, <2>1 DEF Repairing
  <2> QED
    BY <1>2, <1>3, <1>6, <2>1, <2>2
<1>8. ASSUME NEW i \in 1..N + 1, NEW id \in MsgId, Asks(u[i], id)
      PROVE  ResultFollows(u, i, id) \/ (i = last /\ id \in new)
  <2>1. CASE i = N + 1
    BY <1>2, <1>8, <2>1 DEF Asks
  <2>2. CASE i \in 1..N
    <3>1. ResultFollows(out, i, id)
      BY <1>2, <1>8, <2>2 DEF Repairing
    <3>2. PICK j \in 1..N : i < j /\ Answers(out[j], id) /\ Run(out, i, j)
      BY <3>1 DEF ResultFollows
    <3> QED
      BY <1>2, <1>3, <1>6, <2>2, <3>2 DEF ResultFollows
  <2> QED
    BY <1>3, <2>1, <2>2
<1>9. Run(u, N + 1, N + 1)
  BY <1>2 DEF Run
<1>10. Repairing(u, last, new)
  BY <1>2, <1>3, <1>4, <1>5, <1>7, <1>8, <1>9 DEF Repairing
<1> QED
  BY <1>2, <1>10 DEF u

(* u is out, with the call of m among those of its last assistant message. *)
LEMMA AddResult ==
  ASSUME NEW out, NEW a, NEW open, Repairing(out, a, open), a # 0,
         NEW m \in Message, NEW new \in MsgId, Answers(m, new),
         \A j \in 1..Len(out) : out[j].role = "tool" => out[j].ids # m.ids,
         NEW w \in Seq(Message), Len(w) = Len(out),
         \A i \in 1..Len(out) : w[i].role = out[i].role /\ (i # a => w[i].ids = out[i].ids),
         w[a].ids = out[a].ids \cup m.ids
  PROVE  Repairing(Append(w, m), a, open \ m.ids)
<1> DEFINE u == Append(w, m)
           N == Len(out)
<1>1. out \in Seq(Message) /\ N \in Nat
  BY DEF Repairing
<1>2. /\ u \in Seq(Message) /\ Len(u) = N + 1 /\ u[N + 1] = m
      /\ \A i \in 1..N : u[i] = w[i]
  BY <1>1, AppendProperties
<1> HIDE DEF u
<1>3. 1..N + 1 = 1..N \cup {N + 1} /\ N + 1 \notin 1..N /\ \A i \in 1..N : i < N + 1 /\ i <= N
  BY <1>1
<1>4. a \in 1..N /\ out[a].role = "assistant" /\ open \subseteq out[a].ids /\ Run(out, a, N)
  BY DEF Repairing
<1>5. m.role = "tool" /\ m.ids = {new}
  BY DEF Answers
<1>6. /\ \A i \in 1..N : u[i].role = out[i].role /\ (i # a => u[i].ids = out[i].ids)
      /\ u[a].ids = out[a].ids \cup m.ids /\ u[a].role = "assistant"
  BY <1>2, <1>4
<1>7. ASSUME NEW i \in 1..N, NEW j \in 1..N, Run(out, i, j) PROVE Run(u, i, j)
  BY <1>2, <1>3, <1>6, <1>7 DEF Run
<1>8. Run(u, a, N + 1)
  BY <1>2, <1>3, <1>4, <1>5, <1>6 DEF Run
<1>9. OneEach(u)
  <2>1. SUFFICES ASSUME NEW i \in 1..N + 1, NEW j \in 1..N + 1,
                        u[i].role = "tool", u[j].role = "tool", u[i].ids = u[j].ids
                 PROVE  i = j
    BY <1>2 DEF OneEach
  <2>2. ASSUME NEW k \in 1..N, u[k].role = "tool" PROVE out[k].role = "tool" /\ u[k].ids = out[k].ids
    BY <1>4, <1>6, <2>2
  <2>3. CASE i \in 1..N /\ j \in 1..N
    BY <2>1, <2>2, <2>3 DEF Repairing, OneEach
  <2>4. CASE i = N + 1 /\ j \in 1..N
    BY <1>2, <2>1, <2>2, <2>4
  <2>5. CASE i \in 1..N /\ j = N + 1
    BY <1>2, <2>1, <2>2, <2>5
  <2> QED
    BY <1>3, <2>3, <2>4, <2>5
<1>10. ASSUME NEW j \in 1..N + 1, NEW id \in MsgId, Answers(u[j], id)
       PROVE  \E c \in 1..N + 1 : c < j /\ Asks(u[c], id) /\ Run(u, c, j)
  <2>1. CASE j = N + 1
    <3>1. id \in m.ids
      BY <1>2, <1>10, <2>1 DEF Answers
    <3>2. Asks(u[a], id)
      BY <1>6, <3>1 DEF Asks
    <3> QED
      BY <1>3, <1>4, <1>8, <2>1, <3>2
  <2>2. CASE j \in 1..N
    <3>1. Answers(out[j], id)
      BY <1>4, <1>6, <1>10, <2>2 DEF Answers
    <3>2. PICK c \in 1..N : c < j /\ Asks(out[c], id) /\ Run(out, c, j)
      BY <2>2, <3>1 DEF Repairing
    <3>3. Asks(u[c], id)
      BY <1>6, <3>2 DEF Asks
    <3> QED
      BY <1>3, <1>7, <2>2, <3>2, <3>3
  <2> QED
    BY <1>3, <2>1, <2>2
<1>11. ASSUME NEW i \in 1..N + 1, NEW id \in MsgId, Asks(u[i], id)
       PROVE  ResultFollows(u, i, id) \/ (i = a /\ id \in open \ m.ids)
  <2>1. i \in 1..N
    BY <1>2, <1>3, <1>5, <1>11 DEF Asks
  <2>2. CASE i = a /\ id = new
    <3>1. Answers(u[N + 1], id) /\ a < N + 1 /\ N + 1 \in 1..Len(u)
      BY <1>2, <1>3, <1>4, <1>5, <2>2 DEF Answers
    <3> QED
      BY <1>8, <2>2, <3>1 DEF ResultFollows
  <2>3. CASE ~(i = a /\ id = new)
    <3>1. Asks(out[i], id)
      BY <1>5, <1>6, <1>11, <2>1, <2>3 DEF Asks
    <3>2. ResultFollows(out, i, id) \/ (i = a /\ id \in open)
      BY <2>1, <3>1 DEF Repairing
    <3>3. CASE ResultFollows(out, i, id)
      <4>1. PICK j \in 1..N : i < j /\ Answers(out[j], id) /\ Run(out, i, j)
        BY <3>3 DEF ResultFollows
      <4>2. Answers(u[j], id)
        BY <1>4, <1>6, <4>1 DEF Answers
      <4> QED
        BY <1>2, <1>3, <1>7, <2>1, <4>1, <4>2 DEF ResultFollows
    <3> QED
      BY <1>5, <2>3, <3>2, <3>3
  <2> QED
    BY <2>2, <2>3
<1>12. open \ m.ids \in SUBSET MsgId /\ open \ m.ids \subseteq u[a].ids /\ a \in Nat
  BY <1>4, <1>6 DEF Repairing
<1>13. Repairing(u, a, open \ m.ids)
  BY <1>2, <1>3, <1>4, <1>6, <1>8, <1>9, <1>10, <1>11, <1>12 DEF Repairing
<1> QED
  BY <1>13 DEF u

(* Where every call is answered, calls and results pair.                   *)
LEMMA RepairedPairs ==
  ASSUME NEW b, NEW a, Repairing(b, a, {})
  PROVE  Paired(b)
<1>1. b \in Seq(Message) /\ Len(b) \in Nat /\ DOMAIN b = 1..Len(b) /\ \A i \in 1..Len(b) : b[i] \in Message
  BY DEF Repairing
<1>2. SUFFICES ASSUME NEW i \in 1..Len(b)
               PROVE  LET run == {j \in DOMAIN b : j > i /\ \A k \in i + 1..j : IsResult(b[k])} IN
                      IF IsResult(b[i])
                        THEN \E c \in 1..i - 1 :
                               /\ IsCall(b[c]) /\ b[i].ids \subseteq b[c].ids
                               /\ \A k \in c + 1..i : IsResult(b[k])
                        ELSE /\ UNION {b[j].ids : j \in run} = b[i].ids
                             /\ Cardinality(run) = Cardinality(b[i].ids)
  BY <1>1 DEF Paired
<1> DEFINE run == {j \in DOMAIN b : j > i /\ \A k \in i + 1..j : IsResult(b[k])}
<1>3. CASE IsResult(b[i])
  <2>1. PICK id \in MsgId : b[i].ids = {id}
    BY <1>1, <1>3, MessageIs DEF IsResult
  <2>2. Answers(b[i], id)
    BY <1>3, <2>1 DEF Answers, IsResult
  <2>3. PICK c \in 1..Len(b) : c < i /\ Asks(b[c], id) /\ Run(b, c, i)
    BY <2>2 DEF Repairing
  <2>4. c \in 1..i - 1
    BY <1>1, <2>3
  <2>5. IsCall(b[c]) /\ b[i].ids \subseteq b[c].ids
    BY <2>1, <2>3 DEF IsCall, Asks
  <2>6. ASSUME NEW k \in c + 1..i PROVE IsResult(b[k])
    <3>1. k \in 1..Len(b) /\ c < k /\ k <= i
      BY <1>1
    <3> QED
      BY <2>3, <3>1 DEF Run, IsResult
  <2> QED
    BY <1>3, <2>4, <2>5, <2>6
<1>4. CASE ~IsResult(b[i])
  <2>1. ASSUME NEW j \in run PROVE \E id \in b[i].ids : b[j].ids = {id}
    <3>1. j \in 1..Len(b) /\ j > i /\ \A k \in i + 1..j : IsResult(b[k])
      BY <1>1
    <3>2. j \in i + 1..j
      BY <3>1
    <3>3. IsResult(b[j])
      BY <3>1, <3>2
    <3>4. PICK id \in MsgId : b[j].ids = {id}
      BY <1>1, <3>1, <3>3, MessageIs DEF IsResult
    <3>5. Answers(b[j], id)
      BY <3>3, <3>4 DEF Answers, IsResult
    <3>6. PICK c \in 1..Len(b) : c < j /\ Asks(b[c], id) /\ Run(b, c, j)
      BY <3>1, <3>5 DEF Repairing
    <3>7. ~(c < i)
      <4>1. c < i => b[i].role = "tool"
        BY <3>1, <3>6 DEF Run
      <4> QED
        BY <1>4, <4>1 DEF IsResult
    <3>8. ~(c > i)
      <4>1. c > i => c \in i + 1..j
        BY <3>1, <3>6
      <4>2. c > i => IsResult(b[c])
        BY <3>1, <4>1
      <4> QED
        BY <3>6, <4>2 DEF IsResult, Asks
    <3>9. c = i
      BY <3>7, <3>8
    <3> QED
      BY <3>4, <3>6, <3>9 DEF Asks
  <2>2. ASSUME NEW id \in b[i].ids PROVE \E j \in run : b[j].ids = {id}
    <3>1. id \in MsgId /\ b[i].role = "assistant"
      BY <1>1, <1>4, <2>2, MessageIs DEF IsResult
    <3>2. ResultFollows(b, i, id)
      BY <2>2, <3>1 DEF Repairing, Asks
    <3>3. PICK j \in 1..Len(b) : i < j /\ Answers(b[j], id) /\ Run(b, i, j)
      BY <3>2 DEF ResultFollows
    <3>4. ASSUME NEW k \in i + 1..j PROVE IsResult(b[k])
      <4>1. k \in 1..Len(b) /\ i < k /\ k <= j
        BY <1>1
      <4> QED
        BY <3>3, <4>1 DEF Run, IsResult
    <3>5. j \in run
      BY <1>1, <3>3, <3>4
    <3> QED
      BY <3>3, <3>5 DEF Answers
  <2>3. UNION {b[j].ids : j \in run} = b[i].ids
    <3> DEFINE U == UNION {b[j].ids : j \in run}
    <3> HIDE DEF run
    <3>1. ASSUME NEW id \in U PROVE id \in b[i].ids
      <4>1. PICK j \in run : id \in b[j].ids
        OBVIOUS
      <4> QED
        BY <2>1, <4>1
    <3>2. ASSUME NEW id \in b[i].ids PROVE id \in U
      <4>1. PICK j \in run : b[j].ids = {id}
        BY <2>2
      <4> QED
        BY <4>1
    <3> HIDE DEF U
    <3>3. U = b[i].ids
      BY <3>1, <3>2
    <3> QED
      BY <3>3 DEF U
  <2>4. \A j, k \in run : b[j].ids = b[k].ids => j = k
    <3>1. ASSUME NEW j \in run PROVE j \in 1..Len(b) /\ b[j].role = "tool"
      <4>1. j \in 1..Len(b) /\ j \in i + 1..j
        BY <1>1
      <4> QED
        BY <4>1 DEF IsResult
    <3> QED
      BY <3>1 DEF Repairing, OneEach
  <2>5. run \subseteq 1..Len(b) /\ IsFiniteSet(1..Len(b))
    BY <1>1, FS_Interval
  <2> HIDE DEF run
  <2>6. IsFiniteSet(run)
    BY <2>5, FS_Subset
  <2> DEFINE g == [j \in run |-> CHOOSE id \in b[i].ids : b[j].ids = {id}]
  <2>7. \A j \in run : g[j] \in b[i].ids /\ b[j].ids = {g[j]}
    BY <2>1
  <2>8. g \in [run -> b[i].ids]
    BY <2>7
  <2> HIDE DEF g
  <2>9. g \in Bijection(run, b[i].ids)
    <3>1. \A j, k \in run : g[j] = g[k] => j = k
      BY <2>4, <2>7
    <3>2. \A id \in b[i].ids : \E j \in run : g[j] = id
      <4>1. SUFFICES ASSUME NEW id \in b[i].ids PROVE \E j \in run : g[j] = id
        OBVIOUS
      <4>2. PICK j \in run : b[j].ids = {id}
        BY <2>2
      <4>3. {g[j]} = {id}
        BY <2>7, <4>2
      <4> QED
        BY <4>3
    <3> QED
      BY <2>8, <3>1, <3>2 DEF Bijection, Injection, Surjection, IsInjective
  <2>10. Cardinality(run) = Cardinality(b[i].ids)
    BY <2>6, <2>9, FS_Bijection DEF ExistsBijection
  <2> QED
    BY <1>4, <2>3, <2>10 DEF run
<1> QED
  BY <1>3, <1>4

Nothing == [out |-> <<>>, assistant |-> 0, open |-> {}]
RepairedPart(b, m, f) == f = [n \in 0..m |-> IF n = 0 THEN Nothing ELSE RepairStep(f[n - 1], b[n])]

LEMMA RepairedLonger ==
  ASSUME NEW b, NEW m \in Nat, NEW f, RepairedPart(b, m, f)
  PROVE  \E g : RepairedPart(b, m + 1, g)
<1> DEFINE Step(t, n) == RepairStep(t, b[n])
           g == [n \in 0..(m + 1) |-> IF n = m + 1 THEN Step(f[m], m + 1) ELSE f[n]]
<1>1. f = [n \in 0..m |-> IF n = 0 THEN Nothing ELSE Step(f[n - 1], n)]
  BY DEF RepairedPart
<1>2. \A h : h = [n \in 0..(m + 1) |-> IF n = 0 THEN Nothing ELSE Step(h[n - 1], n)]
               => RepairedPart(b, m + 1, h)
  BY DEF RepairedPart
<1> HIDE DEF Step
<1>3. ASSUME NEW n \in 0..(m + 1)
      PROVE  g[n] = IF n = 0 THEN Nothing ELSE Step(g[n - 1], n)
  <2>1. CASE n = m + 1
    BY <2>1
  <2>2. CASE n # m + 1 /\ n # 0
    <3>1. n \in 0..m /\ n - 1 \in 0..m /\ n - 1 # m + 1
      BY <2>2
    <3>2. f[n] = Step(f[n - 1], n)
      BY <1>1, <2>2, <3>1
    <3> QED
      BY <2>2, <3>1, <3>2
  <2>3. CASE n = 0
    BY <1>1, <2>3
  <2> QED
    BY <2>1, <2>2, <2>3
<1>4. g = [n \in 0..(m + 1) |-> IF n = 0 THEN Nothing ELSE Step(g[n - 1], n)]
  BY <1>3
<1> HIDE DEF g
<1>5. RepairedPart(b, m + 1, g)
  BY <1>2, <1>4
<1> QED
  BY <1>5

LEMMA RepairedSteps ==
  ASSUME NEW b, Len(b) \in Nat
  PROVE  /\ Repaired(b)[0] = Nothing
         /\ \A n \in 1..Len(b) : Repaired(b)[n] = RepairStep(Repaired(b)[n - 1], b[n])
<1> DEFINE T == {m \in Nat : \E f : RepairedPart(b, m, f)}
           k == Repaired(b)
<1>1. 0 \in T
  <2>1. RepairedPart(b, 0, [n \in 0..0 |-> Nothing])
    BY DEF RepairedPart
  <2> QED
    BY <2>1
<1>2. ASSUME NEW m \in Nat, m \in T PROVE m + 1 \in T
  <2>1. PICK f : RepairedPart(b, m, f)
    BY <1>2
  <2>2. \E g : RepairedPart(b, m + 1, g)
    BY <2>1, RepairedLonger
  <2> QED
    BY <2>2
<1> HIDE DEF T
<1>3. Len(b) \in T
  BY <1>1, <1>2, Inductive
<1>4. \E f : RepairedPart(b, Len(b), f)
  BY <1>3 DEF T
<1>5. k = CHOOSE f : RepairedPart(b, Len(b), f)
  BY DEF Repaired, RepairedPart, Nothing
<1>6. RepairedPart(b, Len(b), k)
  BY <1>4, <1>5
<1> HIDE DEF k
<1>7. k[0] = Nothing
  BY <1>6 DEF RepairedPart
<1>8. ASSUME NEW n \in 1..Len(b) PROVE k[n] = RepairStep(k[n - 1], b[n])
  <2>1. n \in 0..Len(b) /\ n # 0
    OBVIOUS
  <2> QED
    BY <1>6, <2>1 DEF RepairedPart
<1> QED
  BY <1>7, <1>8 DEF k

(* After n messages: nothing is repaired that was not said, and the open   *)
(* calls are answered right behind them.                                   *)
RepairedTo(b, n, acc) ==
    /\ Repairing(acc.out, acc.assistant, acc.open)
    /\ \A j \in 1..Len(acc.out) : acc.out[j].role = "tool" =>
           \E k \in 1..n : b[k].role = "tool" /\ b[k].ids = acc.out[j].ids
    /\ \A id \in acc.open : ResultFollows(b, n, id)

LEMMA RepairGoesOn ==
  ASSUME NEW b \in Seq(Message), Whole(b), NEW n \in Nat, n + 1 <= Len(b),
         NEW acc, RepairedTo(b, n, acc)
  PROVE  RepairedTo(b, n + 1, RepairStep(acc, b[n + 1]))
<1> DEFINE m == b[n + 1]
           out == acc.out
           a == acc.assistant
           open == acc.open
           next == RepairStep(acc, m)
<1>1. /\ n + 1 \in 1..Len(b) /\ m \in Message /\ Len(b) \in Nat /\ 1..n + 1 = 1..n \cup {n + 1}
      /\ 1..n \subseteq 1..Len(b) /\ n + 1 \notin 1..n
  OBVIOUS
<1>2. Repairing(out, a, open)
  BY DEF RepairedTo
<1>3. out \in Seq(Message) /\ Len(out) \in Nat /\ a \in Nat /\ open \in SUBSET MsgId
  BY <1>2 DEF Repairing
<1>4. \A j \in 1..Len(out) : out[j].role = "tool" =>
          \E k \in 1..n : b[k].role = "tool" /\ b[k].ids = out[j].ids
  BY DEF RepairedTo
<1>5. \A id \in open : ResultFollows(b, n, id)
  BY DEF RepairedTo
<1> HIDE DEF m, out, a, open
<1>6. CASE m.role # "tool"
  <2>1. open = {}
    <3>1. ASSUME NEW id \in open PROVE FALSE
      <4>1. PICK j \in 1..Len(b) : n < j /\ Answers(b[j], id) /\ Run(b, n, j)
        BY <1>5 DEF ResultFollows
      <4>2. n < n + 1 /\ n + 1 <= j
        BY <4>1
      <4> QED
        BY <1>1, <1>6, <4>1, <4>2 DEF Run, m
    <3> QED
      BY <3>1
  <2> DEFINE u == Append(out, m)
  <2>2. /\ u \in Seq(Message) /\ Len(u) = Len(out) + 1 /\ u[Len(out) + 1] = m
        /\ \A i \in 1..Len(out) : u[i] = out[i]
        /\ m.role = "assistant" => Repairing(u, Len(out) + 1, m.ids)
        /\ m.role # "assistant" => Repairing(u, 0, {})
    BY <1>1, <1>2, <1>6, <2>1, AddMessage
  <2> HIDE DEF u
  <2>3. ASSUME NEW j \in 1..Len(u), u[j].role = "tool"
        PROVE  \E k \in 1..n + 1 : b[k].role = "tool" /\ b[k].ids = u[j].ids
    <3>1. j \in 1..Len(out)
      BY <1>3, <1>6, <2>2, <2>3
    <3> QED
      BY <1>1, <1>4, <2>2, <2>3, <3>1
  <2>4. CASE m.role = "assistant"
    <3>1. next = [out |-> u, assistant |-> Len(out) + 1, open |-> m.ids]
      BY <2>4 DEF RepairStep, u, out
    <3>2. ASSUME NEW id \in m.ids PROVE ResultFollows(b, n + 1, id)
      BY <1>1, <2>4, <3>2 DEF Whole, m
    <3> HIDE DEF next
    <3>3. RepairedTo(b, n + 1, next)
      BY <2>2, <2>3, <2>4, <3>1, <3>2 DEF RepairedTo
    <3> QED
      BY <3>3 DEF next, m
  <2>5. CASE m.role # "assistant"
    <3>1. next = [out |-> u, assistant |-> 0, open |-> {}]
      BY <1>6, <2>5 DEF RepairStep, IsResult, u, out
    <3> HIDE DEF next
    <3>2. RepairedTo(b, n + 1, next)
      BY <2>2, <2>3, <2>5, <3>1 DEF RepairedTo
    <3> QED
      BY <3>2 DEF next, m
  <2> QED
    BY <2>4, <2>5
<1>7. CASE m.role = "tool"
  <2>1. PICK new \in MsgId : m.ids = {new}
    BY <1>1, <1>7, MessageIs
  <2>2. Answers(m, new)
    BY <1>7, <2>1 DEF Answers
  <2>3. \A j \in 1..Len(out) : out[j].role = "tool" => out[j].ids # m.ids
    <3>1. \A k \in 1..n : b[k].role = "tool" => b[k].ids # m.ids
      BY <1>1, <1>7 DEF Whole, OneEach, m
    <3> QED
      BY <1>4, <3>1
  <2>4. ASSUME NEW id \in open \ m.ids PROVE ResultFollows(b, n + 1, id)
    <3>1. PICK j \in 1..Len(b) : n < j /\ Answers(b[j], id) /\ Run(b, n, j)
      BY <1>5, <2>4 DEF ResultFollows
    <3>2. j # n + 1
      BY <2>4, <3>1 DEF Answers, m
    <3>3. n + 1 < j /\ Run(b, n + 1, j)
      BY <3>1, <3>2 DEF Run
    <3> QED
      BY <3>1, <3>3 DEF ResultFollows
  <2>5. ASSUME NEW w \in Seq(Message),
               \A i \in 1..Len(w) : w[i].role = "tool" =>
                   \E k \in 1..n : b[k].role = "tool" /\ b[k].ids = w[i].ids
        PROVE  \A j \in 1..Len(Append(w, m)) : Append(w, m)[j].role = "tool" =>
                   \E k \in 1..n + 1 : b[k].role = "tool" /\ b[k].ids = Append(w, m)[j].ids
    <3> DEFINE u == Append(w, m)
    <3>1. /\ u \in Seq(Message) /\ Len(u) = Len(w) + 1 /\ Len(w) \in Nat
          /\ u[Len(w) + 1] = m /\ \A i \in 1..Len(w) : u[i] = w[i]
      BY <1>1, AppendProperties
    <3> HIDE DEF u
    <3>2. 1..Len(w) + 1 = 1..Len(w) \cup {Len(w) + 1}
      BY <3>1
    <3>3. b[n + 1].role = "tool" /\ b[n + 1].ids = m.ids
      BY <1>7 DEF m
    <3>4. ASSUME NEW j \in 1..Len(u), u[j].role = "tool"
          PROVE  \E k \in 1..n + 1 : b[k].role = "tool" /\ b[k].ids = u[j].ids
      <4>1. CASE j = Len(w) + 1
        BY <1>1, <3>1, <3>3, <4>1
      <4>2. CASE j \in 1..Len(w)
        BY <1>1, <2>5, <3>1, <3>4, <4>2
      <4> QED
        BY <3>1, <3>2, <4>1, <4>2
    <3> QED
      BY <3>4 DEF u
  <2>6. CASE m.ids \subseteq open
    <3>1. next = [acc EXCEPT !.out = Append(out, m), !.open = @ \ m.ids]
      BY <1>7, <2>6 DEF RepairStep, IsResult, out, open
    <3>2. next.out = Append(out, m) /\ next.assistant = a /\ next.open = open \ m.ids
      BY <3>1 DEF out, a, open
    <3>3. a # 0 /\ a \in 1..Len(out) /\ out[a].ids = out[a].ids \cup m.ids
      BY <1>2, <2>1, <2>6 DEF Repairing
    <3>4. Repairing(Append(out, m), a, open \ m.ids)
      BY <1>1, <1>2, <1>3, <2>2, <2>3, <3>3, AddResult
    <3> HIDE DEF next
    <3>5. RepairedTo(b, n + 1, next)
      BY <1>3, <1>4, <2>4, <2>5, <3>2, <3>4 DEF RepairedTo
    <3> QED
      BY <3>5 DEF next, m
  <2>7. CASE ~(m.ids \subseteq open) /\ a # 0
    <3> DEFINE w == [out EXCEPT ![a].ids = @ \cup m.ids]
    <3>1. next = [acc EXCEPT !.out = Append(w, m)]
      BY <1>7, <2>7 DEF RepairStep, IsResult, out, open, a
    <3>2. next.out = Append(w, m) /\ next.assistant = a /\ next.open = open \ m.ids
      <4>1. open \ m.ids = open
        BY <2>1, <2>7
      <4> QED
        BY <3>1, <4>1 DEF out, a, open
    <3>3. a \in 1..Len(out) /\ out[a].role = "assistant" /\ out[a] \in Message
      BY <1>2, <1>3, <2>7 DEF Repairing
    <3>4. [out[a] EXCEPT !.ids = @ \cup m.ids] \in Message
      <4>1. out[a].ids \cup m.ids \in SUBSET MsgId
        BY <1>1, <3>3, MessageIs
      <4> QED
        BY <3>3, <4>1 DEF Message, Shaped
    <3>5. w = [out EXCEPT ![a] = [out[a] EXCEPT !.ids = @ \cup m.ids]]
      BY <3>3
    <3>6. /\ w \in Seq(Message) /\ Len(w) = Len(out)
          /\ \A i \in 1..Len(out) : i # a => w[i] = out[i]
          /\ w[a] = [out[a] EXCEPT !.ids = @ \cup m.ids]
      <4>1. PICK e \in Message : e = [out[a] EXCEPT !.ids = @ \cup m.ids]
        BY <3>4
      <4>2. w = [out EXCEPT ![a] = e]
        BY <3>5, <4>1
      <4> HIDE DEF w
      <4>3. /\ w \in Seq(Message) /\ Len(w) = Len(out) /\ w[a] = e
            /\ \A i \in 1..Len(out) : i # a => w[i] = out[i]
        BY <1>3, <3>3, <4>2
      <4> QED
        BY <4>1, <4>3
    <3> HIDE DEF w
    <3>7. w[a].role = out[a].role /\ w[a].ids = out[a].ids \cup m.ids
      BY <3>3, <3>6 DEF Message
    <3>8. \A i \in 1..Len(out) : w[i].role = out[i].role /\ (i # a => w[i].ids = out[i].ids)
      BY <3>6, <3>7
    <3>9. Repairing(Append(w, m), a, open \ m.ids)
      BY <1>1, <1>2, <2>2, <2>3, <2>7, <3>6, <3>7, <3>8, AddResult
    <3>10. \A i \in 1..Len(w) : w[i].role = "tool" =>
               \E k \in 1..n : b[k].role = "tool" /\ b[k].ids = w[i].ids
      BY <1>4, <3>3, <3>6, <3>8
    <3> HIDE DEF next
    <3>11. RepairedTo(b, n + 1, next)
      BY <2>4, <2>5, <3>2, <3>6, <3>9, <3>10 DEF RepairedTo
    <3> QED
      BY <3>11 DEF next, m
  <2>8. CASE ~(m.ids \subseteq open) /\ a = 0
    <3> DEFINE h == CallMessage(m.ids)
               w == Append(out, h)
    <3>1. next = [out |-> out \o <<h, m>>, assistant |-> Len(out) + 1, open |-> {}]
      BY <1>7, <2>8 DEF RepairStep, IsResult, out, open, a
    <3>2. m.ids \in SUBSET MsgId
      BY <1>1, MessageIs
    <3>3. h \in Message /\ h.role = "assistant" /\ h.ids = m.ids
      BY <3>2, CallIs
    <3> HIDE DEF h
    <3>4. out \o <<h, m>> = Append(w, m)
      BY <1>1, <1>3, <3>3
    <3>5. Repairing(out, a, {})
      BY <1>2, <2>8 DEF Repairing
    <3>6. /\ w \in Seq(Message) /\ Len(w) = Len(out) + 1 /\ w[Len(out) + 1] = h
          /\ \A i \in 1..Len(out) : w[i] = out[i]
          /\ Repairing(w, Len(out) + 1, m.ids)
      BY <3>3, <3>5, AddMessage
    <3> HIDE DEF w
    <3>7. \A j \in 1..Len(w) : j \in 1..Len(out) \/ j = Len(out) + 1
      BY <1>3, <3>6
    <3>8. \A j \in 1..Len(w) : w[j].role = "tool" => w[j].ids # m.ids
      BY <2>3, <3>3, <3>6, <3>7
    <3>9. Len(out) + 1 # 0 /\ w[Len(out) + 1].ids = w[Len(out) + 1].ids \cup m.ids
      BY <1>3, <3>3, <3>6
    <3>10. Repairing(Append(w, m), Len(out) + 1, m.ids \ m.ids)
      BY <1>1, <2>2, <3>6, <3>8, <3>9, AddResult
    <3>11. \A i \in 1..Len(w) : w[i].role = "tool" =>
               \E k \in 1..n : b[k].role = "tool" /\ b[k].ids = w[i].ids
      BY <1>4, <3>3, <3>6, <3>7
    <3>12. next.out = Append(w, m) /\ next.assistant = Len(out) + 1 /\ next.open = {} /\ m.ids \ m.ids = {}
      BY <3>1, <3>4
    <3> HIDE DEF next
    <3>13. Repairing(next.out, next.assistant, next.open)
      BY <3>10, <3>12
    <3>14. \A j \in 1..Len(next.out) : next.out[j].role = "tool" =>
               \E k \in 1..n + 1 : b[k].role = "tool" /\ b[k].ids = next.out[j].ids
      <4>1. \A j \in 1..Len(Append(w, m)) : Append(w, m)[j].role = "tool" =>
                \E k \in 1..n + 1 : b[k].role = "tool" /\ b[k].ids = Append(w, m)[j].ids
        <5>1. w \in Seq(Message)
          BY <3>6
        <5> QED
          BY <2>5, <3>11, <5>1
      <4>2. next.out = Append(w, m)
        BY <3>12
      <4> QED
        BY <4>1, <4>2
    <3>15. RepairedTo(b, n + 1, next)
      BY <3>12, <3>13, <3>14 DEF RepairedTo
    <3> QED
      BY <3>15 DEF next, m
  <2> QED
    BY <2>6, <2>7, <2>8
<1> QED
  BY <1>6, <1>7

LEMMA PayloadPairs ==
  ASSUME NEW b \in Seq(Message), Whole(b)
  PROVE  Paired(Payload(b))
<1> DEFINE T == {n \in Nat : n <= Len(b) => RepairedTo(b, n, Repaired(b)[n])}
           acc == Repaired(b)[Len(b)]
<1>1. Len(b) \in Nat
  OBVIOUS
<1>2. 0 \in T
  <2>1. Nothing.out = <<>> /\ Nothing.assistant = 0 /\ Nothing.open = {}
    BY DEF Nothing
  <2>2. <<>> \in Seq(Message) /\ Len(<<>>) = 0 /\ 1..0 = {}
    BY EmptyHas
  <2>3. Repairing(<<>>, 0, {})
    BY <2>2 DEF Repairing, OneEach
  <2>4. RepairedTo(b, 0, Nothing)
    BY <2>1, <2>2, <2>3 DEF RepairedTo
  <2> QED
    BY <1>1, <2>4, RepairedSteps
<1>3. ASSUME NEW n \in Nat, n \in T PROVE n + 1 \in T
  <2>1. SUFFICES ASSUME n + 1 <= Len(b) PROVE RepairedTo(b, n + 1, Repaired(b)[n + 1])
    OBVIOUS
  <2>2. RepairedTo(b, n, Repaired(b)[n])
    BY <1>1, <1>3, <2>1
  <2>3. Repaired(b)[n + 1] = RepairStep(Repaired(b)[n], b[n + 1])
    <3>1. n + 1 \in 1..Len(b) /\ (n + 1) - 1 = n
      BY <1>1, <2>1
    <3> QED
      BY <1>1, <3>1, RepairedSteps
  <2>4. RepairedTo(b, n + 1, RepairStep(Repaired(b)[n], b[n + 1]))
    BY <2>1, <2>2, RepairGoesOn
  <2> QED
    BY <2>3, <2>4
<1> HIDE DEF T
<1>4. Len(b) \in T
  BY <1>1, <1>2, <1>3, Inductive
<1>5. RepairedTo(b, Len(b), acc)
  BY <1>1, <1>4 DEF T
<1>6. acc.open = {}
  BY <1>1, <1>5 DEF RepairedTo, ResultFollows
<1>7. Repairing(acc.out, acc.assistant, {})
  BY <1>5, <1>6 DEF RepairedTo
<1> QED
  BY <1>7, RepairedPairs DEF Payload

(* AgentMessages: the steps                                                *)

LEMMA HistoryWhole ==
  ASSUME NEW n \in Nat
  PROVE  History(n) \in Seq(Message) /\ Whole(History(n)) /\ Before(History(n), 1)
<1> DEFINE b == History(n)
           r(i) == (i - 1) \div 4 - n
<1>1. ASSUME NEW i \in 1..4 * n
      PROVE  /\ r(i) \in Int /\ r(i) < 0 /\ (i - 1) % 4 \in 0..3
             /\ 4 * (r(i) + n) + ((i - 1) % 4) = i - 1
  BY <1>1
<1>2. ASSUME NEW round \in Int
      PROVE  LET t == PriorTurn(round) IN
             /\ <<round, 1>> \in MsgId /\ Ids(round, 1) = {<<round, 1>>}
             /\ \A x \in 0..3 : t[1 + x] \in Message
             /\ t[1].role = "user" /\ t[1].ids = {}
             /\ t[2].role = "assistant" /\ t[2].ids = {<<round, 1>>}
             /\ t[3].role = "tool" /\ t[3].ids = {<<round, 1>>}
             /\ t[4].role = "assistant" /\ t[4].ids = {}
  <2>1. <<round, 1>> \in MsgId /\ Ids(round, 1) = {<<round, 1>>}
    BY DEF MsgId, Ids
  <2>2. /\ Says("user") \in Message /\ Says("user").role = "user" /\ Says("user").ids = {}
        /\ Says("assistant") \in Message /\ Says("assistant").role = "assistant"
        /\ Says("assistant").ids = {}
    BY SaysIs DEF Roles
  <2>3. LET c == CallMessage(Ids(round, 1)) IN
        c \in Message /\ c.role = "assistant" /\ c.ids = {<<round, 1>>}
    BY <2>1, CallIs
  <2>4. LET c == Result(<<round, 1>>) IN c \in Message /\ c.role = "tool" /\ c.ids = {<<round, 1>>}
    BY <2>1, ResultIs
  <2> DEFINE t == PriorTurn(round)
  <2>5. /\ t[1] = Says("user") /\ t[2] = CallMessage(Ids(round, 1))
        /\ t[3] = Result(<<round, 1>>) /\ t[4] = Says("assistant")
    BY DEF PriorTurn
  <2> HIDE DEF t
  <2>6. 0..3 = {0, 1, 2, 3}
    OBVIOUS
  <2>7. \A x \in 0..3 : t[1 + x] \in Message
    BY <2>2, <2>3, <2>4, <2>5, <2>6
  <2> QED
    BY <2>1, <2>2, <2>3, <2>4, <2>5, <2>7 DEF t
<1>3. b = [i \in 1..4 * n |-> PriorTurn(r(i))[1 + ((i - 1) % 4)]]
  BY DEF History
<1> HIDE DEF b, r
<1>4. ASSUME NEW i \in 1..4 * n PROVE b[i] = PriorTurn(r(i))[1 + ((i - 1) % 4)] /\ b[i] \in Message
  BY <1>1, <1>2, <1>3
<1>5. b \in Seq(Message) /\ Len(b) = 4 * n /\ 4 * n \in Nat
  BY <1>3, <1>4
<1>6. ASSUME NEW i \in 1..4 * n
      PROVE  /\ b[i].role = "tool" <=> (i - 1) % 4 = 2
             /\ b[i].ids # {} => b[i].ids = {<<r(i), 1>>} /\ (i - 1) % 4 \in {1, 2}
             /\ b[i].role = "tool" => b[i].ids = {<<r(i), 1>>}
  <2>1. (i - 1) % 4 \in {0, 1, 2, 3}
    BY <1>1
  <2>2. CASE (i - 1) % 4 = 0
    <3>1. b[i] = PriorTurn(r(i))[1]
      BY <1>4, <2>2
    <3> QED
      BY <1>1, <1>2, <2>2, <3>1
  <2>3. CASE (i - 1) % 4 = 1
    <3>1. b[i] = PriorTurn(r(i))[2]
      BY <1>4, <2>3
    <3> QED
      BY <1>1, <1>2, <2>3, <3>1
  <2>4. CASE (i - 1) % 4 = 2
    <3>1. b[i] = PriorTurn(r(i))[3]
      BY <1>4, <2>4
    <3> QED
      BY <1>1, <1>2, <2>4, <3>1
  <2>5. CASE (i - 1) % 4 = 3
    <3>1. b[i] = PriorTurn(r(i))[4]
      BY <1>4, <2>5
    <3> QED
      BY <1>1, <1>2, <2>5, <3>1
  <2> QED
    BY <2>1, <2>2, <2>3, <2>4, <2>5
<1>7. OneEach(b)
  <2>1. SUFFICES ASSUME NEW i \in 1..4 * n, NEW j \in 1..4 * n,
                        b[i].role = "tool", b[j].role = "tool", b[i].ids = b[j].ids
                 PROVE  i = j
    BY <1>5 DEF OneEach
  <2>2. {<<r(i), 1>>} = {<<r(j), 1>>}
    BY <1>6, <2>1
  <2>3. <<r(i), 1>>[1] = <<r(j), 1>>[1]
    BY <2>2
  <2>4. r(i) = r(j) /\ (i - 1) % 4 = 2 /\ (j - 1) % 4 = 2
    BY <1>6, <2>1, <2>3
  <2>5. i - 1 = 4 * (r(i) + n) + 2 /\ j - 1 = 4 * (r(i) + n) + 2
    BY <1>1, <2>4
  <2>6. i - 1 = j - 1
    BY <2>5
  <2> QED
    BY <2>6
<1>8. ASSUME NEW i \in 1..4 * n, b[i].role = "assistant", NEW id \in b[i].ids PROVE ResultFollows(b, i, id)
  <2>1. (i - 1) % 4 = 1 /\ id = <<r(i), 1>>
    BY <1>6, <1>8
  <2>2. i + 1 \in 1..4 * n /\ ((i + 1) - 1) % 4 = 2 /\ r(i + 1) = r(i)
    BY <2>1 DEF r
  <2>3. Answers(b[i + 1], id)
    BY <1>6, <2>1, <2>2 DEF Answers
  <2>4. Run(b, i, i + 1)
    <3>1. \A k \in 1..Len(b) : i < k /\ k <= i + 1 => k = i + 1
      BY <1>5
    <3> QED
      BY <2>3, <3>1 DEF Run, Answers
  <2> QED
    BY <1>5, <2>2, <2>3, <2>4 DEF ResultFollows
<1>9. Whole(b)
  BY <1>5, <1>7, <1>8 DEF Whole
<1>10. Before(b, 1)
  <2>1. SUFFICES ASSUME NEW i \in 1..4 * n, NEW id \in b[i].ids PROVE id[1] < 1
    BY <1>5 DEF Before
  <2>2. id = <<r(i), 1>> /\ r(i) \in Int /\ r(i) < 0
    BY <1>1, <1>6, <2>1
  <2> QED
    BY <2>2
<1> QED
  BY <1>5, <1>9, <1>10 DEF b

LEMMA MessagesStart == MessagesInit => MessagesInv
<1>1. SUFFICES ASSUME MessagesInit PROVE MessagesInv
  OBVIOUS
<1>2. PICK n \in 0..PriorTurns : messages = <<Says("system")>> \o History(n) \o <<Request>>
  BY <1>1 DEF MessagesInit
<1>3. n \in Nat
  BY MessagesAssumption
<1>4. History(n) \in Seq(Message) /\ Whole(History(n)) /\ Before(History(n), 1)
  BY <1>3, HistoryWhole
<1>5. /\ Says("system") \in Message /\ Says("system").ids = {}
      /\ Request \in Message /\ Request.ids = {}
  BY SaysIs DEF Request, Roles
<1> DEFINE h == History(n)
           s == <<Says("system")>> \o h
<1> HIDE DEF h
<1>6. /\ s \in Seq(Message) /\ Whole(s) /\ <<Says("system")>> \in Seq(Message)
      /\ Before(<<Says("system")>>, 1)
  BY <1>4, <1>5, QuietConcat DEF h
<1>7. Before(s, 1)
  BY <1>4, <1>6, ConcatBefore DEF h
<1> HIDE DEF s
<1>8. /\ s \o <<Request>> \in Seq(Message) /\ Whole(s \o <<Request>>)
      /\ <<Request>> \in Seq(Message) /\ Before(<<Request>>, 1)
  BY <1>5, <1>6, QuietConcat
<1>9. Before(s \o <<Request>>, 1)
  BY <1>6, <1>7, <1>8, ConcatBefore
<1>10. messages = s \o <<Request>> /\ point = "top" /\ sends = 0
  BY <1>1, <1>2 DEF MessagesInit, s, h
<1>11. Whole(messages) /\ Before(messages, sends + 1)
  BY <1>8, <1>9, <1>10
<1> QED
  BY <1>8, <1>10, <1>11 DEF MessagesInv

LEMMA LaterRounds ==
  ASSUME NEW b \in Seq(Message), NEW n \in Int, Before(b, n)
  PROVE  Before(b, n + 1)
<1>1. ASSUME NEW i \in 1..Len(b), NEW id \in b[i].ids PROVE id[1] < n + 1
  <2>1. b[i] \in Message
    OBVIOUS
  <2>2. id \in MsgId
    BY <2>1, MessageIs
  <2>3. id[1] \in Int /\ id[1] < n
    BY <2>2 DEF Before, MsgId
  <2> QED
    BY <2>3
<1> QED
  BY <1>1 DEF Before

(* A round nobody had before, and quiet messages behind it.                *)
LEMMA SaidRound ==
  ASSUME NEW b \in Seq(Message), Whole(b), NEW s \in Nat, Before(b, s), NEW n \in Nat,
         NEW notes \in Nat
  PROVE  LET c == b \o Round(s, n) \o [k \in 1..notes |-> Note]
         IN  c \in Seq(Message) /\ Whole(c) /\ Before(c, s + 1)
<1> DEFINE r == Round(s, n)
           q == [k \in 1..notes |-> Note]
           d == b \o r
<1>1. r \in Seq(Message) /\ Whole(r) /\ \A i \in 1..Len(r) : \A id \in r[i].ids : id[1] = s
  <2>1. s \in Int
    OBVIOUS
  <2> QED
    BY <2>1, RoundWhole
<1>2. Before(b, s + 1)
  BY LaterRounds
<1>3. Before(r, s + 1)
  BY <1>1 DEF Before
<1>4. ASSUME NEW i \in 1..Len(b), NEW j \in 1..Len(r), b[i].role = "tool", r[j].role = "tool"
      PROVE  b[i].ids # r[j].ids
  <2>1. b[i] \in Message
    OBVIOUS
  <2>2. PICK id \in MsgId : b[i].ids = {id}
    BY <1>4, <2>1, MessageIs
  <2>3. id[1] < s /\ id[1] \in Int
    BY <2>2 DEF Before, MsgId
  <2> QED
    BY <1>1, <2>2, <2>3
<1>5. Note \in Message /\ Note.ids = {}
  BY SaysIs DEF Note, Roles
<1>6. q \in Seq(Message) /\ \A i \in 1..Len(q) : q[i].ids = {}
  BY <1>5
<1>7. \A i \in 1..Len(q) : q[i].role # "tool"
  <2>1. \A i \in 1..Len(q) : q[i] = Note
    OBVIOUS
  <2>2. Note.role # "tool"
    BY <1>5, MessageIs
  <2> QED
    BY <2>1, <2>2
<1> HIDE DEF r, q
<1>8. d \in Seq(Message) /\ Whole(d)
  BY <1>1, <1>4, ConcatWhole
<1>9. Before(d, s + 1)
  BY <1>1, <1>2, <1>3, ConcatBefore
<1> HIDE DEF d
<1>10. Whole(q) /\ Before(q, s + 1)
  BY <1>6, QuietWhole
<1>11. d \o q \in Seq(Message) /\ Whole(d \o q)
  BY <1>6, <1>7, <1>8, <1>10, ConcatWhole
<1>12. Before(d \o q, s + 1)
  BY <1>6, <1>8, <1>9, <1>10, ConcatBefore
<1> QED
  BY <1>11, <1>12 DEF d, r, q

LEMMA MessagesStep == MessagesInv /\ [MessagesNext]_messageVars => MessagesInv'
<1>1. SUFFICES ASSUME MessagesInv, [MessagesNext]_messageVars PROVE MessagesInv'
  OBVIOUS
<1>2. /\ messages \in Seq(Message) /\ sends \in Nat /\ point \in {"top", "ask", "done"}
      /\ Whole(messages)
  BY <1>1 DEF MessagesInv
<1>3. (point = "ask" => Before(messages, sends)) /\ Before(messages, sends + 1)
  <2>1. CASE point = "ask"
    BY <1>1, <1>2, <2>1, LaterRounds DEF MessagesInv
  <2>2. CASE point # "ask"
    BY <1>1, <2>2 DEF MessagesInv
  <2> QED
    BY <2>1, <2>2
<1>4. CASE Evict
  <2>1. messages' = Evicted(messages) /\ point' = "ask" /\ sends' = sends + 1
    BY <1>4 DEF Evict
  <2>2. Evicted(messages) \in Seq(Message) /\ Whole(Evicted(messages))
        /\ Before(Evicted(messages), sends + 1)
    BY <1>2, <1>3, EvictedWhole
  <2> QED
    BY <1>2, <2>1, <2>2 DEF MessagesInv
<1>5. CASE Nudge
  <2>1. point = "ask" /\ messages' = Append(messages, Note) /\ point' = "top" /\ sends' = sends
    BY <1>5 DEF Nudge
  <2>2. Note \in Message /\ Note.ids = {}
    BY SaysIs DEF Note, Roles
  <2>3. Append(messages, Note) = messages \o <<Note>>
    BY <1>2, <2>2
  <2>4. /\ messages \o <<Note>> \in Seq(Message) /\ Whole(messages \o <<Note>>)
        /\ <<Note>> \in Seq(Message) /\ Before(<<Note>>, sends + 1)
    BY <1>2, <2>2, QuietConcat
  <2>5. Before(messages \o <<Note>>, sends + 1)
    BY <1>2, <1>3, <2>4, ConcatBefore
  <2> QED
    BY <1>2, <2>1, <2>3, <2>4, <2>5 DEF MessagesInv
<1>6. CASE Finish
  <2>1. messages' = messages /\ sends' = sends /\ point' = "done"
    BY <1>6 DEF Finish
  <2> QED
    BY <1>2, <1>3, <2>1 DEF MessagesInv
<1>7. CASE \E n \in 1..MaxWidth, notes \in 0..2 : CallTools(n, notes)
  <2>1. PICK n \in 1..MaxWidth, notes \in 0..2 : CallTools(n, notes)
    BY <1>7
  <2>2. n \in Nat /\ notes \in Nat
    BY MessagesAssumption
  <2>3. /\ point = "ask"
        /\ messages' = messages \o Round(sends, n) \o [k \in 1..notes |-> Note]
        /\ \/ point' = "top" /\ sends' = sends
           \/ point' = "ask" /\ sends' = sends + 1
    BY <2>1 DEF CallTools
  <2> DEFINE c == messages \o Round(sends, n) \o [k \in 1..notes |-> Note]
  <2>4. c \in Seq(Message) /\ Whole(c) /\ Before(c, sends + 1)
    BY <1>2, <1>3, <2>2, <2>3, SaidRound
  <2> HIDE DEF c
  <2>5. messages' = c
    BY <2>3 DEF c
  <2>6. messages' \in Seq(Message) /\ Whole(messages') /\ Before(messages', sends + 1)
    BY <2>4, <2>5
  <2>7. CASE point' = "top" /\ sends' = sends
    BY <1>2, <2>6, <2>7 DEF MessagesInv
  <2>8. CASE point' = "ask" /\ sends' = sends + 1
    BY <1>2, <2>6, <2>8 DEF MessagesInv
  <2> QED
    BY <2>3, <2>7, <2>8
<1>8. CASE UNCHANGED messageVars
  BY <1>1, <1>8 DEF MessagesInv, messageVars, Whole, OneEach, Before, ResultFollows, Run
<1> QED
  BY <1>1, <1>4, <1>5, <1>6, <1>7, <1>8 DEF MessagesNext

LEMMA MessagesHold == MessagesSpec => []MessagesInv
<1>1. MessagesInit => MessagesInv
  BY MessagesStart
<1>2. MessagesInv /\ [MessagesNext]_messageVars => MessagesInv'
  BY MessagesStep
<1> QED
  BY <1>1, <1>2, PTL DEF MessagesSpec

(* Whatever rounds, notes and evictions came before it: in every request   *)
(* to a strict provider calls and results pair (_repair_tool_pairing).     *)
THEOREM RequestsPair == MessagesSpec => []PayloadPaired
<1>1. MessagesInv => PayloadPaired
  BY PayloadPairs DEF MessagesInv, PayloadPaired
<1> QED
  BY <1>1, MessagesHold, PTL
=============================================================================
