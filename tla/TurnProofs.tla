----------------------------- MODULE TurnProofs -----------------------------
(* What is proved of what a turn leaves behind: the event log (EventLog),   *)
(* for any number of processes; the window, its file and its checkpoint    *)
(* (TurnPipeline), for any number of turns and of resets, dumps, reloads   *)
(* and crashes between them; and its reply in the channel (StreamReply),   *)
(* for texts of any length and any failures.                               *)
EXTENDS EventLog, TurnPipeline, StreamReply, FilterProofs, TLAPS

(* EventLog: FlattenSeq                                                    *)

(* FlattenSeq, by induction over the number of sequences. *)
FlatTo(S, m, f) == f = [i \in 1..m |-> IF i = 1 THEN S[i] ELSE f[i - 1] \o S[i]]

LEMMA FlatLonger ==
  ASSUME NEW S, NEW m \in Nat, NEW f, FlatTo(S, m, f)
  PROVE  \E g : FlatTo(S, m + 1, g)
<1> DEFINE Next1(t, i) == t \o S[i]
           g == [i \in 1..(m + 1) |-> IF i = 1 THEN S[i] ELSE IF i = m + 1 THEN Next1(f[m], i) ELSE f[i]]
<1>1. f = [i \in 1..m |-> IF i = 1 THEN S[i] ELSE Next1(f[i - 1], i)]
  BY DEF FlatTo
<1>2. \A h : h = [i \in 1..(m + 1) |-> IF i = 1 THEN S[i] ELSE Next1(h[i - 1], i)] => FlatTo(S, m + 1, h)
  BY DEF FlatTo
<1> HIDE DEF Next1
<1>3. ASSUME NEW i \in 1..(m + 1)
      PROVE  g[i] = IF i = 1 THEN S[i] ELSE Next1(g[i - 1], i)
  <2>1. CASE i = 1
    BY <2>1
  <2>2. CASE i # 1 /\ i = m + 1
    <3>1. m \in 1..m /\ m \in 1..(m + 1) /\ m # m + 1
      BY <2>2
    <3>2. g[m] = f[m]
      <4>1. m = 1 => f[m] = S[m]
        BY <1>1, <3>1
      <4> QED
        BY <3>1, <4>1
    <3> QED
      BY <2>2, <3>2
  <2>3. CASE i # 1 /\ i # m + 1
    <3>1. i \in 1..m /\ i - 1 \in 1..m /\ i - 1 \in 1..(m + 1) /\ i - 1 # m + 1
      BY <2>3
    <3>2. f[i] = Next1(f[i - 1], i)
      BY <1>1, <2>3, <3>1
    <3>3. g[i - 1] = f[i - 1]
      <4>1. i - 1 = 1 => f[i - 1] = S[i - 1]
        BY <1>1, <3>1
      <4> QED
        BY <3>1, <4>1
    <3> QED
      BY <2>3, <3>1, <3>2, <3>3
  <2> QED
    BY <2>1, <2>2, <2>3
<1>4. g = [i \in 1..(m + 1) |-> IF i = 1 THEN S[i] ELSE Next1(g[i - 1], i)]
  BY <1>3
<1> HIDE DEF g
<1>5. FlatTo(S, m + 1, g)
  BY <1>2, <1>4
<1> QED
  BY <1>5

LEMMA FlatExists ==
  ASSUME NEW S, NEW n \in Nat
  PROVE  \E f : FlatTo(S, n, f)
<1> DEFINE T == {m \in Nat : \E f : FlatTo(S, m, f)}
<1>1. 0 \in T
  <2>1. FlatTo(S, 0, [i \in 1..0 |-> S[i]])
    BY DEF FlatTo
  <2> QED
    BY <2>1
<1>2. ASSUME NEW m \in Nat, m \in T PROVE m + 1 \in T
  <2>1. PICK f : FlatTo(S, m, f)
    BY <1>2
  <2>2. \E g : FlatTo(S, m + 1, g)
    BY <2>1, FlatLonger
  <2> QED
    BY <2>2
<1> HIDE DEF T
<1>3. n \in T
  BY <1>1, <1>2, Inductive
<1> QED
  BY <1>3 DEF T

LEMMA FlattenIs ==
  ASSUME NEW S, Len(S) \in Nat \ {0}
  PROVE  \E f : FlatTo(S, Len(S), f) /\ FlattenSeq(S) = f[Len(S)]
<1>1. PICK c : c = CHOOSE f : FlatTo(S, Len(S), f)
  OBVIOUS
<1>2. FlatTo(S, Len(S), c)
  BY <1>1, FlatExists
<1>3. FlattenSeq(S) = c[Len(S)]
  BY <1>1 DEF FlattenSeq, FlatTo
<1> QED
  BY <1>2, <1>3

Agree(s, t, n) == \A i \in 1..n : s[i] = t[i]

(* What is appended leaves the first n as they were flattened. *)
LEMMA FlatSame ==
  ASSUME NEW S, NEW T, NEW n \in Nat, Agree(S, T, n),
         NEW f, NEW g, FlatTo(S, n, f), FlatTo(T, n + 1, g)
  PROVE  Agree(f, g, n)
<1> USE DEF Agree
<1> DEFINE U == {i \in Nat : i \in 1..n => f[i] = g[i]}
<1>0. /\ f = [i \in 1..n |-> IF i = 1 THEN S[i] ELSE f[i - 1] \o S[i]]
      /\ g = [i \in 1..(n + 1) |-> IF i = 1 THEN T[i] ELSE g[i - 1] \o T[i]]
  BY DEF FlatTo
<1>1. 0 \in U
  OBVIOUS
<1>2. ASSUME NEW i \in Nat, i \in U PROVE i + 1 \in U
  <2>1. SUFFICES ASSUME i + 1 \in 1..n PROVE f[i + 1] = g[i + 1]
    OBVIOUS
  <2>2. i + 1 \in 1..n /\ i + 1 \in 1..(n + 1) /\ S[i + 1] = T[i + 1] /\ (i + 1) - 1 = i
    BY <2>1
  <2>3. /\ f[i + 1] = IF i + 1 = 1 THEN S[i + 1] ELSE f[i] \o S[i + 1]
        /\ g[i + 1] = IF i + 1 = 1 THEN T[i + 1] ELSE g[i] \o T[i + 1]
    <3>1. f[i + 1] = IF i + 1 = 1 THEN S[i + 1] ELSE f[(i + 1) - 1] \o S[i + 1]
      BY <1>0, <2>2, Zenon
    <3>2. g[i + 1] = IF i + 1 = 1 THEN T[i + 1] ELSE g[(i + 1) - 1] \o T[i + 1]
      BY <1>0, <2>2, Zenon
    <3> QED
      BY <2>2, <3>1, <3>2
  <2>4. i + 1 # 1 => f[i] = g[i]
    BY <1>2, <2>1
  <2> QED
    BY <2>2, <2>3, <2>4
<1> HIDE DEF U
<1>3. Nat \subseteq U
  BY <1>1, <1>2, Inductive
<1> QED
  BY <1>3 DEF U

LEMMA FlattenEmpty == FlattenSeq(<<>>) = <<>>
  BY DEF FlattenSeq

LEMMA FlattenAppend ==
  ASSUME NEW R, NEW S \in Seq(Seq(R)), NEW x \in Seq(R)
  PROVE  FlattenSeq(Append(S, x)) = IF S = <<>> THEN x ELSE FlattenSeq(S) \o x
<1>1. PICK T, n : T = Append(S, x) /\ n = Len(S)
  OBVIOUS
<1>2. /\ T \in Seq(Seq(R)) /\ Len(T) = n + 1 /\ n \in Nat /\ T[n + 1] = x
      /\ \A i \in 1..n : T[i] = S[i]
  <2>1. S \in Seq(Seq(R)) /\ x \in Seq(R)
    OBVIOUS
  <2>2. PICK Q : Q = Seq(R)
    OBVIOUS
  <2>3. S \in Seq(Q) /\ x \in Q
    BY <2>1, <2>2
  <2>4. /\ T \in Seq(Q) /\ Len(T) = n + 1 /\ n \in Nat /\ T[n + 1] = x
        /\ \A i \in 1..n : T[i] = S[i]
    BY <1>1, <2>3, AppendProperties
  <2> QED
    BY <2>2, <2>4
<1>3. PICK g : FlatTo(T, n + 1, g) /\ FlattenSeq(T) = g[n + 1]
  <2>1. Len(T) \in Nat \ {0}
    BY <1>2
  <2>2. PICK g : FlatTo(T, Len(T), g) /\ FlattenSeq(T) = g[Len(T)]
    BY <2>1, FlattenIs
  <2> QED
    BY <1>2, <2>2
<1>4. g = [i \in 1..(n + 1) |-> IF i = 1 THEN T[i] ELSE g[i - 1] \o T[i]]
  BY <1>3 DEF FlatTo
<1>5. CASE S = <<>>
  <2>1. n = 0
    BY <1>1, <1>5
  <2>2. 1 \in 1..(n + 1) /\ n + 1 = 1
    BY <2>1
  <2>3. g[1] = T[1]
    BY <1>4, <2>2
  <2> QED
    BY <1>1, <1>2, <1>3, <1>5, <2>2, <2>3
<1>6. CASE S # <<>>
  <2>1. n \in Nat \ {0}
    BY <1>1, <1>6, EmptySeq
  <2>2. PICK f : FlatTo(S, n, f) /\ FlattenSeq(S) = f[n]
    BY <1>1, <2>1, FlattenIs
  <2>3. Agree(S, T, n)
    BY <1>2 DEF Agree
  <2>4. n \in Nat /\ n \in 1..n
    BY <2>1
  <2>5. Agree(f, g, n)
    BY <1>3, <2>2, <2>3, <2>4, FlatSame
  <2>6. g[n + 1] = g[n] \o T[n + 1]
    <3>1. n + 1 \in 1..(n + 1) /\ n + 1 # 1 /\ (n + 1) - 1 = n
      BY <2>1
    <3> QED
      BY <1>4, <3>1
  <2> QED
    BY <1>1, <1>2, <1>3, <1>6, <2>2, <2>4, <2>5, <2>6 DEF Agree
<1> QED
  BY <1>5, <1>6

LEMMA FlattenType ==
  ASSUME NEW R, NEW S \in Seq(Seq(R))
  PROVE  FlattenSeq(S) \in Seq(R)
<1>1. CASE S = <<>>
  BY <1>1, FlattenEmpty, EmptySeq
<1>2. CASE S # <<>>
  <2>1. PICK n : n = Len(S)
    OBVIOUS
  <2>2. n \in Nat \ {0} /\ \A i \in 1..n : S[i] \in Seq(R)
    BY <1>2, <2>1, EmptySeq
  <2>3. PICK f : FlatTo(S, n, f) /\ FlattenSeq(S) = f[n]
    BY <2>1, <2>2, FlattenIs
  <2>4. f = [i \in 1..n |-> IF i = 1 THEN S[i] ELSE f[i - 1] \o S[i]]
    BY <2>3 DEF FlatTo
  <2> DEFINE U == {i \in Nat : i \in 1..n => f[i] \in Seq(R)}
  <2>5. 0 \in U
    OBVIOUS
  <2>6. ASSUME NEW i \in Nat, i \in U PROVE i + 1 \in U
    <3>1. SUFFICES ASSUME i + 1 \in 1..n PROVE f[i + 1] \in Seq(R)
      OBVIOUS
    <3>0. (i + 1) - 1 = i /\ (i + 1 # 1 => i \in 1..n)
      BY <2>2, <3>1
    <3>2. f[i + 1] = IF i + 1 = 1 THEN S[i + 1] ELSE f[i] \o S[i + 1]
      BY <2>4, <3>0, <3>1
    <3>3. i + 1 # 1 => f[i] \in Seq(R)
      BY <2>6, <3>0
    <3>4. S[i + 1] \in Seq(R)
      BY <2>2, <3>1
    <3> QED
      BY <3>2, <3>3, <3>4, ConcatProperties
  <2> HIDE DEF U
  <2>7. n \in U
    BY <2>2, <2>5, <2>6, Inductive
  <2> QED
    BY <2>2, <2>3, <2>7 DEF U
<1> QED
  BY <1>1, <1>2

-----------------------------------------------------------------------------
(* All records, of the generations r and the current file c.               *)
Opened(c)   == IF c = Nothing THEN <<>> ELSE c
Whole(r, c) == FlattenSeq(r) \o Opened(c)
Files       == Seq(Records) \cup {Nothing}

LEMMA OpenedType == \A c \in Files : Opened(c) \in Seq(Records)
  BY DEF Files, Opened

LEMMA WholeIs ==
  ASSUME NEW r \in Seq(Seq(Records)), NEW c \in Files
  PROVE  /\ FlattenSeq(IF c = Nothing THEN r ELSE Append(r, c)) = Whole(r, c)
         /\ Whole(r, c) \in Seq(Records)
<1>1. FlattenSeq(r) \in Seq(Records) /\ Opened(c) \in Seq(Records)
  BY FlattenType, OpenedType
<1>2. CASE c = Nothing
  BY <1>1, <1>2, ConcatEmptySeq DEF Whole, Opened
<1>3. CASE c # Nothing
  <2>1. c \in Seq(Records)
    BY <1>3 DEF Files
  <2>2. FlattenSeq(Append(r, c)) = IF r = <<>> THEN c ELSE FlattenSeq(r) \o c
    BY <2>1, FlattenAppend
  <2>3. <<>> \o c = c
    BY <2>1, ConcatEmptySeq
  <2> QED
    BY <1>1, <1>3, <2>1, <2>2, <2>3, FlattenEmpty, ConcatProperties DEF Whole, Opened
<1> QED
  BY <1>2, <1>3

(* A rotation moves no record, and a write appends one. *)
LEMMA WholeRenamed ==
  ASSUME NEW r \in Seq(Seq(Records)), NEW c \in Seq(Records)
  PROVE  /\ Whole(Append(r, c), Nothing) = Whole(r, c)
         /\ FlattenSeq(Append(r, c)) = Whole(r, c)
<1>1. c # Nothing /\ c \in Files /\ Opened(Nothing) = <<>>
  BY NothingAssumption DEF Files, Opened
<1>2. FlattenSeq(Append(r, c)) = Whole(r, c) /\ Whole(r, c) \in Seq(Records)
  BY <1>1, WholeIs
<1> QED
  BY <1>1, <1>2, ConcatEmptySeq DEF Whole

LEMMA WholeWritten ==
  ASSUME NEW r \in Seq(Seq(Records)), NEW c \in Files, NEW e \in Records
  PROVE  Whole(r, Append(Opened(c), e)) = Append(Whole(r, c), e)
<1>1. PICK s, t : s = FlattenSeq(r) /\ t = Opened(c)
  OBVIOUS
<1>2. s \in Seq(Records) /\ t \in Seq(Records)
  BY <1>1, FlattenType, OpenedType
<1>3. Append(t, e) \in Seq(Records) /\ Append(t, e) # Nothing
  <2>1. Append(t, e) \in Seq(Records)
    BY <1>2
  <2>2. Nothing \notin Seq(Records)
    BY NothingAssumption
  <2> QED
    BY <2>1, <2>2
<1>4. <<e>> \in Seq(Records) /\ s \o t \in Seq(Records)
  BY <1>2, ConcatProperties
<1>5. Append(s \o t, e) = (s \o t) \o <<e>> /\ Append(t, e) = t \o <<e>>
  BY <1>2, <1>4, AppendIsConcat
<1>6. (s \o t) \o <<e>> = s \o (t \o <<e>>)
  BY <1>2, <1>4, ConcatAssociative
<1> QED
  BY <1>1, <1>3, <1>5, <1>6 DEF Whole, Opened

LEMMA LastOfConcat ==
  ASSUME NEW s \in Seq(Records), NEW t \in Seq(Records), t # <<>>
  PROVE  s \o t # <<>> /\ Last(s \o t) = Last(t) /\ Last(t) \in Records
<1>1. /\ Len(s \o t) = Len(s) + Len(t) /\ Len(t) \in Nat \ {0} /\ Len(s) \in Nat
      /\ s \o t \in Seq(Records)
      /\ \A i \in 1 .. Len(s) + Len(t) : (s \o t)[i] = IF i <= Len(s) THEN s[i] ELSE t[i - Len(s)]
  BY ConcatProperties, EmptySeq
<1>2. (s \o t)[Len(s) + Len(t)] = t[Len(t)]
  <2>1. /\ Len(s) + Len(t) \in 1..(Len(s) + Len(t)) /\ ~(Len(s) + Len(t) <= Len(s))
        /\ (Len(s) + Len(t)) - Len(s) = Len(t)
    BY <1>1
  <2> QED
    BY <1>1, <2>1
<1>3. t[Len(t)] \in Records
  <2>1. Len(t) \in 1..Len(t)
    BY <1>1
  <2> QED
    BY <2>1, ElementOfSeq
<1>4. s \o t # <<>>
  BY <1>1
<1> QED
  BY <1>1, <1>2, <1>3, <1>4 DEF Last

Chained(s) == \A i \in DOMAIN s : s[i].prev = IF i = 1 THEN Genesis ELSE s[i - 1].hash
TailOf(s)  == IF s = <<>> THEN Genesis ELSE Last(s).hash
Hashes(s)  == {s[i].hash : i \in DOMAIN s}

LEMMA ChainGrows ==
  ASSUME NEW s \in Seq(Records), NEW e \in Records, Chained(s), e.prev = TailOf(s)
  PROVE  Chained(Append(s, e)) /\ Hashes(Append(s, e)) = Hashes(s) \cup {e.hash}
<1>1. PICK u, n : u = Append(s, e) /\ n = Len(s)
  OBVIOUS
<1>2. /\ DOMAIN u = 1..(n + 1) /\ DOMAIN s = 1..n /\ n \in Nat /\ u[n + 1] = e
      /\ \A i \in 1..n : u[i] = s[i]
  BY <1>1, AppendProperties, LenProperties
<1>3. s = <<>> <=> n = 0
  BY <1>1
<1>4. 1..(n + 1) = 1..n \cup {n + 1}
  BY <1>2
<1>5. ASSUME NEW i \in 1..(n + 1) PROVE u[i].prev = IF i = 1 THEN Genesis ELSE u[i - 1].hash
  <2>1. CASE i = n + 1
    <3>1. i # 1 => n # 0 /\ i - 1 = n /\ n \in 1..n
      BY <1>2, <2>1
    <3>2. i = 1 => n = 0
      BY <1>2, <2>1
    <3>3. i # 1 => u[i - 1] = Last(s)
      BY <1>1, <1>2, <3>1 DEF Last
    <3> QED
      BY <1>2, <1>3, <2>1, <3>1, <3>2, <3>3 DEF TailOf
  <2>2. CASE i # n + 1
    <3>1. i \in 1..n /\ (i # 1 => i - 1 \in 1..n)
      BY <1>2, <2>2
    <3> QED
      BY <1>2, <3>1 DEF Chained
  <2> QED
    BY <2>1, <2>2
<1>6. Chained(u)
  BY <1>2, <1>5 DEF Chained
<1>7. Hashes(u) = Hashes(s) \cup {e.hash}
  BY <1>2, <1>4 DEF Hashes
<1> QED
  BY <1>1, <1>6, <1>7

-----------------------------------------------------------------------------
(* The tail of the last generation, when there is one. *)
Before == IF rotated = <<>> THEN Nothing ELSE Last(Last(rotated)).hash

(* Every generation continues the one before it. *)
GensInv ==
    /\ \A g \in 1..Len(rotated) :
         FileOK(rotated[g], IF g = 1 THEN Nothing ELSE Last(rotated[g - 1]).hash)
    /\ OpenedFile # <<>> => FileOK(OpenedFile, Before)

ChainInv ==
    /\ Chained(Whole(rotated, current))
    /\ rotated # <<>> => /\ FlattenSeq(rotated) # <<>>
                         /\ Last(FlattenSeq(rotated)) = Last(Last(rotated))
    /\ acked \subseteq Hashes(Whole(rotated, current))

(* An anchor is behind only while, or after, a rotation was not finished:  *)
(* then there is no current file, and nobody builds a record any more.     *)
AnchorOK ==
    anchor # Nothing =>
      /\ rotated # <<>> /\ anchor.rotated = Len(rotated)
      /\ anchor.tail = Last(Last(rotated)).hash

AnchorInv ==
    /\ AnchorOK \/ (current = Nothing /\ rotated # <<>> /\ step \in {"none", "renamed"})
    /\ rotated = <<>> => anchor = Nothing

AppendInv ==
    /\ torn => current # Nothing
    /\ holder = Nothing <=> step = "none"
    /\ step # "none" => /\ ~torn /\ rec \in Records
                        /\ rec.prev = TailOf(Whole(rotated, current))
    /\ step = "renamed" => current = Nothing /\ rotated # <<>>

LogInv == LogTypes /\ GensInv /\ ChainInv /\ AnchorInv /\ AppendInv

LEMMA OpenedIs == OpenedFile = Opened(current)
  BY DEF OpenedFile, Opened

(* The files stay, but for a new file of no lines. *)
LEMMA FilesStay ==
  ASSUME LogInv, UNCHANGED <<rotated, anchor, acked>>,
         current' = current \/ current' = OpenedFile
  PROVE  GensInv' /\ ChainInv' /\ Whole(rotated, current)' = Whole(rotated, current) /\ (AnchorOK => AnchorOK')
<1>1. OpenedFile' = OpenedFile
  <2>1. OpenedFile' = Opened(current') /\ OpenedFile = Opened(current)
    BY DEF OpenedFile, Opened
  <2>2. <<>> \in Seq(Records)
    BY EmptySeq
  <2>3. <<>> # Nothing
    BY <2>2, NothingAssumption
  <2> QED
    BY <2>1, <2>3 DEF Opened
<1>2. Whole(rotated, current)' = Whole(rotated, current)
  BY <1>1 DEF Whole, OpenedFile, Opened
<1>3. GensInv'
  BY <1>1 DEF LogInv, GensInv, Before, FileOK
<1>4. ChainInv'
  BY <1>2 DEF LogInv, ChainInv
<1> QED
  BY <1>2, <1>3, <1>4 DEF AnchorOK

LEMMA TailIs ==
  ASSUME LogInv, NEW p \in Procs, TailFor(p) # Bad
  PROVE  TailFor(p) = TailOf(Whole(rotated, current)) /\ ~torn /\ AnchorOK
<1> LogTypes /\ current \in Files /\ rotated \in Seq(Seq(Records))
  BY DEF LogInv, LogTypes, Files
<1>1. CASE NoLog
  <2>1. TailFor(p) = Genesis /\ anchor = Nothing /\ rotated = <<>>
    BY <1>1 DEF TailFor, LoadTail, EmptyTail
  <2>2. Opened(current) = <<>>
    BY <1>1 DEF NoLog, Opened
  <2>3. Whole(rotated, current) = <<>>
    BY <2>1, <2>2, FlattenEmpty DEF Whole
  <2> QED
    BY <1>1, <2>1, <2>3 DEF TailOf, NoLog, AnchorOK, LogInv, AppendInv
<1>2. CASE ~NoLog
  <2>1. ~torn /\ TailFor(p) = Last(current).hash
    BY <1>2 DEF TailFor, LoadTail
  <2>2. current # Nothing /\ current # <<>> /\ current \in Seq(Records)
    BY <1>2, <2>1 DEF NoLog, Files
  <2>3. /\ Whole(rotated, current) # <<>>
        /\ Last(Whole(rotated, current)) = Last(current)
    BY <2>2, LastOfConcat, FlattenType DEF Whole, Opened
  <2> QED
    BY <2>1, <2>2, <2>3 DEF TailOf, LogInv, AnchorInv
<1> QED
  BY <1>1, <1>2

LEMMA OpenedFileType == LogTypes => OpenedFile \in Seq(Records)
  BY EmptySeq DEF LogTypes, OpenedFile

LEMMA OpenStep ==
  ASSUME LogInv, NEW p \in Procs, Open(p)
  PROVE  LogInv'
<1>1. LogTypes'
  <2>1. ASSUME LoadTail(Genesis) # Bad PROVE LoadTail(Genesis) \in 0..MaxRecords
    <3>1. CASE NoLog
      BY <2>1, <3>1, RotateAssumption DEF LoadTail, EmptyTail, Genesis
    <3>2. CASE ~NoLog
      <4>1. LoadTail(Genesis) = Last(current).hash /\ ~torn
        BY <2>1, <3>2 DEF LoadTail
      <4>2. current \in Seq(Records) /\ current # <<>>
        BY <3>2, <4>1 DEF NoLog, LogInv, LogTypes
      <4>3. Last(current) \in Records
        BY <4>2, LastOfConcat
      <4> QED
        BY <4>1, <4>3, RotateAssumption DEF Records
    <3> QED
      BY <3>1, <3>2
  <2>2. \/ proc' = [proc EXCEPT ![p] = "refused"] /\ UNCHANGED <<prevHash, writable>>
        \/ /\ LoadTail(Genesis) # Bad
           /\ proc' = [proc EXCEPT ![p] = "up"]
           /\ prevHash' = [prevHash EXCEPT ![p] = LoadTail(Genesis)]
           /\ writable' = [writable EXCEPT ![p] = TRUE]
    BY DEF Open
  <2> QED
    BY <2>1, <2>2 DEF Open, LogInv, LogTypes, files
<1>2. UNCHANGED <<current, torn, rotated, anchor, holder, step, rec, built, acked>>
  BY DEF Open, files
<1>3. GensInv' /\ ChainInv' /\ Whole(rotated, current)' = Whole(rotated, current)
  BY <1>2, FilesStay
<1> QED
  BY <1>1, <1>2, <1>3 DEF LogInv, AnchorInv, AnchorOK, AppendInv

LEMMA BuildStep ==
  ASSUME LogInv, NEW p \in Procs, BuildRecord(p)
  PROVE  LogInv'
<1>1. UNCHANGED <<current, torn, rotated, anchor, acked, proc, prevHash, writable>>
  BY DEF BuildRecord, files
<1>2. GensInv' /\ ChainInv' /\ Whole(rotated, current)' = Whole(rotated, current) /\ (AnchorOK => AnchorOK')
  BY <1>1, FilesStay
<1>3. TailFor(p) = TailOf(Whole(rotated, current)) /\ ~torn /\ AnchorOK
  BY TailIs DEF BuildRecord
<1>4. TailOf(Whole(rotated, current)) \in 0..MaxRecords
  <2>1. PICK w : w = Whole(rotated, current)
    OBVIOUS
  <2>2. w \in Seq(Records)
    BY <2>1, WholeIs DEF LogInv, LogTypes, Files
  <2>3. w # <<>> => Last(w) \in Records
    BY <2>2, LastOfConcat
  <2> QED
    BY <2>1, <2>3, RotateAssumption DEF TailOf, Genesis, Records
<1>5. /\ built' = built + 1 /\ built' \in 1..MaxRecords
      /\ holder' = p /\ step' = "built"
      /\ rec' = [prev |-> TailOf(Whole(rotated, current)), hash |-> built + 1]
  BY <1>3, RotateAssumption DEF BuildRecord, LogInv, LogTypes
<1>6. rec' \in Records
  BY <1>4, <1>5 DEF Records
<1>7. LogTypes'
  BY <1>1, <1>5, RotateAssumption DEF LogInv, LogTypes
<1> QED
  BY <1>1, <1>2, <1>3, <1>5, <1>6, <1>7, NothingAssumption DEF LogInv, AnchorInv, AppendInv

LEMMA RenameStep ==
  ASSUME LogInv, Rename
  PROVE  LogInv'
<1> LogTypes /\ current \in Files /\ rotated \in Seq(Seq(Records))
  BY DEF LogInv, LogTypes, Files
<1>1. /\ rotated' = Append(rotated, current) /\ current' = Nothing /\ step' = "renamed" /\ step = "built"
      /\ UNCHANGED <<torn, anchor, proc, prevHash, writable, holder, rec, built, acked>>
  BY DEF Rename
<1>2. ~torn /\ current # <<>> /\ current \in Seq(Records) /\ current # Nothing
  BY DEF Rename, NeedsRotation, NoLog, LogInv, AppendInv, Files
<1>3. PICK Q, n : Q = Seq(Records) /\ n = Len(rotated)
  OBVIOUS
<1>4. /\ rotated' \in Seq(Seq(Records)) /\ Len(rotated') = n + 1 /\ n \in Nat
      /\ rotated'[n + 1] = current /\ rotated' # <<>>
      /\ \A g \in 1..n : rotated'[g] = rotated[g]
  <2>1. rotated \in Seq(Q) /\ current \in Q
    BY <1>2, <1>3
  <2>2. /\ rotated' \in Seq(Q) /\ Len(rotated') = n + 1 /\ n \in Nat
        /\ rotated'[n + 1] = current /\ rotated' # <<>>
        /\ \A g \in 1..n : rotated'[g] = rotated[g]
    BY <1>1, <1>3, <2>1, AppendProperties
  <2> QED
    BY <1>3, <2>2
<1>5. LogTypes'
  <2>1. anchor = Nothing \/ anchor.rotated \in 1..Len(rotated')
    BY <1>3, <1>4 DEF LogTypes
  <2> QED
    BY <1>1, <1>4, <2>1 DEF LogTypes
<1>6. Last(rotated') = current
  BY <1>4 DEF Last
<1>7. OpenedFile' = <<>> /\ OpenedFile = current
  BY <1>1, <1>2 DEF OpenedFile
<1>8. GensInv'
  <2>1. ASSUME NEW g \in 1..Len(rotated')
        PROVE  FileOK(rotated'[g], IF g = 1 THEN Nothing ELSE Last(rotated'[g - 1]).hash)
    <3>1. CASE g = n + 1
      <4>1. FileOK(current, Before)
        BY <1>2, <1>7 DEF LogInv, GensInv
      <4>2. rotated = <<>> <=> n = 0
        BY <1>3
      <4>3. Before = IF g = 1 THEN Nothing ELSE Last(rotated'[g - 1]).hash
        <5>1. g # 1 => g - 1 = n /\ n \in 1..n /\ rotated # <<>> /\ Last(rotated) = rotated[n]
          BY <1>3, <1>4, <3>1, <4>2 DEF Last
        <5>2. g # 1 => Last(rotated) = rotated'[g - 1]
          BY <1>4, <5>1
        <5>3. g = 1 => rotated = <<>>
          BY <1>4, <3>1, <4>2
        <5> QED
          BY <5>1, <5>2, <5>3 DEF Before
      <4> QED
        BY <1>4, <3>1, <4>1, <4>3
    <3>2. CASE g # n + 1
      <4>1. g \in 1..n /\ (g # 1 => g - 1 \in 1..n)
        BY <1>4, <3>2
      <4>2. rotated'[g] = rotated[g] /\ (g # 1 => rotated'[g - 1] = rotated[g - 1])
        BY <1>4, <4>1
      <4>3. FileOK(rotated[g], IF g = 1 THEN Nothing ELSE Last(rotated[g - 1]).hash)
        BY <1>3, <4>1 DEF LogInv, GensInv
      <4> QED
        BY <4>2, <4>3
    <3> QED
      BY <3>1, <3>2
  <2> QED
    BY <1>7, <2>1 DEF GensInv
<1>9. /\ Whole(rotated', current') = Whole(rotated, current)
      /\ FlattenSeq(rotated') = Whole(rotated, current)
  BY <1>1, <1>2, WholeRenamed
<1>10. ChainInv'
  <2>1. /\ Whole(rotated, current) # <<>> /\ Last(Whole(rotated, current)) = Last(current)
    BY <1>2, LastOfConcat, FlattenType DEF Whole, Opened
  <2> QED
    BY <1>1, <1>6, <1>9, <2>1 DEF LogInv, ChainInv
<1>11. AnchorInv' /\ AppendInv'
  BY <1>1, <1>4, <1>9 DEF LogInv, AnchorInv, AppendInv
<1> QED
  BY <1>5, <1>8, <1>10, <1>11 DEF LogInv

LEMMA AnchorStep ==
  ASSUME LogInv, WriteAnchor
  PROVE  LogInv'
<1>1. UNCHANGED <<current, torn, rotated, proc, prevHash, writable, holder, rec, built, acked>>
  BY DEF WriteAnchor
<1>2. /\ rotated # <<>> /\ step = "renamed" /\ step' = "opened"
      /\ anchor' = [rotated |-> Len(rotated), tail |-> Last(Last(rotated)).hash]
  BY DEF WriteAnchor, NewAnchor, LogInv, AppendInv
<1>3. Len(rotated) \in Nat \ {0}
  BY <1>2, EmptySeq DEF LogInv, LogTypes
<1>4. LogTypes'
  <2>1. anchor'.rotated \in 1..Len(rotated)
    BY <1>2, <1>3
  <2> QED
    BY <1>1, <1>2, <2>1 DEF LogInv, LogTypes
<1>5. GensInv' /\ ChainInv' /\ Whole(rotated, current)' = Whole(rotated, current)
  BY <1>1 DEF LogInv, GensInv, ChainInv, Whole, Opened, OpenedFile, Before, FileOK
<1>6. AnchorOK'
  BY <1>1, <1>2 DEF AnchorOK
<1> QED
  BY <1>1, <1>2, <1>4, <1>5, <1>6 DEF LogInv, AnchorInv, AppendInv

(* The record reaches the file. *)
LEMMA WrittenFiles ==
  ASSUME LogInv, step = "opened", current' = Append(OpenedFile, rec),
         UNCHANGED <<torn, rotated, anchor>>, acked' \in {acked, acked \cup {rec.hash}}
  PROVE  GensInv' /\ ChainInv' /\ AnchorOK' /\ current' \in Seq(Records) /\ current' # Nothing
<1> LogTypes /\ current \in Files /\ rotated \in Seq(Seq(Records))
  BY DEF LogInv, LogTypes, Files
<1>1. /\ rec \in Records /\ rec.prev = TailOf(Whole(rotated, current)) /\ AnchorOK
      /\ OpenedFile = Opened(current) /\ Opened(current) \in Seq(Records)
  BY OpenedType, OpenedIs DEF LogInv, AppendInv, AnchorInv
<1>2. PICK o : o = Opened(current)
  OBVIOUS
<1>3. current' = Append(o, rec) /\ current' \in Seq(Records) /\ current' # Nothing /\ current' # <<>>
  <2>1. o \in Seq(Records) /\ rec \in Records /\ current' = Append(o, rec)
    BY <1>1, <1>2
  <2>2. Append(o, rec) \in Seq(Records) /\ Append(o, rec) # <<>>
    BY <2>1, AppendProperties
  <2> QED
    BY <2>1, <2>2, NothingAssumption
<1>4. OpenedFile' = current' /\ Whole(rotated, current)' = Append(Whole(rotated, current), rec)
  <2>1. Whole(rotated, Append(Opened(current), rec)) = Append(Whole(rotated, current), rec)
    BY <1>1, WholeWritten
  <2>2. Whole(rotated, current)' = Whole(rotated', current')
    BY DEF Whole, Opened
  <2> QED
    BY <1>1, <1>3, <2>1, <2>2 DEF OpenedFile
<1>5. ChainInv'
  <2>1. PICK w : w = Whole(rotated, current)
    OBVIOUS
  <2>2. w \in Seq(Records) /\ Chained(w) /\ rec.prev = TailOf(w)
    BY <1>1, <2>1, WholeIs DEF LogInv, ChainInv
  <2>3. Chained(Append(w, rec)) /\ Hashes(Append(w, rec)) = Hashes(w) \cup {rec.hash}
    BY <1>1, <2>2, ChainGrows
  <2> QED
    BY <1>4, <2>1, <2>3 DEF LogInv, ChainInv
<1>6. FileOK(current', Before)
  <2>1. PICK n : n = Len(o)
    OBVIOUS
  <2>2. /\ DOMAIN current' = 1..(n + 1) /\ DOMAIN o = 1..n /\ n \in Nat /\ current'[n + 1] = rec
        /\ \A i \in 1..n : current'[i] = o[i]
    BY <1>1, <1>2, <1>3, <2>1, AppendProperties, LenProperties
  <2>3. CASE o = <<>>
    <3>1. n = 0 /\ DOMAIN current' = {1} /\ current'[1] = rec
      BY <2>1, <2>2, <2>3
    <3>2. Before # Nothing => rec.prev = Before
      <4>1. SUFFICES ASSUME rotated # <<>> PROVE rec.prev = Last(Last(rotated)).hash
        BY DEF Before
      <4>2. Whole(rotated, current) = FlattenSeq(rotated)
        <5>1. FlattenSeq(rotated) \in Seq(Records)
          BY FlattenType
        <5>2. FlattenSeq(rotated) \o <<>> = FlattenSeq(rotated)
          BY <5>1, ConcatEmptySeq
        <5> QED
          BY <1>2, <2>3, <5>2 DEF Whole
      <4> QED
        BY <1>1, <4>1, <4>2 DEF TailOf, LogInv, ChainInv
    <3> QED
      BY <1>3, <3>1, <3>2 DEF FileOK
  <2>4. CASE o # <<>>
    <3>1. FileOK(o, Before) /\ n \in Nat \ {0}
      BY <1>1, <1>2, <2>1, <2>4, EmptySeq DEF LogInv, GensInv
    <3>2. rec.prev = o[n].hash
      <4>1. Whole(rotated, current) # <<>> /\ Last(Whole(rotated, current)) = Last(o)
        BY <1>1, <1>2, <2>4, LastOfConcat, FlattenType DEF Whole
      <4> QED
        BY <1>1, <2>1, <4>1 DEF TailOf, Last
    <3>3. ASSUME NEW i \in 1..(n + 1)
          PROVE  IF i = 1 THEN Before # Nothing => current'[1].prev = Before
                 ELSE current'[i].prev = current'[i - 1].hash
      <4>1. CASE i = n + 1
        <5>1. i # 1 /\ i - 1 = n /\ n \in 1..n /\ current'[n] = o[n]
          BY <2>2, <3>1, <4>1
        <5> QED
          BY <2>2, <3>2, <4>1, <5>1
      <4>2. CASE i # n + 1
        <5>1. i \in 1..n /\ (i # 1 => i - 1 \in 1..n) /\ 1 \in 1..n
          BY <2>2, <4>2
        <5> QED
          BY <2>2, <3>1, <5>1 DEF FileOK
      <4> QED
        BY <4>1, <4>2
    <3> QED
      BY <1>3, <2>2, <3>3 DEF FileOK
  <2> QED
    BY <2>3, <2>4
<1>7. GensInv'
  <2>1. Before' = Before
    BY DEF Before
  <2> QED
    BY <1>4, <1>6, <2>1 DEF LogInv, GensInv
<1> QED
  BY <1>1, <1>3, <1>5, <1>7 DEF AnchorOK

LEMMA EndStep ==
  ASSUME LogInv,
         \/ WriteRecord \/ FailAppend \/ OpenForAppend
         \/ \E p \in Procs : WriterDies(p) \/ RefuseAppend(p)
  PROVE  LogInv'
<1> LogTypes /\ current \in Files /\ rotated \in Seq(Seq(Records)) /\ OpenedFile \in Seq(Records)
  BY OpenedFileType DEF LogInv, LogTypes, Files
<1> OpenedFile # Nothing
  BY NothingAssumption
<1>1. CASE WriteRecord
  <2>1. /\ step = "opened" /\ current' = Append(OpenedFile, rec) /\ acked' = acked \cup {rec.hash}
        /\ prevHash' = [prevHash EXCEPT ![holder] = rec.hash]
        /\ writable' = [writable EXCEPT ![holder] = TRUE]
        /\ holder' = Nothing /\ step' = "none" /\ rec' = Nothing
        /\ UNCHANGED <<torn, rotated, anchor, proc, built>>
    BY <1>1 DEF WriteRecord, Release
  <2>2. GensInv' /\ ChainInv' /\ AnchorOK' /\ current' \in Seq(Records) /\ current' # Nothing
    BY <2>1, WrittenFiles
  <2>3. rec.hash \in 0..MaxRecords /\ rec.hash \in 1..MaxRecords
    BY <2>1, RotateAssumption DEF LogInv, AppendInv, Records
  <2>4. LogTypes'
    BY <2>1, <2>2, <2>3 DEF LogTypes
  <2> QED
    BY <2>1, <2>2, <2>4 DEF LogInv, AnchorInv, AppendInv
<1>2. CASE OpenForAppend
  <2>1. /\ step = "built" /\ step' = "opened" /\ current' = OpenedFile
        /\ UNCHANGED <<torn, rotated, anchor, proc, prevHash, writable, holder, rec, built, acked>>
    BY <1>2 DEF OpenForAppend
  <2>2. GensInv' /\ ChainInv' /\ Whole(rotated, current)' = Whole(rotated, current) /\ AnchorOK'
    BY <2>1, FilesStay DEF LogInv, AnchorInv
  <2>3. LogTypes'
    BY <2>1 DEF LogTypes
  <2> QED
    BY <2>1, <2>2, <2>3 DEF LogInv, AnchorInv, AppendInv
<1>3. CASE FailAppend
  <2>1. /\ step \in {"built", "renamed", "opened"}
        /\ holder' = Nothing /\ step' = "none"
        /\ writable' = [writable EXCEPT ![holder] = FALSE]
        /\ \/ UNCHANGED <<current, torn>>
           \/ step = "opened" /\ current' = OpenedFile /\ torn' = TRUE
        /\ UNCHANGED <<rotated, anchor, proc, prevHash, built, acked>>
    BY <1>3 DEF FailAppend, Release
  <2>2. GensInv' /\ ChainInv' /\ Whole(rotated, current)' = Whole(rotated, current) /\ (AnchorOK => AnchorOK')
    BY <2>1, FilesStay
  <2>3. LogTypes'
    BY <2>1 DEF LogTypes
  <2>4. AnchorInv'
    BY <2>1, <2>2 DEF LogInv, AnchorInv, AppendInv
  <2> QED
    BY <2>1, <2>2, <2>3, <2>4 DEF LogInv, AppendInv
<1>4. ASSUME NEW p \in Procs, WriterDies(p) PROVE LogInv'
  <2>1. /\ proc' = [proc EXCEPT ![p] = "down"] /\ prevHash' = [prevHash EXCEPT ![p] = Genesis]
        /\ UNCHANGED <<rotated, anchor, writable, built, acked>>
    BY <1>4 DEF WriterDies
  <2>2. CASE holder # p
    <3>1. UNCHANGED <<current, torn, holder, step, rec>>
      BY <1>4, <2>2 DEF WriterDies
    <3>2. LogTypes'
      BY <2>1, <3>1, RotateAssumption DEF LogTypes, Genesis
    <3>3. GensInv' /\ ChainInv' /\ Whole(rotated, current)' = Whole(rotated, current)
      BY <2>1, <3>1, FilesStay
    <3> QED
      BY <2>1, <3>1, <3>2, <3>3 DEF LogInv, AnchorInv, AnchorOK, AppendInv
  <2>3. CASE holder = p
    <3>1. /\ holder' = Nothing /\ step' = "none" /\ step # "none"
          /\ \/ UNCHANGED <<current, torn>>
             \/ step = "opened" /\ torn' = TRUE /\ current' = OpenedFile
             \/ step = "opened" /\ UNCHANGED torn /\ current' = Append(OpenedFile, rec)
      BY <1>4, <2>3, NothingAssumption DEF WriterDies, Release, LogInv, AppendInv
    <3>2. CASE UNCHANGED <<current, torn>> \/ (step = "opened" /\ torn' = TRUE /\ current' = OpenedFile)
      <4>1. GensInv' /\ ChainInv' /\ Whole(rotated, current)' = Whole(rotated, current) /\ (AnchorOK => AnchorOK')
        BY <2>1, <3>2, FilesStay
      <4>2. LogTypes'
        <5>1. proc' \in [Procs -> {"down", "up", "refused"}] /\ prevHash' \in [Procs -> 0..MaxRecords]
          BY <2>1, RotateAssumption DEF LogTypes, Genesis
        <5>2. current' \in Seq(Records) \cup {Nothing}
          BY <3>2 DEF Files
        <5>3. torn' \in BOOLEAN
          BY <3>2 DEF LogTypes
        <5> QED
          BY <2>1, <3>1, <5>1, <5>2, <5>3 DEF LogTypes
      <4>3. AnchorInv'
        BY <2>1, <3>1, <3>2, <4>1 DEF LogInv, AnchorInv, AppendInv
      <4> QED
        BY <3>1, <3>2, <4>1, <4>2, <4>3 DEF LogInv, AppendInv
    <3>3. CASE step = "opened" /\ UNCHANGED torn /\ current' = Append(OpenedFile, rec)
      <4>1. GensInv' /\ ChainInv' /\ AnchorOK' /\ current' \in Seq(Records) /\ current' # Nothing
        BY <2>1, <3>3, WrittenFiles
      <4>2. LogTypes'
        BY <2>1, <3>1, <3>3, <4>1, RotateAssumption DEF LogTypes, Genesis
      <4> QED
        BY <2>1, <3>1, <3>3, <4>1, <4>2 DEF LogInv, AnchorInv, AppendInv
    <3> QED
      BY <3>1, <3>2, <3>3
  <2> QED
    BY <2>2, <2>3
<1>5. ASSUME NEW p \in Procs, RefuseAppend(p) PROVE LogInv'
  <2>1. /\ writable' = [writable EXCEPT ![p] = FALSE]
        /\ UNCHANGED <<current, torn, rotated, anchor, proc, prevHash, holder, step, rec, built, acked>>
    BY <1>5 DEF RefuseAppend, files
  <2>2. GensInv' /\ ChainInv' /\ Whole(rotated, current)' = Whole(rotated, current)
    BY <2>1, FilesStay
  <2>3. LogTypes'
    BY <2>1 DEF LogTypes
  <2> QED
    BY <2>1, <2>2, <2>3 DEF LogInv, AnchorInv, AnchorOK, AppendInv
<1> QED
  BY <1>1, <1>2, <1>3, <1>4, <1>5

LEMMA LogInvInit == LogInit => LogInv
<1> SUFFICES ASSUME LogInit PROVE LogInv
  OBVIOUS
<1>1. LogTypes
  <2>1. PICK Q : Q = Seq(Records)
    OBVIOUS
  <2>2. rotated \in Seq(Seq(Records))
    BY <2>1, EmptySeq DEF LogInit
  <2>3. 0 \in 0..MaxRecords
    BY RotateAssumption
  <2> QED
    BY <2>2, <2>3 DEF LogInit, LogTypes, Genesis
<1>2. Whole(rotated, current) = <<>> /\ OpenedFile = <<>> /\ Len(rotated) = 0
  BY FlattenEmpty DEF LogInit, Whole, Opened, OpenedFile
<1>3. GensInv /\ ChainInv
  BY <1>2 DEF LogInit, GensInv, ChainInv, Chained
<1> QED
  BY <1>1, <1>3, NothingAssumption DEF LogInit, LogInv, AnchorInv, AnchorOK, AppendInv

LEMMA LogInvStep == LogInv /\ [LogNext]_logVars => LogInv'
<1> SUFFICES ASSUME LogInv, [LogNext]_logVars PROVE LogInv'
  OBVIOUS
<1>1. CASE UNCHANGED logVars
  <2>1. /\ UNCHANGED <<current, torn, rotated, anchor>>
        /\ UNCHANGED <<proc, prevHash, writable, holder, step, rec, built, acked>>
    BY <1>1 DEF logVars
  <2>2. GensInv' /\ ChainInv' /\ Whole(rotated, current)' = Whole(rotated, current)
    BY <2>1, FilesStay
  <2>3. LogTypes'
    BY <2>1 DEF LogInv, LogTypes
  <2> QED
    BY <2>1, <2>2, <2>3 DEF LogInv, AnchorInv, AnchorOK, AppendInv
<1>2. CASE LogNext
  BY <1>2, OpenStep, BuildStep, RenameStep, AnchorStep, EndStep DEF LogNext
<1> QED
  BY <1>1, <1>2

LEMMA LogInvChains == LogInv => OneChain
<1> SUFFICES ASSUME LogInv PROVE OneChain
  OBVIOUS
<1>1. AllRecords = Whole(rotated, current)
  BY WholeIs DEF LogInv, LogTypes, Files, AllRecords, Generations
<1>2. ASSUME holder = Nothing, ~torn, ~NoLog PROVE VerifyAllGenerations
  <2>1. current \in Seq(Records) /\ current # Nothing /\ current # <<>> /\ OpenedFile = current
    BY <1>2 DEF NoLog, LogInv, LogTypes, OpenedFile
  <2>2. PICK Q, n : Q = Seq(Records) /\ n = Len(rotated)
    OBVIOUS
  <2>3. PICK gens : gens = Append(rotated, current)
    OBVIOUS
  <2>4. /\ gens \in Seq(Q) /\ gens # <<>> /\ DOMAIN gens = 1..(n + 1) /\ n \in Nat
        /\ gens[n + 1] = current /\ \A g \in 1..n : gens[g] = rotated[g]
    <3>1. rotated \in Seq(Q) /\ current \in Q
      BY <2>1, <2>2 DEF LogInv, LogTypes
    <3> QED
      <4>1. /\ gens \in Seq(Q) /\ gens # <<>> /\ Len(gens) = n + 1
            /\ gens[n + 1] = current /\ \A g \in 1..n : gens[g] = rotated[g]
        <5>1. /\ Append(rotated, current) \in Seq(Q) /\ Append(rotated, current) # <<>>
              /\ Len(Append(rotated, current)) = Len(rotated) + 1
              /\ \A i \in 1..Len(rotated) : Append(rotated, current)[i] = rotated[i]
              /\ Append(rotated, current)[Len(rotated) + 1] = current
          BY <3>1, AppendProperties
        <5> QED
          BY <2>2, <2>3, <5>1, Zenon
      <4>2. DOMAIN gens = 1..Len(gens) /\ n \in Nat
        <5>1. gens \in Seq(Q)
          BY <4>1
        <5> QED
          BY <2>2, <3>1, <5>1
      <4> QED
        BY <4>1, <4>2
  <2>5. ASSUME NEW g \in 1..(n + 1)
        PROVE  FileOK(gens[g], IF g = 1 THEN Nothing ELSE Last(gens[g - 1]).hash)
    <3>1. CASE g = n + 1
      <4>1. FileOK(current, Before)
        BY <2>1 DEF LogInv, GensInv
      <4>2. rotated = <<>> <=> n = 0
        BY <2>2, EmptySeq DEF LogInv, LogTypes
      <4>3. g # 1 => g - 1 = n /\ n \in 1..n /\ Last(rotated) = gens[g - 1]
        BY <2>2, <2>4, <3>1 DEF Last
      <4>4. Before = IF g = 1 THEN Nothing ELSE Last(gens[g - 1]).hash
        BY <2>4, <3>1, <4>2, <4>3 DEF Before
      <4> QED
        BY <2>4, <3>1, <4>1, <4>4
    <3>2. CASE g # n + 1
      <4>1. g \in 1..n /\ (g # 1 => g - 1 \in 1..n)
        BY <2>4, <3>2
      <4>2. gens[g] = rotated[g] /\ (g # 1 => gens[g - 1] = rotated[g - 1])
        BY <2>4, <4>1
      <4>3. FileOK(rotated[g], IF g = 1 THEN Nothing ELSE Last(rotated[g - 1]).hash)
        BY <2>2, <4>1 DEF LogInv, GensInv
      <4> QED
        BY <4>2, <4>3
    <3> QED
      BY <3>1, <3>2
  <2>6. AnchorOK
    BY <2>1 DEF LogInv, AnchorInv
  <2>7. Generations = gens
    BY <2>1, <2>3 DEF Generations
  <2> QED
    BY <1>2, <2>4, <2>5, <2>6, <2>7 DEF VerifyAllGenerations, AnchorOK
<1> QED
  BY <1>1, <1>2 DEF OneChain, LogInv, ChainInv, Chained, Hashes

(* Every reachable state of the log is well typed.                         *)
THEOREM LogTypeCorrect == LogSpec => []LogTypes
<1>1. LogInv => LogTypes
  BY DEF LogInv
<1> QED
  BY <1>1, LogInvInit, LogInvStep, PTL DEF LogSpec

(* However many processes append, die, fail to write or are cut off in a   *)
(* rotation: all generations are one chain from Genesis, what append()     *)
(* returned for is in it, and the verifier accepts an untorn log.          *)
THEOREM LogIsOneChain == LogSpec => []OneChain
<1> QED
  BY LogInvInit, LogInvStep, LogInvChains, PTL DEF LogSpec

-----------------------------------------------------------------------------
(* TurnPipeline: the invariant                                             *)

(* What need not be in the window or the file any more. *)
Excused == spilled \cup gone \cup raced \cup unread

(* A look from outside, whatever it loads, and the end of a checkpoint. *)
Looks          == \E loaded \in Loadable : Look(loaded)
Checkpoints(n) == \/ \E status \in {"complete", "in_progress", "delivery_failed"} :
                       SaveCheckpoint(n, status)
                  \/ CheckpointFails(n)

(* Objects are as many as the moves call for; a turn that runs, or whose   *)
(* thread does, has one.                                                   *)
ObjectInv ==
    /\ made <= moves + (IF live = 0 THEN 0 ELSE 1)
    /\ place # "idle" => window[latest] # 0
    /\ \A n \in Turn : thread[n] # "none" => window[n] # 0

(* How far a turn and its thread have come. *)
Begun(n)    == n < latest \/ (n = latest /\ place \notin {"agent", "deliver"})
Written     == {"write", "persisted", "save", "done", "none"}

ThreadInv ==
    /\ \A n \in Turn : thread[n] # "none" \/ n \in lateWriters => n # 0 /\ Begun(n)
    /\ \A n \in lateWriters : thread[n] \in Written
    /\ \A n \in Turn : thread[n] \notin {"none", "done"} /\ ended[n] # "cancelled"
                         => n = latest /\ place \in {"compact", "save"}
    /\ place = "compact" => thread[latest] \notin {"none", "save", "done"}
    /\ place = "save" => thread[latest] \in {"save", "done"}

EndedInv ==
    /\ \A n \in Turn : n > latest => ended[n] = "no"
    /\ place # "idle" => ended[latest] \in {"no", "unsaved"} /\ latest # 0

(* Frames of turns and kinds to come are new. *)
FreshInv ==
    /\ \A f \in said : f.n <= latest
    /\ place = "agent" => Frame(latest, "tool") \notin said
    /\ place \in {"agent", "deliver"} => Frame(latest, "assistant") \notin said

SaidInv ==
    /\ \A o \in Object : Range(body[o]) \subseteq said
    /\ Range(file.body) \subseteq said
    /\ gone \subseteq said
    /\ \A n \in Turn : Range(plan[n].kept) \subseteq said

(* What a thread has computed is what the body was, except for frames that *)
(* are archived, gone or raced; and a thread that saves a window which is  *)
(* detached writes none that is missed.                                    *)
PlanInv ==
    \A n \in Turn : thread[n] \in {"replace", "drop"} =>
        /\ Range(body[window[n]]) \subseteq Range(plan[n].kept) \cup plan[n].out \cup Excused
        /\ Range(plan[n].kept) \cup plan[n].out \subseteq Range(body[window[n]]) \cup Excused

WriteInv ==
    \A n \in Turn : thread[n] = "write" =>
        /\ live = 0 => said \subseteq Excused
        /\ ended[n] # "cancelled" => said \subseteq Range(plan[n].kept) \cup Excused

(* After a reset nothing brings back what is gone, unless a thread that    *)
(* was writing the file at that time has gone on.                          *)
LateDone == \E n \in lateWriters : thread[n] # "write"

ClearInv ==
    /\ Range(LiveBody) \cap gone = {} /\ Range(file.body) \cap gone = {}
    /\ \A n \in Turn :
         (thread[n] = "write" /\ n \notin lateWriters)
         \/ (thread[n] \in {"replace", "drop"} /\ window[n] = live)
           => Range(plan[n].kept) \cap gone = {}

ResetInv == LateDone \/ ClearInv

(* The turns whose frames must be durable: finished, or saved and about to *)
(* be.                                                                     *)
Saved(n) ==
    \/ ended[n] = "finished"
    \/ /\ n = latest /\ ended[n] # "unsaved"
       /\ place = "save" \/ (place = "compact" /\ thread[n] = "persisted")

DurableInv ==
    \A f \in said : Saved(f.n) => (f \in Range(file.body) \cup Excused
                                 \/ (file.by # 0 /\ ended[file.by] = "cancelled"))

Checked(n) ==
    ended[n] = "finished" \/ (n = latest /\ place = "save" /\ thread[n] = "done")

CheckInv ==
    /\ \A n \in Turn : (outcome[n] = "delivered" => n \in shown)
                     /\ (thread[n] # "none" => outcome[n] # "none")
    /\ checkpoint # NoCheckpoint => checkpoint.n # 0 /\ Begun(checkpoint.n)
    /\ checkpoint.status = "complete" =>
           checkpoint.n \in shown \/ outcome[checkpoint.n] = "suppressed"
    /\ \/ ended[checkpoint.n] = "cancelled"
       \/ \A n \in Turn \ unrecorded : Checked(n) => n <= checkpoint.n

ControlInv == ObjectInv /\ ThreadInv /\ EndedInv /\ FreshInv /\ SaidInv
PipelineInv == /\ PipelineTypeOK /\ ControlInv /\ NothingForgotten /\ PlanInv /\ WriteInv
               /\ ResetInv /\ DurableInv /\ CheckInv

-----------------------------------------------------------------------------
(* TurnPipeline: the operators of the window                               *)

LEMMA RangeHas ==
  ASSUME NEW S, NEW s \in Seq(S)
  PROVE  Range(s) \subseteq S /\ \A x : x \in Range(s) <=> Has(s, x)
<1>1. DOMAIN s = 1..Len(s) /\ \A i \in 1..Len(s) : s[i] \in S
  OBVIOUS
<1> QED
  BY <1>1 DEF Range, Has

LEMMA WithoutIs ==
  ASSUME NEW b \in Seq(Frames), NEW out
  PROVE  Without(b, out) \in Seq(Frames) /\ Range(Without(b, out)) = Range(b) \ out
<1>1. /\ Without(b, out) \in Seq(Frames)
      /\ \A x : Has(Without(b, out), x) <=> x \in Range(b) \ out /\ Has(b, x)
  BY OnlyKeeps DEF Without
<1>2. \A x : x \in Range(Without(b, out)) <=> Has(Without(b, out), x)
  BY <1>1, RangeHas
<1>3. \A x : x \in Range(b) <=> Has(b, x)
  BY RangeHas
<1> QED
  BY <1>1, <1>2, <1>3

LEMMA LongerRange ==
  ASSUME NEW b \in Seq(Frames), NEW f \in Frames
  PROVE  Append(b, f) \in Seq(Frames) /\ Range(Append(b, f)) = Range(b) \cup {f}
<1>1. /\ Append(b, f) \in Seq(Frames)
      /\ \A x : Has(Append(b, f), x) <=> Has(b, x) \/ x = f
  BY AppendHas
<1>2. \A x : x \in Range(Append(b, f)) <=> Has(Append(b, f), x)
  BY <1>1, RangeHas
<1>3. \A x : x \in Range(b) <=> Has(b, x)
  BY RangeHas
<1> QED
  BY <1>1, <1>2, <1>3

LEMMA EmptyRange == <<>> \in Seq(Frames) /\ Range(<<>>) = {}
  BY DEF Range

LEMMA PastFrames == Past \in Seq(Frames) /\ \A f \in Range(Past) : f.n = 0 /\ f \in Frames
<1>1. 0 \in Turn
  BY PipelineAssumption DEF Turn
<1>2. Past \in Seq(Frames) /\ Len(Past) = 3
  BY <1>1 DEF Past, Frame, Frames
<1>3. Past[1].n = 0 /\ Past[2].n = 0 /\ Past[3].n = 0
  BY DEF Past, Frame
<1>4. DOMAIN Past = {1, 2, 3} /\ \A i \in {1, 2, 3} : Past[i] \in Frames
  <2>1. DOMAIN Past = 1..3
    BY <1>2
  <2> QED
    BY <1>2, <2>1, SMTT(30)
<1>5. \A f \in Range(Past) : f = Past[1] \/ f = Past[2] \/ f = Past[3]
  BY <1>4 DEF Range
<1> QED
  BY <1>2, <1>3, <1>4, <1>5

(* What is taken out of a window was in it. *)
LEMMA TakenOut ==
  ASSUME NEW b \in Seq(Frames)
  PROVE  /\ Evictable(b) \subseteq Range(b) /\ Solved(b) \subseteq Range(b)
         /\ \A half : Dumped(b, half) \subseteq Range(b)
<1>1. Evictable(b) \subseteq Range(b)
  <2> DEFINE old == Only(b, {f \in Range(b) : f.n \notin Protected(b)})
  <2>1. old \in Seq(Frames) /\ \A x : Has(old, x) => Has(b, x)
    BY OnlyKeeps
  <2>2. \A x : Has(b, x) <=> x \in Range(b)
    BY RangeHas
  <2>3. \A x : x \in Evictable(b) => \E j \in DOMAIN old : x = old[j]
    BY DEF Evictable
  <2> HIDE DEF old
  <2>4. \A j \in DOMAIN old : old[j] \in Range(b)
    <3>1. DOMAIN old = 1..Len(old)
      BY <2>1
    <3>2. \A j \in DOMAIN old : Has(old, old[j])
      BY <3>1 DEF Has
    <3> QED
      BY <2>1, <2>2, <3>2
  <2> QED
    BY <2>3, <2>4
<1>2. ASSUME NEW half
      PROVE  Dumped(b, half) \subseteq Range(b)
  <2>1. Len(b) \in Nat /\ DOMAIN b = 1..Len(b)
    OBVIOUS
  <2>2. \A k \in Int : k <= Len(b) => {b[i] : i \in 1..k} \subseteq Range(b)
    BY <2>1 DEF Range
  <2>3. Len(b) \div 2 \in Int /\ Len(b) \div 2 <= Len(b)
    BY <2>1
  <2> QED
    BY <2>1, <2>2, <2>3 DEF Dumped
<1> QED
  BY <1>1, <1>2 DEF Solved

-----------------------------------------------------------------------------
(* TurnPipeline: the types                                                 *)

LEMMA TurnFacts ==
  /\ Turn \subseteq Nat /\ 0 \in Turn
  /\ \A n \in Turn : /\ Frame(n, "user") \in Frames /\ Frame(n, "tool") \in Frames
                     /\ Frame(n, "assistant") \in Frames
  /\ \A n, kind : Frame(n, kind).n = n
  /\ \A f \in Frames : f.n \in Turn
  BY PipelineAssumption DEF Turn, Frame, Frames

LEMMA LiveBodyType ==
  ASSUME PipelineTypeOK, ObjectInv
  PROVE  /\ LiveBody \in Seq(Frames) /\ LiveObject \in Object
         /\ live # 0 => LiveObject = live /\ live \in Object
         /\ live = 0 => LiveObject = made + 1
  BY PipelineAssumption DEF PipelineTypeOK, ObjectInv, LiveBody, LiveObject, Object

(* A load gives what there is, or an empty window in place of the file. *)
LEMMA LoadedIs ==
  ASSUME PipelineTypeOK, ObjectInv, NEW loaded \in Loadable
  PROVE  /\ loaded \in Seq(Frames) /\ Range(loaded) \subseteq Range(LiveBody)
         /\ live # 0 => loaded = LiveBody
         /\ NotRead(loaded) => /\ unread \subseteq unread'
                               /\ Range(LiveBody) \subseteq Range(loaded) \cup unread'
<1>1. loaded = LiveBody \/ (live = 0 /\ loaded = <<>>)
  BY DEF Loadable
<1> QED
  BY <1>1, LiveBodyType, EmptyRange DEF NotRead

LEMMA KeptLive ==
  ASSUME PipelineTypeOK, ObjectInv, NEW b \in Seq(Frames), KeepLive(b)
  PROVE  /\ live' = LiveObject /\ live' \in Object /\ live' \in 1..made'
         /\ made' \in made..made + 1
         /\ live = 0 => live' = made + 1 /\ made' = made + 1
         /\ live # 0 => live' = live /\ made' = made
         /\ body' \in [Object -> Seq(Frames)] /\ body'[live'] = b
         /\ \A o \in Object : o # live' => body'[o] = body[o]
<1>1. LiveObject \in Object /\ made \in Nat /\ body \in [Object -> Seq(Frames)]
  BY LiveBodyType, PipelineAssumption DEF PipelineTypeOK
<1>2. live' = LiveObject /\ body' = [body EXCEPT ![LiveObject] = b]
  BY DEF KeepLive
<1>3. body' \in [Object -> Seq(Frames)] /\ body'[LiveObject] = b
      /\ \A o \in Object : o # LiveObject => body'[o] = body[o]
  BY <1>1, <1>2
<1> QED
  BY <1>1, <1>2, <1>3, PipelineAssumption DEF KeepLive, LiveObject, PipelineTypeOK, Object

LEMMA PipelineTypesStep ==
  ASSUME PipelineTypeOK, ObjectInv, EndedInv, ThreadInv, SaidInv, PipelineNext
  PROVE  PipelineTypeOK'
<1> USE PipelineAssumption
<1> USE DEF pipelineVars, turnVars, windowVars, threadVars, historyVars
<1> DEFINE Plans == [out : SUBSET Frames, kept : Seq(Frames)]
<1>a. thread \in [Turn -> Threads] /\ plan \in [Turn -> Plans] /\ body \in [Object -> Seq(Frames)]
  BY DEF PipelineTypeOK
<1>b. NoWork \in Plans /\ \A n \in Turn : plan[n].kept \in Seq(Frames)
  BY <1>a, EmptyRange DEF NoWork
<1>c. moves \in 0..MaxMoves /\ (Move => moves' \in 0..MaxMoves)
  BY DEF PipelineTypeOK, Move
<1> HIDE DEF Plans
<1>1. ASSUME NEW loaded \in Loadable, NEW spillFails \in BOOLEAN, StartTurn(loaded, spillFails)
      PROVE  PipelineTypeOK'
  <2> DEFINE asked == Append(loaded, Frame(latest + 1, "user"))
             out   == Evictable(asked)
             b     == IF spillFails THEN asked ELSE Without(asked, out)
  <2>1. latest + 1 \in Turn
    BY <1>1 DEF StartTurn, PipelineTypeOK, Turn
  <2>2. asked \in Seq(Frames)
    BY <2>1, LoadedIs, TurnFacts, LongerRange
  <2>3. b \in Seq(Frames)
    BY <2>2, WithoutIs
  <2>4. KeepLive(b)
    BY <1>1 DEF StartTurn
  <2> HIDE DEF b
  <2>5. /\ live' \in 1..made' /\ made' \in made..made + 1 /\ live' \in Object
        /\ live' = LiveObject /\ body' \in [Object -> Seq(Frames)]
    BY <2>3, <2>4, KeptLive
  <2>6. made' \in 0..MaxMoves + 1 /\ live' \in 0..made'
    <3>1. live = 0 => made' = made + 1 /\ made <= MaxMoves
      BY <2>3, <2>4, KeptLive DEF ObjectInv, PipelineTypeOK
    <3>2. live # 0 => made' = made
      BY <2>3, <2>4, KeptLive
    <3> QED
      BY <2>5, <3>1, <3>2 DEF PipelineTypeOK
  <2>7. window' \in [Turn -> 0..made']
    <3>1. window \in [Turn -> 0..made] /\ made \in Nat
      BY DEF PipelineTypeOK
    <3>2. window' = [window EXCEPT ![latest + 1] = live']
      BY <1>1 DEF StartTurn, KeepLive
    <3>3. live' \in 0..made' /\ \A w \in 0..made : w \in 0..made'
      <4>1. made' \in Nat /\ made <= made'
        BY <2>5, <3>1
      <4> QED
        BY <2>5, <3>1, <4>1
    <3> QED
      BY <3>1, <3>2, <3>3
  <2>8. latest' \in Turn /\ place' \in {"idle", "agent", "deliver", "compact", "save"}
    BY <1>1, <2>1 DEF StartTurn, PipelineTypeOK
  <2>9. ended' \in [Turn -> {"no", "finished", "unsaved", "failed", "cancelled"}]
    BY <1>1, <2>1 DEF StartTurn, PipelineTypeOK
  <2>10. said' \subseteq Frames
    BY <1>1, <2>1, TurnFacts DEF StartTurn, PipelineTypeOK
  <2> QED
    BY <1>1, <2>5, <2>6, <2>7, <2>8, <2>9, <2>10 DEF StartTurn, PipelineTypeOK
<1>2. ASSUME NEW withTools \in BOOLEAN, AgentReplies(withTools)
      PROVE  PipelineTypeOK'
  <2>1. said' \subseteq Frames
    BY <1>2, TurnFacts DEF AgentReplies, AddFrames, PipelineTypeOK
  <2>2. \A o \in Object : Append(body[o], Frame(latest, "tool")) \in Seq(Frames)
    BY TurnFacts, LongerRange DEF PipelineTypeOK
  <2>3. body' \in [Object -> Seq(Frames)]
    BY <1>2, <2>2 DEF AgentReplies, PipelineTypeOK
  <2> QED
    BY <1>2, <2>1, <2>3 DEF AgentReplies, AddFrames, PipelineTypeOK
<1>3. ASSUME AgentFails \/ ChannelAccepts
      PROVE  PipelineTypeOK'
  BY <1>3 DEF AgentFails, ChannelAccepts, PipelineTypeOK
<1>4. ASSUME NEW state \in DeliveryOutcomes, DeliveryEnds(state)
      PROVE  PipelineTypeOK'
  <2>1. said' \subseteq Frames
    BY <1>4, TurnFacts DEF DeliveryEnds, AddFrames, PipelineTypeOK
  <2>2. \A o \in Object : Append(body[o], Frame(latest, "assistant")) \in Seq(Frames)
    BY TurnFacts, LongerRange DEF PipelineTypeOK
  <2>3. body' \in [Object -> Seq(Frames)]
    BY <1>4, <2>2 DEF DeliveryEnds, PipelineTypeOK
  <2>4. outcome' \in [Turn -> {"none", "delivered", "suppressed", "failed"}]
    BY <1>4 DEF DeliveryEnds, DeliveryOutcomes, PipelineTypeOK
  <2>5. thread' \in [Turn -> Threads]
    BY <1>4 DEF DeliveryEnds, Threads, PipelineTypeOK
  <2> QED
    BY <1>4, <2>1, <2>3, <2>4, <2>5 DEF DeliveryEnds, AddFrames, PipelineTypeOK
<1>5. ASSUME StartSave \/ TurnEnds
      PROVE  PipelineTypeOK'
  <2>1. thread' \in [Turn -> Threads]
    <3>1. thread' = thread \/ thread' = [thread EXCEPT ![latest] = "save"]
      BY <1>5 DEF StartSave, TurnEnds
    <3> QED
      BY <1>a, <3>1 DEF Threads
  <2>2. ended' \in [Turn -> {"no", "finished", "unsaved", "failed", "cancelled"}]
    BY <1>5 DEF StartSave, TurnEnds, PipelineTypeOK
  <2> QED
    BY <1>5, <2>1, <2>2 DEF StartSave, TurnEnds, PipelineTypeOK
<1>6. ASSUME NEW n \in Turn, Compact(n) \/ EvictFrames(n)
      PROVE  PipelineTypeOK'
  <2>1. window[n] \in Object
    <3>1. thread[n] # "none"
      BY <1>6 DEF Compact, EvictFrames, Plan
    <3>2. window[n] \in 0..made /\ window[n] # 0 /\ made \in 0..MaxMoves + 1
      BY <3>1 DEF ObjectInv, PipelineTypeOK
    <3> QED
      BY <3>2, PipelineAssumption DEF Object
  <2>2. body[window[n]] \in Seq(Frames)
    BY <2>1 DEF PipelineTypeOK
  <2>3. /\ Solved(body[window[n]]) \subseteq Frames /\ Evictable(body[window[n]]) \subseteq Frames
        /\ \A out : Without(body[window[n]], out) \in Seq(Frames)
    BY <2>2, TakenOut, RangeHas, WithoutIs
  <2>4. \A out \in SUBSET Frames : [out |-> out, kept |-> Without(body[window[n]], out)] \in Plans
    BY <2>3 DEF Plans
  <2>5. ASSUME NEW out \in SUBSET Frames, NEW from, NEW next \in Threads, NEW otherwise \in Threads,
               Plan(n, from, out, next, otherwise)
        PROVE  plan' \in [Turn -> Plans] /\ thread' \in [Turn -> Threads]
    <3>1. CASE out = {}
      BY <1>a, <2>5, <3>1 DEF Plan
    <3>2. CASE out # {}
      BY <1>a, <2>4, <2>5, <3>2 DEF Plan
    <3> QED
      BY <3>1, <3>2
  <2>6. CASE Compact(n)
    <3>1. plan' \in [Turn -> Plans] /\ thread' \in [Turn -> Threads]
      BY <2>3, <2>5, <2>6 DEF Compact, Threads
    <3> QED
      BY <2>6, <3>1 DEF Compact, Plan, PipelineTypeOK, Plans
  <2>7. CASE EvictFrames(n)
    <3>1. plan' \in [Turn -> Plans] /\ thread' \in [Turn -> Threads]
      BY <2>3, <2>5, <2>7 DEF EvictFrames, Threads
    <3> QED
      BY <2>7, <3>1 DEF EvictFrames, Plan, PipelineTypeOK, Plans
  <2> QED
    BY <1>6, <2>6, <2>7
<1>7. ASSUME NEW n \in Turn, Replace(n) \/ SpillFails(n)
      PROVE  PipelineTypeOK'
  <2>1. plan' = [plan EXCEPT ![n] = NoWork] /\ UNCHANGED <<file, made, live, moves, window>>
    BY <1>7 DEF Replace, SpillFails
  <2>2. plan' \in [Turn -> Plans]
    BY <1>a, <1>b, <2>1
  <2>3. thread' \in [Turn -> Threads]
    <3>1. \E t \in Threads : thread' = [thread EXCEPT ![n] = t]
      BY <1>7 DEF Replace, SpillFails, Threads
    <3> QED
      BY <1>a, <3>1
  <2>4. body' \in [Object -> Seq(Frames)]
    <3>1. body' = [body EXCEPT ![window[n]] = plan[n].kept] \/ body' = [body EXCEPT ![window[n]] = body[window[n]]]
      BY <1>7 DEF Replace, SpillFails, Unassigned
    <3> QED
      BY <1>a, <1>b, <3>1
  <2>5. ended' \in [Turn -> {"no", "finished", "unsaved", "failed", "cancelled"}]
    BY <1>7 DEF Replace, SpillFails, PipelineTypeOK
  <2> QED
    BY <1>7, <2>1, <2>2, <2>3, <2>4, <2>5 DEF Replace, SpillFails, PipelineTypeOK, Plans
<1>8. ASSUME NEW n \in Turn, ReadWindow(n) \/ WriteWindow(n) \/ WriteFails(n)
      PROVE  PipelineTypeOK'
  <2>1. live # 0 => [out |-> {}, kept |-> body[live]] \in Plans
    BY <1>a, LiveBodyType DEF Plans
  <2>2. plan' \in [Turn -> Plans]
    <3>1. CASE ReadWindow(n)
      BY <1>a, <2>1, <3>1 DEF ReadWindow
    <3>2. CASE WriteWindow(n) \/ WriteFails(n)
      BY <1>a, <1>b, <3>2 DEF WriteWindow, WriteFails
    <3> QED
      BY <1>8, <3>1, <3>2
  <2>3. thread' \in [Turn -> Threads]
    <3>1. \E t \in Threads : thread' = [thread EXCEPT ![n] = t]
      BY <1>8 DEF ReadWindow, WriteWindow, WriteFails, Threads
    <3> QED
      BY <1>a, <3>1
  <2>4. file' \in [body : Seq(Frames), by : Turn]
    <3>1. file' = file \/ file' = [body |-> plan[n].kept, by |-> n]
      BY <1>8 DEF ReadWindow, WriteWindow, WriteFails
    <3> QED
      BY <1>b, <3>1 DEF PipelineTypeOK
  <2>5. ended' \in [Turn -> {"no", "finished", "unsaved", "failed", "cancelled"}]
    BY <1>8 DEF ReadWindow, WriteWindow, WriteFails, PipelineTypeOK
  <2>6. UNCHANGED <<latest, moves, place, made, live, body, window, checkpoint, outcome, said, shown,
                   lateWriters, unrecorded>>
    BY <1>8 DEF ReadWindow, WriteWindow, WriteFails
  <2> QED
    BY <2>2, <2>3, <2>4, <2>5, <2>6 DEF PipelineTypeOK, Plans
<1>9. ASSUME NEW n \in Turn, Checkpoints(n)
      PROVE  PipelineTypeOK'
  <2>1. /\ thread' = [thread EXCEPT ![n] = "done"]
        /\ UNCHANGED <<turnVars, moves, windowVars, file, plan, shown, said, lateWriters>>
    BY <1>9 DEF Checkpoints, SaveCheckpoint, CheckpointFails
  <2>2. thread' \in [Turn -> Threads]
    BY <1>a, <2>1 DEF Threads
  <2>3. checkpoint' \in [n : Turn, status : {"none", "complete", "in_progress", "delivery_failed"}]
        /\ unrecorded' \subseteq Turn
    BY <1>9 DEF Checkpoints, SaveCheckpoint, CheckpointFails, PipelineTypeOK
  <2> QED
    BY <2>1, <2>2, <2>3 DEF PipelineTypeOK, Plans
<1>10. ASSUME Cancel \/ Restart
       PROVE  PipelineTypeOK'
  <2>1. plan' \in [Turn -> Plans] /\ thread' \in [Turn -> Threads]
    <3>1. plan' = plan \/ plan' = [n \in Turn |-> NoWork]
      BY <1>10 DEF Cancel, Restart
    <3>2. thread' = thread \/ thread' = [n \in Turn |-> "none"]
      BY <1>10 DEF Cancel, Restart
    <3> QED
      BY <1>a, <1>b, <3>1, <3>2 DEF Threads
  <2>2. moves' \in 0..MaxMoves
    BY <1>c, <1>10 DEF Cancel, Restart
  <2>3. body' \in [Object -> Seq(Frames)]
    <3>1. body' = body \/ body' = [o \in Object |-> <<>>]
      BY <1>10 DEF Cancel, Restart
    <3> QED
      BY <1>a, <3>1, EmptyRange
  <2>4. ended' \in [Turn -> {"no", "finished", "unsaved", "failed", "cancelled"}]
    BY <1>10 DEF Cancel, Restart, PipelineTypeOK
  <2>5. live' \in 0..made /\ lateWriters' \subseteq Turn 
        /\ UNCHANGED <<made, latest, window, file, checkpoint, outcome, said, shown, unrecorded>>
    BY <1>10 DEF Cancel, Restart, PipelineTypeOK
  <2>6. place' = "idle"
    BY <1>10 DEF Cancel, Restart
  <2> QED
    BY <2>1, <2>2, <2>3, <2>4, <2>5, <2>6 DEF PipelineTypeOK, Plans
<1>11. ASSUME Reset
       PROVE  PipelineTypeOK'
  <2>1. file' \in [body : Seq(Frames), by : Turn]
    BY <1>11, EmptyRange DEF Reset, Unlinked, NoFile, Turn
  <2>2. live' \in 0..made /\ lateWriters' \subseteq Turn /\ moves' \in 0..MaxMoves
    BY <1>c, <1>11 DEF Reset, PipelineTypeOK
  <2> QED
    BY <1>11, <2>1, <2>2 DEF Reset, PipelineTypeOK
<1>12. ASSUME NEW b \in Seq(Frames), KeepLive(b), Move, UNCHANGED <<turnVars, threadVars, said, shown,
              lateWriters, checkpoint, unrecorded>>, file' \in [body : Seq(Frames), by : Turn]
       PROVE  PipelineTypeOK'
  <2>1. /\ live' \in 1..made' /\ made' \in made..made + 1 /\ live' \in Object
        /\ body' \in [Object -> Seq(Frames)]
    BY <1>12, KeptLive
  <2>2. made' \in 0..MaxMoves + 1 /\ live' \in 0..made'
    <3>1. live = 0 => made' = made + 1 /\ made <= MaxMoves
      BY <1>12, KeptLive, SMTT(30) DEF ObjectInv, PipelineTypeOK
    <3>2. live # 0 => made' = made
      BY <1>12, KeptLive
    <3> QED
      BY <2>1, <3>1, <3>2 DEF PipelineTypeOK
  <2>3. window' \in [Turn -> 0..made']
    <3>1. window \in [Turn -> 0..made] /\ window' = window /\ made \in Nat
      <4>1. window' = window
        BY <1>12 DEF threadVars, turnVars
      <4>2. window \in [Turn -> 0..made] /\ made \in Nat
        BY DEF PipelineTypeOK
      <4> QED
        BY <4>1, <4>2
    <3> QED
      BY <2>1, <3>1
  <2>4. moves' \in 0..MaxMoves
    BY <1>c, <1>12
  <2> QED
    BY <1>12, <2>1, <2>2, <2>3, <2>4 DEF PipelineTypeOK
<1>13. ASSUME Looks
       PROVE  PipelineTypeOK'
  <2>1. PICK loaded \in Loadable : Look(loaded)
    BY <1>13 DEF Looks
  <2> QED
    BY <1>12, <2>1, LoadedIs DEF Look, PipelineTypeOK
<1>14. ASSUME NEW half \in BOOLEAN, Dump(half)
       PROVE  PipelineTypeOK'
  <2> DEFINE kept == Without(LiveBody, Dumped(LiveBody, half))
  <2>1. kept \in Seq(Frames)
    BY LiveBodyType, WithoutIs
  <2>2. /\ file' \in {file, [body |-> kept, by |-> 0]} /\ KeepLive(kept) /\ Move
        /\ UNCHANGED <<turnVars, threadVars, said, shown, lateWriters, checkpoint, unrecorded>>
    BY <1>14 DEF Dump
  <2> HIDE DEF kept
  <2>3. file' \in [body : Seq(Frames), by : Turn]
    BY <2>1, <2>2, TurnFacts DEF PipelineTypeOK
  <2> QED
    BY <1>12, <2>1, <2>2, <2>3
<1> QED
  BY <1>1, <1>2, <1>3, <1>4, <1>5, <1>6, <1>7, <1>8, <1>9, <1>10, <1>11, <1>13, <1>14
  DEF PipelineNext, Looks, Checkpoints

-----------------------------------------------------------------------------
(* TurnPipeline: objects, turns, threads and frames                        *)

LEMMA Counters ==
  ASSUME PipelineTypeOK
  PROVE  /\ moves \in Nat /\ made \in Nat /\ live \in Nat /\ latest \in Nat /\ latest \in Turn
         /\ Turn \subseteq Nat /\ window \in [Turn -> Nat]
         /\ thread \in [Turn -> Threads] /\ lateWriters \subseteq Turn
         /\ DOMAIN ended = Turn /\ ended = [n \in Turn |-> ended[n]]
  BY TurnFacts, PipelineAssumption DEF PipelineTypeOK

(* What the actions that fetch the window of the channel do to objects.    *)
LEMMA MoreObjects ==
  ASSUME PipelineTypeOK, ObjectInv, NEW b \in Seq(Frames), KeepLive(b),
         moves' \in Nat, moves <= moves'
  PROVE  made' <= moves' + (IF live' = 0 THEN 0 ELSE 1)
<1>1. live' \in Object /\ live' # 0
  BY KeptLive DEF Object
<1>2. live = 0 => made' = made + 1
  BY KeptLive
<1>3. live # 0 => made' = made
  BY KeptLive
<1>4. live = 0 => made <= moves
  BY Counters DEF ObjectInv
<1>5. made <= moves + 1
  BY Counters DEF ObjectInv
<1>6. made' <= moves + 1
  BY <1>2, <1>3, <1>4, <1>5, Counters
<1>7. made' \in Int
  BY <1>2, <1>3, Counters
<1> QED
  BY <1>1, <1>6, <1>7, Counters

LEMMA ObjectStep ==
  ASSUME PipelineTypeOK, PipelineTypeOK', ObjectInv, ThreadInv, PipelineNext
  PROVE  ObjectInv'
<1> USE DEF pipelineVars, turnVars, windowVars, threadVars, historyVars
<1>1. ASSUME NEW loaded \in Loadable, NEW spillFails \in BOOLEAN, StartTurn(loaded, spillFails)
      PROVE  ObjectInv'
  <2>1. PICK b \in Seq(Frames) : KeepLive(b)
    <3>1. latest + 1 \in Turn
      BY <1>1 DEF StartTurn, PipelineTypeOK, Turn
    <3>2. Append(loaded, Frame(latest + 1, "user")) \in Seq(Frames)
      BY <3>1, LoadedIs, TurnFacts, LongerRange
    <3> QED
      BY <1>1, <3>2, WithoutIs DEF StartTurn
  <2>2. live' \in 1..made' /\ live' = LiveObject
    BY <2>1, KeptLive
  <2>3. made' <= moves' + (IF live' = 0 THEN 0 ELSE 1)
    BY <1>1, <2>1, MoreObjects, Counters DEF StartTurn
  <2>4. latest + 1 \in Turn /\ window' = [window EXCEPT ![latest + 1] = LiveObject] /\ thread' = thread
    BY <1>1 DEF StartTurn, PipelineTypeOK, Turn
  <2>5. window'[latest + 1] # 0 /\ \A n \in Turn : window[n] # 0 => window'[n] # 0
    BY <2>2, <2>4, Counters
  <2>6. place' # "idle" => latest' = latest + 1
    BY <1>1 DEF StartTurn
  <2> QED
    BY <2>3, <2>4, <2>5, <2>6 DEF ObjectInv
<1>2. ASSUME \/ \E withTools \in BOOLEAN : AgentReplies(withTools)
             \/ AgentFails \/ ChannelAccepts \/ StartSave \/ TurnEnds
      PROVE  ObjectInv'
  <2>1. UNCHANGED <<made, moves, live, window, latest>> /\ (place' # "idle" => place # "idle")
    BY <1>2 DEF AgentReplies, AgentFails, ChannelAccepts, StartSave, TurnEnds
  <2>2. CASE UNCHANGED thread
    BY <2>1, <2>2 DEF ObjectInv
  <2>3. CASE thread' = [thread EXCEPT ![latest] = "save"] /\ thread[latest] = "persisted"
    BY <2>1, <2>3, Counters DEF ObjectInv
  <2> QED
    BY <1>2, <2>2, <2>3 DEF AgentReplies, AgentFails, ChannelAccepts, StartSave, TurnEnds
<1>3. ASSUME NEW state \in DeliveryOutcomes, DeliveryEnds(state)
      PROVE  ObjectInv'
  BY <1>3 DEF DeliveryEnds, ObjectInv, PipelineTypeOK
<1>4. ASSUME NEW n \in Turn, NEW t,
             thread[n] # "none", thread' = [thread EXCEPT ![n] = t],
             UNCHANGED <<made, moves, live, place, window, latest>>
      PROVE  ObjectInv'
  BY <1>4 DEF ObjectInv, PipelineTypeOK
<1>5. ASSUME NEW n \in Turn,
             \/ Compact(n) \/ EvictFrames(n) \/ Replace(n) \/ SpillFails(n)
             \/ ReadWindow(n) \/ WriteWindow(n) \/ WriteFails(n)
             \/ Checkpoints(n)
      PROVE  ObjectInv'
  <2>1. thread[n] # "none" /\ UNCHANGED <<made, moves, live, place, window, latest>>
    BY <1>5 DEF Compact, EvictFrames, Plan, Replace, SpillFails, ReadWindow, WriteWindow, WriteFails,
                Checkpoints, SaveCheckpoint, CheckpointFails
  <2>2. \E t : thread' = [thread EXCEPT ![n] = t]
    BY <1>5 DEF Compact, EvictFrames, Plan, Replace, SpillFails, ReadWindow, WriteWindow, WriteFails,
                Checkpoints, SaveCheckpoint, CheckpointFails
  <2> QED
    BY <1>4, <2>1, <2>2
<1>6. ASSUME Cancel \/ Restart \/ Reset
      PROVE  ObjectInv'
  <2>1. made' = made /\ moves' = moves + 1 /\ (live' = live \/ live' = 0) /\ UNCHANGED <<window, latest>>
    BY <1>6 DEF Cancel, Restart, Reset, Move
  <2>2. place' # "idle" => place # "idle"
    BY <1>6 DEF Cancel, Restart, Reset
  <2>3. \A n \in Turn : thread'[n] # "none" => thread[n] # "none"
    BY <1>6 DEF Cancel, Restart, Reset
  <2> QED
    BY <2>1, <2>2, <2>3, Counters DEF ObjectInv
<1>7. ASSUME NEW b \in Seq(Frames), KeepLive(b), Move, UNCHANGED <<place, window, latest, thread>>
      PROVE  ObjectInv'
  <2>1. moves' \in Nat /\ moves <= moves'
    BY <1>7, Counters DEF Move
  <2>2. made' <= moves' + (IF live' = 0 THEN 0 ELSE 1)
    BY <1>7, <2>1, MoreObjects
  <2> QED
    BY <1>7, <2>2 DEF ObjectInv
<1>8. ASSUME Looks
      PROVE  ObjectInv'
  <2>1. PICK loaded \in Loadable : Look(loaded)
    BY <1>8 DEF Looks
  <2> QED
    BY <1>7, <2>1, LoadedIs DEF Look
<1>9. ASSUME NEW half \in BOOLEAN, Dump(half)
      PROVE  ObjectInv'
  BY <1>7, <1>9, LiveBodyType, WithoutIs DEF Dump
<1> QED
  BY <1>1, <1>2, <1>3, <1>5, <1>6, <1>8, <1>9 DEF PipelineNext, Looks, Checkpoints

LEMMA ThreadStep ==
  ASSUME PipelineTypeOK, PipelineTypeOK', ThreadInv, EndedInv, PipelineNext
  PROVE  ThreadInv'
<1> USE DEF pipelineVars, turnVars, windowVars, threadVars, historyVars, Written
<1>a. latest \in Nat /\ Turn \subseteq Nat /\ latest \in Turn
  BY TurnFacts DEF PipelineTypeOK
<1>b. thread \in [Turn -> Threads] /\ lateWriters \subseteq Turn
  BY DEF PipelineTypeOK
<1>1. ASSUME NEW loaded \in Loadable, NEW spillFails \in BOOLEAN, StartTurn(loaded, spillFails)
      PROVE  ThreadInv'
  <2>1. latest' = latest + 1 /\ place = "idle" /\ place' \in {"idle", "agent"}
        /\ UNCHANGED <<thread, lateWriters>>
    BY <1>1 DEF StartTurn
  <2>2. \A n \in Turn : ended[n] = "cancelled" => ended'[n] = "cancelled"
    <3>1. ended' = ended \/ ended' = [ended EXCEPT ![latest + 1] = "failed"]
      BY <1>1 DEF StartTurn
    <3>2. latest + 1 \in Turn => ended[latest + 1] = "no"
      BY <1>a DEF EndedInv
    <3> QED
      BY <3>1, <3>2, Counters
  <2> QED
    BY <1>a, <2>1, <2>2 DEF ThreadInv, Begun
<1>2. ASSUME \/ \E withTools \in BOOLEAN : AgentReplies(withTools)
             \/ AgentFails \/ ChannelAccepts
      PROVE  ThreadInv'
  <2>1. UNCHANGED <<thread, lateWriters, latest>>
    BY <1>2 DEF AgentReplies, AgentFails, ChannelAccepts
  <2>2. place \in {"agent", "deliver"} /\ place' \in {"deliver", "idle"}
    BY <1>2 DEF AgentReplies, AgentFails, ChannelAccepts
  <2>3. \A n \in Turn : n # latest => ended'[n] = ended[n]
    <3>1. ended' = ended \/ ended' = [ended EXCEPT ![latest] = "failed"]
      BY <1>2 DEF AgentReplies, AgentFails, ChannelAccepts
    <3> QED
      BY <3>1, Counters
  <2> QED
    BY <1>a, <2>1, <2>2, <2>3 DEF ThreadInv, Begun
<1>3. ASSUME NEW state \in DeliveryOutcomes, DeliveryEnds(state)
      PROVE  ThreadInv'
  BY <1>3, <1>a DEF DeliveryEnds, ThreadInv, Begun, EndedInv, PipelineTypeOK
<1>4. ASSUME StartSave
      PROVE  ThreadInv'
  BY <1>4, <1>a DEF StartSave, ThreadInv, Begun, EndedInv, PipelineTypeOK
<1>5. ASSUME TurnEnds
      PROVE  ThreadInv'
  BY <1>5, <1>a DEF TurnEnds, ThreadInv, Begun, EndedInv, PipelineTypeOK
<1>6. ASSUME NEW n \in Turn, NEW t \in Threads, thread' = [thread EXCEPT ![n] = t],
             UNCHANGED <<latest, place, lateWriters>>,
             thread[n] # "none", t # "none",
             n \in lateWriters => t \in Written,
             thread[n] \notin {"none", "done"},
             t = "done" <=> thread[n] = "save", t # "save",
             \A k \in Turn : ended[k] = "cancelled" => ended'[k] = "cancelled"
      PROVE  ThreadInv'
  BY <1>6, <1>a, <1>b DEF ThreadInv, Begun
<1>7. ASSUME NEW n \in Turn,
             \/ Compact(n) \/ EvictFrames(n) \/ Replace(n) \/ SpillFails(n)
             \/ ReadWindow(n) \/ WriteWindow(n) \/ WriteFails(n)
             \/ Checkpoints(n)
      PROVE  ThreadInv'
  <2>1. UNCHANGED <<latest, place, lateWriters>>
    BY <1>7 DEF Compact, EvictFrames, Plan, Replace, SpillFails, ReadWindow, WriteWindow, WriteFails,
                Checkpoints, SaveCheckpoint, CheckpointFails
  <2>2. \A k \in Turn : ended[k] = "cancelled" => ended'[k] = "cancelled"
    <3>1. ended' = ended \/ ended' = [ended EXCEPT ![n] = IF @ = "cancelled" THEN @ ELSE "unsaved"]
      BY <1>7 DEF Compact, EvictFrames, Plan, Replace, SpillFails, ReadWindow, WriteWindow, WriteFails,
                  Checkpoints, SaveCheckpoint, CheckpointFails
    <3> QED
      BY <3>1, Counters
  <2>3. \E t \in Threads :
          /\ thread' = [thread EXCEPT ![n] = t] /\ t # "none" /\ t # "save"
          /\ thread[n] \in Written => t \in Written
          /\ thread[n] \notin {"none", "done"} /\ (t = "done" <=> thread[n] = "save")
    BY <1>7 DEF Compact, EvictFrames, Plan, Replace, SpillFails, ReadWindow, WriteWindow, WriteFails,
                Checkpoints, SaveCheckpoint, CheckpointFails, Threads
  <2> QED
    BY <1>6, <2>1, <2>2, <2>3 DEF ThreadInv
<1>8. ASSUME Cancel
      PROVE  ThreadInv'
  <2>1. /\ place' = "idle" /\ UNCHANGED <<latest, thread, lateWriters>>
        /\ ended' = [ended EXCEPT ![latest] = "cancelled"]
    BY <1>8 DEF Cancel
  <2>2. \A n \in Turn : ended'[n] # "cancelled" => ended[n] # "cancelled" /\ n # latest
    BY <2>1, Counters
  <2>3. \A n \in Turn : Begun(n) => Begun(n)'
    BY <2>1 DEF Begun
  <2> QED
    BY <1>b, <2>1, <2>2, <2>3 DEF ThreadInv
<1>9. ASSUME Restart
      PROVE  ThreadInv'
  BY <1>9, <1>a DEF Restart, ThreadInv, Begun, EndedInv, PipelineTypeOK
<1>10. ASSUME Reset
      PROVE  ThreadInv'
  BY <1>10, <1>a DEF Reset, ThreadInv, Begun, EndedInv, PipelineTypeOK
<1>11. ASSUME Looks \/ \E half \in BOOLEAN : Dump(half)
      PROVE  ThreadInv'
  BY <1>11 DEF Looks, Look, Dump, ThreadInv, Begun
<1> QED
  BY <1>1, <1>2, <1>3, <1>4, <1>5, <1>7, <1>8, <1>9, <1>10, <1>11 DEF PipelineNext, Looks, Checkpoints

LEMMA EndedStep ==
  ASSUME PipelineTypeOK, PipelineTypeOK', ThreadInv, EndedInv, PipelineNext
  PROVE  EndedInv'
<1> USE DEF pipelineVars, turnVars, windowVars, threadVars, historyVars
<1>a. latest \in Nat /\ latest \in Turn /\ Turn \subseteq Nat /\ ended = [n \in Turn |-> ended[n]]
  BY Counters
<1>1. ASSUME NEW loaded \in Loadable, NEW spillFails \in BOOLEAN, StartTurn(loaded, spillFails)
      PROVE  EndedInv'
  <2>1. latest' = latest + 1 /\ place = "idle" /\ latest < MaxTurns
    BY <1>1 DEF StartTurn
  <2>2. ended' = ended \/ (ended' = [ended EXCEPT ![latest + 1] = "failed"] /\ place' = place)
    BY <1>1 DEF StartTurn
  <2>3. latest + 1 \in Turn
    BY <1>a, <2>1, PipelineAssumption DEF Turn
  <2> QED
    BY <1>a, <2>1, <2>2, <2>3 DEF EndedInv
<1>2. ASSUME \/ \E withTools \in BOOLEAN : AgentReplies(withTools)
             \/ ChannelAccepts \/ StartSave \/ Reset \/ Looks
             \/ \E half \in BOOLEAN : Dump(half)
             \/ \E state \in DeliveryOutcomes : DeliveryEnds(state)
      PROVE  EndedInv'
  <2>1. UNCHANGED <<latest, ended>> /\ (place' # "idle" => place # "idle")
    BY <1>2 DEF AgentReplies, ChannelAccepts, StartSave, Reset, Looks, Look, Dump, DeliveryEnds
  <2> QED
    BY <2>1 DEF EndedInv
<1>3. ASSUME AgentFails \/ TurnEnds \/ Cancel \/ Restart
      PROVE  EndedInv'
  <2>1. UNCHANGED latest /\ place' = "idle" /\ \A n \in Turn : n # latest => ended'[n] = ended[n]
    BY <1>3, <1>a DEF AgentFails, TurnEnds, Cancel, Restart
  <2> QED
    BY <1>a, <2>1 DEF EndedInv
<1>4. ASSUME NEW n \in Turn,
             \/ Compact(n) \/ EvictFrames(n) \/ Replace(n) \/ SpillFails(n)
             \/ ReadWindow(n) \/ WriteWindow(n) \/ WriteFails(n)
             \/ Checkpoints(n)
      PROVE  EndedInv'
  <2>1. UNCHANGED <<latest, place>> /\ thread[n] # "none"
    BY <1>4 DEF Compact, EvictFrames, Plan, Replace, SpillFails, ReadWindow, WriteWindow, WriteFails,
                Checkpoints, SaveCheckpoint, CheckpointFails
  <2>2. ended' = ended \/ ended' = [ended EXCEPT ![n] = IF @ = "cancelled" THEN @ ELSE "unsaved"]
    BY <1>4 DEF Compact, EvictFrames, Plan, Replace, SpillFails, ReadWindow, WriteWindow, WriteFails,
                Checkpoints, SaveCheckpoint, CheckpointFails
  <2>3. n <= latest
    BY <1>a, <2>1 DEF ThreadInv, Begun
  <2> QED
    BY <1>a, <2>1, <2>2, <2>3 DEF EndedInv
<1> QED
  BY <1>1, <1>2, <1>3, <1>4 DEF PipelineNext, Looks, Checkpoints

LEMMA FreshStep ==
  ASSUME PipelineTypeOK, PipelineTypeOK', FreshInv, PipelineNext
  PROVE  FreshInv'
<1> USE DEF pipelineVars, turnVars, windowVars, threadVars, historyVars
<1>a. latest \in Nat /\ latest \in Turn /\ \A f \in said : f.n \in Nat
  BY Counters, TurnFacts DEF PipelineTypeOK
<1>b. \A n, m, k, j : Frame(n, k) = Frame(m, j) => n = m /\ k = j
  BY DEF Frame
<1>c. \A n, k : Frame(n, k).n = n
  BY DEF Frame
<1>1. ASSUME NEW loaded \in Loadable, NEW spillFails \in BOOLEAN, StartTurn(loaded, spillFails)
      PROVE  FreshInv'
  <2>1. latest' = latest + 1 /\ said' = said \cup {Frame(latest + 1, "user")} /\ place' \in {"idle", "agent"}
    BY <1>1 DEF StartTurn
  <2>2. \A k : Frame(latest + 1, k) \notin said
    BY <1>a, <1>c DEF FreshInv
  <2>3. \A f \in said' : f.n <= latest'
    BY <1>a, <1>c, <2>1 DEF FreshInv
  <2> QED
    BY <1>b, <2>1, <2>2, <2>3 DEF FreshInv
<1>2. ASSUME NEW withTools \in BOOLEAN, AgentReplies(withTools)
      PROVE  FreshInv'
  <2>1. /\ place = "agent" /\ place' = "deliver" /\ latest' = latest
        /\ said' \subseteq said \cup {Frame(latest, "tool")}
    BY <1>2 DEF AgentReplies, AddFrames
  <2> QED
    BY <1>a, <1>b, <1>c, <2>1 DEF FreshInv
<1>3. ASSUME NEW state \in DeliveryOutcomes, DeliveryEnds(state)
      PROVE  FreshInv'
  <2>1. /\ place' = "compact" /\ latest' = latest
        /\ said' \subseteq said \cup {Frame(latest, "assistant")}
    BY <1>3 DEF DeliveryEnds, AddFrames
  <2> QED
    BY <1>a, <1>c, <2>1 DEF FreshInv
<1>4. ASSUME \/ AgentFails \/ ChannelAccepts \/ StartSave \/ TurnEnds \/ Cancel \/ Restart \/ Reset \/ Looks
             \/ \E half \in BOOLEAN : Dump(half)
             \/ \E n \in Turn :
                  \/ Compact(n) \/ EvictFrames(n) \/ Replace(n) \/ SpillFails(n)
                  \/ ReadWindow(n) \/ WriteWindow(n) \/ WriteFails(n)
                  \/ Checkpoints(n)
      PROVE  FreshInv'
  <2>1. UNCHANGED <<latest, said>> /\ (place' = place \/ place' \notin {"agent", "deliver"})
    BY <1>4 DEF AgentFails, ChannelAccepts, StartSave, TurnEnds, Cancel, Restart, Reset, Looks, Look, Dump,
                Compact, EvictFrames, Plan, Replace, SpillFails, ReadWindow, WriteWindow, WriteFails,
                Checkpoints, SaveCheckpoint, CheckpointFails
  <2> QED
    BY <2>1 DEF FreshInv
<1> QED
  BY <1>1, <1>2, <1>3, <1>4 DEF PipelineNext, Looks, Checkpoints

(* The plan of a thread that takes frames out of its window. *)
LEMMA PlanIs ==
  ASSUME PipelineTypeOK, ObjectInv, NEW n \in Turn, Compact(n) \/ EvictFrames(n)
  PROVE  /\ window[n] \in Object /\ body[window[n]] \in Seq(Frames)
         /\ UNCHANGED <<turnVars, moves, windowVars, file, spilled, checkpoint, historyVars>>
         /\ \E t \in {"replace", "evict", "drop", "read"} :
              /\ thread' = [thread EXCEPT ![n] = t]
              /\ \/ plan' = plan /\ t \in {"evict", "read"}
                 \/ /\ t \in {"replace", "drop"}
                    /\ \E out \in SUBSET Range(body[window[n]]), kept \in Seq(Frames) :
                         /\ plan' = [plan EXCEPT ![n] = [out |-> out, kept |-> kept]]
                         /\ Range(kept) = Range(body[window[n]]) \ out
<1>1. window[n] \in Object
  <2>1. thread[n] # "none"
    BY DEF Compact, EvictFrames, Plan
  <2>2. window[n] \in 0..made /\ window[n] # 0
    BY <2>1 DEF ObjectInv, PipelineTypeOK
  <2>3. made \in 0..MaxMoves + 1
    BY DEF PipelineTypeOK
  <2> QED
    BY <2>2, <2>3, PipelineAssumption DEF Object
<1>2. body[window[n]] \in Seq(Frames)
  BY <1>1 DEF PipelineTypeOK
<1>3. /\ Solved(body[window[n]]) \subseteq Range(body[window[n]])
      /\ Evictable(body[window[n]]) \subseteq Range(body[window[n]])
  BY <1>2, TakenOut
<1>4. ASSUME NEW from, NEW out \in SUBSET Range(body[window[n]]), NEW next \in {"replace", "drop"},
             NEW otherwise \in {"evict", "read"}, Plan(n, from, out, next, otherwise)
      PROVE  \E t \in {"replace", "evict", "drop", "read"} :
              /\ thread' = [thread EXCEPT ![n] = t]
              /\ \/ plan' = plan /\ t \in {"evict", "read"}
                 \/ /\ t \in {"replace", "drop"}
                    /\ \E o \in SUBSET Range(body[window[n]]), kept \in Seq(Frames) :
                         /\ plan' = [plan EXCEPT ![n] = [out |-> o, kept |-> kept]]
                         /\ Range(kept) = Range(body[window[n]]) \ o
  <2>1. CASE out = {}
    BY <1>4, <2>1 DEF Plan
  <2>2. CASE out # {}
    <3>1. thread' = [thread EXCEPT ![n] = next]
      BY <1>4, <2>2 DEF Plan
    <3>2. plan' = [plan EXCEPT ![n] = [out |-> out, kept |-> Without(body[window[n]], out)]]
      BY <1>4, <2>2 DEF Plan
    <3>3. /\ Without(body[window[n]], out) \in Seq(Frames)
          /\ Range(Without(body[window[n]], out)) = Range(body[window[n]]) \ out
      BY <1>2, WithoutIs
    <3> QED
      BY <3>1, <3>2, <3>3
  <2> QED
    BY <2>1, <2>2
<1> QED
  BY <1>1, <1>2, <1>3, <1>4 DEF Compact, EvictFrames, Plan

-----------------------------------------------------------------------------
(* TurnPipeline: what the actions do, in terms of sets of frames           *)

(* The window that is fetched, and the others stay as they are. *)
Fetched(frames) ==
    /\ live' \in Object /\ live' # 0
    /\ live = 0 => live' = made + 1
    /\ live # 0 => live' = live
    /\ Range(body'[live']) = frames
    /\ \A o \in Object : o # live' => body'[o] = body[o]

LEMMA FetchedIs ==
  ASSUME PipelineTypeOK, ObjectInv, NEW b \in Seq(Frames), KeepLive(b)
  PROVE  Fetched(Range(b))
  BY KeptLive DEF Fetched, Object

LEMMA StartIs ==
  ASSUME PipelineTypeOK, ObjectInv, NEW loaded \in Loadable, NEW spillFails \in BOOLEAN, StartTurn(loaded, spillFails)
  PROVE  /\ place = "idle" /\ latest' = latest + 1 /\ latest + 1 \in Turn
         /\ Range(loaded) \subseteq Range(LiveBody) /\ (live # 0 => loaded = LiveBody)
         /\ unread \subseteq unread' /\ Range(LiveBody) \subseteq Range(loaded) \cup unread'
         /\ \E out \in SUBSET (Range(loaded) \cup {Frame(latest + 1, "user")}) :
              /\ Fetched((Range(loaded) \cup {Frame(latest + 1, "user")}) \ out)
              /\ spilled' = spilled \cup out
         /\ window' = [window EXCEPT ![latest + 1] = live']
         /\ said' = said \cup {Frame(latest + 1, "user")}
         /\ raced \subseteq raced'
         /\ (\E m \in Turn : thread[m] \in {"replace", "drop"} /\ window[m] = live)
              => Frame(latest + 1, "user") \in raced'
         /\ \/ ended' = [ended EXCEPT ![latest + 1] = "failed"] /\ place' = place
            \/ ended' = ended /\ place' = "agent"
         /\ UNCHANGED <<moves, file, checkpoint, threadVars, outcome, shown, gone, lateWriters,
                        unrecorded>>
<1> DEFINE f == Frame(latest + 1, "user")
           asked == Append(loaded, f)
           out   == Evictable(asked)
<1>1. latest + 1 \in Turn
  BY Counters, PipelineAssumption DEF StartTurn, Turn
<1>2. asked \in Seq(Frames) /\ Range(asked) = Range(loaded) \cup {f}
  BY <1>1, LoadedIs, TurnFacts, LongerRange
<1>3. out \subseteq Range(loaded) \cup {f}
  BY <1>2, TakenOut
<1>4. Without(asked, out) \in Seq(Frames) /\ Range(Without(asked, out)) = (Range(loaded) \cup {f}) \ out
  BY <1>2, WithoutIs
<1>5. live' = LiveObject
  BY DEF StartTurn, KeepLive
<1>6. /\ Range(loaded) \subseteq Range(LiveBody) /\ (live # 0 => loaded = LiveBody)
      /\ unread \subseteq unread' /\ Range(LiveBody) \subseteq Range(loaded) \cup unread'
  BY LoadedIs DEF StartTurn
<1>7. CASE spillFails
  <2>1. KeepLive(asked) /\ spilled' = spilled /\ ended' = [ended EXCEPT ![latest + 1] = "failed"] /\ place' = place
    BY <1>7 DEF StartTurn
  <2> HIDE DEF asked, out
  <2>2. Fetched((Range(loaded) \cup {f}) \ {})
    BY <1>2, <2>1, FetchedIs
  <2> HIDE DEF f
  <2>3. \E o \in SUBSET (Range(loaded) \cup {f}) :
          Fetched((Range(loaded) \cup {f}) \ o) /\ spilled' = spilled \cup o
    <3>1. spilled' = spilled \cup {}
      BY <2>1
    <3> WITNESS {} \in SUBSET (Range(loaded) \cup {f})
    <3> QED
      BY <2>2, <3>1
  <2> QED
    BY <1>1, <1>5, <1>6, <2>1, <2>3 DEF StartTurn, f
<1>8. CASE ~spillFails
  <2>1. KeepLive(Without(asked, out)) /\ spilled' = spilled \cup out /\ ended' = ended /\ place' = "agent"
    BY <1>8 DEF StartTurn
  <2> HIDE DEF asked, out
  <2>2. Fetched((Range(loaded) \cup {f}) \ out)
    BY <1>4, <2>1, FetchedIs
  <2>3. \E o \in SUBSET (Range(loaded) \cup {f}) :
          Fetched((Range(loaded) \cup {f}) \ o) /\ spilled' = spilled \cup o
    BY <1>3, <2>1, <2>2
  <2> QED
    BY <1>1, <1>5, <1>6, <2>1, <2>3 DEF StartTurn
<1> QED
  BY <1>7, <1>8

(* The frames of a tool call or of the reply are added. *)
LEMMA AddIs ==
  ASSUME PipelineTypeOK, ObjectInv, ThreadInv, FreshInv,
         \/ \E withTools \in BOOLEAN : AgentReplies(withTools)
         \/ \E state \in DeliveryOutcomes : DeliveryEnds(state)
  PROVE  /\ place \in {"agent", "deliver"} /\ place' \in {"deliver", "compact"}
         /\ window[latest] \in Object
         /\ thread[latest] = "none"
         /\ thread' = thread \/ thread' = [thread EXCEPT ![latest] = "compact"]
         /\ \E new \in SUBSET {f \in Frames : f.n = latest} :
              /\ new \cap said = {}
              /\ said' = said \cup new
              /\ gone' = IF window[latest] = live THEN gone ELSE gone \cup new
              /\ raced \subseteq raced'
              /\ (\E m \in Turn : thread[m] \in {"replace", "drop"} /\ window[m] = window[latest])
                   => new \subseteq raced'
              /\ Range(body'[window[latest]]) = Range(body[window[latest]]) \cup new
         /\ \A o \in Object : o # window[latest] => body'[o] = body[o]
         /\ UNCHANGED <<latest, window, ended, moves, made, live, file, spilled, checkpoint, plan,
                        shown, lateWriters, unread, unrecorded>>
<1>1. place \in {"agent", "deliver"} /\ place' \in {"deliver", "compact"}
      /\ (thread' = thread \/ thread' = [thread EXCEPT ![latest] = "compact"])
      /\ UNCHANGED <<latest, window, ended, moves, made, live, file, spilled, checkpoint, plan,
                     shown, lateWriters, unread, unrecorded>>
  BY DEF AgentReplies, DeliveryEnds, threadVars
<1>2. latest \in Turn /\ latest \in Nat
  BY Counters
<1>3. thread[latest] = "none"
  BY <1>1, <1>2 DEF ThreadInv, Begun
<1>4. window[latest] \in Object
  <2>1. window[latest] \in 0..made /\ window[latest] # 0 /\ made \in 0..MaxMoves + 1
    BY <1>1, <1>2 DEF ObjectInv, PipelineTypeOK
  <2> QED
    BY <2>1, PipelineAssumption DEF Object
<1>5. body \in [Object -> Seq(Frames)]
  BY DEF PipelineTypeOK
<1>6. \E kind \in {"tool", "assistant"} :
        /\ Frame(latest, kind) \notin said
        /\ \/ /\ body' = [body EXCEPT ![window[latest]] = @] /\ AddFrames(latest, {})
           \/ /\ body' = [body EXCEPT ![window[latest]] = Append(@, Frame(latest, kind))]
              /\ AddFrames(latest, {Frame(latest, kind)})
  <2>1. ASSUME NEW withTools \in BOOLEAN, AgentReplies(withTools)
        PROVE  /\ Frame(latest, "tool") \notin said
               /\ \/ /\ body' = [body EXCEPT ![window[latest]] = @] /\ AddFrames(latest, {})
                  \/ /\ body' = [body EXCEPT ![window[latest]] = Append(@, Frame(latest, "tool"))]
                     /\ AddFrames(latest, {Frame(latest, "tool")})
    BY <2>1 DEF AgentReplies, FreshInv
  <2>2. ASSUME NEW state \in DeliveryOutcomes, DeliveryEnds(state)
        PROVE  /\ Frame(latest, "assistant") \notin said
               /\ \/ /\ body' = [body EXCEPT ![window[latest]] = @] /\ AddFrames(latest, {})
                  \/ /\ body' = [body EXCEPT ![window[latest]] = Append(@, Frame(latest, "assistant"))]
                     /\ AddFrames(latest, {Frame(latest, "assistant")})
    BY <2>2 DEF DeliveryEnds, FreshInv
  <2> QED
    BY <2>1, <2>2
<1>7. PICK kind \in {"tool", "assistant"} :
        /\ Frame(latest, kind) \notin said
        /\ \/ /\ body' = [body EXCEPT ![window[latest]] = @] /\ AddFrames(latest, {})
           \/ /\ body' = [body EXCEPT ![window[latest]] = Append(@, Frame(latest, kind))]
              /\ AddFrames(latest, {Frame(latest, kind)})
  BY <1>6
<1>8. Frame(latest, kind) \in Frames /\ Frame(latest, kind).n = latest
  BY <1>2, TurnFacts
<1>9. Range(Append(body[window[latest]], Frame(latest, kind)))
        = Range(body[window[latest]]) \cup {Frame(latest, kind)}
  BY <1>4, <1>5, <1>8, LongerRange
<1>10. PICK new \in {{}, {Frame(latest, kind)}} :
         AddFrames(latest, new) /\ Range(body'[window[latest]]) = Range(body[window[latest]]) \cup new
  BY <1>4, <1>5, <1>7, <1>9
<1>11. new \in SUBSET {f \in Frames : f.n = latest} /\ new \cap said = {}
  BY <1>7, <1>8
<1>12. \A o \in Object : o # window[latest] => body'[o] = body[o]
  BY <1>4, <1>5, <1>7
<1> QED
  BY <1>1, <1>3, <1>4, <1>10, <1>11, <1>12 DEF AddFrames

LEMMA FetchIs ==
  ASSUME PipelineTypeOK, ObjectInv, Looks \/ \E half \in BOOLEAN : Dump(half)
  PROVE  /\ \E frames \in SUBSET Range(LiveBody) : \E out \in SUBSET frames :
              /\ Fetched(frames \ out)
              /\ spilled' = spilled \cup out
              /\ live # 0 => frames = Range(LiveBody)
              /\ Range(LiveBody) \subseteq frames \cup unread'
              /\ \/ file' = file
                 \/ file'.by = 0 /\ Range(file'.body) = frames \ out
         /\ unread \subseteq unread'
         /\ UNCHANGED <<turnVars, checkpoint, threadVars, shown, said, gone, raced, lateWriters,
                        unrecorded>>
<1>1. ASSUME NEW loaded \in Loadable, Look(loaded)
      PROVE  /\ Range(loaded) \in SUBSET Range(LiveBody)
             /\ Fetched(Range(loaded) \ {}) /\ spilled' = spilled \cup {}
             /\ live # 0 => Range(loaded) = Range(LiveBody)
             /\ Range(LiveBody) \subseteq Range(loaded) \cup unread' /\ unread \subseteq unread'
             /\ file' = file
  <2>1. KeepLive(loaded) /\ spilled' = spilled /\ file' = file /\ NotRead(loaded)
    BY <1>1 DEF Look
  <2>2. loaded \in Seq(Frames)
    BY LoadedIs
  <2>3. Fetched(Range(loaded))
    BY <2>1, <2>2, FetchedIs
  <2>4. Range(loaded) \ {} = Range(loaded)
    OBVIOUS
  <2> QED
    BY <2>1, <2>3, <2>4, LoadedIs
<1>2. ASSUME NEW half \in BOOLEAN, Dump(half)
      PROVE  LET out == Dumped(LiveBody, half) IN
             /\ out \in SUBSET Range(LiveBody)
             /\ Fetched(Range(LiveBody) \ out) /\ spilled' = spilled \cup out
             /\ \/ file' = file
                \/ file'.by = 0 /\ Range(file'.body) = Range(LiveBody) \ out
             /\ unread' = unread
  <2> DEFINE out == Dumped(LiveBody, half)
             kept == Without(LiveBody, out)
  <2>1. /\ KeepLive(kept) /\ spilled' = spilled \cup out /\ unread' = unread
        /\ file' = file \/ file' = [body |-> kept, by |-> 0]
    BY <1>2 DEF Dump, historyVars
  <2>2. kept \in Seq(Frames) /\ Range(kept) = Range(LiveBody) \ out
    BY LiveBodyType, WithoutIs
  <2>3. out \in SUBSET Range(LiveBody)
    BY LiveBodyType, TakenOut
  <2> HIDE DEF kept, out
  <2>4. Fetched(Range(LiveBody) \ out)
    BY <2>1, <2>2, FetchedIs
  <2>5. file' = file \/ (file'.by = 0 /\ file'.body = kept)
    BY <2>1
  <2>6. /\ out \in SUBSET Range(LiveBody)
        /\ Fetched(Range(LiveBody) \ out) /\ spilled' = spilled \cup out
        /\ \/ file' = file
           \/ file'.by = 0 /\ Range(file'.body) = Range(LiveBody) \ out
        /\ unread' = unread
    BY <2>1, <2>2, <2>3, <2>4, <2>5
  <2> QED
    BY <2>6 DEF out
<1>3. UNCHANGED <<turnVars, checkpoint, threadVars, shown, said, gone, raced, lateWriters,
                  unrecorded>>
  BY DEF Looks, Look, Dump, historyVars
<1>4. CASE Looks
  <2>1. PICK loaded \in Loadable : Look(loaded)
    BY <1>4 DEF Looks
  <2> QED
    BY <1>1, <1>3, <2>1
<1>5. CASE \E half \in BOOLEAN : Dump(half)
  BY <1>2, <1>3, <1>5
<1> QED
  BY <1>4, <1>5

(* Steps that move no frame. *)
QuietIn == <<body, live, made, file, spilled, said, gone, raced, unread, window>>

LEMMA QuietIs ==
  ASSUME PipelineTypeOK,
         \/ AgentFails \/ ChannelAccepts \/ StartSave \/ TurnEnds \/ Cancel
         \/ \E n \in Turn : Checkpoints(n)
  PROVE  /\ UNCHANGED QuietIn /\ UNCHANGED <<plan, lateWriters>>
         /\ \A n \in Turn : \/ thread'[n] = thread[n]
                            \/ thread[n] \in {"persisted", "save"} /\ thread'[n] \in {"save", "done"}
  BY Counters
  DEF AgentFails, ChannelAccepts, StartSave, TurnEnds, Cancel, Checkpoints, SaveCheckpoint, CheckpointFails, QuietIn,
      threadVars, windowVars, historyVars, turnVars

LEMMA SettleIs ==
  ASSUME PipelineTypeOK, NEW n \in Turn,
         SpillFails(n) \/ WriteFails(n) \/ (ReadWindow(n) /\ live = 0)
  PROVE  /\ UNCHANGED QuietIn /\ UNCHANGED lateWriters
         /\ thread[n] \in {"replace", "drop", "write", "read"}
         /\ thread' = [thread EXCEPT ![n] = "persisted"]
         /\ plan' = plan \/ plan' = [plan EXCEPT ![n] = NoWork]
<1>1. body = [o \in Object |-> body[o]]
  BY DEF PipelineTypeOK
<1>2. body' = body
  <2>1. SpillFails(n) => body' = [body EXCEPT ![window[n]] = body[window[n]]]
    BY DEF SpillFails, Unassigned
  <2>2. [body EXCEPT ![window[n]] = body[window[n]]] = body
    BY <1>1
  <2> QED
    BY <2>1, <2>2 DEF WriteFails, ReadWindow, windowVars
<1> QED
  BY <1>2 DEF SpillFails, WriteFails, ReadWindow, QuietIn, turnVars, windowVars, historyVars

LEMMA ReadIs ==
  ASSUME PipelineTypeOK, NEW n \in Turn, ReadWindow(n), live # 0
  PROVE  /\ UNCHANGED QuietIn /\ UNCHANGED lateWriters
         /\ thread[n] = "read" /\ thread' = [thread EXCEPT ![n] = "write"]
         /\ plan' = [plan EXCEPT ![n] = [out |-> {}, kept |-> body[live]]]
         /\ LiveBody = body[live]
  BY DEF ReadWindow, QuietIn, turnVars, windowVars, historyVars, LiveBody

LEMMA WriteIs ==
  ASSUME PipelineTypeOK, NEW n \in Turn, WriteWindow(n)
  PROVE  /\ UNCHANGED <<body, live, made, spilled, said, gone, raced, unread, window, lateWriters>>
         /\ thread[n] = "write" /\ thread' = [thread EXCEPT ![n] = "persisted"]
         /\ plan' = [plan EXCEPT ![n] = NoWork]
         /\ file'.body = plan[n].kept /\ file'.by = n
         /\ UNCHANGED <<latest, place, ended, checkpoint, shown, outcome>>
  BY DEF WriteWindow, turnVars, windowVars, historyVars

LEMMA ReplaceIs ==
  ASSUME PipelineTypeOK, ObjectInv, NEW n \in Turn, Replace(n)
  PROVE  /\ UNCHANGED <<file, live, made, said, gone, raced, unread, window, lateWriters>>
         /\ thread[n] \in {"replace", "drop"}
         /\ \E t \in {"evict", "read"} : thread' = [thread EXCEPT ![n] = t]
         /\ plan' = [plan EXCEPT ![n] = NoWork]
         /\ window[n] \in Object
         /\ body' = [body EXCEPT ![window[n]] = plan[n].kept]
         /\ spilled' = spilled \cup plan[n].out
         /\ UNCHANGED <<latest, place, ended, checkpoint, shown, outcome>>
<1>1. window[n] \in 0..made /\ window[n] # 0 /\ made \in 0..MaxMoves + 1
  BY DEF Replace, ObjectInv, PipelineTypeOK
<1>2. window[n] \in Object
  BY <1>1, PipelineAssumption DEF Object
<1> QED
  BY <1>2 DEF Replace, Archive, turnVars, historyVars

-----------------------------------------------------------------------------
(* TurnPipeline: no frame is lost                                          *)

NoWorkKept == NoWork.kept = <<>> /\ NoWork.out = {} /\ Range(<<>>) = {}

LEMMA NothingPlanned == NoWorkKept
  BY EmptyRange DEF NoWork, NoWorkKept

LEMMA SaidStep ==
  ASSUME PipelineTypeOK, PipelineTypeOK', ObjectInv, ThreadInv, FreshInv, SaidInv, PipelineNext
  PROVE  SaidInv'
<1>a. body \in [Object -> Seq(Frames)] /\ DOMAIN plan = Turn /\ plan = [n \in Turn |-> plan[n]]
  BY DEF PipelineTypeOK
<1>b. Range(LiveBody) \subseteq said
  BY LiveBodyType DEF SaidInv, LiveBody
<1>1. ASSUME NEW loaded \in Loadable, NEW spillFails \in BOOLEAN, StartTurn(loaded, spillFails)
      PROVE  SaidInv'
  <2>1. Fetched(Range(body'[live'])) /\ Range(body'[live']) \subseteq said'
        /\ said \subseteq said' /\ UNCHANGED <<file, gone, plan>>
    BY <1>1, <1>b, StartIs DEF Fetched, threadVars
  <2> QED
    BY <2>1 DEF Fetched, SaidInv
<1>2. ASSUME \/ \E withTools \in BOOLEAN : AgentReplies(withTools)
             \/ \E state \in DeliveryOutcomes : DeliveryEnds(state)
      PROVE  SaidInv'
  <2>1. PICK new \in SUBSET {f \in Frames : f.n = latest} :
              /\ said' = said \cup new
              /\ gone' = IF window[latest] = live THEN gone ELSE gone \cup new
              /\ Range(body'[window[latest]]) = Range(body[window[latest]]) \cup new
              /\ \A o \in Object : o # window[latest] => body'[o] = body[o]
              /\ UNCHANGED <<file, plan>> /\ window[latest] \in Object
    BY <1>2, AddIs
  <2> QED
    BY <2>1 DEF SaidInv
<1>3. ASSUME \/ AgentFails \/ ChannelAccepts \/ StartSave \/ TurnEnds \/ Cancel
             \/ \E n \in Turn : Checkpoints(n)
      PROVE  SaidInv'
  BY <1>3, QuietIs DEF QuietIn, SaidInv
<1>4. ASSUME NEW n \in Turn, Compact(n) \/ EvictFrames(n)
      PROVE  SaidInv'
  <2>1. UNCHANGED <<body, file, gone, said>>
    BY <1>4, PlanIs DEF windowVars, historyVars
  <2>2. plan' = plan \/ \E out, kept : plan' = [plan EXCEPT ![n] = [out |-> out, kept |-> kept]]
                                         /\ Range(kept) \subseteq Range(body[window[n]])
    BY <1>4, PlanIs
  <2>3. window[n] \in Object
    BY <1>4, PlanIs
  <2> QED
    BY <1>a, <2>1, <2>2, <2>3 DEF SaidInv
<1>5. ASSUME NEW n \in Turn, Replace(n)
      PROVE  SaidInv'
  <2>1. /\ plan' = [plan EXCEPT ![n] = NoWork] /\ body' = [body EXCEPT ![window[n]] = plan[n].kept]
        /\ UNCHANGED <<file, gone, said>>
    BY <1>5, ReplaceIs
  <2>2. Range(plan[n].kept) \subseteq said
    BY DEF SaidInv
  <2>3. \A o \in Object : Range(body'[o]) \subseteq said
    BY <1>a, <2>1, <2>2 DEF SaidInv
  <2>4. \A m \in Turn : Range(plan'[m].kept) \subseteq said
    BY <1>a, <2>1, NothingPlanned DEF SaidInv, NoWorkKept
  <2> QED
    BY <2>1, <2>3, <2>4 DEF SaidInv
<1>6. ASSUME NEW n \in Turn, SpillFails(n) \/ WriteFails(n) \/ (ReadWindow(n) /\ live = 0)
      PROVE  SaidInv'
  BY <1>6, <1>a, SettleIs, NothingPlanned DEF SaidInv, NoWorkKept, QuietIn
<1>7. ASSUME NEW n \in Turn, ReadWindow(n), live # 0
      PROVE  SaidInv'
  BY <1>7, <1>a, <1>b, ReadIs DEF SaidInv, QuietIn
<1>8. ASSUME NEW n \in Turn, WriteWindow(n)
      PROVE  SaidInv'
  BY <1>8, <1>a, WriteIs, NothingPlanned DEF SaidInv, NoWorkKept
<1>9. ASSUME Restart
      PROVE  SaidInv'
  BY <1>9, <1>a, NothingPlanned DEF Restart, SaidInv, NoWorkKept
<1>10. ASSUME Reset
      PROVE  SaidInv'
  BY <1>10, <1>b, NothingPlanned DEF Reset, SaidInv, NoWorkKept, Unlinked, NoFile, threadVars
<1>11. ASSUME Looks \/ \E half \in BOOLEAN : Dump(half)
      PROVE  SaidInv'
  <2>1. /\ Fetched(Range(body'[live'])) /\ Range(body'[live']) \subseteq said
        /\ Range(file'.body) \subseteq said /\ UNCHANGED <<said, gone, plan>>
    BY <1>11, <1>b, FetchIs DEF Fetched, threadVars, historyVars, SaidInv
  <2> QED
    BY <2>1 DEF Fetched, SaidInv
<1> QED
  BY <1>1, <1>2, <1>3, <1>4, <1>5, <1>6, <1>7, <1>8, <1>9, <1>10, <1>11 DEF PipelineNext, Looks, Checkpoints

LEMMA LiveBodyNext == LiveBody' = IF live' # 0 THEN body'[live'] ELSE file'.body
  BY DEF LiveBody

LEMMA ForgottenStep ==
  ASSUME PipelineTypeOK, PipelineTypeOK', ObjectInv, ThreadInv, FreshInv, NothingForgotten, PlanInv,
         WriteInv, PipelineNext
  PROVE  NothingForgotten'
<1> USE DEF Excused
<1>a. body \in [Object -> Seq(Frames)] /\ (live # 0 => live \in Object)
  BY LiveBodyType DEF PipelineTypeOK
<1>1. ASSUME NEW loaded \in Loadable, NEW spillFails \in BOOLEAN, StartTurn(loaded, spillFails)
      PROVE  NothingForgotten'
  <2>1. PICK out \in SUBSET (Range(loaded) \cup {Frame(latest + 1, "user")}) :
              /\ Fetched((Range(loaded) \cup {Frame(latest + 1, "user")}) \ out)
              /\ spilled' = spilled \cup out
    BY <1>1, StartIs
  <2>2. /\ said' = said \cup {Frame(latest + 1, "user")} /\ raced \subseteq raced' /\ gone' = gone
        /\ unread \subseteq unread' /\ Range(LiveBody) \subseteq Range(loaded) \cup unread'
    BY <1>1, StartIs
  <2>3. Range(LiveBody') = (Range(loaded) \cup {Frame(latest + 1, "user")}) \ out
    BY <2>1, LiveBodyNext DEF Fetched
  <2> QED
    BY <2>1, <2>2, <2>3 DEF NothingForgotten
<1>2. ASSUME \/ \E withTools \in BOOLEAN : AgentReplies(withTools)
             \/ \E state \in DeliveryOutcomes : DeliveryEnds(state)
      PROVE  NothingForgotten'
  <2>1. PICK new \in SUBSET {f \in Frames : f.n = latest} :
              /\ said' = said \cup new
              /\ gone' = IF window[latest] = live THEN gone ELSE gone \cup new
              /\ raced \subseteq raced'
              /\ Range(body'[window[latest]]) = Range(body[window[latest]]) \cup new
    BY <1>2, AddIs
  <2>2. /\ UNCHANGED <<file, live, spilled, unread>> /\ window[latest] \in Object
        /\ \A o \in Object : o # window[latest] => body'[o] = body[o]
    BY <1>2, AddIs
  <2>3. CASE window[latest] = live
    <3>1. Range(LiveBody') = Range(LiveBody) \cup new
      <4>1. live # 0
        BY <2>2, <2>3 DEF Object
      <4> QED
        BY <2>1, <2>2, <2>3, <4>1, LiveBodyNext DEF LiveBody
    <3> QED
      BY <2>1, <2>2, <3>1 DEF NothingForgotten
  <2>4. CASE window[latest] # live
    <3>1. LiveBody' = LiveBody
      BY <1>a, <2>2, <2>4, LiveBodyNext DEF LiveBody
    <3> QED
      BY <2>1, <2>2, <2>4, <3>1 DEF NothingForgotten
  <2> QED
    BY <2>3, <2>4
<1>3. ASSUME UNCHANGED QuietIn
      PROVE  NothingForgotten'
  BY <1>3, LiveBodyNext DEF QuietIn, NothingForgotten, LiveBody
<1>4. ASSUME NEW n \in Turn, Compact(n) \/ EvictFrames(n)
      PROVE  NothingForgotten'
  BY <1>3, <1>4, PlanIs DEF windowVars, historyVars, turnVars, QuietIn
<1>5. ASSUME NEW n \in Turn, Replace(n)
      PROVE  NothingForgotten'
  <2>1. /\ UNCHANGED <<file, live, said, gone, raced, unread>> /\ thread[n] \in {"replace", "drop"}
        /\ window[n] \in Object /\ body' = [body EXCEPT ![window[n]] = plan[n].kept]
        /\ spilled' = spilled \cup plan[n].out
    BY <1>5, ReplaceIs
  <2>2. CASE window[n] = live
    <3>1. live # 0 /\ LiveBody' = plan[n].kept /\ LiveBody = body[window[n]]
      BY <1>a, <2>1, <2>2, LiveBodyNext DEF LiveBody, Object
    <3>2. Range(LiveBody) \subseteq Range(LiveBody') \cup plan[n].out \cup Excused
      BY <2>1, <3>1 DEF PlanInv
    <3> QED
      BY <2>1, <3>2 DEF NothingForgotten
  <2>3. CASE window[n] # live
    <3>1. LiveBody' = LiveBody
      BY <1>a, <2>1, <2>3, LiveBodyNext DEF LiveBody
    <3> QED
      BY <2>1, <3>1 DEF NothingForgotten
  <2> QED
    BY <2>2, <2>3
<1>6. ASSUME NEW n \in Turn, WriteWindow(n)
      PROVE  NothingForgotten'
  <2>1. UNCHANGED <<body, live, said, gone, raced, unread, spilled>> /\ thread[n] = "write"
    BY <1>6, WriteIs
  <2>2. CASE live = 0
    BY <2>1, <2>2 DEF WriteInv, NothingForgotten
  <2>3. CASE live # 0
    BY <2>1, <2>3, LiveBodyNext DEF LiveBody, NothingForgotten
  <2> QED
    BY <2>2, <2>3
<1>7. ASSUME Restart
      PROVE  NothingForgotten'
  <2>1. LiveBody' = file.body
    BY <1>7, LiveBodyNext DEF Restart
  <2> QED
    BY <1>7, <2>1 DEF Restart, NothingForgotten
<1>8. ASSUME Reset
      PROVE  NothingForgotten'
  BY <1>8 DEF Reset, NothingForgotten
<1>9. ASSUME Looks \/ \E half \in BOOLEAN : Dump(half)
      PROVE  NothingForgotten'
  <2>1. PICK frames \in SUBSET Range(LiveBody), out \in SUBSET Range(LiveBody) :
          /\ Fetched(frames \ out) /\ spilled' = spilled \cup out
          /\ Range(LiveBody) \subseteq frames \cup unread'
    BY <1>9, FetchIs
  <2>2. UNCHANGED <<said, gone, raced>> /\ unread \subseteq unread'
    BY <1>9, FetchIs
  <2>3. Range(LiveBody') = frames \ out
    BY <2>1, LiveBodyNext DEF Fetched
  <2> QED
    BY <2>1, <2>2, <2>3 DEF NothingForgotten
<1>10. ASSUME NEW n \in Turn, SpillFails(n) \/ WriteFails(n) \/ ReadWindow(n)
       PROVE  NothingForgotten'
  BY <1>3, <1>10, SettleIs, ReadIs
<1>11. ASSUME \/ AgentFails \/ ChannelAccepts \/ StartSave \/ TurnEnds \/ Cancel
              \/ \E n \in Turn : Checkpoints(n)
       PROVE  NothingForgotten'
  BY <1>3, <1>11, QuietIs
<1> QED
  BY <1>1, <1>2, <1>4, <1>5, <1>6, <1>7, <1>8, <1>9, <1>10, <1>11 DEF PipelineNext, Looks, Checkpoints

LEMMA PlanStep ==
  ASSUME PipelineTypeOK, PipelineTypeOK', ObjectInv, ThreadInv, FreshInv, PlanInv, PipelineNext
  PROVE  PlanInv'
<1> USE DEF Excused
<1> DEFINE Planned(n) == thread[n] \in {"replace", "drop"}
<1>a. /\ body \in [Object -> Seq(Frames)] /\ plan = [n \in Turn |-> plan[n]]
      /\ thread \in [Turn -> Threads] /\ made \in Nat /\ Turn \subseteq Nat
  BY Counters DEF PipelineTypeOK
<1>b. \A n \in Turn : Planned(n) => /\ window[n] \in Object /\ window[n] <= made
                                    /\ n <= latest /\ (n = latest => place \notin {"agent", "deliver"})
  <2>1. ASSUME NEW n \in Turn, Planned(n)
        PROVE  window[n] \in Object /\ window[n] <= made
    <3>1. window[n] \in 0..made /\ window[n] # 0 /\ made \in 0..MaxMoves + 1
      BY <2>1 DEF ObjectInv, PipelineTypeOK
    <3> QED
      BY <3>1, PipelineAssumption DEF Object
  <2>2. latest \in Nat
    BY Counters
  <2> QED
    BY <1>a, <2>1, <2>2 DEF ThreadInv, Begun
(* the step moves no frame that a plan is about *)
<1>1. ASSUME UNCHANGED <<body, window>>, Excused \subseteq Excused',
             \A n \in Turn : Planned(n)' => Planned(n) /\ plan'[n] = plan[n]
      PROVE  PlanInv'
  BY <1>1 DEF PlanInv
<1> HIDE DEF Planned
<1>2. ASSUME NEW loaded \in Loadable, NEW spillFails \in BOOLEAN, StartTurn(loaded, spillFails)
      PROVE  PlanInv'
  <2> DEFINE f == Frame(latest + 1, "user")
  <2>1. PICK out \in SUBSET (Range(loaded) \cup {f}) :
          Fetched((Range(loaded) \cup {f}) \ out) /\ spilled' = spilled \cup out
    BY <1>2, StartIs
  <2>2. /\ UNCHANGED <<thread, plan, gone>> /\ raced \subseteq raced'
        /\ unread \subseteq unread' /\ (live # 0 => loaded = LiveBody)
        /\ (\E m \in Turn : thread[m] \in {"replace", "drop"} /\ window[m] = live) => f \in raced'
        /\ latest + 1 \in Turn /\ window' = [window EXCEPT ![latest + 1] = live'] /\ latest \in Nat
    BY <1>2, StartIs, Counters DEF threadVars
  <2> HIDE DEF f
  <2>3. ASSUME NEW n \in Turn, Planned(n)
        PROVE  /\ Range(body'[window'[n]]) \subseteq Range(plan'[n].kept) \cup plan'[n].out \cup Excused'
               /\ Range(plan'[n].kept) \cup plan'[n].out \subseteq Range(body'[window'[n]]) \cup Excused'
    <3>1. window'[n] = window[n]
      BY <1>a, <1>b, <2>2, <2>3 DEF PipelineTypeOK
    <3>2. /\ Range(body[window[n]]) \subseteq Range(plan[n].kept) \cup plan[n].out \cup Excused
          /\ Range(plan[n].kept) \cup plan[n].out \subseteq Range(body[window[n]]) \cup Excused
      BY <2>3 DEF PlanInv, Planned
    <3>3. CASE window[n] = live'
      <4>1. live # 0 /\ live' = live
        BY <1>a, <1>b, <2>1, <2>3, <3>3 DEF Fetched
      <4>2. f \in raced'
        BY <2>2, <2>3, <3>3, <4>1 DEF Planned
      <4>3. LiveBody = body[window[n]] /\ Range(body'[window[n]]) = (Range(LiveBody) \cup {f}) \ out
        BY <2>1, <2>2, <3>3, <4>1 DEF LiveBody, Fetched
      <4> QED
        BY <2>1, <2>2, <3>1, <3>2, <4>1, <4>2, <4>3
    <3>4. CASE window[n] # live'
      <4>1. body'[window[n]] = body[window[n]]
        BY <1>b, <2>1, <2>3, <3>4 DEF Fetched
      <4> QED
        BY <2>1, <2>2, <3>1, <3>2, <4>1
    <3> QED
      BY <3>3, <3>4
  <2>4. \A n \in Turn : thread'[n] \in {"replace", "drop"} => Planned(n)
    BY <2>2 DEF Planned
  <2> QED
    BY <2>3, <2>4 DEF PlanInv
<1>3. ASSUME \/ \E withTools \in BOOLEAN : AgentReplies(withTools)
             \/ \E state \in DeliveryOutcomes : DeliveryEnds(state)
      PROVE  PlanInv'
  <2>1. PICK new \in SUBSET {f \in Frames : f.n = latest} :
          /\ gone' = IF window[latest] = live THEN gone ELSE gone \cup new
          /\ raced \subseteq raced'
          /\ (\E m \in Turn : thread[m] \in {"replace", "drop"} /\ window[m] = window[latest])
               => new \subseteq raced'
          /\ Range(body'[window[latest]]) = Range(body[window[latest]]) \cup new
    BY <1>3, AddIs
  <2>2. /\ UNCHANGED <<plan, spilled, window, unread>>
        /\ \A o \in Object : o # window[latest] => body'[o] = body[o]
        /\ thread' = thread \/ thread' = [thread EXCEPT ![latest] = "compact"]
    BY <1>3, AddIs
  <2>3. \A n \in Turn : thread'[n] \in {"replace", "drop"} => Planned(n)
    BY <1>a, <2>2 DEF Planned
  <2>4. ASSUME NEW n \in Turn, Planned(n)
        PROVE  /\ Range(body'[window[n]]) \subseteq Range(plan[n].kept) \cup plan[n].out \cup Excused'
               /\ Range(plan[n].kept) \cup plan[n].out \subseteq Range(body'[window[n]]) \cup Excused'
    <3>2. /\ Range(body[window[n]]) \subseteq Range(plan[n].kept) \cup plan[n].out \cup Excused
          /\ Range(plan[n].kept) \cup plan[n].out \subseteq Range(body[window[n]]) \cup Excused
      BY <2>4 DEF PlanInv, Planned
    <3>3. CASE window[n] = window[latest]
      <4>1. new \subseteq raced'
        BY <2>1, <2>4, <3>3 DEF Planned
      <4> QED
        BY <2>1, <2>2, <3>2, <3>3, <4>1
    <3>4. CASE window[n] # window[latest]
      BY <1>b, <2>1, <2>2, <2>4, <3>2, <3>4
    <3> QED
      BY <3>3, <3>4
  <2> QED
    BY <2>2, <2>3, <2>4 DEF PlanInv
<1>4. ASSUME NEW n \in Turn, Compact(n) \/ EvictFrames(n)
      PROVE  PlanInv'
  <2>1. UNCHANGED <<body, window, spilled, gone, raced, unread>>
    BY <1>4, PlanIs DEF windowVars, historyVars, turnVars
  <2>2. PICK t \in {"replace", "evict", "drop", "read"} :
          /\ thread' = [thread EXCEPT ![n] = t]
          /\ \/ plan' = plan /\ t \in {"evict", "read"}
             \/ /\ t \in {"replace", "drop"}
                /\ \E out \in SUBSET Range(body[window[n]]), kept \in Seq(Frames) :
                     /\ plan' = [plan EXCEPT ![n] = [out |-> out, kept |-> kept]]
                     /\ Range(kept) = Range(body[window[n]]) \ out
    BY <1>4, PlanIs
  <2>3. CASE plan' = plan /\ t \in {"evict", "read"}
    BY <1>1, <1>a, <2>1, <2>2, <2>3 DEF Planned
  <2>4. CASE \E out \in SUBSET Range(body[window[n]]), kept \in Seq(Frames) :
               /\ plan' = [plan EXCEPT ![n] = [out |-> out, kept |-> kept]]
               /\ Range(kept) = Range(body[window[n]]) \ out
    <3>1. /\ Range(body[window[n]]) \subseteq Range(plan'[n].kept) \cup plan'[n].out
          /\ Range(plan'[n].kept) \cup plan'[n].out \subseteq Range(body[window[n]])
      BY <1>a, <2>4
    <3>2. \A m \in Turn : m # n => plan'[m] = plan[m] /\ thread'[m] = thread[m]
      BY <1>a, <2>2, <2>4
    <3> QED
      BY <2>1, <3>1, <3>2 DEF PlanInv
  <2> QED
    BY <2>2, <2>3, <2>4
<1>5. ASSUME NEW n \in Turn, Replace(n)
      PROVE  PlanInv'
  <2>1. /\ UNCHANGED <<gone, raced, unread, window>> /\ thread[n] \in {"replace", "drop"}
        /\ (\E t \in {"evict", "read"} : thread' = [thread EXCEPT ![n] = t])
        /\ plan' = [plan EXCEPT ![n] = NoWork]
        /\ window[n] \in Object /\ body' = [body EXCEPT ![window[n]] = plan[n].kept]
        /\ spilled' = spilled \cup plan[n].out
    BY <1>5, ReplaceIs
  <2>2. \A m \in Turn : thread'[m] \in {"replace", "drop"}
                          => m # n /\ thread[m] \in {"replace", "drop"} /\ plan'[m] = plan[m]
    BY <1>a, <2>1
  <2>3. ASSUME NEW m \in Turn, thread[m] \in {"replace", "drop"}
        PROVE  /\ Range(body'[window[m]]) \subseteq Range(plan[m].kept) \cup plan[m].out \cup Excused'
               /\ Range(plan[m].kept) \cup plan[m].out \subseteq Range(body'[window[m]]) \cup Excused'
    <3>1. /\ Range(body[window[m]]) \subseteq Range(plan[m].kept) \cup plan[m].out \cup Excused
          /\ Range(plan[m].kept) \cup plan[m].out \subseteq Range(body[window[m]]) \cup Excused
      BY <2>3 DEF PlanInv
    <3>2. /\ Range(body[window[n]]) \subseteq Range(plan[n].kept) \cup plan[n].out \cup Excused
          /\ Range(plan[n].kept) \cup plan[n].out \subseteq Range(body[window[n]]) \cup Excused
      BY <2>1 DEF PlanInv
    <3>3. CASE window[m] = window[n]
      <4>1. body'[window[m]] = plan[n].kept
        BY <1>a, <2>1, <3>3
      <4> QED
        BY <2>1, <3>1, <3>2, <3>3, <4>1
    <3>4. CASE window[m] # window[n]
      <4>1. body'[window[m]] = body[window[m]]
        BY <1>a, <1>b, <2>1, <2>3, <3>4 DEF Planned
      <4> QED
        BY <2>1, <3>1, <4>1
    <3> QED
      BY <3>3, <3>4
  <2> QED
    BY <2>1, <2>2, <2>3 DEF PlanInv
<1>6. ASSUME NEW n \in Turn, SpillFails(n) \/ WriteFails(n) \/ (ReadWindow(n) /\ live = 0)
      PROVE  PlanInv'
  <2>1. UNCHANGED QuietIn /\ thread' = [thread EXCEPT ![n] = "persisted"]
        /\ (plan' = plan \/ plan' = [plan EXCEPT ![n] = NoWork])
    BY <1>6, SettleIs
  <2> QED
    BY <1>1, <1>a, <2>1 DEF QuietIn, Planned
<1>7. ASSUME NEW n \in Turn, ReadWindow(n), live # 0
      PROVE  PlanInv'
  BY <1>1, <1>7, <1>a, ReadIs DEF QuietIn, Planned
<1>8. ASSUME NEW n \in Turn, WriteWindow(n)
      PROVE  PlanInv'
  BY <1>1, <1>8, <1>a, WriteIs DEF Planned
<1>9. ASSUME Restart
      PROVE  PlanInv'
  BY <1>9 DEF Restart, PlanInv
<1>10. ASSUME Reset
       PROVE  PlanInv'
  BY <1>1, <1>10 DEF Reset, Planned, threadVars, turnVars
<1>11. ASSUME Looks \/ \E half \in BOOLEAN : Dump(half)
       PROVE  PlanInv'
  <2>1. PICK frames \in SUBSET Range(LiveBody), out \in SUBSET Range(LiveBody) :
          /\ Fetched(frames \ out) /\ spilled' = spilled \cup out
          /\ live # 0 => frames = Range(LiveBody)
    BY <1>11, FetchIs
  <2>2. UNCHANGED <<thread, plan, gone, raced, window>> /\ unread \subseteq unread'
    BY <1>11, FetchIs DEF threadVars, turnVars
  <2>3. ASSUME NEW n \in Turn, Planned(n)
        PROVE  /\ Range(body'[window[n]]) \subseteq Range(plan[n].kept) \cup plan[n].out \cup Excused'
               /\ Range(plan[n].kept) \cup plan[n].out \subseteq Range(body'[window[n]]) \cup Excused'
    <3>2. /\ Range(body[window[n]]) \subseteq Range(plan[n].kept) \cup plan[n].out \cup Excused
          /\ Range(plan[n].kept) \cup plan[n].out \subseteq Range(body[window[n]]) \cup Excused
      BY <2>3 DEF PlanInv, Planned
    <3>3. CASE window[n] = live'
      <4>1. live # 0 /\ live' = live
        BY <1>a, <1>b, <2>1, <2>3, <3>3 DEF Fetched
      <4>2. LiveBody = body[window[n]] /\ Range(body'[window[n]]) = Range(LiveBody) \ out
        BY <2>1, <3>3, <4>1 DEF LiveBody, Fetched
      <4> QED
        BY <2>1, <2>2, <3>2, <4>2
    <3>4. CASE window[n] # live'
      <4>1. body'[window[n]] = body[window[n]]
        BY <1>b, <2>1, <2>3, <3>4 DEF Fetched
      <4> QED
        BY <2>1, <2>2, <3>2, <4>1
    <3> QED
      BY <3>3, <3>4
  <2>4. \A n \in Turn : thread'[n] \in {"replace", "drop"} => Planned(n)
    BY <2>2 DEF Planned
  <2> QED
    BY <2>2, <2>3, <2>4 DEF PlanInv
<1>12. ASSUME \/ AgentFails \/ ChannelAccepts \/ StartSave \/ TurnEnds \/ Cancel
              \/ \E n \in Turn : Checkpoints(n)
       PROVE  PlanInv'
  BY <1>1, <1>12, QuietIs DEF QuietIn, Planned
<1> QED
  BY <1>2, <1>3, <1>4, <1>5, <1>6, <1>7, <1>8, <1>9, <1>10, <1>11, <1>12 DEF PipelineNext, Looks, Checkpoints

(* A cancelled turn stays cancelled. *)
LEMMA CancelledStays ==
  ASSUME PipelineTypeOK, EndedInv, PipelineNext
  PROVE  \A n \in Turn : ended[n] = "cancelled" => ended'[n] = "cancelled"
<1> USE DEF pipelineVars, turnVars, windowVars, threadVars, historyVars
<1>a. latest \in Nat /\ Turn \subseteq Nat /\ ended = [n \in Turn |-> ended[n]]
  BY Counters
<1>1. ASSUME NEW loaded \in Loadable, NEW spillFails \in BOOLEAN, StartTurn(loaded, spillFails)
      PROVE  \A n \in Turn : ended[n] = "cancelled" => ended'[n] = "cancelled"
  <2>1. ended' = ended \/ ended' = [ended EXCEPT ![latest + 1] = "failed"]
    BY <1>1 DEF StartTurn
  <2> QED
    BY <1>a, <2>1 DEF EndedInv
<1>2. ASSUME AgentFails \/ TurnEnds \/ Cancel \/ Restart
      PROVE  \A n \in Turn : ended[n] = "cancelled" => ended'[n] = "cancelled"
  <2>1. place # "idle" \/ ended' = ended
    BY <1>2 DEF AgentFails, TurnEnds, Cancel, Restart
  <2>2. \A n \in Turn : n # latest => ended'[n] = ended[n]
    BY <1>2, <1>a DEF AgentFails, TurnEnds, Cancel, Restart
  <2> QED
    BY <1>a, <2>1, <2>2 DEF EndedInv
<1>3. ASSUME NEW n \in Turn, SpillFails(n) \/ WriteFails(n)
      PROVE  \A m \in Turn : ended[m] = "cancelled" => ended'[m] = "cancelled"
  BY <1>3, <1>a DEF SpillFails, WriteFails
<1>4. ASSUME \/ \E withTools \in BOOLEAN : AgentReplies(withTools)
             \/ ChannelAccepts \/ StartSave \/ Reset \/ Looks
             \/ \E half \in BOOLEAN : Dump(half)
             \/ \E state \in DeliveryOutcomes : DeliveryEnds(state)
             \/ \E n \in Turn :
                  \/ Compact(n) \/ EvictFrames(n) \/ Replace(n)
                  \/ ReadWindow(n) \/ WriteWindow(n)
                  \/ Checkpoints(n)
      PROVE  ended' = ended
  BY <1>4 DEF AgentReplies, ChannelAccepts, StartSave, Reset, Looks, Look, Dump, DeliveryEnds,
              Compact, EvictFrames, Plan, Replace, ReadWindow, WriteWindow, Checkpoints, SaveCheckpoint, CheckpointFails
<1> QED
  BY <1>1, <1>2, <1>3, <1>4 DEF PipelineNext, Looks, Checkpoints

LEMMA WriteStep ==
  ASSUME PipelineTypeOK, PipelineTypeOK', ObjectInv, ThreadInv, EndedInv, FreshInv, NothingForgotten,
         WriteInv, PipelineNext
  PROVE  WriteInv'
<1> USE DEF Excused
<1>a. /\ plan = [n \in Turn |-> plan[n]] /\ thread \in [Turn -> Threads]
      /\ latest \in Nat /\ Turn \subseteq Nat
  BY Counters DEF PipelineTypeOK
<1>b. \A n \in Turn : ended'[n] # "cancelled" => ended[n] # "cancelled"
  BY CancelledStays
(* a step after which those that write wrote before, and nothing is added  *)
<1>1. ASSUME said' = said, Excused \subseteq Excused', live' = live,
             \A n \in Turn : thread'[n] = "write" => thread[n] = "write" /\ plan'[n] = plan[n]
      PROVE  WriteInv'
  BY <1>1, <1>b DEF WriteInv
<1>2. ASSUME NEW loaded \in Loadable, NEW spillFails \in BOOLEAN, StartTurn(loaded, spillFails)
      PROVE  WriteInv'
  <2>1. live' # 0 /\ place = "idle" /\ thread' = thread
    BY <1>2, StartIs DEF Fetched, threadVars
  <2> QED
    BY <1>b, <2>1 DEF WriteInv, ThreadInv
<1>3. ASSUME \/ \E withTools \in BOOLEAN : AgentReplies(withTools)
             \/ \E state \in DeliveryOutcomes : DeliveryEnds(state)
      PROVE  WriteInv'
  <2>1. PICK new \in SUBSET {f \in Frames : f.n = latest} :
          /\ said' = said \cup new
          /\ gone' = IF window[latest] = live THEN gone ELSE gone \cup new
          /\ raced \subseteq raced'
    BY <1>3, AddIs
  <2>2. /\ place \in {"agent", "deliver"} /\ UNCHANGED <<live, spilled, unread>> /\ window[latest] # 0
        /\ \A n \in Turn : thread'[n] = "write" => thread[n] = "write"
    BY <1>3, <1>a, AddIs DEF Object
  <2>3. \A n \in Turn : thread[n] = "write" => ended[n] = "cancelled"
    BY <2>2 DEF ThreadInv
  <2> QED
    BY <1>b, <2>1, <2>2, <2>3 DEF WriteInv
<1>4. ASSUME NEW n \in Turn, Compact(n) \/ EvictFrames(n)
      PROVE  WriteInv'
  <2>1. UNCHANGED <<live, said, spilled, gone, raced, unread>>
    BY <1>4, PlanIs DEF windowVars, historyVars
  <2>2. \E t \in {"replace", "evict", "drop", "read"} : thread' = [thread EXCEPT ![n] = t]
    BY <1>4, PlanIs
  <2>3. \A m \in Turn : m # n => plan'[m] = plan[m]
    <3>1. plan' = plan \/ \E w : plan' = [plan EXCEPT ![n] = w]
      BY <1>4, PlanIs
    <3> QED
      BY <1>a, <3>1
  <2> QED
    BY <1>1, <1>a, <2>1, <2>2, <2>3
<1>5. ASSUME NEW n \in Turn, Replace(n)
      PROVE  WriteInv'
  BY <1>1, <1>5, <1>a, ReplaceIs
<1>6. ASSUME NEW n \in Turn, SpillFails(n) \/ WriteFails(n) \/ (ReadWindow(n) /\ live = 0)
      PROVE  WriteInv'
  <2>1. UNCHANGED QuietIn /\ thread' = [thread EXCEPT ![n] = "persisted"]
        /\ (plan' = plan \/ plan' = [plan EXCEPT ![n] = NoWork])
    BY <1>6, SettleIs
  <2> QED
    BY <1>1, <1>a, <2>1 DEF QuietIn
<1>7. ASSUME NEW n \in Turn, ReadWindow(n), live # 0
      PROVE  WriteInv'
  <2>1. /\ UNCHANGED QuietIn /\ thread' = [thread EXCEPT ![n] = "write"]
        /\ plan' = [plan EXCEPT ![n] = [out |-> {}, kept |-> body[live]]] /\ LiveBody = body[live]
    BY <1>7, ReadIs
  <2>2. said \subseteq Range(plan'[n].kept) \cup Excused
    BY <1>a, <2>1 DEF NothingForgotten
  <2> QED
    BY <1>7, <1>a, <1>b, <2>1, <2>2 DEF WriteInv, QuietIn
<1>8. ASSUME NEW n \in Turn, WriteWindow(n)
      PROVE  WriteInv'
  BY <1>1, <1>8, <1>a, WriteIs
<1>9. ASSUME Restart
      PROVE  WriteInv'
  BY <1>9 DEF Restart, WriteInv
<1>10. ASSUME Reset
       PROVE  WriteInv'
  BY <1>10, <1>b DEF Reset, WriteInv, threadVars, NothingForgotten
<1>11. ASSUME Looks \/ \E half \in BOOLEAN : Dump(half)
       PROVE  WriteInv'
  <2>1. live' # 0 /\ UNCHANGED <<said, gone, raced, thread, plan>>
    BY <1>11, FetchIs DEF Fetched, threadVars
  <2>2. Excused \subseteq Excused'
    BY <1>11, FetchIs
  <2> QED
    BY <1>b, <2>1, <2>2 DEF WriteInv
<1>12. ASSUME \/ AgentFails \/ ChannelAccepts \/ StartSave \/ TurnEnds \/ Cancel
              \/ \E n \in Turn : Checkpoints(n)
       PROVE  WriteInv'
  BY <1>1, <1>12, QuietIs DEF QuietIn
<1> QED
  BY <1>2, <1>3, <1>4, <1>5, <1>6, <1>7, <1>8, <1>9, <1>10, <1>11, <1>12 DEF PipelineNext, Looks, Checkpoints

-----------------------------------------------------------------------------
(* TurnPipeline: a reset is final                                          *)

LEMMA LateStays ==
  ASSUME PipelineTypeOK, ObjectInv, ThreadInv, FreshInv, PipelineNext, LateDone
  PROVE  LateDone'
<1>a. thread \in [Turn -> Threads] /\ lateWriters \subseteq Turn
  BY Counters
<1>1. PICK n \in lateWriters : thread[n] # "write"
  BY DEF LateDone
<1>2. n \in Turn /\ thread[n] \in {"persisted", "save", "done", "none"}
  BY <1>1, <1>a DEF ThreadInv, Written
<1>3. SUFFICES n \in lateWriters' /\ thread'[n] # "write"
  BY DEF LateDone
<1>4. ASSUME NEW loaded \in Loadable, NEW spillFails \in BOOLEAN, StartTurn(loaded, spillFails)
      PROVE  n \in lateWriters' /\ thread'[n] # "write"
  BY <1>1, <1>4, StartIs DEF threadVars
<1>5. ASSUME \/ \E withTools \in BOOLEAN : AgentReplies(withTools)
             \/ \E state \in DeliveryOutcomes : DeliveryEnds(state)
      PROVE  n \in lateWriters' /\ thread'[n] # "write"
  BY <1>1, <1>2, <1>5, <1>a, AddIs
<1>6. ASSUME NEW m \in Turn, Compact(m) \/ EvictFrames(m)
      PROVE  n \in lateWriters' /\ thread'[n] # "write"
  <2>1. UNCHANGED lateWriters /\ \E t \in {"replace", "evict", "drop", "read"} : thread' = [thread EXCEPT ![m] = t]
    BY <1>6, PlanIs DEF historyVars
  <2> QED
    BY <1>1, <1>2, <1>a, <2>1
<1>7. ASSUME NEW m \in Turn, Replace(m) \/ WriteWindow(m)
      PROVE  n \in lateWriters' /\ thread'[n] # "write"
  BY <1>1, <1>2, <1>7, <1>a, ReplaceIs, WriteIs
<1>8. ASSUME NEW m \in Turn, SpillFails(m) \/ WriteFails(m) \/ ReadWindow(m)
      PROVE  n \in lateWriters' /\ thread'[n] # "write"
  <2>1. UNCHANGED lateWriters
        /\ \/ thread' = [thread EXCEPT ![m] = "persisted"]
           \/ thread' = [thread EXCEPT ![m] = "write"] /\ thread[m] = "read"
    BY <1>8, SettleIs, ReadIs
  <2> QED
    BY <1>1, <1>2, <1>a, <2>1
<1>9. ASSUME \/ AgentFails \/ ChannelAccepts \/ StartSave \/ TurnEnds \/ Cancel
             \/ \E m \in Turn : Checkpoints(m)
      PROVE  n \in lateWriters' /\ thread'[n] # "write"
  <2>1. UNCHANGED lateWriters /\ (thread'[n] = thread[n] \/ thread'[n] \in {"save", "done"})
    BY <1>9, <1>2, QuietIs
  <2> QED
    BY <1>1, <2>1
<1>10. ASSUME Restart \/ Reset
       PROVE  n \in lateWriters' /\ thread'[n] # "write"
  BY <1>1, <1>2, <1>10 DEF Restart, Reset, threadVars
<1>11. ASSUME Looks \/ \E half \in BOOLEAN : Dump(half)
       PROVE  n \in lateWriters' /\ thread'[n] # "write"
  BY <1>1, <1>11, FetchIs DEF threadVars, historyVars
<1> QED
  BY <1>4, <1>5, <1>6, <1>7, <1>8, <1>9, <1>10, <1>11 DEF PipelineNext, Looks, Checkpoints

LEMMA ResetStep ==
  ASSUME PipelineTypeOK, PipelineTypeOK', ObjectInv, ThreadInv, FreshInv, SaidInv, ResetInv, PipelineNext
  PROVE  ResetInv'
<1> DEFINE Planned(n) == thread[n] \in {"replace", "drop"}
<1>a. /\ body \in [Object -> Seq(Frames)] /\ plan = [n \in Turn |-> plan[n]]
      /\ thread \in [Turn -> Threads] /\ made \in Nat /\ Turn \subseteq Nat /\ latest \in Nat
      /\ live # 0 => live \in Object
  BY Counters, LiveBodyType DEF PipelineTypeOK
<1>b. \A n \in Turn : Planned(n) => /\ window[n] # 0 /\ window[n] <= made /\ n <= latest
  <2>1. ASSUME NEW n \in Turn, Planned(n)
        PROVE  window[n] # 0 /\ window[n] <= made
    <3>1. window[n] \in 0..made /\ window[n] # 0
      BY <2>1 DEF ObjectInv, PipelineTypeOK
    <3> QED
      BY <3>1
  <2> QED
    BY <1>a, <2>1 DEF ThreadInv, Begun
<1>c. Range(LiveBody) \subseteq said
  BY <1>a DEF SaidInv, LiveBody
<1>d. CASE LateDone
  BY <1>d, LateStays DEF ResetInv
<1> SUFFICES ASSUME ~LateDone, ClearInv
             PROVE  ResetInv'
  BY <1>d DEF ResetInv
<1>1. ASSUME UNCHANGED QuietIn, UNCHANGED lateWriters,
             \A n \in Turn : thread'[n] \in {"write", "replace", "drop"}
                               => thread'[n] = thread[n] /\ plan'[n] = plan[n]
      PROVE  ResetInv'
  <2>1. LiveBody' = LiveBody
    BY <1>1, LiveBodyNext DEF QuietIn, LiveBody
  <2> QED
    BY <1>1, <2>1 DEF ResetInv, ClearInv, QuietIn
<1> HIDE DEF Planned
<1>2. ASSUME NEW loaded \in Loadable, NEW spillFails \in BOOLEAN, StartTurn(loaded, spillFails)
      PROVE  ResetInv'
  <2> DEFINE f == Frame(latest + 1, "user")
  <2>1. PICK out \in SUBSET (Range(loaded) \cup {f}) :
          Fetched((Range(loaded) \cup {f}) \ out)
    BY <1>2, StartIs
  <2>2. /\ UNCHANGED <<thread, plan, gone, file, lateWriters>>
        /\ Range(loaded) \subseteq Range(LiveBody)
        /\ latest + 1 \in Turn /\ window' = [window EXCEPT ![latest + 1] = live']
    BY <1>2, StartIs DEF threadVars
  <2>3. f \notin said
    <3>1. f.n = latest + 1
      BY TurnFacts
    <3> HIDE DEF f
    <3> QED
      BY <1>a, <3>1 DEF FreshInv
  <2> HIDE DEF f
  <2>4. Range(LiveBody') = (Range(loaded) \cup {f}) \ out
    BY <2>1, LiveBodyNext DEF Fetched
  <2>5. Range(LiveBody') \cap gone' = {}
    BY <2>2, <2>3, <2>4 DEF ClearInv, SaidInv
  <2>6. \A n \in Turn : Planned(n) /\ window'[n] = live' => window[n] = live
    <3>1. \A n \in Turn : Planned(n) => window'[n] = window[n]
      BY <1>a, <1>b, <2>2 DEF PipelineTypeOK
    <3> QED
      BY <1>a, <1>b, <2>1, <3>1 DEF Fetched
  <2> QED
    BY <2>2, <2>5, <2>6 DEF ResetInv, ClearInv, Planned
<1>3. ASSUME \/ \E withTools \in BOOLEAN : AgentReplies(withTools)
             \/ \E state \in DeliveryOutcomes : DeliveryEnds(state)
      PROVE  ResetInv'
  <2>1. PICK new \in SUBSET {f \in Frames : f.n = latest} :
          /\ new \cap said = {}
          /\ gone' = IF window[latest] = live THEN gone ELSE gone \cup new
          /\ Range(body'[window[latest]]) = Range(body[window[latest]]) \cup new
    BY <1>3, AddIs
  <2>2. /\ UNCHANGED <<plan, file, live, window, lateWriters>> /\ window[latest] \in Object
        /\ \A o \in Object : o # window[latest] => body'[o] = body[o]
        /\ \A n \in Turn : thread'[n] \in {"write", "replace", "drop"} => thread'[n] = thread[n]
    BY <1>3, <1>a, AddIs
  <2>3. Range(LiveBody') \cap gone' = {}
    <3>1. CASE window[latest] = live
      <4>1. Range(LiveBody') = Range(LiveBody) \cup new
        BY <2>1, <2>2, <3>1, LiveBodyNext DEF LiveBody, Object
      <4> QED
        BY <2>1, <3>1, <4>1 DEF ClearInv, SaidInv
    <3>2. CASE window[latest] # live
      <4>1. LiveBody' = LiveBody
        BY <1>a, <2>2, <3>2, LiveBodyNext DEF LiveBody
      <4> QED
        BY <1>c, <2>1, <3>2, <4>1 DEF ClearInv
    <3> QED
      BY <3>1, <3>2
  <2>4. Range(file'.body) \cap gone' = {}
    BY <2>1, <2>2 DEF ClearInv, SaidInv
  <2>5. \A n \in Turn : Range(plan[n].kept) \cap gone = {} => Range(plan'[n].kept) \cap gone' = {}
    BY <2>1, <2>2 DEF SaidInv
  <2> QED
    BY <2>2, <2>3, <2>4, <2>5 DEF ResetInv, ClearInv
<1>4. ASSUME NEW n \in Turn, Compact(n) \/ EvictFrames(n)
      PROVE  ResetInv'
  <2>1. UNCHANGED <<body, live, made, file, spilled, said, gone, raced, unread, window, lateWriters>>
    BY <1>4, PlanIs DEF windowVars, historyVars, turnVars
  <2>2. PICK t \in {"replace", "evict", "drop", "read"} :
          /\ thread' = [thread EXCEPT ![n] = t]
          /\ \/ plan' = plan /\ t \in {"evict", "read"}
             \/ /\ t \in {"replace", "drop"}
                /\ \E out \in SUBSET Range(body[window[n]]), kept \in Seq(Frames) :
                     /\ plan' = [plan EXCEPT ![n] = [out |-> out, kept |-> kept]]
                     /\ Range(kept) = Range(body[window[n]]) \ out
    BY <1>4, PlanIs
  <2>3. CASE plan' = plan /\ t \in {"evict", "read"}
    BY <1>1, <1>a, <2>1, <2>2, <2>3 DEF QuietIn
  <2>4. CASE /\ t \in {"replace", "drop"}
             /\ \E out \in SUBSET Range(body[window[n]]), kept \in Seq(Frames) :
                  /\ plan' = [plan EXCEPT ![n] = [out |-> out, kept |-> kept]]
                  /\ Range(kept) = Range(body[window[n]]) \ out
    <3>1. Range(plan'[n].kept) \subseteq Range(body[window[n]])
      BY <1>a, <2>4
    <3>2. \A m \in Turn : m # n => plan'[m] = plan[m] /\ thread'[m] = thread[m]
      BY <1>a, <2>2, <2>4
    <3>3. thread'[n] # "write"
      BY <1>a, <2>2, <2>4
    <3>4. window[n] = live => LiveBody = body[window[n]]
      <4>1. window[n] \in Object
        BY <1>4, PlanIs
      <4> QED
        BY <4>1 DEF LiveBody, Object
    <3>5. LiveBody' = LiveBody
      BY <2>1, LiveBodyNext DEF LiveBody
    <3> QED
      BY <2>1, <3>1, <3>2, <3>3, <3>4, <3>5 DEF ResetInv, ClearInv
  <2> QED
    BY <2>2, <2>3, <2>4
<1>5. ASSUME NEW n \in Turn, Replace(n)
      PROVE  ResetInv'
  <2>1. /\ UNCHANGED <<file, live, gone, window, lateWriters>> /\ thread[n] \in {"replace", "drop"}
        /\ (\E t \in {"evict", "read"} : thread' = [thread EXCEPT ![n] = t])
        /\ plan' = [plan EXCEPT ![n] = NoWork]
        /\ window[n] \in Object /\ body' = [body EXCEPT ![window[n]] = plan[n].kept]
    BY <1>5, ReplaceIs
  <2>2. \A m \in Turn : thread'[m] \in {"write", "replace", "drop"}
                          => m # n /\ thread'[m] = thread[m] /\ plan'[m] = plan[m]
    BY <1>a, <2>1
  <2>3. Range(LiveBody') \cap gone = {}
    <3>1. CASE window[n] = live
      <4>1. LiveBody' = plan[n].kept
        BY <1>a, <2>1, <3>1, LiveBodyNext DEF Object
      <4> QED
        BY <2>1, <3>1, <4>1 DEF ClearInv
    <3>2. CASE window[n] # live
      <4>1. LiveBody' = LiveBody
        BY <1>a, <2>1, <3>2, LiveBodyNext DEF LiveBody
      <4> QED
        BY <4>1 DEF ClearInv
    <3> QED
      BY <3>1, <3>2
  <2> QED
    BY <2>1, <2>2, <2>3 DEF ResetInv, ClearInv
<1>6. ASSUME NEW n \in Turn, SpillFails(n) \/ WriteFails(n) \/ (ReadWindow(n) /\ live = 0)
      PROVE  ResetInv'
  <2>1. UNCHANGED QuietIn /\ UNCHANGED lateWriters /\ thread' = [thread EXCEPT ![n] = "persisted"]
        /\ (plan' = plan \/ plan' = [plan EXCEPT ![n] = NoWork])
    BY <1>6, SettleIs
  <2> QED
    BY <1>1, <1>a, <2>1
<1>7. ASSUME NEW n \in Turn, ReadWindow(n), live # 0
      PROVE  ResetInv'
  <2>1. /\ UNCHANGED QuietIn /\ UNCHANGED lateWriters /\ thread' = [thread EXCEPT ![n] = "write"]
        /\ plan' = [plan EXCEPT ![n] = [out |-> {}, kept |-> body[live]]] /\ LiveBody = body[live]
    BY <1>7, ReadIs
  <2>2. Range(plan'[n].kept) \cap gone = {}
    BY <1>a, <2>1 DEF ClearInv
  <2>3. LiveBody' = LiveBody
    BY <2>1, LiveBodyNext DEF LiveBody, QuietIn
  <2> QED
    BY <1>a, <2>1, <2>2, <2>3 DEF ResetInv, ClearInv, QuietIn
<1>8. ASSUME NEW n \in Turn, WriteWindow(n)
      PROVE  ResetInv'
  <2>1. /\ UNCHANGED <<body, live, gone, window, lateWriters>>
        /\ thread[n] = "write" /\ thread' = [thread EXCEPT ![n] = "persisted"]
        /\ plan' = [plan EXCEPT ![n] = NoWork] /\ file'.body = plan[n].kept
    BY <1>8, WriteIs
  <2>2. CASE n \in lateWriters
    BY <1>a, <2>1, <2>2 DEF ResetInv, LateDone
  <2>3. CASE n \notin lateWriters
    <3>1. Range(file'.body) \cap gone = {}
      BY <2>1, <2>3 DEF ClearInv
    <3>2. Range(LiveBody') \cap gone = {}
      BY <2>1, <3>1, LiveBodyNext DEF ClearInv, LiveBody
    <3>3. \A m \in Turn : thread'[m] \in {"write", "replace", "drop"}
                            => m # n /\ thread'[m] = thread[m] /\ plan'[m] = plan[m]
      BY <1>a, <2>1
    <3> QED
      BY <2>1, <3>1, <3>2, <3>3 DEF ResetInv, ClearInv
  <2> QED
    BY <2>2, <2>3
<1>9. ASSUME Restart
      PROVE  ResetInv'
  <2>1. LiveBody' = file.body
    BY <1>9, LiveBodyNext DEF Restart
  <2> QED
    BY <1>9, <2>1 DEF Restart, ResetInv, ClearInv
<1>10. ASSUME Reset
       PROVE  ResetInv'
  <2>1. LiveBody' = <<>> /\ file'.body = <<>>
    BY <1>10, LiveBodyNext DEF Reset, Unlinked, NoFile
  <2>2. \A n \in Turn : thread'[n] = "write" => n \in lateWriters'
    BY <1>10 DEF Reset, threadVars
  <2>3. \A n \in Turn : thread'[n] \in {"replace", "drop"} => window'[n] # live'
    BY <1>10, <1>b DEF Reset, threadVars, turnVars, Planned
  <2> QED
    BY <2>1, <2>2, <2>3, EmptyRange DEF ResetInv, ClearInv
<1>11. ASSUME Looks \/ \E half \in BOOLEAN : Dump(half)
       PROVE  ResetInv'
  <2>1. PICK frames \in SUBSET Range(LiveBody), out \in SUBSET Range(LiveBody) :
          /\ Fetched(frames \ out)
          /\ \/ file' = file
             \/ file'.by = 0 /\ Range(file'.body) = frames \ out
    BY <1>11, FetchIs
  <2>2. UNCHANGED <<thread, plan, gone, window, lateWriters>>
    BY <1>11, FetchIs DEF threadVars, historyVars, turnVars
  <2>3. Range(LiveBody') = frames \ out
    BY <2>1, LiveBodyNext DEF Fetched
  <2>4. \A n \in Turn : Planned(n) /\ window[n] = live' => window[n] = live
    BY <1>a, <1>b, <2>1 DEF Fetched
  <2> QED
    BY <2>1, <2>2, <2>3, <2>4 DEF ResetInv, ClearInv, Planned
<1>12. ASSUME \/ AgentFails \/ ChannelAccepts \/ StartSave \/ TurnEnds \/ Cancel
              \/ \E n \in Turn : Checkpoints(n)
       PROVE  ResetInv'
  <2>1. UNCHANGED QuietIn /\ UNCHANGED <<plan, lateWriters>>
    BY <1>12, QuietIs
  <2>2. \A n \in Turn : thread'[n] \in {"write", "replace", "drop"} => thread'[n] = thread[n]
    BY <1>12, QuietIs
  <2> QED
    BY <1>1, <2>1, <2>2
<1> QED
  BY <1>2, <1>3, <1>4, <1>5, <1>6, <1>7, <1>8, <1>9, <1>10, <1>11, <1>12 DEF PipelineNext, Looks, Checkpoints

-----------------------------------------------------------------------------
(* TurnPipeline: what a restart finds                                      *)

LEMMA DurableStep ==
  ASSUME PipelineTypeOK, PipelineTypeOK', ObjectInv, ThreadInv, EndedInv, FreshInv, NothingForgotten,
         WriteInv, DurableInv, PipelineNext
  PROVE  DurableInv'
<1> USE DEF Excused
<1>a. /\ thread \in [Turn -> Threads] /\ latest \in Nat /\ latest \in Turn /\ Turn \subseteq Nat
      /\ ended = [n \in Turn |-> ended[n]] /\ file.by \in Turn /\ \A f \in said : f.n \in Turn
  BY Counters, TurnFacts DEF PipelineTypeOK
<1>b. \A n \in Turn : ended[n] = "cancelled" => ended'[n] = "cancelled"
  BY CancelledStays
(* the file stays and no turn is saved that was not *)
<1>1. ASSUME \A f \in said' : Saved(f.n)' => f \in said /\ Saved(f.n), file' = file, Excused \subseteq Excused'
      PROVE  DurableInv'
  BY <1>1, <1>a, <1>b DEF DurableInv
<1>2. ASSUME NEW loaded \in Loadable, NEW spillFails \in BOOLEAN, StartTurn(loaded, spillFails)
      PROVE  DurableInv'
  <2>1. /\ latest' = latest + 1 /\ latest + 1 \in Turn
        /\ said' = said \cup {Frame(latest + 1, "user")} /\ file' = file /\ Excused \subseteq Excused'
        /\ place' \in {"idle", "agent"}
        /\ ended' = [ended EXCEPT ![latest + 1] = "failed"] \/ ended' = ended
    BY <1>2, StartIs
  <2>2. ended[latest + 1] = "no"
    BY <1>a, <2>1 DEF EndedInv
  <2>3. Frame(latest + 1, "user").n = latest + 1
    BY TurnFacts
  <2>4. \A f \in said' : Saved(f.n)' => f \in said /\ Saved(f.n)
    BY <1>a, <2>1, <2>2, <2>3 DEF Saved
  <2> QED
    BY <1>1, <2>1, <2>4
<1>3. ASSUME \/ \E withTools \in BOOLEAN : AgentReplies(withTools)
             \/ \E state \in DeliveryOutcomes : DeliveryEnds(state)
      PROVE  DurableInv'
  <2>1. /\ place' \in {"deliver", "compact"} /\ place \in {"agent", "deliver"}
        /\ thread'[latest] # "persisted" /\ UNCHANGED <<latest, ended, file, spilled, unread>>
    BY <1>3, <1>a, AddIs
  <2>2. PICK new \in SUBSET {f \in Frames : f.n = latest} :
          /\ said' = said \cup new /\ raced \subseteq raced'
          /\ gone' = IF window[latest] = live THEN gone ELSE gone \cup new
    BY <1>3, AddIs
  <2>3. ended[latest] # "finished"
    BY <2>1 DEF EndedInv
  <2>4. \A f \in said' : Saved(f.n)' => f \in said /\ Saved(f.n)
    BY <2>1, <2>2, <2>3 DEF Saved
  <2>5. Excused \subseteq Excused'
    BY <2>1, <2>2
  <2> QED
    BY <1>1, <2>1, <2>4, <2>5
<1>4. ASSUME \/ AgentFails \/ ChannelAccepts \/ StartSave \/ TurnEnds \/ Cancel
             \/ \E n \in Turn : Checkpoints(n)
      PROVE  DurableInv'
  <2>1. UNCHANGED QuietIn
    BY <1>4, QuietIs
  <2>2. \A n \in Turn : Saved(n)' => Saved(n)
    <3>1. CASE AgentFails \/ Cancel
      BY <1>a, <3>1 DEF AgentFails, Cancel, Saved
    <3>2. CASE ChannelAccepts
      BY <3>2 DEF ChannelAccepts, Saved, turnVars, threadVars
    <3>3. CASE StartSave
      BY <1>a, <3>3 DEF StartSave, Saved
    <3>4. CASE TurnEnds
      BY <1>a, <3>4 DEF TurnEnds, Saved
    <3>5. ASSUME NEW n \in Turn, Checkpoints(n)
          PROVE  \A m \in Turn : Saved(m)' => Saved(m)
      BY <1>a, <3>5 DEF Checkpoints, SaveCheckpoint, CheckpointFails, Saved, turnVars
    <3> QED
      BY <1>4, <3>1, <3>2, <3>3, <3>4, <3>5
  <2> QED
    BY <1>1, <1>a, <2>1, <2>2 DEF QuietIn
<1>5. ASSUME NEW n \in Turn, Compact(n) \/ EvictFrames(n)
      PROVE  DurableInv'
  <2>1. UNCHANGED <<latest, place, ended, file, said, spilled, gone, raced, unread>>
    BY <1>5, PlanIs DEF windowVars, historyVars, turnVars
  <2>2. \A m \in Turn : thread'[m] = "persisted" => thread[m] = "persisted"
    <3>1. \E t \in {"replace", "evict", "drop", "read"} : thread' = [thread EXCEPT ![n] = t]
      BY <1>5, PlanIs
    <3> QED
      BY <1>a, <3>1
  <2> QED
    BY <1>1, <1>a, <2>1, <2>2 DEF Saved
<1>6. ASSUME NEW n \in Turn, Replace(n)
      PROVE  DurableInv'
  <2>1. /\ UNCHANGED <<latest, place, ended, file, said, gone, raced, unread>> /\ spilled \subseteq spilled'
        /\ \E t \in {"evict", "read"} : thread' = [thread EXCEPT ![n] = t]
    BY <1>6, ReplaceIs
  <2>2. \A m \in Turn : thread'[m] = "persisted" => thread[m] = "persisted"
    BY <1>a, <2>1
  <2> QED
    BY <1>1, <1>a, <2>1, <2>2 DEF Saved
<1>7. ASSUME NEW n \in Turn, SpillFails(n) \/ WriteFails(n)
      PROVE  DurableInv'
  <2>1. UNCHANGED QuietIn /\ thread' = [thread EXCEPT ![n] = "persisted"]
    BY <1>7, SettleIs
  <2>2. UNCHANGED <<latest, place>>
        /\ ended' = [ended EXCEPT ![n] = IF @ = "cancelled" THEN @ ELSE "unsaved"]
    BY <1>7 DEF SpillFails, WriteFails
  <2>3. \A m \in Turn : Saved(m)' => Saved(m)
    <3>1. ~Saved(n)'
      BY <1>a, <2>2 DEF Saved, EndedInv
    <3>2. \A m \in Turn : m # n => ended'[m] = ended[m] /\ thread'[m] = thread[m]
      BY <1>a, <2>1, <2>2
    <3> QED
      BY <2>2, <3>1, <3>2 DEF Saved
  <2> QED
    BY <1>1, <1>a, <2>1, <2>3 DEF QuietIn
<1>8. ASSUME NEW n \in Turn, ReadWindow(n)
      PROVE  DurableInv'
  <2>1. UNCHANGED <<latest, place, ended>>
    BY <1>8 DEF ReadWindow, turnVars
  <2>2. CASE live = 0
    <3>1. UNCHANGED QuietIn
      BY <1>8, <2>2, SettleIs
    <3>2. said \subseteq Range(file.body) \cup Excused
      BY <2>2 DEF NothingForgotten, LiveBody
    <3> QED
      BY <3>1, <3>2 DEF QuietIn, DurableInv
  <2>3. CASE live # 0
    <3>1. UNCHANGED QuietIn /\ thread' = [thread EXCEPT ![n] = "write"]
      BY <1>8, <2>3, ReadIs
    <3>2. \A m \in Turn : thread'[m] = "persisted" => thread[m] = "persisted"
      BY <1>a, <3>1
    <3> QED
      BY <1>1, <1>a, <2>1, <3>1, <3>2 DEF Saved, QuietIn
  <2> QED
    BY <2>2, <2>3
<1>9. ASSUME NEW n \in Turn, WriteWindow(n)
      PROVE  DurableInv'
  <2>1. /\ UNCHANGED <<said, gone, raced, unread, spilled>> /\ thread[n] = "write"
        /\ file'.body = plan[n].kept /\ file'.by = n /\ UNCHANGED ended
    BY <1>9, WriteIs
  <2>2. CASE ended[n] = "cancelled"
    <3>1. n # 0
      BY <2>1 DEF ThreadInv
    <3> QED
      BY <2>1, <2>2, <3>1 DEF DurableInv
  <2>3. CASE ended[n] # "cancelled"
    <3>1. said \subseteq Range(plan[n].kept) \cup Excused
      BY <2>1, <2>3 DEF WriteInv
    <3> QED
      BY <2>1, <3>1 DEF DurableInv
  <2> QED
    BY <2>2, <2>3
<1>10. ASSUME Restart
       PROVE  DurableInv'
  <2>1. /\ place' = "idle" /\ UNCHANGED <<latest, file, said, spilled, raced, unread>> /\ gone \subseteq gone'
        /\ ended' = ended \/ ended' = [ended EXCEPT ![latest] = "cancelled"]
    BY <1>10 DEF Restart
  <2> QED
    BY <1>1, <1>a, <2>1 DEF Saved
<1>11. ASSUME Reset
       PROVE  DurableInv'
  <2>1. said' \subseteq Excused'
    BY <1>11 DEF Reset, NothingForgotten
  <2> QED
    BY <2>1 DEF DurableInv
<1>12. ASSUME Looks \/ \E half \in BOOLEAN : Dump(half)
       PROVE  DurableInv'
  <2>1. PICK frames \in SUBSET Range(LiveBody), out \in SUBSET Range(LiveBody) :
          /\ spilled' = spilled \cup out
          /\ Range(LiveBody) \subseteq frames \cup unread'
          /\ \/ file' = file
             \/ file'.by = 0 /\ Range(file'.body) = frames \ out
    BY <1>12, FetchIs
  <2>2. /\ UNCHANGED <<said, gone, raced, latest, place, ended, thread>>
        /\ unread \subseteq unread'
    BY <1>12, FetchIs DEF turnVars, threadVars
  <2>3. CASE file' = file
    BY <1>1, <1>a, <2>1, <2>2, <2>3 DEF Saved
  <2>4. CASE Range(file'.body) = frames \ out
    BY <2>1, <2>2, <2>4 DEF NothingForgotten, DurableInv
  <2> QED
    BY <2>1, <2>3, <2>4
<1> QED
  BY <1>2, <1>3, <1>4, <1>5, <1>6, <1>7, <1>8, <1>9, <1>10, <1>11, <1>12 DEF PipelineNext, Looks, Checkpoints

LEMMA CheckStep ==
  ASSUME PipelineTypeOK, PipelineTypeOK', ObjectInv, ThreadInv, EndedInv, FreshInv, CheckInv, PipelineNext
  PROVE  CheckInv'
<1>a. /\ thread \in [Turn -> Threads] /\ latest \in Nat /\ latest \in Turn /\ Turn \subseteq Nat
      /\ ended = [n \in Turn |-> ended[n]] /\ checkpoint.n \in Turn /\ shown \subseteq Turn
      /\ outcome \in [Turn -> {"none", "delivered", "suppressed", "failed"}]
  BY Counters DEF PipelineTypeOK
<1>b. \A n \in Turn : ended[n] = "cancelled" => ended'[n] = "cancelled"
  BY CancelledStays
(* no checkpoint is written, no reply delivered and no turn about to end,  *)
(* or the checkpoint of one that is could not be saved                     *)
<1>1. ASSUME UNCHANGED <<checkpoint, outcome>>, shown \subseteq shown', unrecorded \subseteq unrecorded',
             \A n \in Turn : thread'[n] # "none" => thread[n] # "none",
             \A n \in Turn \ unrecorded' : Checked(n)' => Checked(n),
             \A n \in Turn : Begun(n) => Begun(n)'
      PROVE  CheckInv'
  BY <1>1, <1>a, <1>b DEF CheckInv
<1>2. ASSUME NEW loaded \in Loadable, NEW spillFails \in BOOLEAN, StartTurn(loaded, spillFails)
      PROVE  CheckInv'
  <2>1. /\ latest' = latest + 1 /\ latest + 1 \in Turn /\ place' \in {"idle", "agent"}
        /\ ended' = [ended EXCEPT ![latest + 1] = "failed"] \/ ended' = ended
        /\ UNCHANGED <<checkpoint, outcome, shown, thread, unrecorded>>
    BY <1>2, StartIs DEF threadVars
  <2>2. \A n \in Turn : Begun(n) => Begun(n)'
    BY <1>a, <2>1 DEF Begun
  <2>3. \A n \in Turn : Checked(n)' => Checked(n)
    BY <1>a, <2>1 DEF Checked
  <2> QED
    BY <1>1, <2>1, <2>2, <2>3
<1>3. ASSUME NEW withTools \in BOOLEAN, AgentReplies(withTools)
      PROVE  CheckInv'
  <2>1. /\ place = "agent" /\ place' = "deliver"
        /\ UNCHANGED <<latest, ended, checkpoint, outcome, shown, thread, unrecorded>>
    BY <1>3 DEF AgentReplies, threadVars
  <2> QED
    BY <1>1, <2>1 DEF Begun, Checked
<1>4. ASSUME NEW state \in DeliveryOutcomes, DeliveryEnds(state)
      PROVE  CheckInv'
  <2>1. /\ place = "deliver" /\ place' = "compact" /\ outcome' = [outcome EXCEPT ![latest] = state]
        /\ thread' = [thread EXCEPT ![latest] = "compact"]
        /\ UNCHANGED <<latest, ended, checkpoint, shown, unrecorded>>
    BY <1>4 DEF DeliveryEnds
  <2>2. state # "none" /\ (state = "delivered" => latest \in shown)
    BY <1>4 DEF DeliveryOutcomes
  <2>3. checkpoint # NoCheckpoint => checkpoint.n # latest
    BY <1>a, <2>1 DEF CheckInv, Begun
  <2>4. \A n \in Turn : (outcome'[n] = "delivered" => n \in shown')
                        /\ (thread'[n] # "none" => outcome'[n] # "none")
    BY <1>a, <2>1, <2>2 DEF CheckInv
  <2>5. \A n \in Turn : (Begun(n) => Begun(n)') /\ (Checked(n)' => Checked(n))
    BY <2>1 DEF Begun, Checked
  <2>6. checkpoint = NoCheckpoint => checkpoint.status # "complete"
    BY DEF NoCheckpoint
  <2> QED
    BY <1>a, <1>b, <2>1, <2>3, <2>4, <2>5, <2>6 DEF CheckInv
<1>5. ASSUME AgentFails \/ ChannelAccepts \/ StartSave \/ TurnEnds \/ Cancel \/ Restart
      PROVE  CheckInv'
  <2>1. UNCHANGED <<checkpoint, outcome, latest, unrecorded>> /\ shown \subseteq shown'
    BY <1>5 DEF AgentFails, ChannelAccepts, StartSave, TurnEnds, Cancel, Restart, turnVars, historyVars
  <2>2. \A n \in Turn : thread'[n] # "none" => thread[n] # "none"
    BY <1>5, <1>a DEF AgentFails, ChannelAccepts, StartSave, TurnEnds, Cancel, Restart, threadVars
  <2>3. place' = place \/ place' \notin {"agent", "deliver"}
    BY <1>5 DEF AgentFails, ChannelAccepts, StartSave, TurnEnds, Cancel, Restart, turnVars
  <2>4. \A n \in Turn : Checked(n)' => Checked(n)
    <3>1. CASE AgentFails \/ Cancel \/ Restart
      BY <1>a, <3>1 DEF AgentFails, Cancel, Restart, Checked
    <3>2. CASE ChannelAccepts
      BY <3>2 DEF ChannelAccepts, Checked, turnVars, threadVars
    <3>3. CASE StartSave
      BY <1>a, <3>3 DEF StartSave, Checked
    <3>4. CASE TurnEnds
      BY <1>a, <3>4 DEF TurnEnds, Checked
    <3> QED
      BY <1>5, <3>1, <3>2, <3>3, <3>4
  <2> QED
    BY <1>1, <2>1, <2>2, <2>3, <2>4 DEF Begun
<1>6. ASSUME NEW n \in Turn,
             \/ Compact(n) \/ EvictFrames(n) \/ Replace(n) \/ SpillFails(n)
             \/ ReadWindow(n) \/ WriteWindow(n) \/ WriteFails(n)
      PROVE  CheckInv'
  <2>1. UNCHANGED <<checkpoint, outcome, shown, latest, place, unrecorded>> /\ thread[n] # "none"
    BY <1>6 DEF Compact, EvictFrames, Plan, Replace, SpillFails, ReadWindow, WriteWindow, WriteFails,
                turnVars, historyVars
  <2>2. \E t \in Threads \ {"done"} : thread' = [thread EXCEPT ![n] = t]
    BY <1>6 DEF Compact, EvictFrames, Plan, Replace, SpillFails, ReadWindow, WriteWindow, WriteFails,
                Threads
  <2>3. ended' = ended \/ ended' = [ended EXCEPT ![n] = IF @ = "cancelled" THEN @ ELSE "unsaved"]
    BY <1>6 DEF Compact, EvictFrames, Plan, Replace, SpillFails, ReadWindow, WriteWindow, WriteFails,
                turnVars
  <2>4. \A m \in Turn : Checked(m)' => Checked(m)
    BY <1>a, <2>1, <2>2, <2>3 DEF Checked
  <2>5. \A m \in Turn : thread'[m] # "none" => thread[m] # "none"
    BY <1>a, <2>1, <2>2
  <2> QED
    BY <1>1, <2>1, <2>4, <2>5 DEF Begun
<1>7. ASSUME NEW n \in Turn, NEW status \in {"complete", "in_progress", "delivery_failed"},
             SaveCheckpoint(n, status)
      PROVE  CheckInv'
  <2>1. /\ thread[n] = "save" /\ status \in Statuses(n) /\ checkpoint' = [n |-> n, status |-> status]
        /\ thread' = [thread EXCEPT ![n] = "done"]
        /\ UNCHANGED <<latest, place, ended, outcome, shown, unrecorded>>
    BY <1>7 DEF SaveCheckpoint, turnVars, historyVars
  <2>2. n # 0 /\ Begun(n)'
    BY <2>1 DEF ThreadInv, Begun
  <2>3. status = "complete" => n \in shown \/ outcome[n] = "suppressed"
    BY <1>a, <2>1 DEF Statuses, CheckInv
  <2>4. ended[n] = "cancelled" \/ \A m \in Turn : Checked(m)' => m <= n
    <3>1. ASSUME ended[n] # "cancelled"
          PROVE  n = latest
      BY <2>1, <3>1 DEF ThreadInv
    <3>2. \A m \in Turn : m > latest => ended[m] = "no"
      BY DEF EndedInv
    <3> QED
      BY <1>a, <2>1, <3>1, <3>2 DEF Checked
  <2>5. \A m \in Turn : thread'[m] # "none" => thread[m] # "none"
    BY <1>a, <2>1
  <2>6. checkpoint'.n = n /\ checkpoint'.status = status
    BY <2>1
  <2> HIDE DEF Checked, Begun
  <2> QED
    BY <2>1, <2>2, <2>3, <2>4, <2>5, <2>6 DEF CheckInv
<1>8. ASSUME Reset \/ Looks \/ \E half \in BOOLEAN : Dump(half)
      PROVE  CheckInv'
  <2>1. UNCHANGED <<checkpoint, outcome, shown, latest, place, ended, thread, unrecorded>>
    BY <1>8 DEF Reset, Looks, Look, Dump, turnVars, threadVars, historyVars
  <2> QED
    BY <1>1, <2>1 DEF Begun, Checked
<1>9. ASSUME NEW n \in Turn, CheckpointFails(n)
      PROVE  CheckInv'
  <2>1. /\ thread[n] = "save" /\ thread' = [thread EXCEPT ![n] = "done"]
        /\ unrecorded' = unrecorded \cup {n}
        /\ UNCHANGED <<checkpoint, outcome, shown, latest, place, ended>>
    BY <1>9 DEF CheckpointFails, turnVars
  <2>2. \A m \in Turn \ unrecorded' : Checked(m)' => Checked(m)
    BY <1>a, <2>1 DEF Checked
  <2>3. \A m \in Turn : thread'[m] # "none" => thread[m] # "none"
    BY <1>a, <2>1
  <2> QED
    BY <1>1, <2>1, <2>2, <2>3 DEF Begun
<1> QED
  BY <1>2, <1>3, <1>4, <1>5, <1>6, <1>7, <1>8, <1>9 DEF PipelineNext, Looks, Checkpoints

-----------------------------------------------------------------------------
(* TurnPipeline: the theorems                                              *)

LEMMA PipelineInvInit == PipelineInit => PipelineInv
<1> SUFFICES ASSUME PipelineInit
             PROVE  PipelineInv
  OBVIOUS
<1> USE PipelineAssumption DEF PipelineInit
<1>1. /\ Range(Past) \subseteq Frames /\ Range(<<>>) = {} /\ <<>> \in Seq(Frames) /\ Past \in Seq(Frames)
      /\ \A f \in Range(Past) : f.n = 0
  BY PastFrames, EmptyRange
<1>2. NoWork \in [out : SUBSET Frames, kept : Seq(Frames)] /\ NoWorkKept
  BY <1>1, NothingPlanned DEF NoWork
<1>3. file \in [body : Seq(Frames), by : Turn] /\ Range(file.body) = said
  <2>1. file.body = (IF said = {} THEN <<>> ELSE Past) /\ file \in [body : Seq(Frames), by : Turn]
    BY <1>1, TurnFacts
  <2>2. said = {} \/ said = Range(Past)
    OBVIOUS
  <2> QED
    BY <1>1, <2>1, <2>2
<1>4. PipelineTypeOK
  BY <1>1, <1>2, <1>3, TurnFacts DEF PipelineTypeOK, NoCheckpoint, Threads, Turn, Object
<1>5. ObjectInv /\ ThreadInv /\ EndedInv
  BY TurnFacts DEF ObjectInv, ThreadInv, EndedInv, Turn
<1>6. FreshInv
  <2>1. \A f \in said : f.n = 0
    BY <1>1
  <2> QED
    BY <2>1 DEF FreshInv
<1>7. SaidInv
  BY <1>1, <1>2, <1>3 DEF SaidInv, NoWorkKept
<1>8. NothingForgotten /\ PlanInv /\ WriteInv
  BY <1>3 DEF NothingForgotten, LiveBody, PlanInv, WriteInv
<1>9. ResetInv /\ DurableInv
  BY <1>3 DEF ResetInv, ClearInv, LiveBody, DurableInv
<1>10. CheckInv
  BY TurnFacts DEF CheckInv, Checked, NoCheckpoint
<1> QED
  BY <1>4, <1>5, <1>6, <1>7, <1>8, <1>9, <1>10 DEF PipelineInv, ControlInv

LEMMA PipelineInvStep == PipelineInv /\ [PipelineNext]_pipelineVars => PipelineInv'
<1>1. ASSUME PipelineInv, PipelineNext
      PROVE  PipelineInv'
  <2> USE <1>1 DEF PipelineInv, ControlInv
  <2>1. PipelineTypeOK'
    BY PipelineTypesStep
  <2>2. ControlInv'
    BY <2>1, ObjectStep, ThreadStep, EndedStep, FreshStep, SaidStep
  <2>3. NothingForgotten' /\ PlanInv' /\ WriteInv'
    BY <2>1, ForgottenStep, PlanStep, WriteStep
  <2>4. ResetInv' /\ DurableInv' /\ CheckInv'
    BY <2>1, ResetStep, DurableStep, CheckStep
  <2> QED
    BY <2>1, <2>2, <2>3, <2>4
<1>2. ASSUME PipelineInv, UNCHANGED pipelineVars
      PROVE  PipelineInv'
  <2>1. PipelineTypeOK'
    BY <1>2 DEF PipelineInv, PipelineTypeOK, pipelineVars
  <2>2. ControlInv'
    BY <1>2 DEF PipelineInv, ControlInv, ObjectInv, ThreadInv, EndedInv, FreshInv, SaidInv, Begun, pipelineVars
  <2>3. NothingForgotten' /\ WriteInv'
    BY <1>2 DEF PipelineInv, NothingForgotten, WriteInv, Excused, LiveBody, pipelineVars
  <2>5. PlanInv'
    <3>1. UNCHANGED <<thread, window, body, plan, spilled, gone, raced, unread>>
      BY <1>2 DEF pipelineVars
    <3>2. PlanInv
      BY <1>2 DEF PipelineInv
    <3> QED
      BY <3>1, <3>2 DEF PlanInv, Excused
  <2>4. ResetInv' /\ DurableInv' /\ CheckInv'
    <3>1. ResetInv'
      BY <1>2 DEF PipelineInv, ResetInv, LateDone, ClearInv, LiveBody, pipelineVars
    <3>2. DurableInv'
      BY <1>2 DEF PipelineInv, DurableInv, Saved, Excused, pipelineVars
    <3>3. CheckInv'
      BY <1>2 DEF PipelineInv, CheckInv, Checked, Begun, pipelineVars
    <3> QED
      BY <3>1, <3>2, <3>3
  <2> QED
    BY <2>1, <2>2, <2>3, <2>4, <2>5 DEF PipelineInv
<1> QED
  BY <1>1, <1>2

LEMMA PipelineHolds == PipelineSpec => []PipelineInv
<1> QED
  BY PipelineInvInit, PipelineInvStep, PTL DEF PipelineSpec

(* The window, its file, the archive, the threads and the checkpoint keep  *)
(* their types, for any number of turns and moves from outside.            *)
THEOREM PipelineTypes == PipelineSpec => []PipelineTypeOK
<1>1. PipelineInv => PipelineTypeOK
  BY DEF PipelineInv
<1> QED
  BY <1>1, PipelineHolds, PTL

(* Compaction, eviction, dumps, cancellations and failed writes lose no    *)
(* frame of the conversation: it is in the window, or in the file while no *)
(* window is loaded, or archived, unless a reset or a crash removed it, it *)
(* was added between a thread's reading and its assignment, or it was in   *)
(* the file when a load of the file failed.                                *)
THEOREM NoFrameIsForgotten == PipelineSpec => []NothingForgotten
<1>1. PipelineInv => NothingForgotten
  BY DEF PipelineInv
<1> QED
  BY <1>1, PipelineHolds, PTL

(* After /new neither the window nor its file holds what it removed, until *)
(* a thread that was writing the file at that moment goes on.              *)
THEOREM ResetStays == PipelineSpec => []ResetIsFinal
<1>1. PipelineInv => ResetIsFinal
  BY DEF PipelineInv, ResetInv, LateDone, ClearInv, ResetIsFinal
<1> QED
  BY <1>1, PipelineHolds, PTL

(* Window file, archive and checkpoint together tell a restart what the    *)
(* turns that ended left, whatever was cancelled, failed or reset: frames  *)
(* of a finished turn are missed only after a failed load, a reset, a crash*)
(* or a race, or when a cancelled turn wrote last, and its checkpoint only *)
(* when its save failed or a cancelled turn wrote a later one.             *)
THEOREM RestartIsTold == PipelineSpec => []RestartFindsTheEnded
<1>1. PipelineInv => FinishedIsDurable
  <2>1. \A f \in said : ended[f.n] = "finished" => Saved(f.n)
    BY DEF Saved
  <2> QED
    BY <2>1 DEF PipelineInv, DurableInv, FinishedIsDurable, Excused
<1>2. PipelineInv => CheckpointTellsTruth
  <2>1. \A n \in Turn : ended[n] = "finished" => Checked(n)
    BY DEF Checked
  <2> QED
    BY <2>1 DEF PipelineInv, CheckInv, CheckpointTellsTruth
<1>3. PipelineInv => RestartFindsTheEnded
  BY <1>1, <1>2 DEF RestartFindsTheEnded
<1> QED
  BY <1>3, PipelineHolds, PTL

(* StreamReply                                                             *)

(* The invariant of a reply: its types, where the turn is, and what is     *)
(* known of the posts, until shutdown() deletes.                           *)
Text  == [kind : {"live", "final"}, n : Nat, size : Nat]
Post  == Text \cup {Gone}
Jobs  == [texts : Seq(Text), todo : Seq(Nat), ok : BOOLEAN]
Lists == [ids : Seq(Nat), own : BOOLEAN, i : Nat]

Bound(s) == \A k \in 1..Len(s) : s[k] \in 1..Len(posts)

StreamTyped ==
    /\ posts \in Seq(Post) /\ placed \in Seq(Nat) /\ sentIds \in Seq(Nat)
    /\ Bound(placed) /\ Bound(sentIds)
    /\ buffer \in 0..MaxBuffer /\ {closed, direct, owned, swept} \subseteq BOOLEAN
    /\ stage \in {"generating", "push", "late", "final", "trim", "recording", "suppress",
                  "cleanup", "over"}
    /\ result \in {"none", "delivered", "failed", "suppressed", "cancelled", "error"}
    /\ job \in Jobs
    /\ stage \in {"push", "final"} => \A k \in 1..Len(job.todo) : job.todo[k] \in 1..Len(job.texts)
    /\ stage = "trim" => Bound(job.todo) /\ job.todo # <<>> /\ Len(job.texts) < Len(placed)
    /\ removal \in [{"turn", "shutdown"} -> Lists]
    /\ \A who \in {"turn", "shutdown"} : Bound(removal[who].ids)
    /\ orphans \subseteq 1..Len(posts) /\ stuck \subseteq 1..Len(posts)

(* Where the turn is, until shutdown() deletes. *)
Writing == {"generating", "push", "late"}
Closing == {"final", "trim"}

StageInv ==
    /\ removal["shutdown"] = NoList
    /\ IF stage \in {"suppress", "cleanup"}
       THEN removal["turn"].own /\ removal["turn"].i >= 1
       ELSE removal["turn"] = NoList
    /\ ~direct => (owned <=> stage \notin {"cleanup", "over"})
    /\ direct => /\ ~owned /\ placed = <<>> /\ sentIds = <<>>
                 /\ stage \in {"generating", "final", "recording", "over"}
    /\ closed /\ ~direct => stage \notin Writing
    /\ stage \in Writing => result = "none"
    /\ stage \in Closing => result \in {"none", "error"}
    /\ stage = "recording" => result \in {"delivered", "failed", "error", "suppressed"}
    /\ stage = "suppress" => result = "suppressed"
    /\ stage = "cleanup" => result = "cancelled"
    /\ stage \in {"recording", "over"} /\ result = "delivered" => job.ok

(* The posts that are there as far as the program can know. *)
Known == {id \in 1..Len(posts) : posts[id] # Gone} \ (orphans \cup stuck)

ListedInv ==
    /\ Increasing(placed) /\ \A i \in 1..Len(placed) : placed[i] \notin orphans
    /\ stage \in Writing \cup Closing => placed = sentIds
    /\ stage = "recording" /\ result # "suppressed" => placed = sentIds
    /\ stage = "recording" /\ result = "suppressed" => sentIds = <<>>
    /\ stage \in Writing \cup {"final", "recording"} => \A id \in Known : Has(sentIds, id)
    /\ stage \in Writing \cup {"final"} => stuck = {}
    /\ stage \in {"suppress", "cleanup"} =>
         \A id \in Known : \E k \in removal["turn"].i..Len(sentIds) : sentIds[k] = id
    /\ stage = "over" /\ result \in {"suppressed", "cancelled"} => Known = {}

TrimInv ==
    stage = "trim" =>
      /\ \A k \in 1..Len(job.todo) : \E i \in Len(job.texts) + 1..Len(placed) : job.todo[k] = placed[i]
      /\ \A id \in Known : \/ \E i \in 1..Len(job.texts) : i <= Len(placed) /\ placed[i] = id
                           \/ Has(job.todo, id)
      /\ \A i \in 1..Len(job.texts) : placed[i] \notin stuck
      /\ job.ok => \A i \in 1..Len(job.texts) : posts[placed[i]] = job.texts[i]

Shown == Len(job.texts) - Len(job.todo)
Ahead == Shown \in Nat /\ \A k \in 1..Len(job.todo) : job.todo[k] = Shown + k

FinalInv ==
    stage = "final" =>
      /\ Ahead
      /\ job.ok => /\ Shown <= Len(placed)
                   /\ \A i \in 1..Shown : posts[placed[i]] = job.texts[i]

DoneInv ==
    stage \in {"recording", "over"} /\ result \in {"delivered", "error"} /\ job.ok =>
      /\ Len(placed) = Len(job.texts)
      /\ \A i \in 1..Len(placed) : posts[placed[i]] = job.texts[i] /\ placed[i] \notin stuck
      /\ \A id \in Known : Has(placed, id)

SentInv ==
    /\ stage = "generating" => posts = <<>>
    /\ stage \in {"generating", "final"} => orphans = {} /\ stuck = {}
    /\ stage = "final" => /\ job.ok /\ Ahead /\ Shown = Len(posts)
                          /\ \A i \in 1..Shown : posts[i] = job.texts[i]
    /\ stage \in {"recording", "over"} =>
         /\ result \in {"delivered", "error"} /\ job.ok => posts = job.texts /\ orphans = {} /\ stuck = {}
         /\ result = "suppressed" => posts = <<>>

ReplyInv == IF direct THEN SentInv ELSE ListedInv /\ TrimInv /\ FinalInv /\ DoneInv

StreamInv == StreamTyped /\ (~swept => StageInv /\ ReplyInv)

(* What is shown when the turn is over.                                    *)
LEMMA TextsDiffer == Gone \notin Text /\ Text \subseteq Post /\ Gone \in Post
  BY DEF Gone, Text, Post

LEMMA ShownWhenOver ==
  ASSUME StreamTyped, StageInv, ReplyInv, stage = "over"
  PROVE  /\ result = "delivered" \/ (result = "error" /\ job.ok) => Visible = job.texts
         /\ result = "suppressed" \/ (result = "cancelled" /\ ~direct) => Visible = <<>>
<1> DEFINE N == Len(posts)
           ids == Only(Numbers(N), Known)
<1>1. /\ N \in Nat /\ DOMAIN posts = 1..N /\ Visible = [i \in DOMAIN ids |-> posts[ids[i]]]
      /\ posts \in Seq(Post) /\ placed \in Seq(Nat) /\ Bound(placed) /\ job.texts \in Seq(Text)
  <2>1. /\ posts \in Seq(Post) /\ placed \in Seq(Nat) /\ Bound(placed) /\ job.texts \in Seq(Text)
    BY DEF StreamTyped, Jobs
  <2>2. N \in Nat /\ DOMAIN posts = 1..N
    BY <2>1
  <2>3. {id \in DOMAIN posts : posts[id] # Gone} \ (orphans \cup stuck) = Known
    BY <2>2 DEF Known
  <2>4. [id \in DOMAIN posts |-> id] = Numbers(N)
    BY <2>2 DEF Numbers
  <2>5. Visible = [i \in DOMAIN ids |-> posts[ids[i]]]
    BY <2>3, <2>4, Zenon DEF Visible
  <2> QED
    BY <2>1, <2>2, <2>5
<1> HIDE DEF ids
<1>2. ASSUME NEW p \in Seq(Nat), Increasing(p), \A x : Has(p, x) <=> x \in Known
      PROVE  ids = p
  <2>1. \A x : x \in Known => x \in 1..N
    BY DEF Known
  <2> QED
    BY <1>1, <1>2, <2>1, EnumIs DEF ids
<1>3. ASSUME result = "delivered" \/ (result = "error" /\ job.ok) PROVE Visible = job.texts
  <2>1. job.ok
    BY <1>3 DEF StageInv
  <2>2. CASE ~direct
    <3>1. DoneInv /\ ListedInv
      BY <2>2 DEF ReplyInv
    <3>2. /\ Len(placed) = Len(job.texts)
          /\ \A i \in 1..Len(placed) : posts[placed[i]] = job.texts[i] /\ placed[i] \notin stuck
          /\ \A id \in Known : Has(placed, id)
      BY <1>3, <2>1, <3>1 DEF DoneInv
    <3>3. Increasing(placed) /\ \A i \in 1..Len(placed) : placed[i] \notin orphans
      BY <3>1 DEF ListedInv
    <3>4. ASSUME NEW i \in 1..Len(placed) PROVE placed[i] \in Known
      <4>1. placed[i] \in 1..N
        BY <1>1 DEF Bound
      <4>2. posts[placed[i]] \in Text
        BY <1>1, <3>2
      <4> QED
        BY <3>2, <3>3, <4>1, <4>2, TextsDiffer DEF Known
    <3>5. ids = placed
      BY <1>1, <1>2, <3>2, <3>3, <3>4 DEF Has
    <3>6. DOMAIN placed = 1..Len(placed) /\ job.texts = [i \in 1..Len(job.texts) |-> job.texts[i]]
      BY <1>1
    <3> QED
      BY <1>1, <3>2, <3>5, <3>6
  <2>3. CASE direct
    <3>1. posts = job.texts /\ orphans = {} /\ stuck = {}
      BY <1>3, <2>1, <2>3 DEF ReplyInv, SentInv
    <3>2. \A i \in 1..N : posts[i] # Gone
      BY <1>1, <3>1, TextsDiffer
    <3>3. Known = 1..N
      BY <3>1, <3>2 DEF Known
    <3>4. /\ Numbers(N) \in Seq(Nat) /\ Len(Numbers(N)) = N
          /\ \A i \in 1..N : Numbers(N)[i] = i
      BY <1>1, NumbersStep DEF Numbers
    <3>5. Increasing(Numbers(N)) /\ \A x : Has(Numbers(N), x) <=> x \in 1..N
      BY <3>4 DEF Increasing, Has
    <3>6. ids = Numbers(N)
      BY <1>2, <3>3, <3>4, <3>5
    <3>7. DOMAIN Numbers(N) = 1..N /\ posts = [i \in 1..N |-> posts[i]]
      BY <1>1 DEF Numbers
    <3> QED
      BY <1>1, <3>1, <3>4, <3>6, <3>7
  <2> QED
    BY <2>2, <2>3
<1>4. ASSUME result = "suppressed" \/ (result = "cancelled" /\ ~direct) PROVE Visible = <<>>
  <2>1. Known = {}
    <3>1. CASE direct
      <4>1. posts = <<>>
        BY <1>4, <3>1 DEF ReplyInv, SentInv
      <4> QED
        BY <4>1 DEF Known
    <3>2. CASE ~direct
      BY <1>4, <3>2 DEF ReplyInv, ListedInv
    <3> QED
      BY <3>1, <3>2
  <2>2. <<>> \in Seq(Nat) /\ Increasing(<<>>) /\ \A x : Has(<<>>, x) <=> x \in Known
    BY <2>1, EmptyHas DEF Increasing
  <2>3. ids = <<>>
    BY <1>2, <2>2
  <2>4. DOMAIN <<>> = {} /\ <<>> = [i \in {} |-> posts[ids[i]]]
    OBVIOUS
  <2> QED
    BY <1>1, <2>3, <2>4
<1> QED
  BY <1>3, <1>4

LEMMA StreamStarts == StreamInit => StreamInv
<1> SUFFICES ASSUME StreamInit PROVE StreamInv
  OBVIOUS
<1>1. /\ posts = <<>> /\ placed = <<>> /\ sentIds = <<>> /\ stage = "generating" /\ job = NoJob
      /\ removal = [who \in {"turn", "shutdown"} |-> NoList] /\ owned = ~direct /\ direct \in BOOLEAN
      /\ result = "none" /\ swept = FALSE /\ orphans = {} /\ stuck = {} /\ closed = FALSE /\ buffer = 0
  BY DEF StreamInit
<1>2. NoJob \in Jobs /\ NoList \in Lists /\ NoList.ids = <<>>
  BY DEF NoJob, NoList, Jobs, Lists
<1>3. \A who \in {"turn", "shutdown"} : removal[who] = NoList
  BY <1>1
<1>4. /\ Bound(<<>>) /\ Increasing(<<>>) /\ Len(<<>>) = 0 /\ <<>> \in Seq(Nat) /\ <<>> \in Seq(Post)
      /\ Known = {}
  BY <1>1 DEF Bound, Increasing, Known
<1>5. 0 \in 0..MaxBuffer
  BY StreamAssumption
<1>6. StreamTyped
  BY <1>1, <1>2, <1>3, <1>4, <1>5 DEF StreamTyped
<1>7. StageInv
  BY <1>1, <1>3 DEF StageInv, Writing, Closing
<1>8. ReplyInv
  <2>1. SentInv
    BY <1>1 DEF SentInv
  <2>2. ListedInv
    BY <1>1, <1>4 DEF ListedInv, Writing, Closing
  <2>3. TrimInv /\ FinalInv /\ DoneInv
    BY <1>1 DEF TrimInv, FinalInv, DoneInv
  <2> QED
    BY <2>1, <2>2, <2>3 DEF ReplyInv
<1> QED
  BY <1>6, <1>7, <1>8 DEF StreamInv

(* Each step keeps the types.                                              *)
LEMMA HalfIsNat == ASSUME NEW n \in Nat PROVE Half(n) \in Nat
  BY DEF Half

LEMMA TextsOfJobs ==
  /\ \A n \in Nat : Preview(n) \in Seq(Text)
  /\ \A k \in Nat : Complete(k) \in Seq(Text) /\ Len(Complete(k)) = k
  /\ NoJob \in Jobs /\ NoList \in Lists /\ NoList.ids = <<>> /\ NoList.i = 0 /\ ~NoList.own
<1>1. ASSUME NEW n \in Nat PROVE Preview(n) \in Seq(Text)
  <2>1. PICK h \in Nat : h = Half(n)
    BY HalfIsNat
  <2>2. ASSUME NEW i \in 1..h
        PROVE  [kind |-> "live", n |-> i, size |-> IF 2 * i <= n THEN 2 ELSE 1] \in Text
    BY DEF Text
  <2>3. [i \in 1..h |-> [kind |-> "live", n |-> i, size |-> IF 2 * i <= n THEN 2 ELSE 1]]
           \in [1..h -> Text]
    BY <2>2
  <2>4. [1..h -> Text] \subseteq Seq(Text)
    BY <2>1
  <2> QED
    BY <2>1, <2>3, <2>4 DEF Preview
<1>2. ASSUME NEW k \in Nat PROVE Complete(k) \in Seq(Text) /\ Len(Complete(k)) = k
  <2>1. ASSUME NEW i \in 1..k PROVE [kind |-> "final", n |-> i, size |-> 2] \in Text
    BY DEF Text
  <2> QED
    BY <2>1 DEF Complete
<1>3. NoJob \in Jobs /\ NoList \in Lists /\ NoList.ids = <<>> /\ NoList.i = 0 /\ ~NoList.own
  BY DEF NoJob, NoList, Jobs, Lists
<1> QED
  BY <1>1, <1>2, <1>3

LEMMA ChangedPlaces ==
  ASSUME NEW texts \in Seq(Text)
  PROVE  Changed(texts) \in Seq(Nat) /\ \A k \in 1..Len(Changed(texts)) : Changed(texts)[k] \in 1..Len(texts)
<1>1. Len(texts) \in Nat /\ DOMAIN texts = 1..Len(texts)
  OBVIOUS
<1>2. PICK Q : Changed(texts) = Only(Numbers(Len(texts)), Q)
  <2>1. [i \in DOMAIN texts |-> i] = Numbers(Len(texts))
    BY <1>1 DEF Numbers
  <2> QED
    BY <2>1, Zenon DEF Changed
<1>3. Numbers(Len(texts)) \in Seq(Nat) /\ Len(Numbers(Len(texts))) = Len(texts)
  BY <1>1, NumbersStep
<1>4. /\ Only(Numbers(Len(texts)), Q) \in Seq(Nat)
      /\ \A x : Has(Only(Numbers(Len(texts)), Q), x) => Has(Numbers(Len(texts)), x)
  BY <1>3, OnlyKeeps
<1>5. \A x : Has(Numbers(Len(texts)), x) => x \in 1..Len(texts)
  BY <1>3 DEF Has, Numbers
<1> QED
  BY <1>2, <1>4, <1>5 DEF Has

LEMMA BoundGrows ==
  ASSUME NEW s, Bound(s), Len(posts) \in Nat, Len(posts') \in Nat, Len(posts) <= Len(posts')
  PROVE  \A k \in 1..Len(s) : s[k] \in 1..Len(posts')
<1>1. 1..Len(posts) \subseteq 1..Len(posts')
  OBVIOUS
<1> QED
  BY <1>1 DEF Bound

LEMMA AppendTypes == StreamTyped /\ (\E b \in BOOLEAN : Append1(b)) => StreamTyped'
<1> SUFFICES ASSUME StreamTyped, NEW b \in BOOLEAN, Append1(b) PROVE StreamTyped'
  OBVIOUS
<1>1. /\ stage = "generating" /\ buffer < MaxBuffer /\ buffer' = buffer + 1
      /\ UNCHANGED <<posts, placed, sentIds, closed, direct, removal, owned, result, swept, orphans, stuck>>
  BY DEF Append1, histories
<1>2. buffer' \in 0..MaxBuffer /\ buffer' \in Nat
  BY <1>1, StreamAssumption DEF StreamTyped
<1>3. stage' \in {"generating", "push"} /\ job' \in Jobs
      /\ (stage' = "push" => \A k \in 1..Len(job'.todo) : job'.todo[k] \in 1..Len(job'.texts))
  <2>1. CASE b
    <3>1. PICK t \in Seq(Text) : t = Preview(buffer')
      BY <1>2, TextsOfJobs
    <3>2. stage' = "push" /\ job' = [texts |-> t, todo |-> Changed(t), ok |-> TRUE]
      BY <2>1, <3>1 DEF Append1
    <3>3. Changed(t) \in Seq(Nat) /\ \A k \in 1..Len(Changed(t)) : Changed(t)[k] \in 1..Len(t)
      BY ChangedPlaces
    <3> QED
      BY <3>2, <3>3 DEF Jobs
  <2>2. CASE ~b
    BY <1>1, <2>2 DEF Append1, StreamTyped
  <2> QED
    BY <2>1, <2>2
<1> QED
  BY <1>1, <1>2, <1>3 DEF StreamTyped, Bound

(* Requests that change one post, or make one. *)
LEMMA PostsKeep ==
  ASSUME NEW p \in Seq(Post), NEW q \in Post
  PROVE  /\ \A id \in 1..Len(p) : [p EXCEPT ![id] = q] \in Seq(Post)
                                   /\ Len([p EXCEPT ![id] = q]) = Len(p)
         /\ Append(p, q) \in Seq(Post) /\ Len(Append(p, q)) = Len(p) + 1
  OBVIOUS

(* What the answer of a request does to the posts and the lists. *)
Posted(i, ok, told) ==
    IF Edits(i)
      THEN /\ ok => posts[placed[i]] # Gone
           /\ posts' = IF ok THEN [posts EXCEPT ![placed[i]] = job.texts[i]] ELSE posts
           /\ UNCHANGED <<placed, sentIds, orphans>>
      ELSE /\ posts' = IF ok THEN Append(posts, job.texts[i]) ELSE posts
           /\ placed' = IF told /\ ~direct THEN Append(placed, Len(posts) + 1) ELSE placed
           /\ sentIds' = IF told /\ ~direct THEN Append(sentIds, Len(posts) + 1) ELSE sentIds
           /\ orphans' = IF ok /\ ~told THEN orphans \cup {Len(posts) + 1} ELSE orphans

Left(told) == IF direct /\ ~told THEN <<>> ELSE Tail(job.todo)

LEMMA AnswerParts ==
  ASSUME StreamTyped, NEW ok \in BOOLEAN, NEW told \in BOOLEAN, DiscordAnswers(ok, told)
  PROVE  LET i == Head(job.todo)
             j == [job EXCEPT !.todo = Left(told), !.ok = @ /\ told]
         IN  /\ stage \in {"push", "final"} /\ job.todo # <<>> /\ (told => ok)
             /\ Posted(i, ok, told)
             /\ IF Left(told) # <<>> THEN job' = j /\ UNCHANGED <<stage, shownChunks, result>>
                ELSE IF stage = "push" THEN PushEnds(j) ELSE FinalEnds(placed', j)
             /\ UNCHANGED <<buffer, closed, direct, removal, owned, breaks, swept, stuck>>
             /\ i \in 1..Len(job.texts) /\ job.texts[i] \in Text /\ i = job.todo[1]
             /\ job.texts \in Seq(Text) /\ job.todo \in Seq(Nat)
             /\ Left(told) \in Seq(Nat)
             /\ \A k \in 1..Len(Left(told)) : Left(told)[k] \in 1..Len(job.texts)
                                              /\ k + 1 \in 1..Len(job.todo) /\ Left(told)[k] = job.todo[k + 1]
             /\ ~(direct /\ ~told) => Len(Left(told)) = Len(job.todo) - 1
             /\ j \in Jobs /\ j.texts = job.texts /\ j.todo = Left(told) /\ j.ok = (job.ok /\ told)
<1> DEFINE i == Head(job.todo)
           j == [job EXCEPT !.todo = Left(told), !.ok = @ /\ told]
           new == Append(posts, job.texts[i])
<1>1. /\ stage \in {"push", "final"} /\ job.todo # <<>> /\ (told => ok)
      /\ UNCHANGED <<buffer, closed, direct, removal, owned, breaks, swept, stuck>>
  BY DEF DiscordAnswers
<1>2. /\ job \in Jobs /\ job.texts \in Seq(Text) /\ job.todo \in Seq(Nat) /\ job.ok \in BOOLEAN
      /\ posts \in Seq(Post) /\ \A k \in 1..Len(job.todo) : job.todo[k] \in 1..Len(job.texts)
  BY <1>1 DEF StreamTyped, Jobs
<1>3. /\ i = job.todo[1] /\ 1 \in 1..Len(job.todo) /\ Tail(job.todo) \in Seq(Nat)
      /\ Len(Tail(job.todo)) = Len(job.todo) - 1 /\ Len(job.todo) \in Nat
      /\ \A k \in 1..Len(Tail(job.todo)) : Tail(job.todo)[k] = job.todo[k + 1] /\ k + 1 \in 1..Len(job.todo)
  BY <1>1, <1>2
<1>4. i \in 1..Len(job.texts) /\ job.texts[i] \in Text
  BY <1>2, <1>3
<1>5. Len(new) = Len(posts) + 1
  <2>1. \A x : Len(Append(posts, x)) = Len(posts) + 1
    BY <1>2
  <2> QED
    BY <2>1
<1>6. Posted(i, ok, told)
  <2>1. Len(new) = Len(posts) + 1 /\ Recorded(Len(new)) = Append(sentIds, Len(posts) + 1)
    BY <1>5 DEF Recorded
  <2> QED
    BY <2>1 DEF DiscordAnswers, Posted
<1>7. IF Left(told) # <<>> THEN job' = j /\ UNCHANGED <<stage, shownChunks, result>>
      ELSE IF stage = "push" THEN PushEnds(j) ELSE FinalEnds(placed', j)
  BY DEF DiscordAnswers, Left
<1>8. /\ Left(told) \in Seq(Nat)
      /\ \A k \in 1..Len(Left(told)) : Left(told)[k] \in 1..Len(job.texts)
                                       /\ k + 1 \in 1..Len(job.todo) /\ Left(told)[k] = job.todo[k + 1]
      /\ ~(direct /\ ~told) => Len(Left(told)) = Len(job.todo) - 1
  <2>1. <<>> \in Seq(Nat) /\ Len(<<>>) = 0 /\ 1..0 = {}
    OBVIOUS
  <2> QED
    BY <1>2, <1>3, <2>1 DEF Left
<1>9. j \in Jobs /\ j.texts = job.texts /\ j.todo = Left(told) /\ j.ok = (job.ok /\ told)
  BY <1>2, <1>8 DEF Jobs
<1> QED
  BY <1>1, <1>2, <1>3, <1>4, <1>6, <1>7, <1>8, <1>9

LEMMA PostedTypes ==
  ASSUME StreamTyped, NEW ok \in BOOLEAN, NEW told \in BOOLEAN, told => ok, NEW i \in 1..Len(job.texts),
         Posted(i, ok, told)
  PROVE  /\ posts' \in Seq(Post) /\ placed' \in Seq(Nat) /\ sentIds' \in Seq(Nat)
         /\ Bound(placed)' /\ Bound(sentIds)'
         /\ Len(posts') \in Nat /\ Len(posts) \in Nat /\ Len(posts) <= Len(posts')
         /\ orphans' \subseteq 1..Len(posts') /\ stuck \subseteq 1..Len(posts')
         /\ \A who \in {"turn", "shutdown"} : \A k \in 1..Len(removal[who].ids) : removal[who].ids[k] \in 1..Len(posts')
<1>1. /\ posts \in Seq(Post) /\ placed \in Seq(Nat) /\ sentIds \in Seq(Nat) /\ Bound(placed) /\ Bound(sentIds)
      /\ job.texts[i] \in Post /\ orphans \subseteq 1..Len(posts) /\ stuck \subseteq 1..Len(posts)
      /\ \A who \in {"turn", "shutdown"} : Bound(removal[who].ids)
  BY TextsDiffer DEF StreamTyped, Jobs
<1>2. PICK q \in Post : q = job.texts[i]
  BY <1>1
<1>3. /\ posts' \in Seq(Post) /\ Len(posts') \in Nat /\ Len(posts) \in Nat /\ Len(posts) <= Len(posts')
      /\ ~Edits(i) /\ ok => Len(posts') = Len(posts) + 1
  <2>1. CASE Edits(i)
    <3>1. placed[i] \in 1..Len(posts)
      <4>1. i \in 1..Len(placed)
        BY <1>1, <2>1 DEF Edits
      <4> QED
        BY <1>1, <4>1 DEF Bound
    <3>2. posts' \in Seq(Post) /\ Len(posts') = Len(posts)
      <4>1. posts' = IF ok THEN [posts EXCEPT ![placed[i]] = q] ELSE posts
        BY <1>2, <2>1 DEF Posted
      <4>2. [posts EXCEPT ![placed[i]] = q] \in Seq(Post) /\ Len([posts EXCEPT ![placed[i]] = q]) = Len(posts)
        BY <1>1, <3>1, PostsKeep
      <4> QED
        BY <1>1, <4>1, <4>2
    <3> QED
      BY <1>1, <2>1, <3>2
  <2>2. CASE ~Edits(i)
    <3>1. posts' = IF ok THEN Append(posts, q) ELSE posts
      BY <1>2, <2>2 DEF Posted
    <3> QED
      BY <1>1, <3>1
  <2> QED
    BY <2>1, <2>2
<1>4. 1..Len(posts) \subseteq 1..Len(posts')
  BY <1>3
<1>5. /\ placed' \in Seq(Nat) /\ Bound(placed)' /\ sentIds' \in Seq(Nat) /\ Bound(sentIds)'
  <2>1. CASE placed' = placed /\ sentIds' = sentIds
    BY <1>1, <1>4, <2>1 DEF Bound
  <2>2. CASE ~(placed' = placed /\ sentIds' = sentIds)
    <3>1. /\ placed' = Append(placed, Len(posts) + 1) /\ sentIds' = Append(sentIds, Len(posts) + 1)
          /\ told /\ ok /\ ~Edits(i)
      BY <2>2 DEF Posted
    <3>2. Len(posts) + 1 \in 1..Len(posts') /\ Len(posts) + 1 \in Nat
      BY <1>3, <3>1
    <3>3. ASSUME NEW s \in Seq(Nat), Bound(s)
          PROVE  /\ Append(s, Len(posts) + 1) \in Seq(Nat)
                 /\ \A k \in 1..Len(Append(s, Len(posts) + 1)) : Append(s, Len(posts) + 1)[k] \in 1..Len(posts')
      BY <1>4, <3>2, <3>3 DEF Bound
    <3> QED
      BY <1>1, <3>1, <3>3 DEF Bound
  <2> QED
    BY <2>1, <2>2
<1>6. orphans' \subseteq 1..Len(posts')
  <2>1. orphans' \in {orphans, orphans \cup {Len(posts) + 1}}
    BY DEF Posted
  <2>2. orphans' # orphans => ~Edits(i) /\ ok
    BY DEF Posted
  <2> QED
    BY <1>1, <1>3, <1>4, <2>1, <2>2
<1> QED
  BY <1>1, <1>3, <1>4, <1>5, <1>6 DEF Bound

LEMMA StaleIs ==
  ASSUME NEW n \in Seq(Nat), NEW j \in Jobs
  PROVE  /\ Stale(n, j) \in Seq(Nat)
         /\ Stale(n, j) # <<>> <=> Len(j.texts) < Len(n)
         /\ \A k \in 1..Len(Stale(n, j)) : /\ Len(j.texts) + k \in 1..Len(n)
                                           /\ Stale(n, j)[k] = n[Len(j.texts) + k]
         /\ Len(j.texts) < Len(n) => Len(Stale(n, j)) = Len(n) - Len(j.texts)
<1>1. PICK m \in Nat : m = Len(j.texts)
  BY DEF Jobs
<1>2. Len(n) \in Nat /\ \A i \in (m + 1)..Len(n) : i \in 1..Len(n) /\ n[i] \in Nat
  BY <1>1
<1>3. Stale(n, j) = SubSeq(n, m + 1, Len(n))
  BY <1>1 DEF Stale
<1>4. /\ SubSeq(n, m + 1, Len(n)) \in Seq(Nat)
      /\ Len(SubSeq(n, m + 1, Len(n))) = IF m + 1 <= Len(n) THEN Len(n) - (m + 1) + 1 ELSE 0
      /\ \A i \in 1..(Len(n) - (m + 1) + 1) : SubSeq(n, m + 1, Len(n))[i] = n[(m + 1) + i - 1]
  <2>1. PICK a \in Int, b \in Int : a = m + 1 /\ b = Len(n)
    BY <1>1, <1>2
  <2>2. \A i \in a..b : n[i] \in Nat
    BY <1>2, <2>1
  <2>3. /\ SubSeq(n, a, b) \in Seq(Nat)
        /\ Len(SubSeq(n, a, b)) = IF a <= b THEN b - a + 1 ELSE 0
        /\ \A i \in 1..(b - a + 1) : SubSeq(n, a, b)[i] = n[a + i - 1]
    BY <2>2, SubSeqProperties
  <2> QED
    BY <2>1, <2>3, Zenon
<1> DEFINE u == SubSeq(n, m + 1, Len(n))
<1>5. u \in Seq(Nat) /\ Len(u) \in Nat /\ (u # <<>> <=> Len(u) # 0)
  <2>1. \A w \in Seq(Nat) : Len(w) \in Nat /\ (w # <<>> <=> Len(w) # 0)
    OBVIOUS
  <2> QED
    BY <1>4, <2>1
<1>6. ASSUME NEW k \in 1..Len(u) PROVE m + k \in 1..Len(n) /\ u[k] = n[m + k]
  <2>1. m + 1 <= Len(n) /\ k \in 1..(Len(n) - (m + 1) + 1) /\ (m + 1) + k - 1 = m + k
    BY <1>2, <1>4, <1>5
  <2> QED
    BY <1>2, <1>4, <2>1
<1>7. Len(u) = IF m + 1 <= Len(n) THEN Len(n) - (m + 1) + 1 ELSE 0
  BY <1>4
<1>8. Stale(n, j) = u
  BY <1>3
<1> HIDE DEF u
<1>9. (u # <<>> <=> m < Len(n)) /\ (m < Len(n) => Len(u) = Len(n) - m)
  BY <1>2, <1>5, <1>7
<1> QED
  BY <1>1, <1>5, <1>6, <1>8, <1>9

LEMMA AnswerTypes ==
  ASSUME StreamTyped, NEW ok \in BOOLEAN, NEW told \in BOOLEAN, DiscordAnswers(ok, told)
  PROVE  StreamTyped'
<1> DEFINE i == Head(job.todo)
           j == [job EXCEPT !.todo = Left(told), !.ok = @ /\ told]
<1>1. /\ stage \in {"push", "final"} /\ (told => ok)
      /\ Posted(i, ok, told) /\ i \in 1..Len(job.texts)
      /\ IF Left(told) # <<>> THEN job' = j /\ UNCHANGED <<stage, shownChunks, result>>
         ELSE IF stage = "push" THEN PushEnds(j) ELSE FinalEnds(placed', j)
      /\ UNCHANGED <<buffer, closed, direct, removal, owned, breaks, swept, stuck>>
      /\ Left(told) \in Seq(Nat) /\ \A k \in 1..Len(Left(told)) : Left(told)[k] \in 1..Len(job.texts)
      /\ j \in Jobs /\ j.texts = job.texts /\ j.todo = Left(told)
  BY AnswerParts
<1> HIDE DEF i, j
<1>2. /\ posts' \in Seq(Post) /\ placed' \in Seq(Nat) /\ sentIds' \in Seq(Nat)
      /\ Bound(placed)' /\ Bound(sentIds)'
      /\ Len(posts') \in Nat /\ Len(posts) \in Nat /\ Len(posts) <= Len(posts')
      /\ orphans' \subseteq 1..Len(posts') /\ stuck \subseteq 1..Len(posts')
      /\ \A who \in {"turn", "shutdown"} : \A k \in 1..Len(removal[who].ids) : removal[who].ids[k] \in 1..Len(posts')
  BY <1>1, PostedTypes
<1>3. /\ job' \in Jobs
      /\ stage' \in {"generating", "push", "final", "trim", "recording"}
      /\ result' \in {"none", "delivered", "failed", "suppressed", "cancelled", "error"}
      /\ stage' \in {"push", "final"} => \A k \in 1..Len(job'.todo) : job'.todo[k] \in 1..Len(job'.texts)
      /\ stage' = "trim" => Bound(job.todo)' /\ job'.todo # <<>> /\ Len(job'.texts) < Len(placed')
  <2>0. result \in {"none", "delivered", "failed", "suppressed", "cancelled", "error"}
    BY DEF StreamTyped
  <2>1. CASE Left(told) # <<>>
    BY <1>1, <2>0, <2>1
  <2>2. CASE Left(told) = <<>> /\ stage = "push"
    BY <1>1, <2>0, <2>2, TextsOfJobs DEF PushEnds
  <2>3. CASE Left(told) = <<>> /\ stage = "final" /\ Stale(placed', j) = <<>>
    <3>1. stage' = "recording" /\ job' = j /\ result' \in {result, "error", "delivered", "failed"}
      BY <1>1, <2>3 DEF FinalEnds
    <3> QED
      BY <1>1, <2>0, <3>1
  <2>4. CASE Left(told) = <<>> /\ stage = "final" /\ Stale(placed', j) # <<>>
    <3>1. stage' = "trim" /\ job' = [j EXCEPT !.todo = Stale(placed', j)] /\ UNCHANGED result
      BY <1>1, <2>4 DEF FinalEnds
    <3>2. /\ Stale(placed', j) \in Seq(Nat)
          /\ \A k \in 1..Len(Stale(placed', j)) : /\ Len(j.texts) + k \in 1..Len(placed')
                                                  /\ Stale(placed', j)[k] = placed'[Len(j.texts) + k]
          /\ Len(j.texts) < Len(placed')
      BY <1>1, <1>2, <2>4, StaleIs
    <3>3. \A k \in 1..Len(Stale(placed', j)) : Stale(placed', j)[k] \in 1..Len(posts')
      BY <1>2, <3>2 DEF Bound
    <3>4. job' \in Jobs /\ job'.todo = Stale(placed', j) /\ job'.texts = j.texts
      BY <1>1, <3>1, <3>2 DEF Jobs
    <3>5. Bound(job.todo)' /\ job'.todo # <<>> /\ Len(job'.texts) < Len(placed')
      BY <2>4, <3>2, <3>3, <3>4 DEF Bound
    <3> QED
      BY <2>0, <3>1, <3>4, <3>5
  <2> QED
    BY <1>1, <2>1, <2>2, <2>3, <2>4
<1> QED
  BY <1>1, <1>2, <1>3 DEF StreamTyped, Bound

LEMMA TrimParts ==
  ASSUME StreamTyped, NEW ok \in BOOLEAN, Trim(ok)
  PROVE  LET id == Head(job.todo)
             todo == Tail(job.todo)
             done == todo = <<>>
             kept == SubSeq(placed, 1, Len(job.texts))
         IN  /\ stage = "trim" /\ id \in 1..Len(posts) /\ (ok => posts[id] # Gone) /\ id = job.todo[1]
             /\ todo \in Seq(Nat) /\ Len(todo) = Len(job.todo) - 1 /\ Len(job.todo) \in Nat /\ Len(job.todo) >= 1
             /\ \A k \in 1..Len(todo) : k + 1 \in 1..Len(job.todo) /\ todo[k] = job.todo[k + 1]
             /\ posts' = (IF ok THEN [posts EXCEPT ![id] = Gone] ELSE posts) /\ posts' \in Seq(Post)
             /\ Len(posts') = Len(posts) /\ posts \in Seq(Post) /\ Len(posts) \in Nat
             /\ stuck' = IF ok THEN stuck ELSE stuck \cup {id}
             /\ job' \in Jobs /\ job'.todo = todo /\ job'.texts = job.texts /\ job'.ok = (job.ok /\ ok)
             /\ job.texts \in Seq(Text) /\ job.ok \in BOOLEAN
             /\ IF done THEN /\ stage' = "recording" /\ placed' = kept /\ sentIds' = kept
                             /\ result' = IF result = "error" THEN result
                                          ELSE IF job'.ok THEN "delivered" ELSE "failed"
                             /\ removal' = [who \in {"turn", "shutdown"} |->
                                  IF removal[who].own THEN [removal[who] EXCEPT !.ids = sentIds, !.own = FALSE]
                                  ELSE removal[who]]
                ELSE UNCHANGED <<stage, placed, sentIds, result, removal>>
             /\ UNCHANGED <<shownChunks, buffer, closed, direct, owned, breaks, swept, orphans>>
<1> DEFINE id == Head(job.todo)
           todo == Tail(job.todo)
           j == [job EXCEPT !.todo = todo, !.ok = @ /\ ok]
<1>1. /\ stage = "trim" /\ (ok => posts[id] # Gone) /\ job' = j
      /\ posts' = (IF ok THEN [posts EXCEPT ![id] = Gone] ELSE posts)
      /\ stuck' = IF ok THEN stuck ELSE stuck \cup {id}
      /\ UNCHANGED <<shownChunks, buffer, closed, direct, owned, breaks, swept, orphans>>
  BY DEF Trim
<1>2. /\ job \in Jobs /\ job.todo \in Seq(Nat) /\ job.todo # <<>> /\ job.ok \in BOOLEAN /\ job.texts \in Seq(Text)
      /\ \A k \in 1..Len(job.todo) : job.todo[k] \in 1..Len(posts)
      /\ posts \in Seq(Post) /\ DOMAIN removal = {"turn", "shutdown"}
  BY <1>1 DEF StreamTyped, Bound, Jobs
<1>3. /\ id = job.todo[1] /\ 1 \in 1..Len(job.todo) /\ todo \in Seq(Nat)
      /\ Len(todo) = Len(job.todo) - 1 /\ Len(job.todo) \in Nat /\ Len(job.todo) >= 1
      /\ \A k \in 1..Len(todo) : todo[k] = job.todo[k + 1] /\ k + 1 \in 1..Len(job.todo)
  BY <1>2
<1>4. id \in 1..Len(posts) /\ Len(posts) \in Nat
  BY <1>2, <1>3
<1>5. posts' \in Seq(Post) /\ Len(posts') = Len(posts)
  BY <1>1, <1>2, <1>4, PostsKeep, TextsDiffer
<1>6. j \in Jobs /\ j.todo = todo /\ j.texts = job.texts /\ j.ok = (job.ok /\ ok)
  BY <1>2, <1>3 DEF Jobs
<1>7. IF todo = <<>>
      THEN /\ stage' = "recording" /\ placed' = SubSeq(placed, 1, Len(job.texts))
           /\ sentIds' = SubSeq(placed, 1, Len(job.texts))
           /\ result' = IF result = "error" THEN result ELSE IF job'.ok THEN "delivered" ELSE "failed"
           /\ removal' = [who \in DOMAIN removal |->
                            IF removal[who].own THEN [removal[who] EXCEPT !.ids = sentIds, !.own = FALSE]
                            ELSE removal[who]]
      ELSE UNCHANGED <<stage, placed, sentIds, result, removal>>
  BY <1>1, <1>6 DEF Trim
<1> HIDE DEF id, todo, j
<1>8. IF todo = <<>>
      THEN removal' = [who \in {"turn", "shutdown"} |->
                            IF removal[who].own THEN [removal[who] EXCEPT !.ids = sentIds, !.own = FALSE]
                            ELSE removal[who]]
      ELSE TRUE
  BY <1>2, <1>7
<1> QED
  BY <1>1, <1>2, <1>3, <1>4, <1>5, <1>6, <1>7, <1>8 DEF id, todo

(* The first posts of a list. *)
LEMMA FirstOnes ==
  ASSUME NEW n \in Seq(Nat), NEW m \in Nat, m <= Len(n)
  PROVE  /\ SubSeq(n, 1, m) \in Seq(Nat) /\ Len(SubSeq(n, 1, m)) = m
         /\ \A i \in 1..m : i \in 1..Len(n) /\ SubSeq(n, 1, m)[i] = n[i]
  OBVIOUS

LEMMA TrimTypes == ASSUME StreamTyped, NEW ok \in BOOLEAN, Trim(ok) PROVE StreamTyped'
<1> DEFINE id == Head(job.todo)
           todo == Tail(job.todo)
           kept == SubSeq(placed, 1, Len(job.texts))
<1>1. /\ stage = "trim" /\ id \in 1..Len(posts)
      /\ todo \in Seq(Nat) /\ Len(todo) = Len(job.todo) - 1 /\ Len(job.todo) \in Nat
      /\ \A k \in 1..Len(todo) : k + 1 \in 1..Len(job.todo) /\ todo[k] = job.todo[k + 1]
      /\ posts' \in Seq(Post) /\ Len(posts') = Len(posts) /\ posts \in Seq(Post)
      /\ stuck' \in {stuck, stuck \cup {id}}
      /\ job' \in Jobs /\ job'.todo = todo /\ job'.texts = job.texts
      /\ job.texts \in Seq(Text) /\ job.ok \in BOOLEAN
      /\ IF todo = <<>> THEN /\ stage' = "recording" /\ placed' = kept /\ sentIds' = kept
                             /\ result' \in {result, "error", "delivered", "failed"}
                             /\ removal' = [who \in {"turn", "shutdown"} |->
                                  IF removal[who].own THEN [removal[who] EXCEPT !.ids = sentIds, !.own = FALSE]
                                  ELSE removal[who]]
                ELSE UNCHANGED <<stage, placed, sentIds, result, removal>>
      /\ UNCHANGED <<buffer, closed, direct, owned, swept, orphans>>
  BY TrimParts
<1> HIDE DEF id, todo, kept
<1>2. /\ placed \in Seq(Nat) /\ sentIds \in Seq(Nat) /\ Bound(placed) /\ Bound(sentIds) /\ Bound(job.todo)
      /\ Len(job.texts) < Len(placed)
      /\ removal \in [{"turn", "shutdown"} -> Lists] /\ \A who \in {"turn", "shutdown"} : Bound(removal[who].ids)
      /\ orphans \subseteq 1..Len(posts) /\ stuck \subseteq 1..Len(posts)
      /\ result \in {"none", "delivered", "failed", "suppressed", "cancelled", "error"}
      /\ buffer \in 0..MaxBuffer /\ {closed, direct, owned, swept} \subseteq BOOLEAN
  BY <1>1 DEF StreamTyped
<1>3. stuck' \subseteq 1..Len(posts)
  BY <1>1, <1>2
<1>4. Bound(job'.todo)
  BY <1>1, <1>2 DEF Bound
<1>5. CASE todo # <<>>
  <2>1. UNCHANGED <<stage, placed, sentIds, result, removal>>
    BY <1>1, <1>5
  <2> QED
    BY <1>1, <1>2, <1>3, <1>4, <1>5, <2>1 DEF StreamTyped, Bound
<1>6. CASE todo = <<>>
  <2>1. /\ stage' = "recording" /\ placed' = kept /\ sentIds' = kept
        /\ result' \in {result, "error", "delivered", "failed"}
    BY <1>1, <1>6
  <2>2. kept \in Seq(Nat) /\ Bound(kept)
    <3>1. Len(job.texts) \in Nat /\ Len(job.texts) <= Len(placed)
      <4>1. Len(job.texts) \in Nat
        BY <1>1
      <4>2. Len(placed) \in Nat
        BY <1>2
      <4> QED
        BY <1>2, <4>1, <4>2
    <3>2. /\ kept \in Seq(Nat) /\ Len(kept) = Len(job.texts)
          /\ \A i \in 1..Len(job.texts) : i \in 1..Len(placed) /\ kept[i] = placed[i]
      BY <1>2, <3>1, FirstOnes DEF kept
    <3> QED
      BY <1>2, <3>2 DEF Bound
  <2>3. removal' \in [{"turn", "shutdown"} -> Lists] /\ \A who \in {"turn", "shutdown"} : Bound(removal'[who].ids)
    <3>1. ASSUME NEW who \in {"turn", "shutdown"} PROVE removal'[who] \in Lists /\ Bound(removal'[who].ids)
      <4>1. removal'[who] = IF removal[who].own THEN [removal[who] EXCEPT !.ids = sentIds, !.own = FALSE]
                            ELSE removal[who]
        BY <1>1, <1>6
      <4>2. removal[who] \in Lists /\ Bound(removal[who].ids)
        BY <1>2
      <4>3. ASSUME NEW r \in Lists
            PROVE  [r EXCEPT !.ids = sentIds, !.own = FALSE] \in Lists
                   /\ [r EXCEPT !.ids = sentIds, !.own = FALSE].ids = sentIds
        BY <1>2 DEF Lists
      <4>4. removal[who].own \in BOOLEAN
        BY <4>2 DEF Lists
      <4> QED
        BY <1>2, <4>1, <4>2, <4>3, <4>4
    <3>2. removal' = [who \in {"turn", "shutdown"} |-> removal'[who]]
      BY <1>1, <1>6
    <3> QED
      BY <3>1, <3>2
  <2> QED
    BY <1>1, <1>2, <1>3, <2>1, <2>2, <2>3 DEF StreamTyped, Bound
<1> QED
  BY <1>5, <1>6

LEMMA ReplyTypes ==
  ASSUME StreamTyped, NEW k \in 0..MaxFinal, NEW raised \in BOOLEAN, Reply(k, raised) PROVE StreamTyped'
<1>1. k \in Nat
  BY StreamAssumption
<1>2. PICK t : t = Shows(k)
  OBVIOUS
<1>3. t \in Seq(Text)
  BY <1>1, <1>2, TextsOfJobs DEF Shows
<1>4. /\ Numbers(Len(t)) \in Seq(Nat) /\ Len(Numbers(Len(t))) = Len(t)
      /\ \A i \in 1..Len(t) : Numbers(Len(t))[i] \in 1..Len(t)
  BY <1>3, NumbersStep DEF Numbers
<1>5. job' = [texts |-> t, todo |-> Numbers(Len(t)), ok |-> TRUE] /\ job' \in Jobs
  <2>1. job' = [texts |-> t, todo |-> [i \in DOMAIN t |-> i], ok |-> TRUE]
    BY <1>2 DEF Reply
  <2>2. DOMAIN t = 1..Len(t)
    BY <1>3
  <2> QED
    BY <1>3, <1>4, <2>1, <2>2 DEF Numbers, Jobs
<1>6. /\ stage' \in {"recording", "final"} /\ result' \in {result, "error", "delivered"}
      /\ closed' = (closed \/ ~direct)
      /\ UNCHANGED <<posts, placed, sentIds, buffer, direct, removal, owned, swept, orphans, stuck>>
  BY DEF Reply, histories
<1> QED
  BY <1>4, <1>5, <1>6 DEF StreamTyped, Bound

(* A cut-off request may change a post, make one or delete one. *)
LEMMA CutParts ==
  ASSUME StreamTyped, NEW ok \in BOOLEAN, CutShort(ok)
  PROVE  /\ posts' \in Seq(Post) /\ Len(posts) \in Nat /\ Len(posts') \in Nat /\ Len(posts) <= Len(posts')
         /\ orphans \subseteq orphans' /\ orphans' \subseteq 1..Len(posts')
         /\ \A id \in (1..Len(posts')) \ orphans' :
              id \in 1..Len(posts) /\ (posts'[id] # Gone => posts[id] # Gone)
         /\ \A id \in orphans' \ orphans : id > Len(posts)
<1>1. /\ posts \in Seq(Post) /\ Len(posts) \in Nat /\ orphans \subseteq 1..Len(posts)
      /\ job.texts \in Seq(Text) /\ job.todo \in Seq(Nat) /\ Bound(placed) /\ placed \in Seq(Nat)
  BY DEF StreamTyped, Jobs
<1>2. CASE ~ok /\ UNCHANGED <<posts, orphans>>
  BY <1>1, <1>2
<1>3. CASE ok /\ stage \in {"push", "final"} /\ job.todo # <<>>
  <2> DEFINE i == Head(job.todo)
  <2>1. i \in 1..Len(job.texts) /\ job.texts[i] \in Post
    <3>1. 1 \in 1..Len(job.todo) /\ i = job.todo[1]
      BY <1>1, <1>3
    <3>2. i \in 1..Len(job.texts)
      BY <1>3, <3>1 DEF StreamTyped
    <3> QED
      BY <1>1, <3>2, TextsDiffer
  <2> HIDE DEF i
  <2>2. CASE Edits(i)
    <3>1. posts[placed[i]] # Gone /\ posts' = [posts EXCEPT ![placed[i]] = job.texts[i]] /\ orphans' = orphans
      BY <1>3, <2>2 DEF CutShort, i
    <3>2. placed[i] \in 1..Len(posts)
      <4>1. i \in 1..Len(placed)
        BY <1>1, <2>1, <2>2 DEF Edits
      <4> QED
        BY <1>1, <4>1 DEF Bound
    <3>3. posts' \in Seq(Post) /\ Len(posts') = Len(posts)
      BY <1>1, <2>1, <3>1, <3>2, PostsKeep
    <3>4. \A id \in 1..Len(posts) : id # placed[i] => posts'[id] = posts[id]
      BY <1>1, <3>1
    <3> QED
      BY <1>1, <3>1, <3>3, <3>4
  <2>3. CASE ~Edits(i)
    <3>1. posts' = Append(posts, job.texts[i]) /\ orphans' = orphans \cup {Len(posts')}
      BY <1>3, <2>3 DEF CutShort, i
    <3>2. posts' \in Seq(Post) /\ Len(posts') = Len(posts) + 1 /\ \A id \in 1..Len(posts) : posts'[id] = posts[id]
      BY <1>1, <2>1, <3>1, AppendProperties
    <3>3. 1..Len(posts') = 1..Len(posts) \cup {Len(posts')}
      BY <1>1, <3>2
    <3>4. ASSUME NEW id \in (1..Len(posts')) \ orphans'
          PROVE  id \in 1..Len(posts) /\ (posts'[id] # Gone => posts[id] # Gone)
      <4>1. id \in 1..Len(posts)
        BY <3>1, <3>3
      <4> QED
        BY <3>2, <4>1
    <3>5. orphans' \subseteq 1..Len(posts') /\ orphans \subseteq orphans'
      BY <1>1, <3>1, <3>3
    <3>6. \A id \in orphans' \ orphans : id > Len(posts)
      BY <1>1, <3>1, <3>2
    <3>7. Len(posts') \in Nat /\ Len(posts) <= Len(posts')
      BY <1>1, <3>2
    <3> QED
      BY <1>1, <3>2, <3>4, <3>5, <3>6, <3>7, Zenon
  <2> QED
    BY <2>2, <2>3
<1>4. CASE ok /\ stage = "trim"
  <2>1. posts' = [posts EXCEPT ![Head(job.todo)] = Gone] /\ orphans' = orphans
    BY <1>4 DEF CutShort
  <2>2. Head(job.todo) \in 1..Len(posts)
    <3>1. Bound(job.todo) /\ job.todo # <<>>
      BY <1>4 DEF StreamTyped
    <3>2. 1 \in 1..Len(job.todo) /\ Head(job.todo) = job.todo[1]
      BY <1>1, <3>1
    <3> QED
      BY <3>1, <3>2 DEF Bound
  <2>3. posts' \in Seq(Post) /\ Len(posts') = Len(posts)
    BY <1>1, <2>1, <2>2, PostsKeep, TextsDiffer
  <2>4. \A id \in 1..Len(posts) : posts'[id] # Gone => posts[id] # Gone
    BY <1>1, <2>1, <2>2
  <2> QED
    BY <1>1, <2>1, <2>3, <2>4
<1> QED
  BY <1>2, <1>3, <1>4 DEF CutShort

LEMMA ListTypes ==
  ASSUME StreamTyped, NEW r \in Lists, Bound(r.ids), NEW who \in {"turn", "shutdown"},
         removal' = [removal EXCEPT ![who] = r]
  PROVE  /\ removal' \in [{"turn", "shutdown"} -> Lists]
         /\ \A w \in {"turn", "shutdown"} : Bound(removal'[w].ids)
<1>1. removal \in [{"turn", "shutdown"} -> Lists] /\ \A w \in {"turn", "shutdown"} : Bound(removal[w].ids)
  BY DEF StreamTyped
<1>2. \A w \in {"turn", "shutdown"} : removal'[w] = IF w = who THEN r ELSE removal[w]
  BY <1>1
<1>3. removal' \in [{"turn", "shutdown"} -> Lists]
  BY <1>1
<1> QED
  BY <1>1, <1>2, <1>3

LEMMA NewList ==
  LET r == [ids |-> <<>>, own |-> TRUE, i |-> 1] IN
  /\ r \in Lists /\ Bound(r.ids) /\ r.own /\ r.i = 1
  /\ NoList \in Lists /\ Bound(NoList.ids) /\ ~NoList.own /\ NoList.i = 0
<1>1. <<>> \in Seq(Nat) /\ Bound(<<>>)
  BY DEF Bound
<1> QED
  BY <1>1 DEF Lists, NoList

LEMMA BreakTypes ==
  ASSUME StreamTyped, NEW ok \in BOOLEAN, CancelTurn(ok) \/ Deadline(ok)
  PROVE  StreamTyped'
<1>1. /\ CutShort(ok) /\ job' = NoJob
      /\ UNCHANGED <<placed, sentIds, buffer, direct, swept, stuck>>
  BY DEF CancelTurn, Deadline, ownVars
<1>2. /\ posts' \in Seq(Post) /\ Len(posts) \in Nat /\ Len(posts') \in Nat /\ Len(posts) <= Len(posts')
      /\ orphans' \subseteq 1..Len(posts')
  BY <1>1, CutParts
<1>3. job' \in Jobs /\ NoJob.todo = <<>> /\ Len(<<>>) = 0
  BY <1>1, TextsOfJobs DEF NoJob
<1>4. stuck \subseteq 1..Len(posts) /\ 1..Len(posts) \subseteq 1..Len(posts')
  BY <1>2 DEF StreamTyped
<1>5. /\ stage' \in {"cleanup", "over", "late"} /\ result' \in {result, "cancelled"}
      /\ closed' \in BOOLEAN /\ owned' \in BOOLEAN
  BY DEF CancelTurn, CleanUp, Deadline, ownVars, StreamTyped
<1>6. removal' \in [{"turn", "shutdown"} -> Lists] /\ \A w \in {"turn", "shutdown"} : Bound(removal'[w].ids)
  <2>1. \/ removal' = removal
        \/ removal' = [removal EXCEPT !["turn"] = NoList]
        \/ removal' = [removal EXCEPT !["turn"] = [ids |-> <<>>, own |-> TRUE, i |-> 1]]
    BY DEF CancelTurn, CleanUp, Deadline
  <2>2. CASE removal' = removal
    BY <2>2 DEF StreamTyped
  <2>3. CASE removal' = [removal EXCEPT !["turn"] = NoList]
    BY <2>3, ListTypes, NewList
  <2>4. CASE removal' = [removal EXCEPT !["turn"] = [ids |-> <<>>, own |-> TRUE, i |-> 1]]
    BY <2>4, ListTypes, NewList
  <2> QED
    BY <2>1, <2>2, <2>3, <2>4
<1>7. ASSUME NEW s, Bound(s) PROVE Bound(s)'
  BY <1>4, <1>7 DEF Bound
<1>8. /\ placed \in Seq(Nat) /\ sentIds \in Seq(Nat) /\ Bound(placed) /\ Bound(sentIds)
      /\ buffer \in 0..MaxBuffer /\ {direct, swept} \subseteq BOOLEAN
      /\ result \in {"none", "delivered", "failed", "suppressed", "cancelled", "error"}
  BY DEF StreamTyped
<1>9. /\ Bound(placed)' /\ Bound(sentIds)' /\ \A w \in {"turn", "shutdown"} : Bound(removal[w].ids)'
  BY <1>1, <1>4, <1>6, <1>8 DEF Bound
<1> QED
  BY <1>1, <1>2, <1>3, <1>4, <1>5, <1>6, <1>8, <1>9 DEF StreamTyped

LEMMA RemoveParts ==
  ASSUME StreamTyped, NEW who \in {"turn", "shutdown"}, NEW ok \in BOOLEAN, RemovePost(who, ok)
  PROVE  LET id == ListOf(who)[removal[who].i]
         IN  /\ removal[who].i \in 1..Len(ListOf(who)) /\ id \in 1..Len(posts)
             /\ posts' = (IF ok THEN [posts EXCEPT ![id] = Gone] ELSE posts)
             /\ posts' \in Seq(Post) /\ Len(posts') = Len(posts) /\ posts \in Seq(Post)
             /\ stuck' = IF ok THEN stuck ELSE stuck \cup {id}
             /\ removal' = [removal EXCEPT ![who] = [removal[who] EXCEPT !.i = removal[who].i + 1]]
             /\ ListOf(who) = IF removal[who].own THEN sentIds ELSE removal[who].ids
             /\ removal[who] \in Lists /\ Bound(removal[who].ids)
             /\ UNCHANGED <<placed, sentIds, buffer, closed, direct, stage, job, owned, result, swept, orphans>>
<1> DEFINE id == ListOf(who)[removal[who].i]
<1>1. /\ removal[who] \in Lists /\ Bound(removal[who].ids) /\ sentIds \in Seq(Nat) /\ Bound(sentIds)
      /\ posts \in Seq(Post) /\ DOMAIN removal = {"turn", "shutdown"}
  BY DEF StreamTyped
<1>2. ListOf(who) \in Seq(Nat) /\ Bound(ListOf(who))
  BY <1>1 DEF ListOf, Lists
<1>3. /\ removal[who].i \in DOMAIN ListOf(who)
      /\ posts' = (IF ok THEN [posts EXCEPT ![id] = Gone] ELSE posts)
      /\ stuck' = IF ok THEN stuck ELSE stuck \cup {id}
      /\ UNCHANGED <<placed, sentIds, buffer, closed, direct, stage, job, owned, result, swept, orphans>>
  BY DEF RemovePost, ownVars
<1>4. removal[who].i \in 1..Len(ListOf(who)) /\ id \in 1..Len(posts)
  BY <1>2, <1>3 DEF Bound
<1>5. posts' \in Seq(Post) /\ Len(posts') = Len(posts)
  BY <1>1, <1>3, <1>4, PostsKeep, TextsDiffer
<1>6. removal' = [removal EXCEPT ![who] = [removal[who] EXCEPT !.i = removal[who].i + 1]]
  BY <1>1 DEF RemovePost
<1> QED
  BY <1>1, <1>3, <1>4, <1>5, <1>6 DEF ListOf

LEMMA RemoveTypes ==
  ASSUME StreamTyped, NEW who \in {"turn", "shutdown"}, NEW ok \in BOOLEAN, RemovePost(who, ok)
  PROVE  StreamTyped'
<1> DEFINE id == ListOf(who)[removal[who].i]
           r == [removal[who] EXCEPT !.i = removal[who].i + 1]
<1>1. /\ id \in 1..Len(posts) /\ posts' \in Seq(Post) /\ Len(posts') = Len(posts)
      /\ stuck' \in {stuck, stuck \cup {id}}
      /\ removal' = [removal EXCEPT ![who] = r] /\ removal[who] \in Lists /\ Bound(removal[who].ids)
      /\ UNCHANGED <<placed, sentIds, buffer, closed, direct, stage, job, owned, result, swept, orphans>>
  BY RemoveParts
<1>2. r \in Lists /\ r.ids = removal[who].ids
  <2>1. \A l \in Lists : [l EXCEPT !.i = l.i + 1] \in Lists /\ [l EXCEPT !.i = l.i + 1].ids = l.ids
    BY DEF Lists
  <2> QED
    BY <1>1, <2>1
<1> HIDE DEF id, r
<1>3. removal' \in [{"turn", "shutdown"} -> Lists] /\ \A w \in {"turn", "shutdown"} : Bound(removal'[w].ids)
  BY <1>1, <1>2, ListTypes
<1>4. stuck' \subseteq 1..Len(posts)
  BY <1>1 DEF StreamTyped
<1> QED
  BY <1>1, <1>3, <1>4 DEF StreamTyped, Bound

LEMMA RestTypes ==
  ASSUME StreamTyped,
         \/ Suppress \/ Forget \/ CancelCleanUp \/ ShutdownDeletes
         \/ \E who \in {"turn", "shutdown"} : Removed(who)
  PROVE  StreamTyped'
<1>1. CASE Suppress \/ Forget
  <2>1. /\ stage' \in {"recording", "suppress", "over"} /\ result' \in {"suppressed", result}
        /\ closed' \in {closed, TRUE} /\ owned' \in {owned, FALSE}
        /\ \/ removal' = removal
           \/ removal' = [removal EXCEPT !["turn"] = [ids |-> <<>>, own |-> TRUE, i |-> 1]]
        /\ UNCHANGED <<posts, placed, sentIds, buffer, direct, job, swept, orphans, stuck>>
    BY <1>1 DEF Suppress, Forget, histories, ownVars
  <2>2. removal' \in [{"turn", "shutdown"} -> Lists] /\ \A w \in {"turn", "shutdown"} : Bound(removal'[w].ids)
    <3>1. CASE removal' = removal
      BY <3>1 DEF StreamTyped
    <3> QED
      BY <2>1, <3>1, ListTypes, NewList
  <2> QED
    BY <2>1, <2>2 DEF StreamTyped, Bound
<1>2. CASE CancelCleanUp
  <2>1. /\ stage' = "over" /\ stuck' = stuck \cup Range(sentIds)
        /\ removal' = [removal EXCEPT !["turn"] = NoList]
        /\ UNCHANGED <<posts, placed, sentIds, buffer, closed, direct, job, owned, result, swept, orphans>>
    BY <1>2 DEF CancelCleanUp, ownVars
  <2>2. removal' \in [{"turn", "shutdown"} -> Lists] /\ \A w \in {"turn", "shutdown"} : Bound(removal'[w].ids)
    BY <2>1, ListTypes, NewList
  <2>3. Range(sentIds) \subseteq 1..Len(posts)
    BY DEF StreamTyped, Range, Bound
  <2> QED
    BY <2>1, <2>2, <2>3 DEF StreamTyped, Bound
<1>3. CASE ShutdownDeletes
  <2>1. /\ removal' = [removal EXCEPT !["shutdown"] = [ids |-> <<>>, own |-> TRUE, i |-> 1]]
        /\ swept' = TRUE /\ closed' = TRUE
        /\ UNCHANGED <<posts, placed, sentIds, buffer, direct, stage, job, owned, result, orphans, stuck>>
    BY <1>3 DEF ShutdownDeletes
  <2>2. removal' \in [{"turn", "shutdown"} -> Lists] /\ \A w \in {"turn", "shutdown"} : Bound(removal'[w].ids)
    BY <2>1, ListTypes, NewList
  <2> QED
    BY <2>1, <2>2 DEF StreamTyped, Bound
<1>4. ASSUME NEW who \in {"turn", "shutdown"}, Removed(who) PROVE StreamTyped'
  <2>1. /\ sentIds' = <<>> /\ removal' = [removal EXCEPT ![who] = NoList]
        /\ stage' \in {stage, "recording", "over"} /\ owned' = (owned /\ who = "turn")
        /\ UNCHANGED <<posts, placed, buffer, closed, direct, job, result, swept, orphans, stuck>>
    BY <1>4 DEF Removed, histories
  <2>2. removal' \in [{"turn", "shutdown"} -> Lists] /\ \A w \in {"turn", "shutdown"} : Bound(removal'[w].ids)
    BY <2>1, ListTypes, NewList
  <2>3. sentIds' \in Seq(Nat) /\ Len(<<>>) = 0
    BY <2>1
  <2> QED
    BY <2>1, <2>2, <2>3 DEF StreamTyped, Bound
<1> QED
  BY <1>1, <1>2, <1>3, <1>4

LEMMA TypesStep == StreamTyped /\ [StreamNext]_streamVars => StreamTyped'
<1> SUFFICES ASSUME StreamTyped, [StreamNext]_streamVars PROVE StreamTyped'
  OBVIOUS
<1>1. CASE UNCHANGED streamVars
  BY <1>1 DEF streamVars, StreamTyped, Bound
<1>2. CASE StreamNext
  BY <1>2, AppendTypes, TrimTypes, BreakTypes, AnswerTypes, ReplyTypes, RestTypes, RemoveTypes, Zenon DEF StreamNext
<1> QED
  BY <1>1, <1>2

(* Where the turn is: each step keeps StageInv.                            *)
LEMMA StageStep ==
  ASSUME StreamTyped, StageInv,
         \/ \E b \in BOOLEAN : Append1(b) \/ Trim(b) \/ CancelTurn(b) \/ Deadline(b)
         \/ \E ok, told \in BOOLEAN : DiscordAnswers(ok, told)
         \/ \E k \in 0..MaxFinal, raised \in BOOLEAN : Reply(k, raised)
         \/ Suppress \/ Forget \/ CancelCleanUp
         \/ \E who \in {"turn", "shutdown"} : Removed(who) \/ \E ok \in BOOLEAN : RemovePost(who, ok)
  PROVE  StageInv'
<1>0. /\ removal \in [{"turn", "shutdown"} -> Lists] /\ {direct, owned, closed} \subseteq BOOLEAN /\ job.ok \in BOOLEAN
      /\ sentIds \in Seq(Nat) /\ removal["shutdown"] = NoList /\ removal["shutdown"].i = 0
      /\ removal["shutdown"].ids = <<>> /\ ~removal["shutdown"].own
  BY TextsOfJobs DEF StreamTyped, StageInv, Jobs
<1>1. ASSUME NEW b \in BOOLEAN, Append1(b) PROVE StageInv'
  <2>1. /\ stage = "generating" /\ ~direct /\ ~closed /\ stage' \in {"generating", "push"}
        /\ UNCHANGED <<placed, sentIds, closed, direct, removal, owned, result>>
    BY <1>1 DEF Append1
  <2> QED
    BY <2>1 DEF StageInv, Writing, Closing
<1>2. ASSUME NEW b \in BOOLEAN, Trim(b) PROVE StageInv'
  <2>1. /\ stage = "trim" /\ job'.ok \in BOOLEAN
        /\ UNCHANGED <<closed, direct, owned>>
        /\ \/ UNCHANGED <<stage, placed, sentIds, result, removal>>
           \/ /\ stage' = "recording"
              /\ result' = IF result = "error" THEN result ELSE IF job'.ok THEN "delivered" ELSE "failed"
              /\ removal' = [who \in {"turn", "shutdown"} |->
                                  IF removal[who].own THEN [removal[who] EXCEPT !.ids = sentIds, !.own = FALSE]
                                  ELSE removal[who]]
    BY <1>2, TrimParts
  <2>2. removal["turn"] = NoList /\ ~removal["turn"].own
    BY <2>1, TextsOfJobs DEF StageInv
  <2>3. removal'["turn"] = NoList /\ removal'["shutdown"] = NoList
    BY <1>0, <2>1, <2>2
  <2> QED
    BY <1>0, <2>1, <2>3 DEF StageInv, Writing, Closing
<1>3. ASSUME NEW b \in BOOLEAN, CancelTurn(b) PROVE StageInv'
  <2>1. /\ stage \notin {"cleanup", "over"} /\ result' = "cancelled" /\ owned' = FALSE
        /\ UNCHANGED <<placed, sentIds, direct>>
        /\ IF owned
             THEN /\ stage' = "cleanup" /\ closed' = TRUE
                  /\ removal' = [removal EXCEPT !["turn"] = [ids |-> <<>>, own |-> TRUE, i |-> 1]]
             ELSE stage' = "over" /\ UNCHANGED closed /\ removal' = [removal EXCEPT !["turn"] = NoList]
    BY <1>3 DEF CancelTurn, CleanUp
  <2>2. removal'["shutdown"] = NoList /\ IF owned THEN removal'["turn"].own /\ removal'["turn"].i >= 1
                                         ELSE removal'["turn"] = NoList
    BY <1>0, <2>1
  <2> QED
    BY <1>0, <2>1, <2>2 DEF StageInv, Writing, Closing
<1>4. ASSUME NEW b \in BOOLEAN, Deadline(b) PROVE StageInv'
  <2>1. /\ stage = "push" /\ stage' = "late"
        /\ UNCHANGED <<placed, sentIds, closed, direct, removal, owned, result>>
    BY <1>4 DEF Deadline, ownVars
  <2> QED
    BY <2>1 DEF StageInv, Writing, Closing
<1>5. ASSUME NEW ok \in BOOLEAN, NEW told \in BOOLEAN, DiscordAnswers(ok, told) PROVE StageInv'
  <2> DEFINE j == [job EXCEPT !.todo = Left(told), !.ok = @ /\ told]
  <2>1. /\ stage \in {"push", "final"}
        /\ Posted(Head(job.todo), ok, told)
        /\ IF Left(told) # <<>> THEN job' = j /\ UNCHANGED <<stage, shownChunks, result>>
           ELSE IF stage = "push" THEN PushEnds(j) ELSE FinalEnds(placed', j)
        /\ UNCHANGED <<closed, direct, removal, owned>>
        /\ j \in Jobs /\ j.ok = (job.ok /\ told)
    BY <1>5, AnswerParts
  <2> HIDE DEF j
  <2>2. direct => placed' = placed /\ sentIds' = sentIds /\ stage = "final"
    BY <2>1 DEF Posted, Edits, StageInv
  <2>3. \/ stage' = stage /\ result' = result
        \/ stage = "push" /\ stage' = "generating" /\ result' = result
        \/ stage = "final" /\ stage' = "trim" /\ result' = result /\ ~direct
        \/ /\ stage = "final" /\ stage' = "recording" /\ job' = j
           /\ result' = IF result = "error" THEN result ELSE IF j.ok THEN "delivered" ELSE "failed"
    <3>1. ASSUME direct PROVE Stale(placed', j) = <<>>
      <4>1. placed' = <<>>
        BY <2>2, <3>1 DEF StageInv
      <4>2. j \in Jobs /\ Len(<<>>) = 0 /\ <<>> \in Seq(Nat) /\ Len(j.texts) \in Nat
        BY <2>1 DEF Jobs
      <4>3. Stale(<<>>, j) # <<>> <=> Len(j.texts) < Len(<<>>)
        BY <4>2, StaleIs
      <4> QED
        BY <4>1, <4>2, <4>3
    <3> QED
      BY <2>1, <3>1 DEF PushEnds, FinalEnds
  <2>4. removal'["turn"] = NoList /\ removal'["shutdown"] = NoList
    BY <2>1 DEF StageInv
  <2> QED
    BY <2>1, <2>2, <2>3, <2>4 DEF StageInv, Writing, Closing
<1>6. ASSUME NEW k \in 0..MaxFinal, NEW raised \in BOOLEAN, Reply(k, raised) PROVE StageInv'
  <2>1. /\ stage \in {"generating", "late"} /\ closed' = (closed \/ ~direct) /\ job'.ok
        /\ UNCHANGED <<placed, sentIds, direct, removal, owned>>
        /\ \/ stage' = "recording" /\ result' \in {"error", "delivered"} /\ ~direct
           \/ stage' = "final" /\ result' \in {"error", result}
    <3>1. direct => Shows(k) # <<>>
      <4>1. ASSUME direct PROVE Shows(k) = Complete(k) /\ k > 0 /\ k \in Nat
        BY <1>6, <4>1, StreamAssumption DEF Reply, Shows
      <4>2. Len(<<>>) = 0
        OBVIOUS
      <4> QED
        BY <4>1, <4>2, TextsOfJobs
    <3> QED
      BY <1>0, <1>6, <3>1 DEF Reply, histories
  <2> QED
    BY <1>0, <2>1 DEF StageInv, Writing, Closing
<1>7. CASE Suppress
  <2>1. /\ stage = "generating" /\ result' = "suppressed" /\ UNCHANGED <<placed, sentIds, direct, owned>>
        /\ IF direct THEN stage' = "recording" /\ UNCHANGED <<closed, removal>>
           ELSE /\ stage' = "suppress" /\ closed' = TRUE
                /\ removal' = [removal EXCEPT !["turn"] = [ids |-> <<>>, own |-> TRUE, i |-> 1]]
    BY <1>7 DEF Suppress
  <2>2. removal'["shutdown"] = NoList /\ IF direct THEN removal'["turn"] = NoList
                                         ELSE removal'["turn"].own /\ removal'["turn"].i >= 1
    BY <1>0, <2>1 DEF StageInv
  <2> QED
    BY <1>0, <2>1, <2>2 DEF StageInv, Writing, Closing
<1>8. CASE Forget
  <2>1. /\ stage = "recording" /\ stage' = "over" /\ owned' = FALSE
        /\ UNCHANGED <<placed, sentIds, closed, direct, job, removal, result>>
    BY <1>8 DEF Forget, ownVars
  <2> QED
    BY <1>0, <2>1 DEF StageInv, Writing, Closing
<1>9. CASE CancelCleanUp
  <2>1. /\ stage = "cleanup" /\ stage' = "over" /\ removal' = [removal EXCEPT !["turn"] = NoList]
        /\ UNCHANGED <<placed, sentIds, closed, direct, owned, result>>
    BY <1>9 DEF CancelCleanUp, ownVars
  <2>2. removal'["turn"] = NoList /\ removal'["shutdown"] = NoList
    BY <1>0, <2>1
  <2> QED
    BY <1>0, <2>1, <2>2 DEF StageInv, Writing, Closing
<1>10. ASSUME NEW who \in {"turn", "shutdown"}, Removed(who) PROVE StageInv'
  <2>1. who = "turn" /\ stage \in {"suppress", "cleanup"}
    <3>1. ASSUME removal[who] = NoList PROVE FALSE
      <4>1. ListOf(who) = <<>> /\ removal[who].i = 0 /\ Len(<<>>) = 0
        BY <3>1, TextsOfJobs DEF ListOf
      <4> QED
        BY <1>10, <4>1 DEF Removed
    <3> QED
      BY <3>1 DEF StageInv
  <2>2. /\ removal' = [removal EXCEPT !["turn"] = NoList] /\ sentIds' = <<>>
        /\ stage' = IF stage = "suppress" THEN "recording" ELSE "over"
        /\ owned' = (owned /\ TRUE)
        /\ UNCHANGED <<placed, closed, direct, result>>
    BY <1>10, <2>1 DEF Removed
  <2>3. removal'["turn"] = NoList /\ removal'["shutdown"] = NoList
    BY <1>0, <2>2
  <2> QED
    BY <1>0, <2>1, <2>2, <2>3 DEF StageInv, Writing, Closing
<1>11. ASSUME NEW who \in {"turn", "shutdown"}, NEW ok \in BOOLEAN, RemovePost(who, ok) PROVE StageInv'
  <2>1. /\ removal[who].i \in 1..Len(ListOf(who))
        /\ removal' = [removal EXCEPT ![who] = [removal[who] EXCEPT !.i = removal[who].i + 1]]
        /\ ListOf(who) = (IF removal[who].own THEN sentIds ELSE removal[who].ids)
        /\ removal[who] \in Lists
        /\ UNCHANGED <<placed, sentIds, closed, direct, stage, job, owned, result>>
    BY <1>11, RemoveParts
  <2>2. removal[who] # NoList
    BY <2>1, TextsOfJobs
  <2>3. who = "turn" /\ stage \in {"suppress", "cleanup"} /\ removal["turn"].own
    BY <2>2 DEF StageInv
  <2>4. removal'["shutdown"] = NoList /\ removal'["turn"].own /\ removal'["turn"].i >= 1
    BY <1>0, <2>1, <2>3 DEF Lists
  <2> QED
    BY <2>1, <2>3, <2>4 DEF StageInv, Writing, Closing
<1> QED
  BY <1>1, <1>2, <1>3, <1>4, <1>5, <1>6, <1>7, <1>8, <1>9, <1>10, <1>11

(* A direct send: each step keeps SentInv.                                 *)
LEMMA AheadStep ==
  ASSUME stage \in {"push", "final"}, StreamTyped, Ahead, job.todo # <<>>,
         NEW left \in Seq(Nat), Len(left) = Len(job.todo) - 1,
         \A k \in 1..Len(left) : k + 1 \in 1..Len(job.todo) /\ left[k] = job.todo[k + 1]
  PROVE  /\ job.todo[1] = Shown + 1 /\ Shown \in Nat
         /\ Len(job.texts) - Len(left) = Shown + 1
         /\ \A k \in 1..Len(left) : left[k] = (Len(job.texts) - Len(left)) + k
         /\ left = <<>> <=> Shown + 1 = Len(job.texts)
<1>1. /\ Len(job.texts) \in Nat /\ Len(job.todo) \in Nat /\ Len(left) \in Nat
      /\ Len(job.todo) > 0
      /\ (left = <<>> <=> Len(left) = 0)
  <2>1. job.texts \in Seq(Text) /\ job.todo \in Seq(Nat)
    BY DEF StreamTyped, Jobs
  <2>2. \A w \in Seq(Nat) : Len(w) \in Nat /\ (w = <<>> <=> Len(w) = 0)
    OBVIOUS
  <2>3. Len(job.texts) \in Nat
    BY <2>1
  <2>4. Len(job.todo) \in Nat /\ Len(job.todo) # 0
    BY <2>1, <2>2
  <2>5. Len(left) \in Nat /\ (left = <<>> <=> Len(left) = 0)
    BY <2>2
  <2>6. Len(job.todo) > 0
    BY <2>4
  <2> QED
    BY <2>3, <2>4, <2>5, <2>6
<1>2. Shown \in Nat /\ Shown = Len(job.texts) - Len(job.todo) /\ \A k \in 1..Len(job.todo) : job.todo[k] = Shown + k
  BY DEF Ahead, Shown
<1>3. PICK a \in Nat, b \in Nat : a = Len(job.texts) /\ b = Len(job.todo)
  BY <1>1
<1>4. 1 \in 1..b /\ Shown + 1 \in Nat
  BY <1>1, <1>2, <1>3
<1>5. job.todo[1] = Shown + 1
  BY <1>2, <1>3, <1>4
<1>6. Len(job.texts) - Len(left) = Shown + 1
  <2>1. PICK l \in Nat, n \in Nat : l = Len(left) /\ n = Shown
    BY <1>1, <1>2
  <2>2. l = b - 1 /\ n = a - b
    BY <1>2, <1>3, <2>1
  <2>3. a - l = n + 1
    BY <2>2
  <2> QED
    BY <1>3, <2>1, <2>3
<1>7. ASSUME NEW k \in 1..Len(left) PROVE left[k] = (Shown + 1) + k
  <2>1. left[k] = job.todo[k + 1] /\ k + 1 \in 1..Len(job.todo) /\ k \in Nat
    BY <1>1
  <2>2. PICK n \in Nat : n = Shown
    BY <1>2
  <2>3. PICK m \in Nat : m = k + 1
    BY <2>1
  <2>4. job.todo[m] = n + m /\ left[k] = job.todo[m]
    BY <1>2, <2>1, <2>2, <2>3
  <2>5. n + m = (n + 1) + k
    BY <2>1, <2>3
  <2> QED
    BY <2>2, <2>4, <2>5
<1>8. left = <<>> <=> Shown + 1 = Len(job.texts)
  <2>1. PICK l \in Nat, m \in Nat, n \in Nat : l = Len(left) /\ m = Len(job.texts) /\ n = Shown
    BY <1>1, <1>2
  <2>2. m - l = n + 1
    BY <1>6, <2>1
  <2>3. l = 0 <=> n + 1 = m
    BY <2>2
  <2> QED
    BY <1>1, <2>1, <2>3
<1> QED
  BY <1>2, <1>5, <1>6, <1>7, <1>8

LEMMA DirectAnswer ==
  ASSUME StreamTyped, StageInv, ReplyInv, direct, NEW ok \in BOOLEAN, NEW told \in BOOLEAN,
         DiscordAnswers(ok, told)
  PROVE  SentInv'
<1> DEFINE i == Head(job.todo)
           j == [job EXCEPT !.todo = Left(told), !.ok = @ /\ told]
<1>1. /\ stage = "final" /\ SentInv /\ placed = <<>> /\ result \in {"none", "error"}
  BY AnswerParts DEF StageInv, ReplyInv, Closing
<1>2. /\ job.todo # <<>> /\ (told => ok) /\ Posted(i, ok, told)
      /\ IF Left(told) # <<>> THEN job' = j /\ UNCHANGED <<stage, shownChunks, result>>
         ELSE FinalEnds(placed', j)
      /\ UNCHANGED stuck
      /\ i \in 1..Len(job.texts) /\ job.texts[i] \in Text /\ i = job.todo[1]
      /\ job.texts \in Seq(Text) /\ Left(told) \in Seq(Nat)
      /\ j \in Jobs /\ j.texts = job.texts /\ j.todo = Left(told) /\ j.ok = (job.ok /\ told)
      /\ told => /\ Len(Left(told)) = Len(job.todo) - 1
                 /\ \A k \in 1..Len(Left(told)) : k + 1 \in 1..Len(job.todo) /\ Left(told)[k] = job.todo[k + 1]
  BY <1>1, AnswerParts
<1>3. ~told => Left(told) = <<>>
  BY DEF Left
<1> HIDE DEF i, j
<1>4. /\ job.ok /\ Ahead /\ Shown = Len(posts) /\ \A n \in 1..Shown : posts[n] = job.texts[n]
      /\ orphans = {} /\ stuck = {} /\ posts \in Seq(Post)
  BY <1>1 DEF SentInv, StreamTyped
<1>5. ~Edits(i) /\ placed' = <<>>
  BY <1>1, <1>2 DEF Posted, Edits
<1>6. Stale(placed', j) = <<>>
  <2>1. Len(<<>>) = 0 /\ <<>> \in Seq(Nat) /\ Len(j.texts) \in Nat
    BY <1>2
  <2>2. Stale(<<>>, j) # <<>> <=> Len(j.texts) < Len(<<>>)
    BY <1>2, <2>1, StaleIs
  <2> QED
    BY <1>5, <2>1, <2>2
<1>7. CASE ~told
  <2>1. stage' = "recording" /\ job' = j /\ result' \in {"error", "failed"} /\ ~job'.ok
    BY <1>1, <1>2, <1>3, <1>6, <1>7 DEF FinalEnds
  <2> QED
    BY <2>1 DEF SentInv
<1>8. CASE told
  <2>1. /\ i = Shown + 1 /\ Shown \in Nat
        /\ Len(job.texts) - Len(Left(told)) = Shown + 1
        /\ \A k \in 1..Len(Left(told)) : Left(told)[k] = (Len(job.texts) - Len(Left(told))) + k
        /\ (Left(told) = <<>> <=> Shown + 1 = Len(job.texts))
    BY <1>1, <1>2, <1>4, <1>8, AheadStep
  <2>2. posts' = Append(posts, job.texts[i]) /\ orphans' = {} /\ stuck' = {}
    BY <1>2, <1>4, <1>5, <1>8 DEF Posted
  <2>3. /\ Len(posts') = Shown + 1 /\ \A n \in 1..(Shown + 1) : posts'[n] = job.texts[n]
        /\ posts' \in Seq(Post)
    <3>1. PICK q \in Post : q = job.texts[i]
      BY <1>2, TextsDiffer
    <3>2. /\ posts' \in Seq(Post) /\ Len(posts') = Len(posts) + 1 /\ posts'[Len(posts) + 1] = q
          /\ \A n \in 1..Len(posts) : posts'[n] = posts[n]
      BY <1>4, <2>2, <3>1, AppendProperties
    <3>3. 1..(Shown + 1) = 1..Shown \cup {Shown + 1}
      BY <2>1
    <3> QED
      BY <1>4, <2>1, <3>1, <3>2, <3>3
  <2>4. CASE Left(told) # <<>>
    <3>1. stage' = "final" /\ job' = j
      BY <1>1, <1>2, <2>4
    <3>2. Ahead' /\ Shown' = Shown + 1 /\ job'.ok
      <4>1. job'.texts = job.texts /\ job'.todo = Left(told) /\ job'.ok
        BY <1>2, <1>4, <1>8, <3>1
      <4>2. Len(job'.texts) - Len(job'.todo) = Shown + 1 /\ Shown + 1 \in Nat
        BY <2>1, <4>1
      <4>3. \A k \in 1..Len(job'.todo) : job'.todo[k] = (Shown + 1) + k
        BY <2>1, <4>1
      <4> QED
        BY <4>1, <4>2, <4>3 DEF Ahead, Shown
    <3> QED
      BY <1>2, <2>2, <2>3, <3>1, <3>2 DEF SentInv
  <2>5. CASE Left(told) = <<>>
    <3>1. stage' = "recording" /\ job' = j /\ result' \in {"error", "delivered", "failed"}
      BY <1>1, <1>2, <1>6, <2>5 DEF FinalEnds
    <3>2. posts' = job'.texts
      <4>1. job.texts \in Seq(Post) /\ job'.texts = job.texts
        BY <1>2, <3>1, TextsDiffer
      <4>2. Len(posts') = Len(job.texts) /\ \A n \in 1..Len(posts') : posts'[n] = job.texts[n]
        BY <2>1, <2>3, <2>5
      <4> QED
        BY <2>3, <4>1, <4>2, SeqEqual
    <3> QED
      BY <2>2, <3>1, <3>2 DEF SentInv
  <2> QED
    BY <2>4, <2>5
<1> QED
  BY <1>7, <1>8

LEMMA ReplyParts ==
  ASSUME StreamTyped, StageInv, NEW k \in 0..MaxFinal, NEW raised \in BOOLEAN, Reply(k, raised)
  PROVE  /\ stage \in {"generating", "late"} /\ result = "none" /\ (direct => stage = "generating")
         /\ job'.texts = Shows(k) /\ job'.texts \in Seq(Text) /\ job'.ok
         /\ Ahead' /\ Shown' = 0
         /\ UNCHANGED <<posts, placed, sentIds, direct, removal, orphans, stuck>>
         /\ \/ stage' = "final"
            \/ stage' = "recording" /\ Shows(k) = <<>> /\ placed = <<>> /\ ~direct
<1>1. k \in Nat
  BY StreamAssumption
<1>2. PICK t : t = Shows(k)
  OBVIOUS
<1>3. t \in Seq(Text) /\ (t = <<>> => k = 0 /\ placed = <<>>)
  <2>1. /\ Complete(k) \in Seq(Text) /\ Len(Complete(k)) = k
        /\ Complete(1) \in Seq(Text) /\ Len(Complete(1)) = 1
    BY <1>1, TextsOfJobs
  <2>2. Len(<<>>) = 0
    OBVIOUS
  <2> QED
    BY <1>2, <2>1, <2>2 DEF Shows
<1>4. job' = [texts |-> t, todo |-> Numbers(Len(t)), ok |-> TRUE]
  <2>1. job' = [texts |-> t, todo |-> [i \in DOMAIN t |-> i], ok |-> TRUE]
    BY <1>2 DEF Reply
  <2>2. DOMAIN t = 1..Len(t)
    BY <1>3
  <2> QED
    BY <2>1, <2>2 DEF Numbers
<1>5. Ahead' /\ Shown' = 0
  <2>1. /\ Len(t) \in Nat /\ Len(Numbers(Len(t))) = Len(t)
        /\ \A n \in 1..Len(t) : Numbers(Len(t))[n] = n
    BY <1>3, NumbersStep DEF Numbers
  <2> QED
    BY <1>4, <2>1 DEF Ahead, Shown
<1>6. /\ stage \in {"generating", "late"} /\ result = "none" /\ (direct => stage = "generating")
      /\ UNCHANGED <<posts, placed, sentIds, direct, removal, orphans, stuck>>
      /\ direct => k > 0
      /\ ~(closed /\ ~direct)
  BY DEF Reply, StageInv, Writing, histories
<1>7. \/ stage' = "final"
      \/ stage' = "recording" /\ t = <<>>
  BY <1>2, <1>6 DEF Reply
<1> QED
  BY <1>2, <1>3, <1>4, <1>5, <1>6, <1>7

LEMMA DirectStages ==
  ASSUME StageInv, ReplyInv, direct
  PROVE  /\ SentInv /\ stage \in {"generating", "final", "recording", "over"}
         /\ removal["turn"] = NoList /\ removal["shutdown"] = NoList
<1>1. stage \in {"generating", "final", "recording", "over"} /\ removal["shutdown"] = NoList
  BY DEF StageInv
<1>2. stage \notin {"suppress", "cleanup"}
  BY <1>1
<1>3. removal["turn"] = NoList
  BY <1>2 DEF StageInv
<1>4. SentInv
  BY DEF ReplyInv
<1> QED
  BY <1>1, <1>3, <1>4

LEMMA DirectStep ==
  ASSUME StreamTyped, StageInv, ReplyInv, direct,
         \/ \E b \in BOOLEAN : Append1(b) \/ Trim(b) \/ CancelTurn(b) \/ Deadline(b)
         \/ \E ok, told \in BOOLEAN : DiscordAnswers(ok, told)
         \/ \E k \in 0..MaxFinal, raised \in BOOLEAN : Reply(k, raised)
         \/ Suppress \/ Forget \/ CancelCleanUp
         \/ \E who \in {"turn", "shutdown"} : Removed(who) \/ \E ok \in BOOLEAN : RemovePost(who, ok)
  PROVE  SentInv'
<1>0. SentInv /\ stage \in {"generating", "final", "recording", "over"}
      /\ removal["turn"] = NoList /\ removal["shutdown"] = NoList
  BY DirectStages, Zenon
<1>1. ASSUME NEW b \in BOOLEAN, Append1(b) \/ Trim(b) \/ Deadline(b) PROVE SentInv'
  BY <1>0, <1>1, Zenon DEF Append1, Trim, Deadline
<1>2. ASSUME NEW b \in BOOLEAN, CancelTurn(b) PROVE SentInv'
  <2>1. stage' = "over" /\ result' = "cancelled"
    BY <1>2 DEF CancelTurn, CleanUp, StageInv
  <2> QED
    BY <2>1 DEF SentInv
<1>3. ASSUME NEW ok \in BOOLEAN, NEW told \in BOOLEAN, DiscordAnswers(ok, told) PROVE SentInv'
  BY <1>3, DirectAnswer
<1>4. ASSUME NEW k \in 0..MaxFinal, NEW raised \in BOOLEAN, Reply(k, raised) PROVE SentInv'
  <2>1. /\ stage = "generating" /\ stage' = "final" /\ job'.ok /\ Ahead' /\ Shown' = 0
        /\ UNCHANGED <<posts, orphans, stuck>>
    BY <1>4, ReplyParts
  <2>2. posts = <<>> /\ orphans = {} /\ stuck = {} /\ Len(<<>>) = 0
    BY <1>0, <2>1 DEF SentInv
  <2> QED
    BY <2>1, <2>2 DEF SentInv
<1>5. CASE Suppress
  <2>1. stage = "generating" /\ stage' = "recording" /\ result' = "suppressed" /\ UNCHANGED posts
    BY <1>5 DEF Suppress
  <2> QED
    BY <1>0, <2>1 DEF SentInv
<1>6. CASE Forget
  <2>1. stage = "recording" /\ stage' = "over" /\ UNCHANGED <<posts, job, result, orphans, stuck>>
    BY <1>6 DEF Forget, histories
  <2> QED
    BY <1>0, <2>1 DEF SentInv
<1>7. CASE CancelCleanUp
  BY <1>0, <1>7 DEF CancelCleanUp
<1>8. ASSUME NEW who \in {"turn", "shutdown"},
             Removed(who) \/ \E ok \in BOOLEAN : RemovePost(who, ok)
      PROVE SentInv'
  <2>1. ListOf(who) = <<>> /\ removal[who].i = 0 /\ Len(<<>>) = 0 /\ DOMAIN <<>> = {}
    BY <1>0, TextsOfJobs DEF ListOf
  <2> QED
    BY <1>8, <2>1 DEF Removed, RemovePost
<1> QED
  BY <1>1, <1>2, <1>3, <1>4, <1>5, <1>6, <1>7, <1>8

(* A streamed reply: each step keeps the lists.                            *)
Streamed == ListedInv /\ TrimInv /\ FinalInv /\ DoneInv

(* As far as the program knows, every post is in the list that it deletes. *)
LEMMA KnownListed ==
  ASSUME StreamTyped, StageInv, Streamed, stage \notin {"over", "cleanup", "suppress"}, NEW id \in Known
  PROVE  Has(sentIds, id)
<1>1. CASE stage = "trim"
  <2>1. \/ \E i \in 1..Len(job.texts) : i <= Len(placed) /\ placed[i] = id
        \/ Has(job.todo, id)
    BY <1>1 DEF Streamed, TrimInv
  <2>2. placed = sentIds
    BY <1>1 DEF Streamed, ListedInv, Closing
  <2>3. Len(placed) \in Nat /\ Len(job.texts) \in Nat
    BY DEF StreamTyped, Jobs
  <2>4. CASE \E i \in 1..Len(job.texts) : i <= Len(placed) /\ placed[i] = id
    BY <2>2, <2>3, <2>4 DEF Has
  <2>5. CASE Has(job.todo, id)
    <3>1. \E i \in Len(job.texts) + 1..Len(placed) : placed[i] = id
      BY <1>1, <2>5 DEF Streamed, TrimInv, Has
    <3> QED
      BY <2>2, <2>3, <3>1 DEF Has
  <2> QED
    BY <2>1, <2>4, <2>5
<1>2. CASE stage # "trim"
  <2>1. stage \in Writing \cup {"final", "recording"}
    BY <1>2 DEF StreamTyped, Writing
  <2> QED
    BY <2>1 DEF Streamed, ListedInv
<1> QED
  BY <1>1, <1>2

LEMMA SimpleSteps ==
  ASSUME StreamTyped, StageInv, Streamed, ~direct,
         (\E b \in BOOLEAN : Append1(b)) \/ Suppress \/ Forget \/ CancelCleanUp
  PROVE  Streamed'
<1>1. CASE \E b \in BOOLEAN : Append1(b)
  <2>1. /\ stage = "generating" /\ stage' \in {"generating", "push"}
        /\ UNCHANGED <<posts, placed, sentIds, removal, result, orphans, stuck>>
    BY <1>1 DEF Append1, histories
  <2>2. Known' = Known
    BY <2>1 DEF Known
  <2> QED
    BY <2>1, <2>2 DEF Streamed, ListedInv, TrimInv, FinalInv, DoneInv, Writing, Closing, Increasing
<1>2. CASE Suppress
  <2>1. /\ stage = "generating" /\ stage' = "suppress" /\ result' = "suppressed"
        /\ removal' = [removal EXCEPT !["turn"] = [ids |-> <<>>, own |-> TRUE, i |-> 1]]
        /\ UNCHANGED <<posts, placed, sentIds, orphans, stuck>>
    BY <1>2 DEF Suppress, histories
  <2>2. Known' = Known
    BY <2>1 DEF Known
  <2>3. removal'["turn"].i = 1
    BY <2>1 DEF StreamTyped
  <2>4. \A id \in Known' : \E k \in removal'["turn"].i..Len(sentIds') : sentIds'[k] = id
    BY <2>1, <2>2, <2>3, KnownListed DEF Has
  <2> QED
    BY <2>1, <2>4 DEF Streamed, ListedInv, TrimInv, FinalInv, DoneInv, Writing, Closing, Increasing
<1>3. CASE Forget
  <2>1. /\ stage = "recording" /\ stage' = "over"
        /\ UNCHANGED <<posts, placed, sentIds, job, removal, result, orphans, stuck>>
    BY <1>3 DEF Forget, ownVars, histories
  <2>2. Known' = Known
    BY <2>1 DEF Known
  <2>3. result = "suppressed" => Known = {}
    <3>1. result = "suppressed" => sentIds = <<>>
      BY <2>1 DEF Streamed, ListedInv
    <3> QED
      BY <2>1, <3>1, KnownListed, EmptyHas
  <2>4. result \in {"delivered", "failed", "error", "suppressed"}
    BY <2>1 DEF StageInv
  <2>5. DoneInv'
    BY <2>1, <2>2 DEF Streamed, DoneInv
  <2> QED
    BY <2>1, <2>2, <2>3, <2>4, <2>5 DEF Streamed, ListedInv, TrimInv, FinalInv, Writing, Closing, Increasing
<1>4. CASE CancelCleanUp
  <2>1. /\ stage = "cleanup" /\ stage' = "over" /\ stuck' = stuck \cup Range(sentIds)
        /\ UNCHANGED <<posts, placed, sentIds, result, orphans>>
    BY <1>4 DEF CancelCleanUp, ownVars
  <2>2. result = "cancelled" /\ removal["turn"].i >= 1 /\ removal["turn"].i \in Nat
        /\ sentIds \in Seq(Nat)
    BY <2>1 DEF StageInv, StreamTyped, Lists
  <2>3. Known' = {}
    <3>1. ASSUME NEW id \in Known' PROVE FALSE
      <4>1. id \in Known /\ id \notin Range(sentIds)
        BY <2>1, <3>1 DEF Known
      <4>2. \E k \in removal["turn"].i..Len(sentIds) : sentIds[k] = id
        BY <2>1, <4>1 DEF Streamed, ListedInv
      <4>3. DOMAIN sentIds = 1..Len(sentIds)
        BY <2>2
      <4> QED
        BY <2>2, <4>1, <4>2, <4>3 DEF Range
    <3> QED
      BY <3>1
  <2> QED
    BY <2>1, <2>2, <2>3 DEF Streamed, ListedInv, TrimInv, FinalInv, DoneInv, Writing, Closing, Increasing
<1> QED
  BY <1>1, <1>2, <1>3, <1>4

LEMMA BreakSteps ==
  ASSUME StreamTyped, StageInv, Streamed, ~direct, NEW ok \in BOOLEAN, CancelTurn(ok) \/ Deadline(ok)
  PROVE  Streamed'
<1>1. CutShort(ok) /\ UNCHANGED <<placed, sentIds, stuck>>
  BY DEF CancelTurn, Deadline, ownVars
<1>2. /\ orphans \subseteq orphans' /\ Len(posts) \in Nat
      /\ \A id \in (1..Len(posts')) \ orphans' :
              id \in 1..Len(posts) /\ (posts'[id] # Gone => posts[id] # Gone)
      /\ \A id \in orphans' \ orphans : id > Len(posts)
  BY <1>1, CutParts
<1>3. Known' \subseteq Known
  BY <1>1, <1>2 DEF Known
<1>4. /\ Increasing(placed)' /\ \A i \in 1..Len(placed') : placed'[i] \notin orphans'
  <2>1. \A i \in 1..Len(placed) : placed[i] \in 1..Len(posts) /\ placed[i] \notin orphans
    BY DEF StreamTyped, Bound, Streamed, ListedInv
  <2>2. \A i \in 1..Len(placed) : placed[i] \notin orphans'
    BY <1>2, <2>1
  <2> QED
    BY <1>1, <2>2 DEF Streamed, ListedInv, Increasing
<1>5. CASE CancelTurn(ok)
  <2>1. /\ stage \notin {"cleanup", "over"} /\ stage' = "cleanup" /\ result' = "cancelled"
        /\ removal' = [removal EXCEPT !["turn"] = [ids |-> <<>>, own |-> TRUE, i |-> 1]]
    BY <1>5 DEF CancelTurn, CleanUp, StageInv
  <2>2. removal'["turn"].i = 1
    BY <2>1 DEF StreamTyped
  <2>3. ASSUME NEW id \in Known PROVE Has(sentIds, id)
    <3>1. CASE stage = "suppress"
      <4>1. \E k \in removal["turn"].i..Len(sentIds) : sentIds[k] = id
        BY <3>1 DEF Streamed, ListedInv
      <4>2. removal["turn"].i >= 1 /\ removal["turn"].i \in Nat /\ Len(sentIds) \in Nat
        BY <3>1 DEF StageInv, StreamTyped, Lists
      <4> QED
        BY <4>1, <4>2 DEF Has
    <3> QED
      BY <2>1, <3>1, KnownListed
  <2>4. \A id \in Known' : \E k \in removal'["turn"].i..Len(sentIds') : sentIds'[k] = id
    BY <1>1, <1>3, <2>2, <2>3 DEF Has
  <2> QED
    BY <1>4, <2>1, <2>4 DEF Streamed, ListedInv, TrimInv, FinalInv, DoneInv, Writing, Closing
<1>6. CASE Deadline(ok)
  <2>1. stage = "push" /\ stage' = "late" /\ UNCHANGED <<result>>
    BY <1>6 DEF Deadline
  <2>2. \A id \in Known' : Has(sentIds', id)
    BY <1>1, <1>3, <2>1, KnownListed DEF Has
  <2>3. placed = sentIds /\ stuck = {} /\ result = "none"
    BY <2>1 DEF Streamed, ListedInv, StageInv, Writing
  <2> QED
    BY <1>1, <1>4, <2>1, <2>2, <2>3 DEF Streamed, ListedInv, TrimInv, FinalInv, DoneInv, Writing, Closing
<1> QED
  BY <1>5, <1>6

LEMMA ReplySteps ==
  ASSUME StreamTyped, StageInv, Streamed, ~direct, NEW k \in 0..MaxFinal, NEW raised \in BOOLEAN,
         Reply(k, raised)
  PROVE  Streamed'
<1>1. /\ stage \in {"generating", "late"} /\ result = "none"
      /\ job'.texts = Shows(k) /\ job'.texts \in Seq(Text) /\ job'.ok
      /\ Ahead' /\ Shown' = 0
      /\ UNCHANGED <<posts, placed, sentIds, direct, removal, orphans, stuck>>
      /\ \/ stage' = "final"
         \/ stage' = "recording" /\ Shows(k) = <<>> /\ placed = <<>> /\ ~direct
  BY ReplyParts
<1>2. result' \in {"none", "error", "delivered"}
  BY <1>1 DEF Reply
<1>3. Known' = Known /\ \A id \in Known : Has(sentIds, id)
  BY <1>1, KnownListed DEF Known
<1>4. placed = sentIds /\ stuck = {} /\ Increasing(placed) /\ \A i \in 1..Len(placed) : placed[i] \notin orphans
  BY <1>1 DEF Streamed, ListedInv, Writing
<1>5. ListedInv'
  BY <1>1, <1>2, <1>3, <1>4 DEF ListedInv, Writing, Closing, Increasing
<1>6. FinalInv'
  <2>1. Len(placed) \in Nat /\ 1..0 = {}
    BY DEF StreamTyped
  <2> QED
    BY <1>1, <2>1 DEF FinalInv
<1>7. DoneInv'
  <2>1. Len(<<>>) = 0 /\ 1..0 = {}
    OBVIOUS
  <2> QED
    BY <1>1, <1>3, <1>4, <2>1 DEF DoneInv
<1> QED
  BY <1>1, <1>5, <1>6, <1>7 DEF Streamed, TrimInv

LEMMA DeleteSteps ==
  ASSUME StreamTyped, StageInv, Streamed, ~direct, NEW who \in {"turn", "shutdown"},
         Removed(who) \/ \E ok \in BOOLEAN : RemovePost(who, ok)
  PROVE  Streamed'
<1>1. who = "turn" /\ stage \in {"suppress", "cleanup"} /\ removal["turn"].own
      /\ removal["turn"].i >= 1 /\ removal["turn"].i \in Nat /\ ListOf(who) = sentIds
      /\ Len(sentIds) \in Nat
  <2>1. ASSUME removal[who] = NoList PROVE FALSE
    <3>1. ListOf(who) = <<>> /\ removal[who].i = 0 /\ Len(<<>>) = 0 /\ DOMAIN <<>> = {}
      BY <2>1, TextsOfJobs DEF ListOf
    <3> QED
      BY <3>1 DEF Removed, RemovePost
  <2>2. who = "turn" /\ stage \in {"suppress", "cleanup"} /\ removal["turn"].own /\ removal["turn"].i >= 1
    BY <2>1 DEF StageInv
  <2> QED
    BY <2>2 DEF StreamTyped, Lists, ListOf
<1>2. /\ Increasing(placed) /\ \A i \in 1..Len(placed) : placed[i] \notin orphans
      /\ \A id \in Known : \E k \in removal["turn"].i..Len(sentIds) : sentIds[k] = id
      /\ result = (IF stage = "suppress" THEN "suppressed" ELSE "cancelled")
  BY <1>1 DEF Streamed, ListedInv, StageInv
<1>3. CASE Removed(who)
  <2>1. /\ removal["turn"].i > Len(sentIds) /\ sentIds' = <<>>
        /\ stage' = IF stage = "suppress" THEN "recording" ELSE "over"
        /\ UNCHANGED <<posts, placed, result, orphans, stuck>>
    BY <1>1, <1>3 DEF Removed, histories
  <2>2. Known' = {}
    <3>1. Known = {}
      BY <1>1, <1>2, <2>1
    <3> QED
      BY <2>1, <3>1 DEF Known
  <2> QED
    BY <1>1, <1>2, <2>1, <2>2 DEF Streamed, ListedInv, TrimInv, FinalInv, DoneInv, Writing, Closing, Increasing
<1>4. ASSUME NEW ok \in BOOLEAN, RemovePost(who, ok) PROVE Streamed'
  <2> DEFINE id == sentIds[removal["turn"].i]
  <2>1. /\ posts' = (IF ok THEN [posts EXCEPT ![id] = Gone] ELSE posts) /\ id \in 1..Len(posts)
        /\ Len(posts') = Len(posts) /\ posts \in Seq(Post)
        /\ stuck' = IF ok THEN stuck ELSE stuck \cup {id}
        /\ removal' = [removal EXCEPT !["turn"] = [removal["turn"] EXCEPT !.i = removal["turn"].i + 1]]
        /\ UNCHANGED <<placed, sentIds, stage, job, result, orphans>>
    BY <1>1, <1>4, RemoveParts
  <2>2. removal'["turn"].i = removal["turn"].i + 1
    <3>1. \A l \in Lists : [l EXCEPT !.i = l.i + 1].i = l.i + 1
      BY DEF Lists
    <3>2. removal'["turn"] = [removal["turn"] EXCEPT !.i = removal["turn"].i + 1] /\ removal["turn"] \in Lists
      BY <2>1 DEF StreamTyped
    <3> QED
      BY <3>1, <3>2
  <2>3. ASSUME NEW x \in Known' PROVE x \in Known /\ x # id
    <3>1. x \in 1..Len(posts) /\ posts'[x] # Gone /\ x \notin orphans /\ x \notin stuck'
      BY <2>1, <2>3 DEF Known
    <3>2. x # id
      BY <2>1, <3>1
    <3> QED
      BY <2>1, <3>1, <3>2 DEF Known
  <2>4. \A x \in Known' : \E k \in removal'["turn"].i..Len(sentIds) : sentIds[k] = x
    <3>1. SUFFICES ASSUME NEW x \in Known' PROVE \E k \in (removal["turn"].i + 1)..Len(sentIds) : sentIds[k] = x
      BY <2>2
    <3>2. PICK k \in removal["turn"].i..Len(sentIds) : sentIds[k] = x
      BY <1>2, <2>3
    <3>3. k # removal["turn"].i
      BY <2>3, <3>2
    <3> QED
      BY <1>1, <3>2, <3>3
  <2> QED
    BY <1>1, <1>2, <2>1, <2>4 DEF Streamed, ListedInv, TrimInv, FinalInv, DoneInv, Writing, Closing, Increasing
<1> QED
  BY <1>3, <1>4

LEMMA TrimSteps ==
  ASSUME StreamTyped, StageInv, Streamed, ~direct, NEW ok \in BOOLEAN, Trim(ok)
  PROVE  Streamed'
<1> DEFINE id == Head(job.todo)
           todo == Tail(job.todo)
           kept == SubSeq(placed, 1, Len(job.texts))
<1>1. /\ stage = "trim" /\ id \in 1..Len(posts) /\ id = job.todo[1]
      /\ Len(todo) = Len(job.todo) - 1 /\ Len(job.todo) \in Nat /\ Len(job.todo) >= 1
      /\ \A k \in 1..Len(todo) : k + 1 \in 1..Len(job.todo) /\ todo[k] = job.todo[k + 1]
      /\ posts' = (IF ok THEN [posts EXCEPT ![id] = Gone] ELSE posts)
      /\ Len(posts') = Len(posts) /\ posts \in Seq(Post)
      /\ stuck' = IF ok THEN stuck ELSE stuck \cup {id}
      /\ job'.todo = todo /\ job'.texts = job.texts /\ job'.ok = (job.ok /\ ok)
      /\ Len(job.texts) \in Nat /\ todo \in Seq(Nat)
      /\ IF todo = <<>> THEN /\ stage' = "recording" /\ placed' = kept /\ sentIds' = kept
                             /\ result' \in {"error", "delivered", "failed"}
         ELSE UNCHANGED <<stage, placed, sentIds, result, removal>>
      /\ UNCHANGED orphans
  BY TrimParts
<1>2. /\ placed \in Seq(Nat) /\ placed = sentIds /\ Len(placed) \in Nat /\ Len(job.texts) < Len(placed)
      /\ Increasing(placed) /\ \A i \in 1..Len(placed) : placed[i] \notin orphans
      /\ \A k \in 1..Len(job.todo) : \E i \in Len(job.texts) + 1..Len(placed) : job.todo[k] = placed[i]
      /\ \A x \in Known : \/ \E i \in 1..Len(job.texts) : i <= Len(placed) /\ placed[i] = x
                          \/ Has(job.todo, x)
      /\ \A i \in 1..Len(job.texts) : placed[i] \notin stuck
      /\ job.ok => \A i \in 1..Len(job.texts) : posts[placed[i]] = job.texts[i]
      /\ job.ok \in BOOLEAN
  <2>1. placed \in Seq(Nat) /\ Len(placed) \in Nat /\ Len(job.texts) < Len(placed) /\ job.ok \in BOOLEAN
    BY <1>1 DEF StreamTyped, Jobs
  <2>2. placed = sentIds /\ Increasing(placed) /\ \A i \in 1..Len(placed) : placed[i] \notin orphans
    BY <1>1 DEF Streamed, ListedInv, Closing
  <2>3. TrimInv
    BY DEF Streamed
  <2> QED
    BY <1>1, <2>1, <2>2, <2>3 DEF TrimInv
<1> HIDE DEF id, todo, kept
<1>3. \A i \in 1..Len(job.texts) : i \in 1..Len(placed) /\ placed[i] # id
  <2>1. SUFFICES ASSUME NEW i \in 1..Len(job.texts) PROVE i \in 1..Len(placed) /\ placed[i] # id
    OBVIOUS
  <2>2. PICK l \in Len(job.texts) + 1..Len(placed) : id = placed[l]
    BY <1>1, <1>2
  <2>3. i \in 1..Len(placed) /\ l \in 1..Len(placed) /\ i < l
    BY <1>1, <1>2
  <2>4. placed[i] < placed[l] /\ placed[i] \in Nat /\ placed[l] \in Nat
    BY <1>2, <2>3 DEF Increasing
  <2> QED
    BY <2>2, <2>3, <2>4
<1>4. ASSUME NEW x \in Known'
      PROVE  \/ \E i \in 1..Len(job.texts) : i <= Len(placed) /\ placed[i] = x
             \/ Has(todo, x)
  <2>1. x \in 1..Len(posts) /\ posts'[x] # Gone /\ x \notin orphans /\ x \notin stuck'
    BY <1>1, <1>4 DEF Known
  <2>2. x # id
    BY <1>1, <2>1
  <2>3. x \in Known
    BY <1>1, <2>1, <2>2 DEF Known
  <2>4. ASSUME Has(job.todo, x) PROVE Has(todo, x)
    <3>1. PICK k \in 1..Len(job.todo) : job.todo[k] = x
      BY <2>4 DEF Has
    <3>2. k # 1
      BY <1>1, <2>2, <3>1
    <3>3. k - 1 \in 1..Len(todo) /\ (k - 1) + 1 = k
      BY <1>1, <3>1, <3>2
    <3> QED
      BY <1>1, <3>1, <3>3 DEF Has
  <2> QED
    BY <1>2, <2>3, <2>4
<1>5. \A i \in 1..Len(job.texts) : placed[i] \notin stuck'
  BY <1>1, <1>2, <1>3
<1>6. job'.ok => \A i \in 1..Len(job.texts) : posts'[placed[i]] = job.texts[i]
  <2>1. SUFFICES ASSUME job'.ok, NEW i \in 1..Len(job.texts) PROVE posts'[placed[i]] = job.texts[i]
    OBVIOUS
  <2>2. posts[placed[i]] = job.texts[i] /\ placed[i] # id
    BY <1>1, <1>2, <1>3, <2>1
  <2>3. placed[i] \in 1..Len(posts)
    BY <1>3 DEF StreamTyped, Bound
  <2> QED
    BY <1>1, <2>2, <2>3
<1>7. CASE todo # <<>>
  <2>1. UNCHANGED <<stage, placed, sentIds, result, removal>> /\ stage' = "trim"
    BY <1>1, <1>7
  <2>2. TrimInv'
    <3>1. \A k \in 1..Len(todo) : \E i \in Len(job.texts) + 1..Len(placed) : todo[k] = placed[i]
      BY <1>1, <1>2
    <3>2. job'.texts = job.texts /\ job'.todo = todo /\ placed' = placed
      BY <1>1, <2>1
    <3>3. \A k \in 1..Len(job'.todo) : \E i \in Len(job'.texts) + 1..Len(placed') : job'.todo[k] = placed'[i]
      BY <3>1, <3>2
    <3>4. \A x \in Known' : \/ \E i \in 1..Len(job'.texts) : i <= Len(placed') /\ placed'[i] = x
                            \/ Has(job'.todo, x)
      BY <1>4, <3>2
    <3>5. \A i \in 1..Len(job'.texts) : placed'[i] \notin stuck'
      BY <1>5, <3>2
    <3>6. job'.ok => \A i \in 1..Len(job'.texts) : posts'[placed'[i]] = job'.texts[i]
      BY <1>6, <3>2
    <3> QED
      BY <3>3, <3>4, <3>5, <3>6 DEF TrimInv
  <2>3. ListedInv'
    BY <1>1, <1>2, <2>1 DEF ListedInv, Writing, Closing, Increasing
  <2> QED
    BY <2>1, <2>2, <2>3 DEF Streamed, FinalInv, DoneInv
<1>8. CASE todo = <<>>
  <2>1. /\ stage' = "recording" /\ placed' = kept /\ sentIds' = kept
        /\ result' \in {"error", "delivered", "failed"}
    BY <1>1, <1>8
  <2>2. /\ kept \in Seq(Nat) /\ Len(kept) = Len(job.texts)
        /\ \A i \in 1..Len(job.texts) : i \in 1..Len(placed) /\ kept[i] = placed[i]
    <3>1. Len(job.texts) <= Len(placed)
      BY <1>1, <1>2
    <3> QED
      BY <1>1, <1>2, <3>1, FirstOnes DEF kept
  <2>3. \A x \in Known' : Has(kept, x)
    <3>1. \A x : ~Has(todo, x)
      BY <1>8, EmptyHas
    <3> QED
      BY <1>4, <2>2, <3>1 DEF Has
  <2>4. Increasing(kept) /\ \A i \in 1..Len(kept) : kept[i] \notin orphans
    BY <1>2, <2>2 DEF Increasing
  <2>5. ListedInv'
    <3>1. /\ Increasing(placed)' /\ \A i \in 1..Len(placed') : placed'[i] \notin orphans'
          /\ placed' = sentIds' /\ \A x \in Known' : Has(sentIds', x)
      BY <1>1, <2>1, <2>3, <2>4 DEF Increasing
    <3>2. stage' = "recording" /\ result' # "suppressed"
      BY <2>1
    <3> QED
      BY <3>1, <3>2 DEF ListedInv, Writing, Closing
  <2>6. DoneInv'
    <3>1. job'.texts = job.texts /\ placed' = kept /\ Len(kept) \in Nat
      BY <1>1, <2>1, <2>2
    <3>2. job'.ok => \A i \in 1..Len(kept) : posts'[kept[i]] = job.texts[i]
      BY <1>6, <2>2
    <3>3. \A i \in 1..Len(kept) : kept[i] \notin stuck'
      BY <1>5, <2>2
    <3> QED
      BY <2>2, <2>3, <3>1, <3>2, <3>3 DEF DoneInv
  <2> QED
    BY <2>1, <2>5, <2>6 DEF Streamed, TrimInv, FinalInv
<1> QED
  BY <1>7, <1>8

(* The posts and the list after an answer. *)
LEMMA PostedLists ==
  ASSUME StreamTyped, NEW ok \in BOOLEAN, NEW told \in BOOLEAN, told => ok, NEW i \in 1..Len(job.texts),
         Posted(i, ok, told), ~direct, UNCHANGED stuck, stuck = {},
         placed = sentIds, Increasing(placed), \A n \in 1..Len(placed) : placed[n] \notin orphans,
         \A x \in Known : Has(sentIds, x)
  PROVE  /\ placed' = sentIds' /\ Increasing(placed)' /\ \A n \in 1..Len(placed') : placed'[n] \notin orphans'
         /\ \A x \in Known' : Has(sentIds', x)
         /\ told => /\ IF i <= Len(placed) THEN Len(placed') = Len(placed) ELSE Len(placed') = Len(placed) + 1
                    /\ (i <= Len(placed) + 1 => posts'[placed'[i]] = job.texts[i])
                    /\ \A n \in 1..Len(placed) : n # i => posts'[placed'[n]] = posts[placed[n]]
<1>1. /\ posts \in Seq(Post) /\ placed \in Seq(Nat) /\ Bound(placed) /\ Len(placed) \in Nat /\ Len(posts) \in Nat
      /\ job.texts[i] \in Post /\ i \in Nat /\ i >= 1
      /\ job.texts[i] \in Text /\ orphans \subseteq 1..Len(posts)
  BY TextsDiffer DEF StreamTyped, Jobs
<1>2. CASE Edits(i)
  <2>1. /\ (ok => posts[placed[i]] # Gone) /\ UNCHANGED <<placed, sentIds, orphans>>
        /\ posts' = IF ok THEN [posts EXCEPT ![placed[i]] = job.texts[i]] ELSE posts
    BY <1>2 DEF Posted
  <2>2. i \in 1..Len(placed) /\ placed[i] \in 1..Len(posts)
    BY <1>1, <1>2 DEF Edits, Bound
  <2>3. Len(posts') = Len(posts) /\ \A n \in 1..Len(posts) : n # placed[i] => posts'[n] = posts[n]
    BY <1>1, <2>1, <2>2
  <2>4. Known' \subseteq Known
    BY <2>1, <2>2, <2>3 DEF Known
  <2>5. ASSUME told
        PROVE  /\ posts'[placed'[i]] = job.texts[i]
               /\ \A n \in 1..Len(placed) : n # i => posts'[placed'[n]] = posts[placed[n]]
    <3>1. posts'[placed'[i]] = job.texts[i]
      BY <1>1, <2>1, <2>2, <2>5
    <3>2. ASSUME NEW n \in 1..Len(placed), n # i PROVE posts'[placed'[n]] = posts[placed[n]]
      <4>1. placed[n] # placed[i]
        <5>1. n < i \/ i < n
          BY <1>1, <3>2
        <5>2. placed[n] < placed[i] \/ placed[i] < placed[n]
          BY <2>2, <5>1 DEF Increasing
        <5> QED
          BY <1>1, <2>2, <5>2 DEF Bound
      <4>2. placed[n] \in 1..Len(posts)
        BY <1>1 DEF Bound
      <4> QED
        BY <2>1, <2>3, <4>1, <4>2
    <3> QED
      BY <3>1, <3>2
  <2> QED
    BY <2>1, <2>2, <2>4, <2>5, SMTT(30) DEF Increasing
<1>3. CASE ~Edits(i)
  <2>1. /\ posts' = (IF ok THEN Append(posts, job.texts[i]) ELSE posts)
        /\ placed' = (IF told THEN Append(placed, Len(posts) + 1) ELSE placed)
        /\ sentIds' = (IF told THEN Append(sentIds, Len(posts) + 1) ELSE sentIds)
        /\ orphans' = IF ok /\ ~told THEN orphans \cup {Len(posts) + 1} ELSE orphans
        /\ i > Len(placed)
    BY <1>1, <1>3 DEF Posted, Edits
  <2>2. \A n \in 1..Len(placed) : placed[n] \in 1..Len(posts) /\ placed[n] # Len(posts) + 1
    BY <1>1 DEF Bound
  <2>3. CASE ~ok
    <3>1. UNCHANGED <<posts, placed, sentIds, orphans>>
      BY <2>1, <2>3
    <3>2. Known' = Known
      BY <3>1 DEF Known
    <3> QED
      BY <2>3, <3>1, <3>2 DEF Increasing
  <2>4. CASE ok
    <3>1. PICK q \in Post : q = job.texts[i]
      BY <1>1
    <3>2. /\ posts' \in Seq(Post) /\ Len(posts') = Len(posts) + 1 /\ posts'[Len(posts) + 1] = q
          /\ \A n \in 1..Len(posts) : posts'[n] = posts[n]
      BY <1>1, <2>1, <2>4, <3>1, AppendProperties
    <3>3. 1..Len(posts') = 1..Len(posts) \cup {Len(posts) + 1}
      BY <1>1, <3>2
    <3>4. CASE ~told
      <4>1. Known' \subseteq Known
        BY <2>1, <2>4, <3>2, <3>3, <3>4 DEF Known
      <4>2. UNCHANGED <<placed, sentIds>> /\ orphans' = orphans \cup {Len(posts) + 1}
        BY <2>1, <2>4, <3>4
      <4>3. \A n \in 1..Len(placed) : placed[n] \notin orphans'
        BY <2>2, <4>2
      <4> QED
        BY <3>4, <4>1, <4>2, <4>3 DEF Increasing
    <3>5. CASE told
      <4> DEFINE p == Append(placed, Len(posts) + 1)
      <4>1. placed' = p /\ sentIds' = p /\ orphans' = orphans
        BY <2>1, <3>5
      <4>2. /\ p \in Seq(Nat) /\ Len(p) = Len(placed) + 1 /\ p[Len(placed) + 1] = Len(posts) + 1
            /\ \A n \in 1..Len(placed) : p[n] = placed[n]
        <5>1. Len(posts) + 1 \in Nat
          BY <1>1
        <5> QED
          BY <1>1, <5>1, AppendProperties
      <4> HIDE DEF p
      <4>3. 1..Len(p) = 1..Len(placed) \cup {Len(placed) + 1}
        BY <1>1, <4>2
      <4>4. Increasing(p)
        <5>1. SUFFICES ASSUME NEW n \in 1..Len(p), NEW l \in 1..Len(p), n < l PROVE p[n] < p[l]
          BY DEF Increasing
        <5>2. n \in 1..Len(placed)
          BY <1>1, <4>2, <5>1
        <5>3. CASE l \in 1..Len(placed)
          BY <4>2, <5>1, <5>2, <5>3 DEF Increasing
        <5>4. CASE l = Len(placed) + 1
          <6>1. p[l] = Len(posts) + 1 /\ p[n] \in 1..Len(posts)
            BY <2>2, <4>2, <5>2, <5>4
          <6> QED
            BY <1>1, <6>1
        <5> QED
          BY <4>3, <5>3, <5>4
      <4>5. \A n \in 1..Len(p) : p[n] \notin orphans'
        <5>1. Len(posts) + 1 \notin orphans
          BY <1>1
        <5> QED
          BY <4>1, <4>2, <4>3, <5>1
      <4>6. \A x \in Known' : Has(p, x)
        <5>1. SUFFICES ASSUME NEW x \in Known' PROVE Has(p, x)
          OBVIOUS
        <5>2. CASE x = Len(posts) + 1
          <6>1. Len(placed) + 1 \in 1..Len(p)
            BY <4>3
          <6> QED
            BY <4>2, <5>2, <6>1 DEF Has
        <5>3. CASE x # Len(posts) + 1
          <6>1. x \in Known
            BY <3>2, <3>3, <4>1, <5>1, <5>3 DEF Known
          <6>2. PICK n \in 1..Len(placed) : placed[n] = x
            BY <6>1 DEF Has
          <6> QED
            BY <4>2, <4>3, <6>2 DEF Has
        <5> QED
          BY <5>2, <5>3
      <4>7. i <= Len(placed) + 1 => posts'[p[i]] = job.texts[i]
        <5>1. i <= Len(placed) + 1 => i = Len(placed) + 1
          BY <1>1, <2>1
        <5> QED
          BY <3>1, <3>2, <4>2, <5>1
      <4>8. ASSUME NEW n \in 1..Len(placed) PROVE posts'[p[n]] = posts[placed[n]]
        <5>1. p[n] = placed[n] /\ placed[n] \in 1..Len(posts)
          BY <2>2, <4>2
        <5> QED
          BY <3>2, <5>1
      <4>9. ~(i <= Len(placed)) /\ Len(p) = Len(placed) + 1
        BY <1>1, <2>1, <4>2
      <4> QED
        BY <4>1, <4>4, <4>5, <4>6, <4>7, <4>8, <4>9 DEF Increasing
    <3> QED
      BY <3>4, <3>5
  <2> QED
    BY <2>3, <2>4
<1> QED
  BY <1>2, <1>3

LEMMA AnswerSteps ==
  ASSUME StreamTyped, StageInv, Streamed, ~direct, NEW ok \in BOOLEAN, NEW told \in BOOLEAN,
         DiscordAnswers(ok, told), StreamTyped'
  PROVE  Streamed'
<1> DEFINE i == Head(job.todo)
           j == [job EXCEPT !.todo = Left(told), !.ok = @ /\ told]
<1>1. /\ stage \in {"push", "final"} /\ job.todo # <<>> /\ (told => ok) /\ Posted(i, ok, told)
      /\ IF Left(told) # <<>> THEN job' = j /\ UNCHANGED <<stage, shownChunks, result>>
         ELSE IF stage = "push" THEN PushEnds(j) ELSE FinalEnds(placed', j)
      /\ UNCHANGED <<direct, removal, stuck>>
      /\ i \in 1..Len(job.texts) /\ i = job.todo[1]
      /\ job.texts \in Seq(Text) /\ Left(told) \in Seq(Nat)
      /\ Len(Left(told)) = Len(job.todo) - 1
      /\ \A k \in 1..Len(Left(told)) : k + 1 \in 1..Len(job.todo) /\ Left(told)[k] = job.todo[k + 1]
      /\ j \in Jobs /\ j.texts = job.texts /\ j.todo = Left(told) /\ j.ok = (job.ok /\ told)
  BY AnswerParts
<1> HIDE DEF i, j
<1>2. /\ placed = sentIds /\ stuck = {} /\ Increasing(placed) /\ \A n \in 1..Len(placed) : placed[n] \notin orphans
      /\ \A x \in Known : Has(sentIds, x)
  BY <1>1, KnownListed DEF Streamed, ListedInv, Writing, Closing
<1>3. /\ placed' = sentIds' /\ Increasing(placed)' /\ \A n \in 1..Len(placed') : placed'[n] \notin orphans'
      /\ \A x \in Known' : Has(sentIds', x)
      /\ told => /\ IF i <= Len(placed) THEN Len(placed') = Len(placed) ELSE Len(placed') = Len(placed) + 1
                 /\ (i <= Len(placed) + 1 => posts'[placed'[i]] = job.texts[i])
                 /\ \A n \in 1..Len(placed) : n # i => posts'[placed'[n]] = posts[placed[n]]
  BY <1>1, <1>2, PostedLists
<1>4. /\ \/ stage' = stage /\ job' = j /\ result' = result /\ Left(told) # <<>>
         \/ stage = "push" /\ stage' = "generating" /\ result' = result
         \/ stage = "final" /\ stage' = "trim" /\ job' = [j EXCEPT !.todo = Stale(placed', j)] /\ result' = result
            /\ Left(told) = <<>> /\ Stale(placed', j) # <<>>
         \/ /\ stage = "final" /\ stage' = "recording" /\ job' = j /\ Left(told) = <<>> /\ Stale(placed', j) = <<>>
            /\ result' \in {"error", "delivered", "failed"}
  BY <1>1 DEF PushEnds, FinalEnds
<1>5. stuck' = {}
  BY <1>1, <1>2
<1>6. ListedInv'
  <2>1. /\ stage' \in {"generating", "push", "final", "trim", "recording"}
        /\ stage' = "recording" => result' # "suppressed"
    BY <1>1, <1>4
  <2> QED
    BY <1>3, <1>5, <2>1 DEF ListedInv, Writing, Closing
<1>7. CASE stage = "push"
  BY <1>4, <1>6, <1>7 DEF Streamed, TrimInv, FinalInv, DoneInv
<1>8. CASE stage = "final"
  <2>0. Len(placed) \in Nat /\ Len(placed') \in Nat /\ Len(job.texts) \in Nat /\ placed' \in Seq(Nat)
    <3>1. placed \in Seq(Nat) /\ placed' \in Seq(Nat)
      BY DEF StreamTyped
    <3> QED
      BY <1>1, <3>1
  <2>1. /\ i = Shown + 1 /\ Shown \in Nat
        /\ Len(job.texts) - Len(Left(told)) = Shown + 1
        /\ \A k \in 1..Len(Left(told)) : Left(told)[k] = (Len(job.texts) - Len(Left(told))) + k
        /\ (Left(told) = <<>> <=> Shown + 1 = Len(job.texts))
    <3>1. Ahead
      BY <1>8 DEF Streamed, FinalInv
    <3> QED
      BY <1>1, <3>1, AheadStep
  <2>2. ASSUME j.ok
        PROVE  Shown + 1 <= Len(placed') /\ \A n \in 1..(Shown + 1) : posts'[placed'[n]] = job.texts[n]
    <3>1. told /\ Shown <= Len(placed) /\ \A n \in 1..Shown : posts[placed[n]] = job.texts[n]
      BY <1>1, <1>8, <2>2 DEF Streamed, FinalInv
    <3>2. i <= Len(placed) + 1 /\ Shown + 1 <= Len(placed')
      BY <1>3, <2>0, <2>1, <3>1
    <3>3. posts'[placed'[Shown + 1]] = job.texts[Shown + 1]
      BY <1>3, <2>1, <3>1, <3>2
    <3>4. \A n \in 1..Shown : posts'[placed'[n]] = job.texts[n]
      <4>1. \A n \in 1..Shown : n \in 1..Len(placed) /\ n # i
        BY <2>0, <2>1, <3>1
      <4> QED
        BY <1>3, <3>1, <4>1
    <3>5. 1..(Shown + 1) = 1..Shown \cup {Shown + 1}
      BY <2>1
    <3> QED
      BY <3>2, <3>3, <3>4, <3>5
  <2>3. CASE stage' = stage
    <3>1. job' = j /\ stage' = "final"
      BY <1>4, <1>8, <2>3
    <3>2. job'.texts = job.texts /\ job'.todo = Left(told)
      BY <1>1, <3>1
    <3>3. Shown' = Shown + 1 /\ Ahead'
      <4>1. Len(job'.texts) - Len(job'.todo) = Shown + 1 /\ Shown + 1 \in Nat
        BY <2>1, <3>2
      <4>2. \A k \in 1..Len(job'.todo) : job'.todo[k] = (Shown + 1) + k
        BY <2>1, <3>2
      <4> QED
        BY <4>1, <4>2 DEF Ahead, Shown
    <3>4. FinalInv'
      BY <2>2, <3>1, <3>2, <3>3 DEF FinalInv
    <3> QED
      BY <1>6, <3>1, <3>4 DEF Streamed, TrimInv, DoneInv
  <2>4. CASE stage' = "trim"
    <3>1. /\ job' = [j EXCEPT !.todo = Stale(placed', j)] /\ Left(told) = <<>> /\ Stale(placed', j) # <<>>
      BY <1>4, <1>8, <2>4
    <3>2. job'.texts = job.texts /\ job'.todo = Stale(placed', j) /\ job'.ok = j.ok
      BY <1>1, <3>1 DEF Jobs
    <3>3. /\ Len(job.texts) < Len(placed') /\ Shown + 1 = Len(job.texts)
          /\ Stale(placed', j) \in Seq(Nat) /\ Len(Stale(placed', j)) = Len(placed') - Len(job.texts)
          /\ \A k \in 1..Len(Stale(placed', j)) : /\ Len(job.texts) + k \in 1..Len(placed')
                                                  /\ Stale(placed', j)[k] = placed'[Len(job.texts) + k]
      <4>1. Len(j.texts) < Len(placed')
        BY <1>1, <2>0, <3>1, StaleIs
      <4>2. /\ Stale(placed', j) \in Seq(Nat) /\ Len(Stale(placed', j)) = Len(placed') - Len(j.texts)
            /\ \A k \in 1..Len(Stale(placed', j)) : /\ Len(j.texts) + k \in 1..Len(placed')
                                                    /\ Stale(placed', j)[k] = placed'[Len(j.texts) + k]
        BY <1>1, <2>0, <4>1, StaleIs
      <4>3. j.texts = job.texts /\ Shown + 1 = Len(job.texts)
        BY <1>1, <2>1, <3>1
      <4> QED
        BY <4>1, <4>2, <4>3
    <3>4. \A k \in 1..Len(job'.todo) : \E n \in Len(job'.texts) + 1..Len(placed') : job'.todo[k] = placed'[n]
      <4>1. SUFFICES ASSUME NEW k \in 1..Len(Stale(placed', j))
                     PROVE  \E n \in Len(job.texts) + 1..Len(placed') : Stale(placed', j)[k] = placed'[n]
        BY <3>2
      <4>2. Len(job.texts) + k \in Len(job.texts) + 1..Len(placed')
        BY <2>0, <3>3
      <4> QED
        BY <3>3, <4>2
    <3>5. ASSUME NEW x \in Known'
          PROVE  \/ \E n \in 1..Len(job'.texts) : n <= Len(placed') /\ placed'[n] = x
                 \/ Has(job'.todo, x)
      <4>1. PICK n \in 1..Len(placed') : placed'[n] = x
        BY <1>3, <3>5 DEF Has
      <4>2. CASE n <= Len(job.texts)
        BY <2>0, <3>2, <4>1, <4>2
      <4>3. CASE n > Len(job.texts)
        <5>1. n - Len(job.texts) \in 1..Len(Stale(placed', j)) /\ Len(job.texts) + (n - Len(job.texts)) = n
          BY <2>0, <3>3, <4>1, <4>3
        <5>2. Stale(placed', j)[n - Len(job.texts)] = x
          BY <3>3, <4>1, <5>1
        <5> QED
          BY <3>2, <5>1, <5>2 DEF Has
      <4> QED
        BY <2>0, <4>1, <4>2, <4>3
    <3>6. \A n \in 1..Len(job'.texts) : placed'[n] \notin stuck'
      BY <1>5
    <3>7. job'.ok => \A n \in 1..Len(job'.texts) : posts'[placed'[n]] = job'.texts[n]
      BY <2>2, <3>2, <3>3
    <3>8. TrimInv'
      BY <2>4, <3>4, <3>5, <3>6, <3>7 DEF TrimInv
    <3> QED
      BY <1>6, <2>4, <3>8 DEF Streamed, FinalInv, DoneInv
  <2>5. CASE stage' = "recording"
    <3>1. job' = j /\ Left(told) = <<>> /\ Stale(placed', j) = <<>>
      BY <1>4, <1>8, <2>5
    <3>2. ~(Len(job.texts) < Len(placed')) /\ Shown + 1 = Len(job.texts)
      BY <1>1, <2>0, <2>1, <3>1, StaleIs
    <3>3. DoneInv'
      <4>1. SUFFICES ASSUME j.ok
                     PROVE  /\ Len(placed') = Len(job.texts)
                            /\ \A n \in 1..Len(placed') : posts'[placed'[n]] = job.texts[n] /\ placed'[n] \notin stuck'
                            /\ \A x \in Known' : Has(placed', x)
        BY <1>1, <3>1 DEF DoneInv
      <4>2. Len(placed') = Len(job.texts)
        BY <2>0, <2>2, <3>2, <4>1
      <4> QED
        BY <1>3, <1>5, <2>2, <3>2, <4>1, <4>2
    <3> QED
      BY <1>6, <2>5, <3>3 DEF Streamed, FinalInv, TrimInv
  <2> QED
    BY <1>4, <1>8, <2>3, <2>4, <2>5
<1> QED
  BY <1>1, <1>7, <1>8

LEMMA StreamStep == StreamInv /\ [StreamNext]_streamVars => StreamInv'
<1> SUFFICES ASSUME StreamInv, [StreamNext]_streamVars PROVE StreamInv'
  OBVIOUS
<1>1. StreamTyped /\ StreamTyped'
  BY TypesStep DEF StreamInv
<1>2. CASE UNCHANGED streamVars
  <2>1. UNCHANGED <<posts, placed, sentIds, closed, direct, stage, job, removal, owned, result, swept, orphans, stuck>>
    BY <1>2 DEF streamVars
  <2>2. Known' = Known
    BY <2>1 DEF Known
  <2>3. StageInv => StageInv'
    BY <2>1 DEF StageInv
  <2>4. ReplyInv => ReplyInv'
    <3>1. ListedInv => ListedInv'
      BY <2>1, <2>2 DEF ListedInv, Increasing
    <3>2. TrimInv => TrimInv'
      BY <2>1, <2>2 DEF TrimInv
    <3>3. FinalInv => FinalInv'
      BY <2>1 DEF FinalInv, Ahead, Shown
    <3>4. DoneInv => DoneInv'
      BY <2>1, <2>2 DEF DoneInv
    <3>5. SentInv => SentInv'
      BY <2>1 DEF SentInv, Ahead, Shown
    <3> QED
      BY <2>1, <3>1, <3>2, <3>3, <3>4, <3>5 DEF ReplyInv
  <2> QED
    BY <1>1, <2>1, <2>3, <2>4 DEF StreamInv
<1>3. CASE ShutdownDeletes
  <2>1. swept'
    BY <1>3 DEF ShutdownDeletes
  <2> QED
    BY <1>1, <2>1 DEF StreamInv
<1>4. CASE StreamNext /\ ~ShutdownDeletes
  <2>1. \/ \E b \in BOOLEAN : Append1(b) \/ Trim(b) \/ CancelTurn(b) \/ Deadline(b)
        \/ \E ok, told \in BOOLEAN : DiscordAnswers(ok, told)
        \/ \E k \in 0..MaxFinal, raised \in BOOLEAN : Reply(k, raised)
        \/ Suppress \/ Forget \/ CancelCleanUp
        \/ \E who \in {"turn", "shutdown"} : Removed(who) \/ \E ok \in BOOLEAN : RemovePost(who, ok)
    BY <1>4, ZenonT(40) DEF StreamNext
  <2>2. UNCHANGED <<direct, swept>>
    BY <2>1 DEF Append1, Trim, CancelTurn, Deadline, DiscordAnswers, Reply, Suppress, Forget, CancelCleanUp,
       Removed, RemovePost, ownVars, histories
  <2>3. ASSUME ~swept PROVE StageInv' /\ ReplyInv'
    <3>1. StageInv /\ ReplyInv
      BY <2>3 DEF StreamInv
    <3>2. StageInv'
      BY <1>1, <2>1, <3>1, StageStep, Zenon
    <3>3. CASE direct
      <4>1. SentInv'
        BY <1>1, <2>1, <3>1, <3>3, DirectStep, Zenon
      <4> QED
        BY <2>2, <3>2, <3>3, <4>1 DEF ReplyInv
    <3>4. CASE ~direct
      <4>1. Streamed
        BY <3>1, <3>4 DEF ReplyInv, Streamed
      <4>2. Streamed'
        <5>1. CASE (\E b \in BOOLEAN : Append1(b)) \/ Suppress \/ Forget \/ CancelCleanUp
          BY <1>1, <3>1, <3>4, <4>1, <5>1, SimpleSteps, Zenon
        <5>2. ASSUME NEW b \in BOOLEAN, Trim(b) PROVE Streamed'
          BY <1>1, <3>1, <3>4, <4>1, <5>2, TrimSteps, Zenon
        <5>3. ASSUME NEW b \in BOOLEAN, CancelTurn(b) \/ Deadline(b) PROVE Streamed'
          BY <1>1, <3>1, <3>4, <4>1, <5>3, BreakSteps, Zenon
        <5>4. ASSUME NEW ok \in BOOLEAN, NEW told \in BOOLEAN, DiscordAnswers(ok, told) PROVE Streamed'
          BY <1>1, <3>1, <3>4, <4>1, <5>4, AnswerSteps, Zenon
        <5>5. ASSUME NEW k \in 0..MaxFinal, NEW raised \in BOOLEAN, Reply(k, raised) PROVE Streamed'
          BY <1>1, <3>1, <3>4, <4>1, <5>5, ReplySteps, Zenon
        <5>6. ASSUME NEW who \in {"turn", "shutdown"}, Removed(who) \/ \E ok \in BOOLEAN : RemovePost(who, ok)
              PROVE Streamed'
          BY <1>1, <3>1, <3>4, <4>1, <5>6, DeleteSteps, Zenon
        <5> QED
          BY <2>1, <5>1, <5>2, <5>3, <5>4, <5>5, <5>6
      <4> QED
        BY <2>2, <3>2, <3>4, <4>2 DEF ReplyInv, Streamed
    <3> QED
      BY <3>2, <3>3, <3>4
  <2> QED
    BY <1>1, <2>2, <2>3 DEF StreamInv
<1> QED
  BY <1>2, <1>3, <1>4

(* However its requests to Discord fail, take effect unseen or are cut     *)
(* off, a turn that is over shows in the channel exactly the reply that    *)
(* its delivery reports, and none that it suppressed or was cancelled in.  *)
THEOREM ChannelShowsTheReply == StreamSpec => []ShownIsReply
<1>1. StreamInit => StreamInv
  BY StreamStarts
<1>2. StreamInv /\ [StreamNext]_streamVars => StreamInv'
  BY StreamStep
<1>3. StreamInv => ShownIsReply
  BY ShownWhenOver DEF StreamInv, ShownIsReply
<1> QED
  BY <1>1, <1>2, <1>3, PTL DEF StreamSpec
=============================================================================
