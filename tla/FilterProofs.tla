---------------------------- MODULE FilterProofs ----------------------------
(* What a filter keeps, for every sequence: by induction over its length.  *)
(* An induction is a minimal counterexample here: the set of the numbers   *)
(* for which a fact fails would have a least element.                      *)
EXTENDS Filters, SequenceTheorems, WellFoundedInduction, TLAPS

Below == {ss \in Nat \X Nat : ss[1] < ss[2]}

LEMMA NatOrder == IsWellFoundedOn(Below, Nat)
  BY NatLessThanWellFounded DEF OpToRel, Below

(* A set of numbers has a least one.                                       *)
LEMMA LeastOne ==
  ASSUME NEW S \in SUBSET Nat, S # {}
  PROVE  \E x \in S : \A y \in S : x <= y
<1>1. PICK x \in S : \A y \in S : ~ (<<y, x>> \in Below)
  BY NatOrder, WFMin
<1>2. ASSUME NEW y \in S PROVE x <= y
  <2>1. x \in Nat /\ y \in Nat
    OBVIOUS
  <2>2. y < x => <<y, x>> \in Below
    BY <2>1 DEF Below
  <2> QED
    BY <1>1, <2>1, <2>2
<1> QED
  BY <1>2

(* Induction, with the set of the numbers for which a fact holds.          *)
LEMMA Inductive ==
  ASSUME NEW T, 0 \in T, \A n \in Nat : n \in T => n + 1 \in T
  PROVE  Nat \subseteq T
<1>1. SUFFICES ASSUME Nat \ T # {} PROVE FALSE
  OBVIOUS
<1>2. PICK x \in Nat \ T : \A y \in Nat \ T : x <= y
  BY <1>1, LeastOne
<1>3. x \in Nat /\ x # 0 /\ x - 1 \in Nat /\ ~ (x <= x - 1)
  OBVIOUS
<1>4. x - 1 \in T
  BY <1>2, <1>3
<1>5. (x - 1) + 1 \in T /\ (x - 1) + 1 = x
  BY <1>3, <1>4
<1> QED
  BY <1>5

(* The recursive function exists: it is the same up to every position.     *)
Partial(s, Q, m, f) ==
    f = [n \in 0..m |-> IF n = 0 THEN <<>>
                        ELSE IF s[n] \in Q THEN Append(f[n - 1], s[n]) ELSE f[n - 1]]

LEMMA Longer ==
  ASSUME NEW s, NEW Q, NEW m \in Nat, NEW f, Partial(s, Q, m, f)
  PROVE  \E g : Partial(s, Q, m + 1, g)
<1> DEFINE More(t, n) == IF s[n] \in Q THEN Append(t, s[n]) ELSE t
           g == [n \in 0..(m + 1) |-> IF n = m + 1 THEN More(f[m], m + 1) ELSE f[n]]
<1>1. f = [n \in 0..m |-> IF n = 0 THEN <<>> ELSE More(f[n - 1], n)]
  BY DEF Partial
<1>2. \A h : h = [n \in 0..(m + 1) |-> IF n = 0 THEN <<>> ELSE More(h[n - 1], n)]
               => Partial(s, Q, m + 1, h)
  BY DEF Partial
<1> HIDE DEF More
<1>3. ASSUME NEW n \in 0..(m + 1)
      PROVE  g[n] = IF n = 0 THEN <<>> ELSE More(g[n - 1], n)
  <2>1. CASE n = m + 1
    BY <2>1
  <2>2. CASE n # m + 1 /\ n # 0
    <3>1. n \in 0..m /\ n - 1 \in 0..m /\ n - 1 # m + 1
      BY <2>2
    <3>2. f[n] = More(f[n - 1], n)
      BY <1>1, <2>2, <3>1
    <3> QED
      BY <2>2, <3>1, <3>2
  <2>3. CASE n = 0
    BY <1>1, <2>3
  <2> QED
    BY <2>1, <2>2, <2>3
<1>4. g = [n \in 0..(m + 1) |-> IF n = 0 THEN <<>> ELSE More(g[n - 1], n)]
  BY <1>3
<1> HIDE DEF g
<1>5. Partial(s, Q, m + 1, g)
  BY <1>2, <1>4
<1> QED
  BY <1>5

LEMMA KeptUnfolds ==
  ASSUME NEW s, NEW Q, Len(s) \in Nat
  PROVE  Partial(s, Q, Len(s), Kept(s, Q))
<1> DEFINE T == {m \in Nat : \E f : Partial(s, Q, m, f)}
<1>1. 0 \in T
  <2>1. Partial(s, Q, 0, [n \in 0..0 |-> <<>>])
    BY DEF Partial
  <2> QED
    BY <2>1
<1>2. ASSUME NEW m \in Nat, m \in T PROVE m + 1 \in T
  <2>1. PICK f : Partial(s, Q, m, f)
    BY <1>2
  <2>2. \E g : Partial(s, Q, m + 1, g)
    BY <2>1, Longer
  <2> QED
    BY <2>2
<1> HIDE DEF T
<1>3. Len(s) \in T
  BY <1>1, <1>2, Inductive
<1>4. \E f : Partial(s, Q, Len(s), f)
  BY <1>3 DEF T
<1>5. Kept(s, Q) = CHOOSE f : Partial(s, Q, Len(s), f)
  BY DEF Kept, Partial
<1> QED
  BY <1>4, <1>5

LEMMA KeptStep ==
  ASSUME NEW s, NEW Q, Len(s) \in Nat
  PROVE  /\ Kept(s, Q)[0] = <<>>
         /\ \A n \in 1..Len(s) : Kept(s, Q)[n] = IF s[n] \in Q THEN Append(Kept(s, Q)[n - 1], s[n])
                                                              ELSE Kept(s, Q)[n - 1]
<1> DEFINE k == Kept(s, Q)
<1>1. Partial(s, Q, Len(s), k)
  BY KeptUnfolds
<1> HIDE DEF k
<1>2. k[0] = <<>>
  BY <1>1 DEF Partial
<1>3. ASSUME NEW n \in 1..Len(s)
      PROVE  k[n] = IF s[n] \in Q THEN Append(k[n - 1], s[n]) ELSE k[n - 1]
  <2>1. n \in 0..Len(s) /\ n # 0
    OBVIOUS
  <2> QED
    BY <1>1, <2>1 DEF Partial
<1> QED
  BY <1>2, <1>3 DEF k

(* t holds the first n items of s that are in Q, in their order.           *)
Selects(s, Q, n, t, S) ==
    /\ t \in Seq(S) /\ Len(t) <= n
    /\ \A x : Has(t, x) <=> x \in Q /\ \E i \in 1..n : s[i] = x
    /\ Injective(s) => Injective(t)

LEMMA AppendHas ==
  ASSUME NEW S, NEW t \in Seq(S), NEW e \in S
  PROVE  /\ Append(t, e) \in Seq(S)
         /\ Len(Append(t, e)) = Len(t) + 1
         /\ \A x : Has(Append(t, e), x) <=> Has(t, x) \/ x = e
         /\ Injective(t) /\ ~Has(t, e) => Injective(Append(t, e))
<1> DEFINE u == Append(t, e)
<1>1. /\ u \in Seq(S) /\ Len(u) = Len(t) + 1 /\ Len(t) \in Nat
      /\ \A i \in 1..Len(t) : u[i] = t[i]
      /\ u[Len(t) + 1] = e
  BY AppendProperties
<1>2. 1..Len(u) = 1..Len(t) \cup {Len(t) + 1}
  BY <1>1
<1> HIDE DEF u
<1>3. \A x : Has(u, x) <=> Has(t, x) \/ x = e
  BY <1>1, <1>2 DEF Has
<1>4. ASSUME Injective(t), ~Has(t, e) PROVE Injective(u)
  <2>1. SUFFICES ASSUME NEW i \in 1..Len(u), NEW k \in 1..Len(u), u[i] = u[k] PROVE i = k
    BY DEF Injective
  <2> QED
    BY <1>1, <1>2, <1>4, <2>1 DEF Has, Injective
<1> QED
  BY <1>1, <1>3, <1>4 DEF u

LEMMA SelectsStep ==
  ASSUME NEW S, NEW s \in Seq(S), NEW Q, NEW n \in Nat, n + 1 <= Len(s),
         NEW t, Selects(s, Q, n, t, S)
  PROVE  Selects(s, Q, n + 1, IF s[n + 1] \in Q THEN Append(t, s[n + 1]) ELSE t, S)
<1>1. Len(s) \in Nat /\ n + 1 \in 1..Len(s) /\ s[n + 1] \in S
  OBVIOUS
<1>2. 1..(n + 1) = 1..n \cup {n + 1} /\ 1..n \subseteq 1..Len(s) /\ n + 1 \notin 1..n
  BY <1>1
<1>3. /\ t \in Seq(S) /\ Len(t) <= n /\ Len(t) \in Nat
      /\ \A x : Has(t, x) <=> x \in Q /\ \E i \in 1..n : s[i] = x
      /\ Injective(s) => Injective(t)
  BY DEF Selects
<1>4. CASE s[n + 1] \notin Q
  <2>1. \A x : Has(t, x) <=> x \in Q /\ \E i \in 1..(n + 1) : s[i] = x
    BY <1>2, <1>3, <1>4
  <2> QED
    BY <1>3, <1>4, <2>1 DEF Selects
<1>5. CASE s[n + 1] \in Q
  <2> DEFINE u == Append(t, s[n + 1])
  <2>1. /\ u \in Seq(S) /\ Len(u) = Len(t) + 1
        /\ \A x : Has(u, x) <=> Has(t, x) \/ x = s[n + 1]
        /\ Injective(t) /\ ~Has(t, s[n + 1]) => Injective(u)
    BY <1>1, <1>3, AppendHas
  <2> HIDE DEF u
  <2>2. \A x : Has(u, x) <=> x \in Q /\ \E i \in 1..(n + 1) : s[i] = x
    BY <1>2, <1>3, <1>5, <2>1
  <2>3. ASSUME Injective(s) PROVE Injective(u)
    <3>1. \A i \in 1..n : s[i] # s[n + 1]
      BY <1>1, <1>2, <2>3 DEF Injective
    <3>2. ~Has(t, s[n + 1])
      BY <1>3, <3>1
    <3> QED
      BY <1>3, <2>1, <2>3, <3>2
  <2>4. Len(u) <= n + 1
    BY <1>3, <2>1
  <2>5. Selects(s, Q, n + 1, u, S)
    BY <2>1, <2>2, <2>3, <2>4 DEF Selects
  <2> QED
    BY <1>5, <2>5 DEF u
<1> QED
  BY <1>4, <1>5

LEMMA OnlyKeeps ==
  ASSUME NEW S, NEW s \in Seq(S), NEW Q
  PROVE  /\ Only(s, Q) \in Seq(S) /\ Len(Only(s, Q)) <= Len(s)
         /\ \A x : Has(Only(s, Q), x) <=> x \in Q /\ Has(s, x)
         /\ Injective(s) => Injective(Only(s, Q))
<1> DEFINE k == Kept(s, Q)
           T == {n \in Nat : n <= Len(s) => Selects(s, Q, n, k[n], S)}
<1>1. Len(s) \in Nat
  OBVIOUS
<1>2. /\ k[0] = <<>>
      /\ \A n \in 1..Len(s) : k[n] = IF s[n] \in Q THEN Append(k[n - 1], s[n]) ELSE k[n - 1]
  BY <1>1, KeptStep
<1> HIDE DEF k
<1>3. 0 \in T
  <2>1. /\ <<>> \in Seq(S) /\ Len(<<>>) = 0 /\ 1..0 = {}
    OBVIOUS
  <2>2. Selects(s, Q, 0, <<>>, S)
    BY <2>1 DEF Injective, Selects, Has
  <2> QED
    BY <1>2, <2>2
<1>4. ASSUME NEW n \in Nat, n \in T PROVE n + 1 \in T
  <2>1. ASSUME n + 1 <= Len(s) PROVE Selects(s, Q, n + 1, k[n + 1], S)
    <3>1. n + 1 \in 1..Len(s) /\ (n + 1) - 1 = n /\ n <= Len(s)
      BY <1>1, <2>1
    <3>2. k[n + 1] = IF s[n + 1] \in Q THEN Append(k[n], s[n + 1]) ELSE k[n]
      BY <1>2, <3>1
    <3>3. Selects(s, Q, n, k[n], S)
      BY <1>4, <3>1
    <3> QED
      BY <2>1, <3>2, <3>3, SelectsStep
  <2>2. n + 1 \in Nat
    OBVIOUS
  <2> QED
    BY <2>1, <2>2
<1> HIDE DEF T
<1>5. Len(s) \in T
  BY <1>1, <1>3, <1>4, Inductive
<1>6. Selects(s, Q, Len(s), k[Len(s)], S)
  BY <1>1, <1>5 DEF T
<1>7. k[Len(s)] = Only(s, Q)
  BY DEF Only, k
<1> QED
  BY <1>6, <1>7 DEF Selects, Has

LEMMA TailHas ==
  ASSUME NEW S, NEW s \in Seq(S), s # <<>>
  PROVE  /\ Tail(s) \in Seq(S) /\ Head(s) \in S /\ Has(s, Head(s))
         /\ Len(Tail(s)) = Len(s) - 1
         /\ \A x : Has(s, x) <=> Has(Tail(s), x) \/ x = Head(s)
         /\ Injective(s) => Injective(Tail(s)) /\ ~Has(Tail(s), Head(s))
<1> DEFINE t == Tail(s)
<1>1. /\ t \in Seq(S) /\ Len(t) = Len(s) - 1 /\ Len(s) \in Nat /\ Len(s) > 0
      /\ \A i \in 1..Len(t) : t[i] = s[i + 1]
      /\ Head(s) = s[1] /\ Head(s) \in S
  BY HeadTailProperties, EmptySeq
<1> HIDE DEF t
<1>2. /\ 1 \in 1..Len(s)
      /\ \A i \in 1..Len(t) : i + 1 \in 1..Len(s) /\ i + 1 # 1
      /\ \A i \in 1..Len(s) : i = 1 \/ (i - 1 \in 1..Len(t) /\ (i - 1) + 1 = i)
  BY <1>1
<1>3. \A x : Has(s, x) <=> Has(t, x) \/ x = Head(s)
  <2>1. ASSUME NEW x, Has(s, x) PROVE Has(t, x) \/ x = Head(s)
    <3>1. PICK i \in 1..Len(s) : s[i] = x
      BY <2>1 DEF Has
    <3>2. CASE i # 1
      <4>1. i - 1 \in 1..Len(t) /\ t[i - 1] = s[i]
        BY <1>1, <1>2, <3>2
      <4> QED
        BY <3>1, <4>1 DEF Has
    <3> QED
      BY <1>1, <3>1, <3>2
  <2>2. ASSUME NEW x, Has(t, x) PROVE Has(s, x)
    BY <1>1, <1>2, <2>2 DEF Has
  <2>3. Has(s, Head(s))
    BY <1>1, <1>2 DEF Has
  <2> QED
    BY <2>1, <2>2, <2>3
<1>4. ASSUME Injective(s) PROVE Injective(t) /\ ~Has(t, Head(s))
  <2>1. ASSUME NEW i \in 1..Len(t), NEW k \in 1..Len(t), t[i] = t[k] PROVE i = k
    <3>1. s[i + 1] = s[k + 1]
      BY <1>1, <2>1
    <3>2. i + 1 = k + 1
      BY <1>2, <1>4, <3>1 DEF Injective
    <3> QED
      BY <1>1, <3>2
  <2>2. ~Has(t, Head(s))
    BY <1>1, <1>2, <1>4 DEF Has, Injective
  <2> QED
    BY <2>1, <2>2 DEF Injective
<1> QED
  BY <1>1, <1>3, <1>4 DEF t

LEMMA ConcatHas ==
  ASSUME NEW S, NEW s \in Seq(S), NEW t \in Seq(S)
  PROVE  /\ s \o t \in Seq(S)
         /\ \A x : Has(s \o t, x) <=> Has(s, x) \/ Has(t, x)
         /\ Injective(s) /\ Injective(t) /\ (\A x : ~(Has(s, x) /\ Has(t, x)))
                => Injective(s \o t)
<1> DEFINE u == s \o t
<1>1. /\ u \in Seq(S) /\ Len(u) = Len(s) + Len(t) /\ Len(s) \in Nat /\ Len(t) \in Nat
      /\ \A i \in 1..Len(u) : u[i] = IF i <= Len(s) THEN s[i] ELSE t[i - Len(s)]
  BY ConcatProperties
<1> HIDE DEF u
<1>2. /\ \A i \in 1..Len(s) : i \in 1..Len(u) /\ u[i] = s[i]
      /\ \A i \in 1..Len(t) : i + Len(s) \in 1..Len(u) /\ u[i + Len(s)] = t[i]
      /\ \A i \in 1..Len(u) : \/ i \in 1..Len(s)
                              \/ i - Len(s) \in 1..Len(t) /\ u[i] = t[i - Len(s)]
  BY <1>1
<1>3. \A x : Has(u, x) <=> Has(s, x) \/ Has(t, x)
  BY <1>2 DEF Has
<1>4. ASSUME Injective(s), Injective(t), \A x : ~(Has(s, x) /\ Has(t, x)) PROVE Injective(u)
  <2>1. SUFFICES ASSUME NEW i \in 1..Len(u), NEW k \in 1..Len(u), u[i] = u[k] PROVE i = k
    BY DEF Injective
  <2>2. CASE i \in 1..Len(s) /\ k \in 1..Len(s)
    BY <1>2, <1>4, <2>1, <2>2 DEF Injective
  <2>3. CASE i \notin 1..Len(s) /\ k \notin 1..Len(s)
    <3>1. i - Len(s) = k - Len(s)
      BY <1>2, <1>4, <2>1, <2>3 DEF Injective
    <3> QED
      BY <1>1, <3>1
  <2>4. CASE i \in 1..Len(s) /\ k \notin 1..Len(s)
    <3>1. Has(s, u[i]) /\ Has(t, u[k])
      BY <1>2, <2>4 DEF Has
    <3> QED
      BY <1>4, <2>1, <3>1
  <2>5. CASE i \notin 1..Len(s) /\ k \in 1..Len(s)
    <3>1. Has(t, u[i]) /\ Has(s, u[k])
      BY <1>2, <2>5 DEF Has
    <3> QED
      BY <1>4, <2>1, <3>1
  <2> QED
    BY <2>2, <2>3, <2>4, <2>5
<1> QED
  BY <1>1, <1>3, <1>4 DEF u

LEMMA EmptyHas == Len(<<>>) = 0 /\ Injective(<<>>) /\ \A x : ~Has(<<>>, x)
<1>1. Len(<<>>) = 0 /\ 1..0 = {}
  OBVIOUS
<1> QED
  BY <1>1 DEF Injective, Has

LEMMA NothingHas ==
  ASSUME NEW S, NEW s \in Seq(S)
  PROVE  (\A x : ~Has(s, x)) <=> s = <<>>
<1>1. CASE s = <<>>
  BY <1>1, EmptyHas
<1>2. CASE s # <<>>
  BY <1>2, TailHas
<1> QED
  BY <1>1, <1>2

(* A filter of two sequences, one after the other; and of one item.        *)
LEMMA OnlyConcat ==
  ASSUME NEW S, NEW s \in Seq(S), NEW t \in Seq(S), NEW Q
  PROVE  Only(s \o t, Q) = Only(s, Q) \o Only(t, Q)
<1> DEFINE u == s \o t
           k == Kept(s, Q)
           l == Kept(t, Q)
           m == Kept(u, Q)
           T == {n \in Nat : n <= Len(s) => m[n] = k[n] /\ k[n] \in Seq(S)}
           U == {n \in Nat : n <= Len(t) => m[Len(s) + n] = k[Len(s)] \o l[n] /\ l[n] \in Seq(S)}
<1>1. /\ Len(u) = Len(s) + Len(t) /\ Len(s) \in Nat /\ Len(t) \in Nat /\ Len(u) \in Nat
      /\ \A i \in 1..Len(u) : u[i] = IF i <= Len(s) THEN s[i] ELSE t[i - Len(s)]
  BY ConcatProperties
<1> HIDE DEF u
<1>2. /\ k[0] = <<>>
      /\ \A n \in 1..Len(s) : k[n] = IF s[n] \in Q THEN Append(k[n - 1], s[n]) ELSE k[n - 1]
  BY <1>1, KeptStep
<1>3. /\ l[0] = <<>>
      /\ \A n \in 1..Len(t) : l[n] = IF t[n] \in Q THEN Append(l[n - 1], t[n]) ELSE l[n - 1]
  BY <1>1, KeptStep
<1>4. /\ m[0] = <<>>
      /\ \A n \in 1..Len(u) : m[n] = IF u[n] \in Q THEN Append(m[n - 1], u[n]) ELSE m[n - 1]
  BY <1>1, KeptStep
<1> HIDE DEF k, l, m
<1>5. 0 \in T
  <2>1. <<>> \in Seq(S)
    OBVIOUS
  <2> QED
    BY <1>2, <1>4, <2>1
<1>6. ASSUME NEW n \in Nat, n \in T PROVE n + 1 \in T
  <2>1. ASSUME n + 1 <= Len(s) PROVE m[n + 1] = k[n + 1] /\ k[n + 1] \in Seq(S)
    <3>1. /\ n + 1 \in 1..Len(s) /\ n + 1 \in 1..Len(u) /\ (n + 1) - 1 = n /\ n <= Len(s)
      BY <1>1, <2>1
    <3>2. m[n] = k[n] /\ k[n] \in Seq(S) /\ u[n + 1] = s[n + 1] /\ s[n + 1] \in S
      BY <1>1, <1>6, <3>1
    <3>3. /\ m[n + 1] = IF s[n + 1] \in Q THEN Append(m[n], s[n + 1]) ELSE m[n]
          /\ k[n + 1] = IF s[n + 1] \in Q THEN Append(k[n], s[n + 1]) ELSE k[n]
      BY <1>2, <1>4, <3>1, <3>2
    <3>4. Append(k[n], s[n + 1]) \in Seq(S)
      BY <3>2, AppendProperties
    <3> QED
      BY <3>2, <3>3, <3>4
  <2>2. n + 1 \in Nat
    OBVIOUS
  <2> QED
    BY <2>1, <2>2
<1> HIDE DEF T
<1>7. m[Len(s)] = k[Len(s)] /\ k[Len(s)] \in Seq(S)
  <2>1. Len(s) \in T
    BY <1>1, <1>5, <1>6, Inductive
  <2> QED
    BY <1>1, <2>1 DEF T
<1>8. 0 \in U
  <2>1. /\ Len(s) + 0 = Len(s) /\ <<>> \in Seq(S)
    BY <1>1
  <2>2. k[Len(s)] \o <<>> = k[Len(s)]
    BY <1>7, ConcatEmptySeq
  <2> QED
    BY <1>3, <1>7, <2>1, <2>2
<1>9. ASSUME NEW n \in Nat, n \in U PROVE n + 1 \in U
  <2>1. ASSUME n + 1 <= Len(t)
        PROVE m[Len(s) + (n + 1)] = k[Len(s)] \o l[n + 1] /\ l[n + 1] \in Seq(S)
    <3> DEFINE c == Len(s) + n
               x == t[n + 1]
    <3>1. /\ n + 1 \in 1..Len(t) /\ c + 1 \in 1..Len(u) /\ (n + 1) - 1 = n /\ n <= Len(t)
          /\ (c + 1) - 1 = c /\ (c + 1) - Len(s) = n + 1 /\ ~(c + 1 <= Len(s))
          /\ Len(s) + (n + 1) = c + 1
      BY <1>1, <2>1
    <3>2. m[c] = k[Len(s)] \o l[n] /\ l[n] \in Seq(S) /\ x \in S
      <4>1. m[Len(s) + n] = k[Len(s)] \o l[n] /\ l[n] \in Seq(S)
        BY <1>9, <3>1
      <4>2. x \in S
        BY <3>1
      <4> QED
        BY <4>1, <4>2
    <3> HIDE DEF c
    <3>3. u[c + 1] = x
      BY <1>1, <3>1
    <3> HIDE DEF x
    <3>4. m[c + 1] = IF x \in Q THEN Append(m[c], x) ELSE m[c]
      BY <1>4, <3>1, <3>3
    <3>5. l[n + 1] = IF x \in Q THEN Append(l[n], x) ELSE l[n]
      BY <1>3, <3>1 DEF x
    <3>6. /\ Append(l[n], x) \in Seq(S)
          /\ Append(k[Len(s)] \o l[n], x) = k[Len(s)] \o Append(l[n], x)
      <4> DEFINE v == l[n]
                 w == k[Len(s)]
      <4>0. v \in Seq(S) /\ w \in Seq(S) /\ x \in S
        BY <1>7, <3>2
      <4> HIDE DEF v, w
      <4>1. /\ Append(v, x) \in Seq(S) /\ Append(v, x) = v \o <<x>> /\ <<x>> \in Seq(S)
            /\ w \o v \in Seq(S)
        BY <4>0
      <4>2. Append(w \o v, x) = (w \o v) \o <<x>>
        BY <4>0, <4>1, AppendIsConcat
      <4>3. (w \o v) \o <<x>> = w \o (v \o <<x>>)
        BY <4>0, <4>1, ConcatAssociative, SMTT(20)
      <4> QED
        BY <4>1, <4>2, <4>3 DEF v, w
    <3> QED
      BY <3>1, <3>2, <3>4, <3>5, <3>6
  <2>2. n + 1 \in Nat
    OBVIOUS
  <2> QED
    BY <2>1, <2>2
<1> HIDE DEF U
<1>10. Len(t) \in U
  <2>1. Nat \subseteq U
    BY <1>8, <1>9, Inductive
  <2> QED
    BY <1>1, <2>1
<1>11. m[Len(s) + Len(t)] = k[Len(s)] \o l[Len(t)]
  <2>1. Len(t) <= Len(t)
    BY <1>1
  <2> QED
    BY <1>10, <2>1, Zenon DEF U
<1> QED
  BY <1>1, <1>11 DEF Only, u, k, l, m

LEMMA OnlyOne ==
  ASSUME NEW x, NEW Q
  PROVE  Only(<<x>>, Q) = IF x \in Q THEN <<x>> ELSE <<>>
<1>1. Len(<<x>>) = 1 /\ <<x>>[1] = x /\ Append(<<>>, x) = <<x>>
  OBVIOUS
<1>2. /\ Kept(<<x>>, Q)[0] = <<>>
      /\ Kept(<<x>>, Q)[1] = IF x \in Q THEN Append(Kept(<<x>>, Q)[0], x) ELSE Kept(<<x>>, Q)[0]
  <2>1. 1 \in 1..Len(<<x>>) /\ 1 - 1 = 0
    BY <1>1
  <2> QED
    BY <1>1, <2>1, KeptStep
<1> QED
  BY <1>1, <1>2 DEF Only

LEMMA OnlyEmpty ==
  ASSUME NEW Q
  PROVE  Only(<<>>, Q) = <<>>
<1>1. Len(<<>>) = 0
  OBVIOUS
<1> QED
  BY <1>1, KeptStep DEF Only

LEMMA OnlyAppend ==
  ASSUME NEW S, NEW s \in Seq(S), NEW x \in S, NEW Q
  PROVE  Only(Append(s, x), Q) = IF x \in Q THEN Append(Only(s, Q), x) ELSE Only(s, Q)
<1>1. <<x>> \in Seq(S) /\ Append(s, x) = s \o <<x>>
  OBVIOUS
<1>2. Only(s, Q) \in Seq(S)
  BY OnlyKeeps
<1>3. Only(Append(s, x), Q) = Only(s, Q) \o Only(<<x>>, Q)
  <2>1. PICK q \in Seq(S) : q = <<x>>
    BY <1>1
  <2>2. Only(s \o q, Q) = Only(s, Q) \o Only(q, Q)
    BY OnlyConcat
  <2> QED
    BY <1>1, <2>1, <2>2, Zenon
<1> DEFINE o == Only(s, Q)
<1> HIDE DEF o
<1>4. o \in Seq(S) => o \o <<x>> = Append(o, x) /\ o \o <<>> = o
  OBVIOUS
<1> QED
  BY <1>2, <1>3, <1>4, OnlyOne DEF o

LEMMA OnlyHead ==
  ASSUME NEW S, NEW s \in Seq(S), s # <<>>, NEW Q
  PROVE  Only(s, Q) = (IF Head(s) \in Q THEN <<Head(s)>> ELSE <<>>) \o Only(Tail(s), Q)
<1>1. Head(s) \in S /\ Tail(s) \in Seq(S) /\ <<Head(s)>> \in Seq(S)
  BY HeadTailProperties, EmptySeq
<1>2. s = <<Head(s)>> \o Tail(s)
  BY <1>1
<1>3. Only(<<Head(s)>> \o Tail(s), Q) = Only(<<Head(s)>>, Q) \o Only(Tail(s), Q)
  <2>1. PICK h \in Seq(S) : h = <<Head(s)>>
    BY <1>1
  <2>2. PICK u \in Seq(S) : u = Tail(s)
    BY <1>1
  <2>3. Only(h \o u, Q) = Only(h, Q) \o Only(u, Q)
    BY OnlyConcat
  <2> QED
    BY <2>1, <2>2, <2>3, Zenon
<1> QED
  BY <1>2, <1>3, OnlyOne

(* The positions of the items that a filter keeps of 1..N: an increasing   *)
(* sequence is that filter.                                                *)
Numbers(N)    == [i \in 1..N |-> i]
Increasing(s) == \A i, k \in 1..Len(s) : i < k => s[i] < s[k]

LEMMA NumbersStep ==
  ASSUME NEW N \in Nat
  PROVE  /\ Numbers(N) \in Seq(Nat) /\ Len(Numbers(N)) = N
         /\ N > 0 => Numbers(N) = Append(Numbers(N - 1), N)
<1>1. \A n \in Nat : Numbers(n) \in Seq(Nat) /\ Len(Numbers(n)) = n /\ DOMAIN Numbers(n) = 1..n
                     /\ \A i \in 1..n : Numbers(n)[i] = i
  BY DEF Numbers
<1>2. ASSUME N > 0 PROVE Numbers(N) = Append(Numbers(N - 1), N)
  <2> DEFINE a == Numbers(N)
             b == Append(Numbers(N - 1), N)
  <2>1. N - 1 \in Nat /\ 1..N = 1..(N - 1) \cup {N} /\ (N - 1) + 1 = N
    BY <1>2
  <2>2. /\ b \in Seq(Nat) /\ Len(b) = N /\ b[N] = N /\ \A i \in 1..(N - 1) : b[i] = i
    <3>1. PICK m \in Nat, n \in Nat : m = N - 1 /\ n = N
      BY <2>1
    <3>2. Numbers(m) \in Seq(Nat) /\ Len(Numbers(m)) = m /\ \A i \in 1..m : Numbers(m)[i] = i
      BY <1>1
    <3>3. /\ Append(Numbers(m), n) \in Seq(Nat) /\ Len(Append(Numbers(m), n)) = m + 1
          /\ Append(Numbers(m), n)[m + 1] = n /\ \A i \in 1..m : Append(Numbers(m), n)[i] = i
      BY <3>2, AppendProperties
    <3> QED
      BY <2>1, <3>1, <3>3
  <2>3. a \in Seq(Nat) /\ Len(a) = N /\ \A i \in 1..N : a[i] = i
    BY <1>1
  <2> HIDE DEF a, b
  <2>4. \A i \in 1..Len(a) : a[i] = b[i]
    BY <2>1, <2>2, <2>3
  <2>5. a = b
    BY <2>2, <2>3, <2>4, SeqEqual
  <2> QED
    BY <2>5 DEF a, b
<1> QED
  BY <1>1, <1>2

LEMMA LastOff ==
  ASSUME NEW q \in Seq(Nat), Len(q) >= 1
  PROVE  LET f == SubSeq(q, 1, Len(q) - 1)
         IN  /\ f \in Seq(Nat) /\ Len(f) = Len(q) - 1 /\ \A i \in 1..(Len(q) - 1) : f[i] = q[i]
             /\ q = Append(f, q[Len(q)])
<1> DEFINE f == SubSeq(q, 1, Len(q) - 1)
           g == Append(f, q[Len(q)])
<1>1. Len(q) \in Nat /\ \A i \in 1..Len(q) : q[i] \in Nat
  OBVIOUS
<1>2. PICK m \in Nat : m = Len(q) - 1
  BY <1>1
<1>3. \A i \in 1..m : i \in 1..Len(q)
  BY <1>1, <1>2
<1>4. 1 \in Int /\ m \in Int /\ \A i \in 1..m : q[i] \in Nat
  BY <1>1, <1>2, <1>3
<1>5. /\ SubSeq(q, 1, m) \in Seq(Nat) /\ Len(SubSeq(q, 1, m)) = IF 1 <= m THEN m - 1 + 1 ELSE 0
      /\ \A i \in 1..(m - 1 + 1) : SubSeq(q, 1, m)[i] = q[1 + i - 1]
  BY <1>4, SubSeqProperties
<1>6. f \in Seq(Nat) /\ Len(f) = m /\ \A i \in 1..m : f[i] = q[i]
  BY <1>2, <1>5
<1> HIDE DEF f
<1>7. Len(q) \in 1..Len(q) /\ q[Len(q)] \in Nat
  BY <1>1
<1>8. g \in Seq(Nat) /\ Len(g) = m + 1 /\ g[m + 1] = q[Len(q)] /\ \A i \in 1..m : g[i] = f[i]
  BY <1>6, <1>7, AppendProperties
<1> HIDE DEF g
<1>9. 1..Len(q) = 1..m \cup {m + 1} /\ Len(q) = m + 1
  BY <1>1, <1>2
<1>10. \A i \in 1..Len(q) : q[i] = g[i]
  BY <1>6, <1>8, <1>9
<1>11. q = g
  BY <1>8, <1>9, <1>10, SeqEqual
<1> QED
  BY <1>2, <1>6, <1>11 DEF f, g

LEMMA EnumIs ==
  ASSUME NEW N \in Nat, NEW Q, NEW p \in Seq(Nat), Increasing(p),
         \A x : Has(p, x) <=> x \in Q /\ x \in 1..N
  PROVE  Only(Numbers(N), Q) = p
<1> DEFINE Fits(q, n) == q \in Seq(Nat) /\ Increasing(q) /\ (\A x : Has(q, x) <=> x \in Q /\ x \in 1..n)
           T == {n \in Nat : \A q : Fits(q, n) => Only(Numbers(n), Q) = q}
<1>1. 0 \in T
  <2>1. Numbers(0) = <<>> /\ 1..0 = {}
    BY NumbersStep, EmptySeq
  <2>2. Only(Numbers(0), Q) = <<>>
    BY <2>1, OnlyEmpty
  <2>3. ASSUME NEW q, Fits(q, 0) PROVE q = <<>>
    <3>1. \A x : ~Has(q, x)
      BY <2>1, <2>3
    <3> QED
      BY <2>3, <3>1, NothingHas
  <2> QED
    BY <2>2, <2>3
<1>2. ASSUME NEW n \in Nat, n \in T PROVE n + 1 \in T
  <2>1. SUFFICES ASSUME NEW q, Fits(q, n + 1) PROVE Only(Numbers(n + 1), Q) = q
    OBVIOUS
  <2>2. /\ n + 1 \in Nat /\ n + 1 > 0 /\ (n + 1) - 1 = n /\ 1..(n + 1) = 1..n \cup {n + 1}
        /\ n + 1 \notin 1..n
    OBVIOUS
  <2>3. /\ Numbers(n) \in Seq(Nat)
        /\ Numbers(n + 1) = Append(Numbers(n), n + 1)
    BY <2>2, NumbersStep
  <2>4. Only(Numbers(n + 1), Q) = IF n + 1 \in Q THEN Append(Only(Numbers(n), Q), n + 1)
                                  ELSE Only(Numbers(n), Q)
    <3>1. PICK s \in Seq(Nat) : s = Numbers(n)
      BY <2>3
    <3>2. PICK y \in Nat : y = n + 1
      OBVIOUS
    <3>3. Only(Append(s, y), Q) = IF y \in Q THEN Append(Only(s, Q), y) ELSE Only(s, Q)
      BY OnlyAppend
    <3> QED
      BY <2>3, <3>1, <3>2, <3>3, Zenon
  <2>5. CASE n + 1 \notin Q
    <3>1. Fits(q, n)
      BY <2>1, <2>2, <2>5
    <3> QED
      BY <1>2, <2>4, <2>5, <3>1
  <2>6. CASE n + 1 \in Q
    <3> DEFINE L == Len(q)
               f == SubSeq(q, 1, L - 1)
    <3>1. q \in Seq(Nat) /\ L \in Nat /\ Increasing(q) /\ Has(q, n + 1)
      BY <2>1, <2>2, <2>6
    <3>2. PICK j \in 1..L : q[j] = n + 1
      BY <3>1 DEF Has
    <3>3. ASSUME j # L PROVE FALSE
      <4>1. j < L /\ L \in 1..L
        BY <3>1, <3>2, <3>3
      <4>2. q[j] < q[L]
        BY <3>1, <3>2, <4>1 DEF Increasing
      <4>3. Has(q, q[L])
        BY <4>1 DEF Has
      <4>4. q[L] \in 1..(n + 1)
        BY <2>1, <4>3
      <4> QED
        BY <3>2, <4>2, <4>4
    <3>4. /\ f \in Seq(Nat) /\ Len(f) = L - 1 /\ \A i \in 1..(L - 1) : f[i] = q[i]
          /\ q = Append(f, q[L])
      BY <3>1, <3>2, LastOff
    <3>5. q[L] = n + 1 /\ L \in 1..L /\ 1..L = 1..(L - 1) \cup {L}
      BY <3>1, <3>2, <3>3
    <3> HIDE DEF f
    <3>6. q = Append(f, n + 1)
      BY <3>4, <3>5
    <3>7. Increasing(f)
      <4>1. \A i \in 1..(L - 1) : i \in 1..L
        BY <3>1
      <4> QED
        BY <3>1, <3>4, <4>1 DEF Increasing
    <3>8. ASSUME NEW x PROVE Has(f, x) <=> x \in Q /\ x \in 1..n
      <4>1. ASSUME Has(f, x) PROVE x \in Q /\ x \in 1..n
        <5>1. PICK i \in 1..(L - 1) : q[i] = x
          BY <3>4, <4>1 DEF Has
        <5>2. i \in 1..L /\ i < L
          BY <3>1, <5>1
        <5>3. Has(q, x) /\ x < n + 1
          BY <3>1, <3>5, <5>1, <5>2 DEF Has, Increasing
        <5>4. x \in Q /\ x \in 1..(n + 1)
          BY <2>1, <5>3
        <5> QED
          BY <5>3, <5>4
      <4>2. ASSUME x \in Q, x \in 1..n PROVE Has(f, x)
        <5>1. Has(q, x) /\ x # n + 1
          BY <2>1, <2>2, <4>2
        <5>2. PICK i \in 1..L : q[i] = x
          BY <5>1 DEF Has
        <5>3. i \in 1..(L - 1)
          BY <3>5, <5>1, <5>2
        <5> QED
          BY <3>4, <5>2, <5>3 DEF Has
      <4> QED
        BY <4>1, <4>2
    <3>9. Only(Numbers(n), Q) = f
      BY <1>2, <3>4, <3>7, <3>8
    <3> QED
      BY <2>4, <2>6, <3>6, <3>9
  <2> QED
    BY <2>5, <2>6
<1> HIDE DEF T
<1>3. N \in T
  BY <1>1, <1>2, Inductive
<1>4. Fits(p, N)
  OBVIOUS
<1> QED
  BY <1>3, <1>4 DEF T

(* What a filter keeps of 1..N: the numbers of Q, in their order.          *)
LEMMA NumbersKept ==
  ASSUME NEW N \in Nat, NEW Q
  PROVE  LET p == Only(Numbers(N), Q)
         IN  /\ p \in Seq(Nat) /\ Increasing(p)
             /\ \A x : Has(p, x) <=> x \in Q /\ x \in 1..N
<1> DEFINE Fits(n) == /\ Only(Numbers(n), Q) \in Seq(Nat)
                      /\ Increasing(Only(Numbers(n), Q))
                      /\ \A x : Has(Only(Numbers(n), Q), x) <=> x \in Q /\ x \in 1..n
           T == {n \in Nat : Fits(n)}
<1>1. 0 \in T
  <2>1. Numbers(0) = <<>> /\ 1..0 = {}
    BY NumbersStep, EmptySeq
  <2>2. Only(Numbers(0), Q) = <<>>
    BY <2>1, OnlyEmpty
  <2>3. <<>> \in Seq(Nat) /\ Increasing(<<>>)
    BY EmptyHas DEF Increasing
  <2> QED
    BY <2>1, <2>2, <2>3, EmptyHas
<1>2. ASSUME NEW n \in Nat, n \in T PROVE n + 1 \in T
  <2>1. n + 1 \in Nat /\ n + 1 > 0 /\ (n + 1) - 1 = n /\ 1..(n + 1) = 1..n \cup {n + 1}
    OBVIOUS
  <2>2. Numbers(n) \in Seq(Nat) /\ Numbers(n + 1) = Append(Numbers(n), n + 1)
    BY <2>1, NumbersStep
  <2>3. PICK p \in Seq(Nat) : p = Only(Numbers(n), Q)
    BY <1>2
  <2>4. Increasing(p) /\ \A x : Has(p, x) <=> x \in Q /\ x \in 1..n
    BY <1>2, <2>3
  <2>5. Only(Numbers(n + 1), Q) = IF n + 1 \in Q THEN Append(p, n + 1) ELSE p
    <3>1. PICK s \in Seq(Nat) : s = Numbers(n)
      BY <2>2
    <3>2. PICK y \in Nat : y = n + 1
      OBVIOUS
    <3>3. Only(Append(s, y), Q) = IF y \in Q THEN Append(Only(s, Q), y) ELSE Only(s, Q)
      BY OnlyAppend
    <3> QED
      BY <2>2, <2>3, <3>1, <3>2, <3>3, Zenon
  <2>6. CASE n + 1 \notin Q
    <3>1. \A x : x \in Q /\ x \in 1..(n + 1) <=> x \in Q /\ x \in 1..n
      BY <2>1, <2>6
    <3> QED
      BY <2>1, <2>4, <2>5, <2>6, <3>1
  <2>7. CASE n + 1 \in Q
    <3> DEFINE q == Append(p, n + 1)
    <3>1. /\ q \in Seq(Nat) /\ Len(q) = Len(p) + 1 /\ Len(p) \in Nat
          /\ \A i \in 1..Len(p) : q[i] = p[i]
          /\ q[Len(p) + 1] = n + 1
      BY <2>1, AppendProperties
    <3>2. \A x : Has(q, x) <=> Has(p, x) \/ x = n + 1
      BY <2>1, AppendHas
    <3> HIDE DEF q
    <3>3. ASSUME NEW i \in 1..Len(p) PROVE q[i] < n + 1
      <4>1. Has(p, p[i])
        BY DEF Has
      <4> QED
        BY <2>4, <3>1, <4>1
    <3>4. Increasing(q)
      <4>1. SUFFICES ASSUME NEW i \in 1..Len(q), NEW k \in 1..Len(q), i < k PROVE q[i] < q[k]
        BY DEF Increasing
      <4>2. i \in 1..Len(p) /\ (k \in 1..Len(p) \/ k = Len(p) + 1)
        <5>1. PICK m \in Nat : m = Len(p)
          BY <3>1
        <5>2. i \in 1..(m + 1) /\ k \in 1..(m + 1) /\ i < k
          BY <3>1, <4>1, <5>1
        <5>3. i \in 1..m /\ (k \in 1..m \/ k = m + 1)
          BY <5>2
        <5> QED
          BY <5>1, <5>3
      <4>3. CASE k \in 1..Len(p)
        BY <2>4, <3>1, <4>1, <4>2, <4>3 DEF Increasing
      <4>4. CASE k = Len(p) + 1
        BY <3>1, <3>3, <4>2, <4>4
      <4> QED
        BY <4>2, <4>3, <4>4
    <3>5. \A x : Has(q, x) <=> x \in Q /\ x \in 1..(n + 1)
      BY <2>1, <2>4, <2>7, <3>2
    <3> QED
      BY <2>1, <2>5, <2>7, <3>1, <3>4, <3>5 DEF q
  <2> QED
    BY <2>6, <2>7
<1> HIDE DEF T
<1>3. N \in T
  BY <1>1, <1>2, Inductive
<1> QED
  BY <1>3 DEF T
=============================================================================
