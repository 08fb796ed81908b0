----------------------------- MODULE EdgeProofs -----------------------------
(* What is proved of the edge of the daemon: the events that come in over  *)
(* the ingress bus (IngressBus), for any adapters, queue sizes and events, *)
(* and the jobs that go out to remote nodes (RemoteRelay), for any number  *)
(* of jobs, connections and polls.                                         *)
EXTENDS IngressBus, RemoteRelay, FilterProofs, FiniteSetTheorems, TLAPS

(* IngressBus: concatenation                                               *)

LEMMA OneOf ==
  ASSUME NEW S, NEW x \in S
  PROVE  <<x>> \in Seq(S)
OBVIOUS

(* Concatenation, as an operator that the provers do not look into.        *)
Cat(x, y) == x \o y

Three(S, x, y, z) == x \in Seq(S) /\ y \in Seq(S) /\ z \in Seq(S)

LEMMA Associates ==
  ASSUME NEW S, NEW x, NEW y, NEW z, Three(S, x, y, z)
  PROVE  Cat(Cat(x, y), z) = Cat(x, Cat(y, z))
  BY ConcatAssociative, SMT DEF Three, Cat

LEMMA CatType ==
  ASSUME NEW S, NEW x \in Seq(S), NEW y \in Seq(S)
  PROVE  Cat(x, y) \in Seq(S)
  BY ConcatProperties DEF Cat

LEMMA CatEmpty ==
  ASSUME NEW S, NEW x \in Seq(S)
  PROVE  Cat(x, <<>>) = x /\ Cat(<<>>, x) = x
  BY ConcatEmptySeq DEF Cat

LEMMA CatOne ==
  ASSUME NEW S, NEW x \in Seq(S), NEW e \in S
  PROVE  Append(x, e) = Cat(x, <<e>>)
  BY AppendIsConcat DEF Cat

LEMMA CatHead ==
  ASSUME NEW S, NEW x \in Seq(S), x # <<>>
  PROVE  Cat(<<Head(x)>>, Tail(x)) = x
<1>1. Head(x) \in S /\ Tail(x) \in Seq(S)
  BY HeadTailProperties
<1>2. <<Head(x)>> \o Tail(x) = x
  BY <1>1
<1> QED
  BY <1>2 DEF Cat

(* The beginning of a sequence.                                            *)
LEMMA PrefixOfConcat ==
  ASSUME NEW S, NEW s \in Seq(S), NEW t \in Seq(S)
  PROVE  IsPrefix(s, s \o t)
<1>1. Len(s) \in Nat /\ Len(s \o t) = Len(s) + Len(t) /\ Len(t) \in Nat
  BY ConcatProperties
<1>2. SubSeq(s \o t, 1, Len(s)) = SubSeq(s, 1, Len(s))
  <2>1. CASE Len(s) = 0
    BY <2>1, SubSeqEmpty
  <2>2. CASE Len(s) # 0
    <3>1. 1 \in 1..Len(s) /\ Len(s) \in 1..Len(s)
      BY <1>1, <2>2
    <3> QED
      BY <3>1, SubSeqOfConcat1
  <2> QED
    BY <2>1, <2>2
<1> QED
  BY <1>1, <1>2 DEF IsPrefix

LEMMA PrefixOfAppend ==
  ASSUME NEW S, NEW s \in Seq(S), NEW t \in Seq(S), NEW x \in S, IsPrefix(s, t)
  PROVE  IsPrefix(s, Append(t, x))
<1>1. /\ Len(s) \in Nat /\ Len(t) \in Nat /\ Len(s) <= Len(t)
      /\ SubSeq(s, 1, Len(s)) = SubSeq(t, 1, Len(s))
  BY DEF IsPrefix
<1>2. PICK u \in Seq(S) : u = <<x>>
  BY OneOf
<1>3. /\ Append(t, x) = t \o u
      /\ Len(Append(t, x)) = Len(t) + 1
  BY <1>2, AppendProperties, AppendIsConcat
<1>4. SubSeq(t \o u, 1, Len(s)) = SubSeq(t, 1, Len(s))
  <2>1. CASE Len(s) = 0
    BY <2>1, SubSeqEmpty
  <2>2. CASE Len(s) # 0
    <3>1. 1 \in 1..Len(t) /\ Len(s) \in 1..Len(t)
      BY <1>1, <2>2
    <3> QED
      BY <3>1, SubSeqOfConcat1
  <2> QED
    BY <2>1, <2>2
<1> QED
  BY <1>1, <1>3, <1>4 DEF IsPrefix

(* What there is of Q on the way: was delivered, is in the bus, in the     *)
(* hand of the pump and in the queue of the adapter.                       *)
Line(d, b, h, i, Q) == Cat(Cat(Cat(Only(d, Q), Only(b, Q)), h), i)

Queues(S, d, b, h, i) == d \in Seq(S) /\ b \in Seq(S) /\ h \in Seq(S) /\ i \in Seq(S)

LEMMA LineIs ==
  ASSUME NEW S, NEW d, NEW b, NEW h, NEW i, Queues(S, d, b, h, i), NEW Q
  PROVE  /\ Line(d, b, h, i, Q) \in Seq(S)
         /\ Line(d, b, h, i, Q) = Cat(Only(d, Q), Cat(Only(b, Q), Cat(h, i)))
<1>0. d \in Seq(S) /\ b \in Seq(S) /\ h \in Seq(S) /\ i \in Seq(S)
  BY DEF Queues
<1>1. PICK x \in Seq(S) : x = Only(d, Q)
  BY <1>0, OnlyKeeps
<1>2. PICK y \in Seq(S) : y = Only(b, Q)
  BY <1>0, OnlyKeeps
<1>3. PICK p \in Seq(S) : p = Cat(x, y)
  BY CatType
<1>4. PICK q \in Seq(S) : q = Cat(h, i)
  BY <1>0, CatType
<1>5. Cat(p, q) \in Seq(S)
  BY CatType
<1>6. Three(S, p, h, i) /\ Three(S, x, y, q)
  BY <1>0 DEF Three
<1>7. Cat(Cat(p, h), i) = Cat(p, Cat(h, i)) /\ Cat(Cat(x, y), q) = Cat(x, Cat(y, q))
  BY <1>6, Associates, SMT
<1> QED
  BY <1>1, <1>2, <1>3, <1>4, <1>5, <1>7, Zenon DEF Line

LEMMA LineAccepts ==
  ASSUME NEW S, NEW d, NEW b, NEW h, NEW i, Queues(S, d, b, h, i), NEW x \in S, NEW Q
  PROVE  Line(d, b, h, Append(i, x), Q) = Append(Line(d, b, h, i, Q), x)
<1>0. d \in Seq(S) /\ b \in Seq(S) /\ h \in Seq(S) /\ i \in Seq(S)
  BY DEF Queues
<1>1. PICK w \in Seq(S) : w = Cat(Cat(Only(d, Q), Only(b, Q)), h)
  <2>1. Only(d, Q) \in Seq(S) /\ Only(b, Q) \in Seq(S)
    BY <1>0, OnlyKeeps
  <2>2. PICK o \in Seq(S) : o = Cat(Only(d, Q), Only(b, Q))
    BY <2>1, CatType
  <2> QED
    BY <1>0, <2>2, CatType
<1>2. PICK u \in Seq(S) : u = <<x>>
  BY OneOf
<1>3. Append(i, x) = Cat(i, <<x>>)
  BY <1>0, CatOne
<1>4. PICK v \in Seq(S) : v = Cat(w, i)
  BY <1>0, CatType
<1>5. Append(v, x) = Cat(v, <<x>>)
  BY CatOne
<1>6. Three(S, w, i, u)
  BY <1>0 DEF Three
<1>7. Cat(Cat(w, i), u) = Cat(w, Cat(i, u))
  BY <1>6, Associates, SMT
<1> QED
  BY <1>1, <1>2, <1>3, <1>4, <1>5, <1>7, Zenon DEF Line

LEMMA LineTakes ==
  ASSUME NEW S, NEW d, NEW b, NEW i, Queues(S, d, b, <<>>, i), i # <<>>, NEW Q
  PROVE  Line(d, b, <<Head(i)>>, Tail(i), Q) = Line(d, b, <<>>, i, Q)
<1>0. d \in Seq(S) /\ b \in Seq(S) /\ i \in Seq(S)
  BY DEF Queues
<1>1. Head(i) \in S /\ Tail(i) \in Seq(S)
  BY <1>0, HeadTailProperties
<1>2. <<Head(i)>> \in Seq(S)
  BY <1>1, OneOf
<1>3. Cat(<<Head(i)>>, Tail(i)) = i /\ Cat(<<>>, i) = i
  BY <1>0, CatHead, CatEmpty
<1>4. Queues(S, d, b, <<Head(i)>>, Tail(i))
  BY <1>0, <1>1, <1>2 DEF Queues
<1>5. Line(d, b, <<Head(i)>>, Tail(i), Q) = Cat(Only(d, Q), Cat(Only(b, Q), Cat(<<Head(i)>>, Tail(i))))
  BY <1>4, LineIs, SMT
<1>6. Line(d, b, <<>>, i, Q) = Cat(Only(d, Q), Cat(Only(b, Q), Cat(<<>>, i)))
  BY LineIs, SMT
<1> QED
  BY <1>3, <1>5, <1>6, Zenon

LEMMA LinePuts ==
  ASSUME NEW S, NEW d, NEW b, NEW h, NEW i, Queues(S, d, b, h, i), NEW x \in S, NEW Q,
         x \in Q
  PROVE  Line(d, Append(b, x), <<>>, i, Q) = Line(d, b, <<x>>, i, Q)
<1>0. d \in Seq(S) /\ b \in Seq(S) /\ h \in Seq(S) /\ i \in Seq(S)
  BY DEF Queues
<1>1. Only(Append(b, x), Q) = IF x \in Q THEN Append(Only(b, Q), x) ELSE Only(b, Q)
  BY <1>0, OnlyAppend
<1>2. PICK y \in Seq(S) : y = Only(b, Q)
  BY <1>0, OnlyKeeps
<1>3. PICK u \in Seq(S) : u = <<x>>
  BY OneOf
<1>4. Append(y, x) = Cat(y, <<x>>) /\ Cat(<<>>, i) = i
  BY <1>0, CatOne, CatEmpty
<1>5. PICK c \in Seq(S) : c = Append(b, x)
  BY <1>0, AppendProperties
<1>6. <<>> \in Seq(S)
  OBVIOUS
<1>7. Three(S, y, u, i) /\ Queues(S, d, c, <<>>, i) /\ Queues(S, d, b, u, i)
  BY <1>0, <1>6 DEF Three, Queues
<1>8. Cat(Cat(y, u), i) = Cat(y, Cat(u, i))
  BY <1>7, Associates, SMT
<1>9. Line(d, c, <<>>, i, Q) = Cat(Only(d, Q), Cat(Only(c, Q), Cat(<<>>, i)))
  BY <1>7, LineIs, SMT
<1>10. Line(d, b, u, i, Q) = Cat(Only(d, Q), Cat(Only(b, Q), Cat(u, i)))
  BY <1>7, LineIs, SMT
<1>11. Only(c, Q) = Cat(y, u)
  BY <1>1, <1>2, <1>3, <1>4, <1>5, Zenon
<1> QED
  BY <1>2, <1>3, <1>4, <1>5, <1>8, <1>9, <1>10, <1>11, Zenon

LEMMA LineLeaves ==
  ASSUME NEW S, NEW d, NEW b \in Seq(S), NEW h, NEW i, NEW x \in S, NEW Q, x \notin Q
  PROVE  Line(d, Append(b, x), h, i, Q) = Line(d, b, h, i, Q)
<1>1. Only(Append(b, x), Q) = Only(b, Q)
  BY OnlyAppend
<1> QED
  BY <1>1, Zenon DEF Line

LEMMA LineGets ==
  ASSUME NEW S, NEW d, NEW b, NEW h, NEW i, Queues(S, d, b, h, i), b # <<>>, NEW Q
  PROVE  Line(Append(d, Head(b)), Tail(b), h, i, Q) = Line(d, b, h, i, Q)
<1>0. d \in Seq(S) /\ b \in Seq(S) /\ h \in Seq(S) /\ i \in Seq(S)
  BY DEF Queues
<1>1. PICK x \in S : x = Head(b)
  BY <1>0, HeadTailProperties
<1>2. PICK t \in Seq(S) : t = Tail(b)
  BY <1>0, HeadTailProperties
<1>3. PICK e \in Seq(S) : e = Append(d, x)
  BY <1>0, AppendProperties
<1>4. Only(b, Q) = Cat(IF x \in Q THEN <<x>> ELSE <<>>, Only(t, Q))
  BY <1>0, <1>1, <1>2, OnlyHead, Zenon DEF Cat
<1>5. Only(e, Q) = IF x \in Q THEN Append(Only(d, Q), x) ELSE Only(d, Q)
  BY <1>0, <1>3, OnlyAppend
<1>6. PICK y \in Seq(S) : y = Only(d, Q)
  BY <1>0, OnlyKeeps
<1>7. PICK z \in Seq(S) : z = Only(t, Q)
  BY OnlyKeeps
<1>8. PICK w \in Seq(S) : w = Cat(h, i)
  BY <1>0, CatType
<1>9. PICK u \in Seq(S) : u = <<x>>
  BY OneOf
<1>10. PICK v \in Seq(S) : v = Cat(z, w)
  BY CatType
<1>11. Append(y, x) = Cat(y, <<x>>) /\ Cat(<<>>, z) = z
  BY CatOne, CatEmpty
<1>12. Queues(S, e, t, h, i) /\ Three(S, u, z, w) /\ Three(S, y, u, v)
  BY <1>0 DEF Queues, Three
<1>13. /\ Line(e, t, h, i, Q) = Cat(Only(e, Q), Cat(Only(t, Q), Cat(h, i)))
       /\ Line(d, b, h, i, Q) = Cat(Only(d, Q), Cat(Only(b, Q), Cat(h, i)))
  BY <1>12, LineIs, SMT
<1>14. Cat(Cat(u, z), w) = Cat(u, Cat(z, w)) /\ Cat(Cat(y, u), v) = Cat(y, Cat(u, v))
  BY <1>12, Associates, SMT
<1>15. CASE x \notin Q
  <2>1. Only(b, Q) = z /\ Only(e, Q) = y
    BY <1>4, <1>5, <1>6, <1>7, <1>11, <1>15, Zenon
  <2> QED
    BY <1>1, <1>2, <1>3, <1>6, <1>7, <1>13, <2>1, Zenon
<1>16. CASE x \in Q
  <2>1. Only(b, Q) = Cat(u, z) /\ Only(e, Q) = Cat(y, u)
    BY <1>4, <1>5, <1>6, <1>7, <1>9, <1>11, <1>16, Zenon
  <2>2. Line(e, t, h, i, Q) = Cat(Cat(y, u), v)
    BY <1>7, <1>8, <1>10, <1>13, <2>1, Zenon
  <2>3. Line(d, b, h, i, Q) = Cat(y, Cat(Cat(u, z), w))
    BY <1>6, <1>8, <1>13, <2>1, Zenon
  <2> QED
    BY <1>1, <1>2, <1>3, <1>10, <1>14, <2>2, <2>3, Zenon
<1> QED
  BY <1>15, <1>16

LEMMA LineSkips ==
  ASSUME NEW S, NEW d, NEW b \in Seq(S), b # <<>>, NEW h, NEW i, NEW Q, Head(b) \notin Q
  PROVE  Line(d, Tail(b), h, i, Q) = Line(d, b, h, i, Q)
<1>1. Tail(b) \in Seq(S)
  BY HeadTailProperties
<1>2. PICK z \in Seq(S) : z = Only(Tail(b), Q)
  BY <1>1, OnlyKeeps
<1>3. Only(b, Q) = Cat(<<>>, z)
  BY <1>2, OnlyHead DEF Cat
<1>4. Cat(<<>>, z) = z
  BY CatEmpty
<1> QED
  BY <1>2, <1>3, <1>4, Zenon DEF Line

-----------------------------------------------------------------------------
(* The items *)

LEMMA ItemFacts ==
  /\ STOP \in Items
  /\ \A a \in Adapter : /\ Failure(a) \in Items /\ EventsOf(a) \subseteq Items
                        /\ None \notin EventsOf(a) /\ STOP \notin EventsOf(a)
  /\ \A a, b : /\ Failure(a) \notin EventsOf(b) /\ Failure(a) # STOP
               /\ Failure(a) = Failure(b) => a = b
               /\ a # b => \A x \in EventsOf(a) : x \notin EventsOf(b)
<1>1. STOP \in Items
  BY DEF Items
<1>2. ASSUME NEW a \in Adapter
      PROVE  /\ Failure(a) \in Items /\ EventsOf(a) \subseteq Items
             /\ None \notin EventsOf(a)
  BY NoneAssumption DEF Items
<1>3. ASSUME NEW a, NEW b PROVE Failure(a) \notin EventsOf(b) /\ Failure(a) # STOP /\ STOP \notin EventsOf(a)
  BY DEF Failure, EventsOf, Event, STOP
<1>4. ASSUME NEW a, NEW b PROVE Failure(a) = Failure(b) => a = b
  <2>1. Failure(a).adapter = a /\ Failure(b).adapter = b
    BY DEF Failure
  <2> QED
    BY <2>1
<1>5. ASSUME NEW a, NEW b, a # b PROVE \A x \in EventsOf(a) : x \notin EventsOf(b)
  <2>1. \A x \in EventsOf(a) : x.adapter = a
    BY DEF EventsOf, Event
  <2>2. \A x \in EventsOf(b) : x.adapter = b
    BY DEF EventsOf, Event
  <2> QED
    BY <1>5, <2>1, <2>2
<1> QED
  BY <1>1, <1>2, <1>3, <1>4, <1>5

LEMMA ItemKinds ==
  /\ \A x \in Items : x = STOP \/ x.kind \in {"failure", "event"}
  /\ \A x \in Items : x.kind = "failure" => x.adapter \in Adapter /\ x = Failure(x.adapter)
  /\ \A x \in Items : x.kind = "event" => \E a \in Adapter : x \in EventsOf(a)
<1>1. STOP.kind = "stop"
  BY DEF STOP
<1>2. \A a : Failure(a).kind = "failure" /\ Failure(a).adapter = a
  BY DEF Failure
<1>3. \A a : \A x \in EventsOf(a) : x.kind = "event"
  BY DEF EventsOf, Event
<1>4. ASSUME NEW x \in Items
      PROVE  \/ x = STOP
             \/ \E a \in Adapter : x = Failure(a)
             \/ \E a \in Adapter : x \in EventsOf(a)
  BY DEF Items
<1> QED
  BY <1>1, <1>2, <1>3, <1>4

(* The first n events of an adapter. *)
Told(a, n) == [k \in 1..n |-> Event(a, k)]

LEMMA ToldGrows ==
  ASSUME NEW a \in Adapter, NEW n \in Nat, n < MaxEvents
  PROVE  /\ Told(a, n) \in Seq(Items) /\ Event(a, n + 1) \in EventsOf(a)
         /\ Told(a, n + 1) = Append(Told(a, n), Event(a, n + 1))
<1>1. MaxEvents \in Nat
  BY SizeAssumption
<1>2. \A k \in 1..(n + 1) : Event(a, k) \in EventsOf(a)
  BY <1>1 DEF EventsOf
<1>3. \A k \in 1..n : Event(a, k) \in Items
  BY <1>2, ItemFacts
<1>4. Told(a, n) \in Seq(Items) /\ Len(Told(a, n)) = n
  BY <1>3 DEF Told
<1>5. Told(a, n + 1) = Append(Told(a, n), Event(a, n + 1))
  <2> HIDE DEF Event
  <2> QED
    BY DEF Told
<1> QED
  BY <1>2, <1>4, <1>5

-----------------------------------------------------------------------------
(* The invariant *)

WayInv ==
    \A a \in Adapter :
      /\ ~stopped => Line(delivered, bus, Held(a), inbox[a], EventsOf(a)) = Promised(a)
      /\ IsPrefix(From(a, delivered), Promised(a))

StartInv ==
    /\ \A i \in 1..Len(Adapters) : i > started => source[Adapters[i]] = "down"
    /\ \A a \in Adapter : source[a] = "down" => pump[a] = "none" /\ a \notin toStop
    /\ starter = "starting" => consumer = "none"

NothingAfter(s, a) ==
    \A i, j \in 1..Len(s) : s[i] = Failure(a) /\ i < j => s[j] \notin EventsOf(a)

Ended(a) == a \in Required /\ source[a] \in {"failed", "stopped"} /\ inbox[a] = <<>>

FailureInv ==
    \A a \in Adapter :
      /\ pump[a] \in {"reporting", "crashed"} => Ended(a)
      /\ Has(bus, Failure(a)) => pump[a] = "crashed"
      /\ NothingAfter(bus, a)

RaisedInv ==
    consumer = "failed" => /\ cause \in Required /\ source[cause] \in {"failed", "stopped"}
                           /\ From(cause, delivered) = Promised(cause)

BusInv == BusTypeOK /\ StartInv /\ FailureInv /\ RaisedInv /\ WayInv

LEMMA AdapterFacts ==
  /\ Len(Adapters) \in Nat /\ AdapterMax \in Nat /\ MaxSize \in Nat /\ MaxEvents \in Nat
  /\ AdapterMax > 0 /\ MaxSize > 0
  /\ \A i \in 1..Len(Adapters) : Adapters[i] \in Adapter
  /\ \A i, k \in 1..Len(Adapters) : Adapters[i] = Adapters[k] => i = k
  /\ Required \subseteq Adapter
  BY SizeAssumption DEF Injective

LEMMA BusInvInit == BusInit => BusInv
<1> SUFFICES ASSUME BusInit PROVE BusInv
  OBVIOUS
<1>1. BusTypeOK
  <2>1. <<>> \in Seq(Items) /\ (\A a : <<>> \in Seq(EventsOf(a))) /\ Len(<<>>) = 0
    OBVIOUS
  <2>2. /\ inbox \in [Adapter -> Seq(Items)]
        /\ \A a \in Adapter : inbox[a] \in Seq(EventsOf(a)) /\ Len(inbox[a]) <= AdapterMax
    BY <2>1, AdapterFacts DEF BusInit
  <2>3. /\ hand \in [Adapter -> Items \cup {None}]
        /\ \A a \in Adapter : hand[a] \in EventsOf(a) \cup {None}
        /\ \A a \in Adapter : hand[a] # None <=> pump[a] = "holding"
    BY DEF BusInit
  <2>4. bus \in Seq(Items) /\ delivered \in Seq(Items) /\ Len(bus) <= MaxSize
    BY <2>1, AdapterFacts DEF BusInit
  <2>5. /\ started \in 0..Len(Adapters)
        /\ accepted \in [Adapter -> 0..MaxEvents]
    BY AdapterFacts DEF BusInit
  <2> QED
    BY <2>2, <2>3, <2>4, <2>5 DEF BusInit, BusTypeOK
<1>2. StartInv
  BY AdapterFacts DEF BusInit, StartInv
<1>3. FailureInv
  BY EmptyHas DEF BusInit, FailureInv, NothingAfter
<1>4. RaisedInv
  BY DEF BusInit, RaisedInv
<1>5. ASSUME NEW a \in Adapter
      PROVE  /\ Line(delivered, bus, Held(a), inbox[a], EventsOf(a)) = Promised(a)
             /\ IsPrefix(From(a, delivered), Promised(a))
  <2>1. Promised(a) = <<>>
    BY <1>5 DEF BusInit, Promised
  <2>2. From(a, delivered) = <<>> /\ Only(bus, EventsOf(a)) = <<>>
    BY OnlyEmpty DEF BusInit, From
  <2>3. Held(a) = <<>> /\ inbox[a] = <<>>
    BY DEF BusInit, Held
  <2>4. <<>> \in Seq(Items)
    OBVIOUS
  <2>5. Cat(<<>>, <<>>) = <<>>
    BY <2>4, CatEmpty
  <2>6. IsPrefix(<<>>, <<>>)
    <3>1. IsPrefix(<<>>, <<>> \o <<>>)
      BY <2>4, PrefixOfConcat
    <3> QED
      BY <2>5, <3>1 DEF Cat
  <2> QED
    BY <2>1, <2>2, <2>3, <2>5, <2>6 DEF Line, From
<1> QED
  BY <1>1, <1>2, <1>3, <1>4, <1>5 DEF BusInv, WayInv

-----------------------------------------------------------------------------
(* Its steps, a part at a time *)

LEMMA SeqFacts ==
  ASSUME NEW S, NEW s \in Seq(S)
  PROVE  /\ Len(s) \in Nat
         /\ s # <<>> => /\ Tail(s) \in Seq(S) /\ Head(s) \in S
                        /\ Len(Tail(s)) = Len(s) - 1 /\ Len(s) > 0
         /\ \A x \in S : Append(s, x) \in Seq(S) /\ Len(Append(s, x)) = Len(s) + 1
<1>1. Len(s) \in Nat
  OBVIOUS
<1>2. ASSUME s # <<>>
      PROVE  Tail(s) \in Seq(S) /\ Head(s) \in S /\ Len(Tail(s)) = Len(s) - 1 /\ Len(s) > 0
  BY <1>2, HeadTailProperties, EmptySeq
<1>3. \A x \in S : Append(s, x) \in Seq(S) /\ Len(Append(s, x)) = Len(s) + 1
  BY AppendProperties
<1> QED
  BY <1>1, <1>2, <1>3

LEMMA StartsNext ==
  ASSUME BusInv, StartAdapter
  PROVE  LET a == Adapters[started + 1] IN
         /\ a \in Adapter /\ source[a] = "down" /\ pump[a] = "none"
         /\ started + 1 \in 1..Len(Adapters) /\ started' = started + 1
         /\ \A i \in 1..Len(Adapters) : i > started + 1 => Adapters[i] # a
<1>1. /\ started \in Nat /\ started < Len(Adapters) /\ started' = started + 1
  BY AdapterFacts DEF StartAdapter, BusInv, BusTypeOK
<1>2. started + 1 \in 1..Len(Adapters) /\ started + 1 > started
  BY <1>1, AdapterFacts
<1>3. Adapters[started + 1] \in Adapter
  BY <1>2, AdapterFacts
<1>4. source[Adapters[started + 1]] = "down"
  BY <1>2 DEF BusInv, StartInv
<1>5. pump[Adapters[started + 1]] = "none"
  BY <1>3, <1>4 DEF BusInv, StartInv
<1>6. ASSUME NEW i \in 1..Len(Adapters), i > started + 1 PROVE Adapters[i] # Adapters[started + 1]
  BY <1>1, <1>2, <1>6, AdapterFacts
<1> QED
  BY <1>1, <1>2, <1>3, <1>4, <1>5, <1>6

LEMMA BusTypesStep ==
  ASSUME BusInv, [BusNext]_busVars
  PROVE  BusTypeOK'
<1> USE DEF startup, stopping, reader
<1>1. BusTypeOK
  BY DEF BusInv
<1>2. ASSUME UNCHANGED busVars PROVE BusTypeOK'
  BY <1>1, <1>2 DEF BusTypeOK, busVars
<1>3. ASSUME StartAdapter PROVE BusTypeOK'
  <2>1. PICK a \in Adapter : a = Adapters[started + 1]
    BY <1>3, StartsNext
  <2>2. /\ started' \in 0..Len(Adapters) /\ pump[a] = "none"
        /\ source' = [source EXCEPT ![a] = "up"] /\ pump' = [pump EXCEPT ![a] = "waiting"]
    BY <1>3, <2>1, StartsNext DEF StartAdapter
  <2>3. /\ \A b \in Adapter : hand[b] # None <=> pump'[b] = "holding"
        /\ pump' \in [Adapter -> Alive \cup {"none", "done", "crashed", "cancelled"}]
        /\ source' \in [Adapter -> {"down", "up", "failed", "stopped"}]
    BY <1>1, <2>2 DEF BusTypeOK, Alive
  <2> QED
    BY <1>1, <1>3, <2>2, <2>3 DEF StartAdapter, BusTypeOK
<1>4. ASSUME StartDone PROVE BusTypeOK'
  BY <1>1, <1>4 DEF StartDone, BusTypeOK
<1>5. ASSUME StartFails PROVE BusTypeOK'
  BY <1>1, <1>5 DEF StartFails, BusTypeOK, BeginStop, stopped
<1>6. ASSUME NEW a \in Adapter, Accept(a) PROVE BusTypeOK'
  <2>1. accepted[a] \in Nat /\ accepted[a] + 1 \in 0..MaxEvents /\ MaxEvents \in Nat
    BY <1>1, <1>6, AdapterFacts DEF Accept, BusTypeOK
  <2>2. Event(a, accepted[a] + 1) \in EventsOf(a)
    BY <2>1 DEF EventsOf
  <2>3. /\ inbox[a] \in Seq(EventsOf(a)) /\ Len(inbox[a]) < AdapterMax
        /\ AdapterMax \in Nat
    BY <1>1, <1>6, AdapterFacts DEF Accept, BusTypeOK
  <2>4. /\ inbox'[a] \in Seq(EventsOf(a)) /\ Len(inbox'[a]) <= AdapterMax
        /\ \A b \in Adapter : b # a => inbox'[b] = inbox[b]
    <3> HIDE DEF Event
    <3>1. \A x \in EventsOf(a) : /\ Append(inbox[a], x) \in Seq(EventsOf(a))
                                 /\ Len(Append(inbox[a], x)) = Len(inbox[a]) + 1
                                 /\ Len(inbox[a]) \in Nat
      BY <2>3, SeqFacts
    <3>2. inbox' = [inbox EXCEPT ![a] = Append(inbox[a], Event(a, accepted[a] + 1))]
      BY <1>6 DEF Accept
    <3>3. inbox'[a] = Append(inbox[a], Event(a, accepted[a] + 1))
      BY <1>1, <3>2 DEF BusTypeOK
    <3> QED
      BY <1>1, <2>2, <2>3, <3>1, <3>2, <3>3 DEF BusTypeOK
  <2>5. accepted' \in [Adapter -> 0..MaxEvents]
    BY <1>1, <1>6, <2>1 DEF Accept, BusTypeOK
  <2>6. \A b \in Adapter : inbox'[b] \in Seq(EventsOf(b)) /\ Len(inbox'[b]) <= AdapterMax
    BY <1>1, <2>4 DEF BusTypeOK
  <2>7. inbox' \in [Adapter -> Seq(Items)]
    <3>1. inbox' = [inbox EXCEPT ![a] = inbox'[a]]
      BY <1>1, <1>6 DEF Accept, BusTypeOK
    <3>2. inbox'[a] \in Seq(Items)
      BY <2>4, ItemFacts, SeqMonotonic
    <3> QED
      BY <1>1, <3>1, <3>2 DEF BusTypeOK
  <2> QED
    BY <1>1, <1>6, <2>5, <2>6, <2>7 DEF Accept, BusTypeOK
<1>7. ASSUME NEW a \in Adapter, SourceFails(a) PROVE BusTypeOK'
  BY <1>1, <1>7 DEF SourceFails, BusTypeOK
<1>8. ASSUME NEW a \in Adapter, TakeEvent(a) PROVE BusTypeOK'
  <2>1. /\ inbox[a] \in Seq(EventsOf(a)) /\ inbox[a] # <<>> /\ Len(inbox[a]) <= AdapterMax
        /\ inbox' = [inbox EXCEPT ![a] = Tail(inbox[a])]
        /\ pump[a] = "waiting" /\ hand[a] = None
    BY <1>1, <1>8 DEF TakeEvent, BusTypeOK
  <2>2. /\ Tail(inbox[a]) \in Seq(EventsOf(a)) /\ Head(inbox[a]) \in EventsOf(a)
        /\ Len(Tail(inbox[a])) <= AdapterMax
    BY <2>1, SeqFacts, AdapterFacts
  <2>3. \A b \in Adapter : inbox'[b] \in Seq(EventsOf(b)) /\ Len(inbox'[b]) <= AdapterMax
    BY <1>1, <2>1, <2>2 DEF BusTypeOK
  <2>6. inbox' \in [Adapter -> Seq(Items)]
    <3>1. Tail(inbox[a]) \in Seq(Items)
      BY <2>2, ItemFacts, SeqMonotonic
    <3> QED
      BY <1>1, <2>1, <3>1 DEF BusTypeOK
  <2>4. Head(inbox[a]) # None
    BY <2>2, ItemFacts
  <2>5. /\ pump' \in [Adapter -> Alive \cup {"none", "done", "crashed", "cancelled"}]
        /\ \A b \in Adapter : hand'[b] \in EventsOf(b) \cup {None}
        /\ \A b \in Adapter : hand'[b] # None <=> pump'[b] = "holding"
        /\ hand' \in [Adapter -> Items \cup {None}]
    <3>1. CASE stopped
      BY <1>1, <1>8, <2>1, <3>1 DEF TakeEvent, BusTypeOK, Alive
    <3>2. CASE ~stopped
      <4>1. /\ pump' = [pump EXCEPT ![a] = "holding"]
            /\ hand' = [hand EXCEPT ![a] = Head(inbox[a])]
        BY <1>8, <3>2 DEF TakeEvent
      <4> QED
        BY <1>1, <2>2, <2>4, <4>1 DEF BusTypeOK, Alive
    <3> QED
      BY <3>1, <3>2
  <2> QED
    BY <1>1, <1>8, <2>1, <2>3, <2>5, <2>6 DEF TakeEvent, BusTypeOK
<1>9. ASSUME NEW a \in Adapter, PutEvent(a) PROVE BusTypeOK'
  <2>1. hand[a] \in Items /\ bus' = Append(bus, hand[a]) /\ Len(bus) < MaxSize
    BY <1>1, <1>9, ItemFacts DEF PutEvent, PutWait, Room, BusTypeOK
  <2>2. bus' \in Seq(Items) /\ Len(bus') <= MaxSize
    BY <1>1, <2>1, SeqFacts, AdapterFacts DEF BusTypeOK
  <2>3. /\ pump' = [pump EXCEPT ![a] = "waiting"] /\ hand' = [hand EXCEPT ![a] = None]
    BY <1>9 DEF PutEvent
  <2>4. /\ pump' \in [Adapter -> Alive \cup {"none", "done", "crashed", "cancelled"}]
        /\ \A b \in Adapter : hand'[b] \in EventsOf(b) \cup {None}
        /\ \A b \in Adapter : hand'[b] # None <=> pump'[b] = "holding"
        /\ hand' \in [Adapter -> Items \cup {None}]
    BY <1>1, <2>3 DEF BusTypeOK, Alive
  <2> QED
    BY <1>1, <1>9, <2>2, <2>4 DEF PutEvent, BusTypeOK
<1>10. ASSUME NEW a \in Adapter, StreamEnds(a) PROVE BusTypeOK'
  BY <1>1, <1>10 DEF StreamEnds, BusTypeOK, Alive
<1>11. ASSUME NEW a \in Adapter, PutFailure(a) PROVE BusTypeOK'
  <2>1. Failure(a) \in Items /\ bus' = Append(bus, Failure(a)) /\ Len(bus) < MaxSize
    BY <1>11, ItemFacts DEF PutFailure, PutWait, Room
  <2>2. bus' \in Seq(Items) /\ Len(bus') <= MaxSize
    BY <1>1, <2>1, SeqFacts, AdapterFacts DEF BusTypeOK
  <2> QED
    BY <1>1, <1>11, <2>2 DEF PutFailure, BusTypeOK
<1>12. ASSUME NEW a \in Adapter, StopAdapter(a) PROVE BusTypeOK'
  BY <1>1, <1>12 DEF StopAdapter, BusTypeOK
<1>13. ASSUME GetItem PROVE BusTypeOK'
  <2>1. /\ bus # <<>> /\ bus \in Seq(Items) /\ Len(bus) <= MaxSize /\ bus' = Tail(bus)
        /\ delivered \in Seq(Items)
    BY <1>1, <1>13 DEF GetItem, BusTypeOK
  <2>2. bus' \in Seq(Items) /\ Len(bus') <= MaxSize /\ Head(bus) \in Items
    BY <2>1, SeqFacts, AdapterFacts
  <2>3. /\ consumer' \in {"returned", "failed", "busy"}
        /\ delivered' \in {delivered, Append(delivered, Head(bus))}
        /\ cause' = cause \/ (Head(bus).kind = "failure" /\ cause' = Head(bus).adapter)
    BY <1>13 DEF GetItem
  <2>4. delivered' \in Seq(Items)
    BY <2>1, <2>2, <2>3, SeqFacts
  <2>5. cause' \in Adapter \cup {None}
    <3>1. cause \in Adapter \cup {None}
      BY <1>1 DEF BusTypeOK
    <3>2. Head(bus).kind = "failure" => Head(bus).adapter \in Adapter
      BY <2>2, ItemKinds
    <3> QED
      BY <2>3, <3>1, <3>2
  <2> QED
    BY <1>1, <1>13, <2>2, <2>3, <2>4, <2>5 DEF GetItem, BusTypeOK
<1>14. ASSUME EventHandled PROVE BusTypeOK'
  BY <1>1, <1>14 DEF EventHandled, BusTypeOK
<1>15. ASSUME Stop PROVE BusTypeOK'
  BY <1>1, <1>15 DEF Stop, BeginStop, BusTypeOK
<1>16. ASSUME CancelPumps PROVE BusTypeOK'
  <2>1. /\ pump' = [a \in Adapter |-> IF pump[a] \in Alive THEN "cancelled" ELSE pump[a]]
        /\ hand' = [a \in Adapter |-> None]
    BY <1>16 DEF CancelPumps
  <2>2. /\ pump' \in [Adapter -> Alive \cup {"none", "done", "crashed", "cancelled"}]
        /\ \A b \in Adapter : pump'[b] # "holding"
    BY <1>1, <2>1 DEF BusTypeOK, Alive
  <2>3. /\ \A b \in Adapter : hand'[b] \in EventsOf(b) \cup {None}
        /\ \A b \in Adapter : hand'[b] # None <=> pump'[b] = "holding"
        /\ hand' \in [Adapter -> Items \cup {None}]
    BY <2>1, <2>2
  <2> QED
    BY <1>1, <1>16, <2>2, <2>3 DEF CancelPumps, BusTypeOK
<1>17. ASSUME WakeStream PROVE BusTypeOK'
  <2>1. bus' = bus \/ (bus' = Append(bus, STOP) /\ Len(bus) < MaxSize)
    BY <1>17 DEF WakeStream, WithStop, Room
  <2>2. bus' \in Seq(Items) /\ Len(bus') <= MaxSize
    <3>1. bus \in Seq(Items) /\ Len(bus) <= MaxSize /\ STOP \in Items
      BY <1>1, ItemFacts DEF BusTypeOK
    <3>2. /\ Append(bus, STOP) \in Seq(Items) /\ Len(Append(bus, STOP)) = Len(bus) + 1
          /\ Len(bus) \in Nat
      BY <3>1, SeqFacts
    <3> QED
      BY <2>1, <3>1, <3>2, AdapterFacts
  <2> QED
    BY <1>1, <1>17, <2>2 DEF WakeStream, BusTypeOK
<1> QED
  BY <1>2, <1>3, <1>4, <1>5, <1>6, <1>7, <1>8, <1>9, <1>10, <1>11, <1>12, <1>13, <1>14,
     <1>15, <1>16, <1>17 DEF BusNext

LEMMA StartStep ==
  ASSUME BusInv, [BusNext]_busVars
  PROVE  StartInv'
<1> USE DEF startup, stopping, reader
<1>1. BusTypeOK /\ StartInv
  BY DEF BusInv
<1>2. ASSUME UNCHANGED <<started, starter, source, pump, toStop, consumer>> PROVE StartInv'
  BY <1>1, <1>2 DEF StartInv
<1>3. ASSUME StartAdapter PROVE StartInv'
  <2>1. PICK a \in Adapter : a = Adapters[started + 1]
    BY <1>3, StartsNext
  <2>2. /\ started' = started + 1
        /\ source' = [source EXCEPT ![a] = "up"] /\ pump' = [pump EXCEPT ![a] = "waiting"]
        /\ UNCHANGED <<toStop, starter, consumer>>
    BY <1>3, <2>1 DEF StartAdapter
  <2>3. ASSUME NEW i \in 1..Len(Adapters), i > started' PROVE source'[Adapters[i]] = "down"
    <3>1. i > started /\ i > started + 1
      BY <1>1, <2>2, <2>3, AdapterFacts DEF BusTypeOK
    <3>2. Adapters[i] # a /\ Adapters[i] \in Adapter
      BY <1>3, <2>1, <3>1, StartsNext, AdapterFacts
    <3> QED
      BY <1>1, <2>2, <3>1, <3>2 DEF StartInv, BusTypeOK
  <2>4. \A b \in Adapter : source'[b] = "down" => pump'[b] = "none" /\ b \notin toStop'
    BY <1>1, <2>2 DEF StartInv, BusTypeOK
  <2> QED
    BY <1>1, <2>2, <2>3, <2>4 DEF StartInv
<1>4. ASSUME StartDone PROVE StartInv'
  BY <1>1, <1>4 DEF StartDone, StartInv
<1>5. ASSUME StartFails PROVE StartInv'
  BY <1>1, <1>5 DEF StartFails, StartInv, BeginStop
<1>6. ASSUME NEW a \in Adapter,
             \/ SourceFails(a) \/ TakeEvent(a) \/ PutEvent(a) \/ StreamEnds(a) \/ PutFailure(a)
      PROVE  StartInv'
  <2>1. /\ UNCHANGED <<started, starter, toStop, consumer>>
        /\ \/ UNCHANGED source
           \/ source[a] = "up" /\ source' = [source EXCEPT ![a] = "failed"]
        /\ \/ UNCHANGED pump
           \/ pump[a] # "none" /\ \E x : pump' = [pump EXCEPT ![a] = x]
    BY <1>6 DEF SourceFails, TakeEvent, PutEvent, StreamEnds, PutFailure
  <2>2. \A b \in Adapter : /\ source'[b] = "down" <=> source[b] = "down"
                           /\ pump[b] = "none" => pump'[b] = "none"
    BY <1>1, <2>1 DEF BusTypeOK
  <2>3. \A i \in 1..Len(Adapters) : Adapters[i] \in Adapter
    BY AdapterFacts
  <2> QED
    BY <1>1, <2>1, <2>2, <2>3 DEF StartInv
<1>7. ASSUME NEW a \in Adapter, StopAdapter(a) PROVE StartInv'
  <2>1. /\ a \in toStop /\ source' = [source EXCEPT ![a] = "stopped"] /\ toStop' = toStop \ {a}
        /\ UNCHANGED <<started, starter, pump, consumer>>
    BY <1>7 DEF StopAdapter
  <2>2. \A b \in Adapter : source'[b] = "down" <=> source[b] = "down"
    BY <1>1, <2>1 DEF StartInv, BusTypeOK
  <2>3. \A i \in 1..Len(Adapters) : Adapters[i] \in Adapter
    BY AdapterFacts
  <2> QED
    BY <1>1, <2>1, <2>2, <2>3 DEF StartInv
<1>8. ASSUME GetItem \/ EventHandled PROVE StartInv'
  BY <1>1, <1>8 DEF GetItem, EventHandled, StartInv
<1>9. ASSUME Stop PROVE StartInv'
  BY <1>1, <1>9 DEF Stop, BeginStop, StartInv
<1>10. ASSUME CancelPumps PROVE StartInv'
  BY <1>1, <1>10 DEF CancelPumps, StartInv, Alive
<1>11. ASSUME WakeStream PROVE StartInv'
  BY <1>1, <1>11 DEF WakeStream, StartInv
<1>12. ASSUME NEW a \in Adapter, Accept(a) PROVE StartInv'
  BY <1>2, <1>12 DEF Accept
<1>13. ASSUME UNCHANGED busVars PROVE StartInv'
  BY <1>2, <1>13 DEF busVars
<1> QED
  BY <1>3, <1>4, <1>5, <1>6, <1>7, <1>8, <1>9, <1>10, <1>11, <1>12, <1>13 DEF BusNext

LEMMA NothingAfterAppend ==
  ASSUME NEW s \in Seq(Items), NEW x \in Items, NEW a, NothingAfter(s, a),
         x \in EventsOf(a) => ~Has(s, Failure(a))
  PROVE  NothingAfter(Append(s, x), a)
<1> DEFINE t == Append(s, x)
<1>1. /\ Len(t) = Len(s) + 1 /\ Len(s) \in Nat /\ t[Len(s) + 1] = x
      /\ \A i \in 1..Len(s) : t[i] = s[i]
  BY AppendProperties
<1> HIDE DEF t
<1>2. ASSUME NEW i \in 1..Len(t), NEW j \in 1..Len(t), t[i] = Failure(a), i < j
      PROVE  t[j] \notin EventsOf(a)
  <2>1. i \in 1..Len(s) /\ s[i] = Failure(a)
    BY <1>1, <1>2
  <2>2. CASE j \in 1..Len(s)
    BY <1>1, <1>2, <2>1, <2>2 DEF NothingAfter
  <2>3. CASE j = Len(s) + 1
    BY <1>1, <2>1, <2>3 DEF Has
  <2> QED
    BY <1>1, <2>2, <2>3
<1> QED
  BY <1>2 DEF NothingAfter, t

LEMMA NothingAfterTail ==
  ASSUME NEW s \in Seq(Items), s # <<>>, NEW a, NothingAfter(s, a)
  PROVE  /\ NothingAfter(Tail(s), a)
         /\ Head(s) = Failure(a) => Only(s, EventsOf(a)) = <<>>
<1> DEFINE t == Tail(s)
<1>1. /\ t \in Seq(Items) /\ Len(t) = Len(s) - 1 /\ Len(s) \in Nat /\ Len(s) > 0
      /\ \A i \in 1..Len(t) : t[i] = s[i + 1]
  BY HeadTailProperties, EmptySeq
<1> HIDE DEF t
<1>2. \A i \in 1..Len(t) : i + 1 \in 1..Len(s)
  BY <1>1
<1>3. ASSUME NEW i \in 1..Len(t), NEW j \in 1..Len(t), t[i] = Failure(a), i < j
      PROVE  t[j] \notin EventsOf(a)
  <2>1. s[i + 1] = Failure(a) /\ i + 1 < j + 1
    BY <1>1, <1>3
  <2> QED
    BY <1>1, <1>2, <2>1 DEF NothingAfter
<1>4. ASSUME Head(s) = Failure(a) PROVE Only(s, EventsOf(a)) = <<>>
  <2>1. s[1] = Failure(a) /\ 1 \in 1..Len(s)
    BY <1>1, <1>4
  <2>2. ASSUME NEW j \in 1..Len(s) PROVE s[j] \notin EventsOf(a)
    <3>1. CASE j = 1
      BY <2>1, <3>1, ItemFacts
    <3>2. CASE j # 1
      BY <1>1, <2>1, <3>2 DEF NothingAfter
    <3> QED
      BY <3>1, <3>2
  <2>3. Only(s, EventsOf(a)) \in Seq(Items) /\ \A x : ~Has(Only(s, EventsOf(a)), x)
    BY <2>2, OnlyKeeps DEF Has
  <2> QED
    BY <2>3, NothingHas
<1> QED
  BY <1>3, <1>4 DEF NothingAfter, t

LEMMA FailureStep ==
  ASSUME BusInv, [BusNext]_busVars
  PROVE  FailureInv'
<1> USE DEF startup, stopping, reader
<1>1. BusTypeOK /\ FailureInv
  BY DEF BusInv
<1>2. ASSUME UNCHANGED <<pump, source, inbox, bus>> PROVE FailureInv'
  BY <1>1, <1>2 DEF FailureInv, Ended
<1>3. ASSUME StartAdapter PROVE FailureInv'
  <2>1. PICK a \in Adapter : a = Adapters[started + 1] /\ source[a] = "down" /\ pump[a] = "none"
    BY <1>3, StartsNext
  <2>2. /\ source' = [source EXCEPT ![a] = "up"] /\ pump' = [pump EXCEPT ![a] = "waiting"]
        /\ UNCHANGED <<inbox, bus>>
    BY <1>3, <2>1 DEF StartAdapter
  <2>3. ~Has(bus, Failure(a))
    BY <1>1, <2>1 DEF FailureInv
  <2> QED
    BY <1>1, <2>2, <2>3 DEF FailureInv, Ended, BusTypeOK
<1>4. ASSUME NEW a \in Adapter, Accept(a) PROVE FailureInv'
  <2>1. /\ source[a] = "up" /\ \E x : inbox' = [inbox EXCEPT ![a] = x]
        /\ UNCHANGED <<source, pump, bus>>
    BY <1>4 DEF Accept
  <2> QED
    BY <1>1, <2>1 DEF FailureInv, Ended, BusTypeOK
<1>5. ASSUME NEW a \in Adapter, SourceFails(a) PROVE FailureInv'
  BY <1>1, <1>5 DEF SourceFails, FailureInv, Ended, BusTypeOK
<1>6. ASSUME NEW a \in Adapter, TakeEvent(a) PROVE FailureInv'
  <2>1. /\ pump[a] = "waiting"
        /\ \E x : inbox' = [inbox EXCEPT ![a] = x]
        /\ \E x \in {"done", "holding"} : pump' = [pump EXCEPT ![a] = x]
        /\ UNCHANGED <<source, bus>>
    BY <1>6 DEF TakeEvent
  <2> QED
    BY <1>1, <2>1 DEF FailureInv, Ended, BusTypeOK
<1>7. ASSUME NEW a \in Adapter, PutEvent(a) PROVE FailureInv'
  <2>1. /\ pump[a] = "holding" /\ pump' = [pump EXCEPT ![a] = "waiting"]
        /\ bus' = Append(bus, hand[a]) /\ UNCHANGED <<source, inbox>>
    BY <1>7 DEF PutEvent, PutWait
  <2>2. hand[a] \in EventsOf(a) /\ hand[a] \in Items /\ bus \in Seq(Items)
    BY <1>1, <2>1, ItemFacts DEF BusTypeOK
  <2>3. ~Has(bus, Failure(a))
    BY <1>1, <2>1 DEF FailureInv
  <2>4. ASSUME NEW b \in Adapter PROVE NothingAfter(bus', b) /\ (Has(bus', Failure(b)) <=> Has(bus, Failure(b)))
    <3>1. hand[a] # Failure(b) /\ (hand[a] \in EventsOf(b) => b = a)
      BY <2>2, ItemFacts
    <3>2. NothingAfter(bus, b)
      BY <1>1 DEF FailureInv
    <3> QED
      BY <2>1, <2>2, <2>3, <3>1, <3>2, NothingAfterAppend, AppendHas
  <2> QED
    BY <1>1, <2>1, <2>4 DEF FailureInv, Ended, BusTypeOK
<1>8. ASSUME NEW a \in Adapter, StreamEnds(a) PROVE FailureInv'
  BY <1>1, <1>8 DEF StreamEnds, EventsEnd, FailureIsFatal, FailureInv, Ended, BusTypeOK
<1>9. ASSUME NEW a \in Adapter, PutFailure(a) PROVE FailureInv'
  <2>1. /\ pump[a] = "reporting" /\ pump' = [pump EXCEPT ![a] = "crashed"]
        /\ bus' = Append(bus, Failure(a)) /\ UNCHANGED <<source, inbox>>
    BY <1>9 DEF PutFailure, PutWait
  <2>2. Failure(a) \in Items /\ bus \in Seq(Items)
    BY <1>1, ItemFacts DEF BusTypeOK
  <2>3. ASSUME NEW b \in Adapter
        PROVE  NothingAfter(bus', b) /\ (Has(bus', Failure(b)) => Has(bus, Failure(b)) \/ b = a)
    <3>1. Failure(a) \notin EventsOf(b) /\ (Failure(a) = Failure(b) => b = a)
      BY ItemFacts
    <3>2. NothingAfter(bus, b)
      BY <1>1 DEF FailureInv
    <3> HIDE DEF Failure
    <3> QED
      BY <2>1, <2>2, <3>1, <3>2, NothingAfterAppend, AppendHas
  <2> QED
    BY <1>1, <2>1, <2>3 DEF FailureInv, Ended, BusTypeOK
<1>10. ASSUME NEW a \in Adapter, StopAdapter(a) PROVE FailureInv'
  BY <1>1, <1>10 DEF StopAdapter, FailureInv, Ended, BusTypeOK
<1>11. ASSUME GetItem PROVE FailureInv'
  <2>1. bus # <<>> /\ bus' = Tail(bus) /\ bus \in Seq(Items) /\ UNCHANGED <<pump, source, inbox>>
    BY <1>1, <1>11 DEF GetItem, BusTypeOK
  <2>2. \A b \in Adapter : NothingAfter(bus', b)
    BY <1>1, <2>1, NothingAfterTail DEF FailureInv
  <2>3. \A x : Has(bus', x) => Has(bus, x)
    BY <2>1, TailHas
  <2> QED
    BY <1>1, <2>1, <2>2, <2>3 DEF FailureInv, Ended
<1>12. ASSUME CancelPumps PROVE FailureInv'
  <2>1. /\ pump' = [a \in Adapter |-> IF pump[a] \in Alive THEN "cancelled" ELSE pump[a]]
        /\ UNCHANGED <<source, inbox, bus>>
    BY <1>12 DEF CancelPumps
  <2>2. \A b \in Adapter : /\ pump[b] = "crashed" => pump'[b] = "crashed"
                           /\ pump'[b] \in {"reporting", "crashed"} => pump[b] = "crashed"
    BY <2>1 DEF Alive
  <2> QED
    BY <1>1, <2>1, <2>2 DEF FailureInv, Ended
<1>13. ASSUME WakeStream PROVE FailureInv'
  <2>1. /\ bus' = bus \/ bus' = Append(bus, STOP)
        /\ UNCHANGED <<pump, source, inbox>>
    BY <1>13 DEF WakeStream, WithStop
  <2>2. STOP \in Items /\ bus \in Seq(Items)
    BY <1>1, ItemFacts DEF BusTypeOK
  <2>3. ASSUME NEW b \in Adapter PROVE NothingAfter(bus', b) /\ (Has(bus', Failure(b)) => Has(bus, Failure(b)))
    <3>1. STOP \notin EventsOf(b) /\ STOP # Failure(b)
      BY ItemFacts
    <3>2. NothingAfter(bus, b)
      BY <1>1 DEF FailureInv
    <3>3. NothingAfter(Append(bus, STOP), b) /\ (Has(Append(bus, STOP), Failure(b)) => Has(bus, Failure(b)))
      BY <2>2, <3>1, <3>2, NothingAfterAppend, AppendHas
    <3> QED
      BY <2>1, <3>2, <3>3
  <2> QED
    BY <1>1, <2>1, <2>3 DEF FailureInv, Ended
<1>14. ASSUME StartDone \/ StartFails \/ EventHandled \/ Stop PROVE FailureInv'
  BY <1>2, <1>14 DEF StartDone, StartFails, EventHandled, Stop
<1>15. ASSUME UNCHANGED busVars PROVE FailureInv'
  BY <1>2, <1>15 DEF busVars
<1> QED
  BY <1>3, <1>4, <1>5, <1>6, <1>7, <1>8, <1>9, <1>10, <1>11, <1>12, <1>13, <1>14, <1>15 DEF BusNext

LEMMA HeldTypes ==
  ASSUME BusTypeOK, NEW a \in Adapter
  PROVE  /\ Queues(Items, delivered, bus, Held(a), inbox[a])
         /\ Promised(a) = Told(a, accepted[a])
         /\ accepted[a] \in Nat
<1>1. Held(a) \in Seq(Items)
  <2>1. hand[a] # None => <<hand[a]>> \in Seq(Items)
    BY OneOf DEF BusTypeOK
  <2>2. <<>> \in Seq(Items)
    OBVIOUS
  <2> QED
    BY <2>1, <2>2 DEF Held
<1>2. delivered \in Seq(Items) /\ bus \in Seq(Items) /\ inbox[a] \in Seq(Items)
  BY DEF BusTypeOK
<1>3. accepted[a] \in Nat
  BY AdapterFacts DEF BusTypeOK
<1> QED
  BY <1>1, <1>2, <1>3 DEF Queues, Promised, Told

LEMMA RaisedStep ==
  ASSUME BusInv, [BusNext]_busVars
  PROVE  RaisedInv'
<1> USE DEF startup, stopping, reader
<1>1. BusTypeOK /\ RaisedInv
  BY DEF BusInv
<1>2. ASSUME UNCHANGED <<consumer, cause, delivered, source, accepted>> PROVE RaisedInv'
  BY <1>1, <1>2 DEF RaisedInv, From, Promised
<1>3. ASSUME StartAdapter PROVE RaisedInv'
  <2>1. PICK a \in Adapter : a = Adapters[started + 1] /\ source[a] = "down"
    BY <1>3, StartsNext
  <2>2. /\ source' = [source EXCEPT ![a] = "up"]
        /\ UNCHANGED <<consumer, cause, delivered, accepted>>
    BY <1>3, <2>1 DEF StartAdapter
  <2>3. consumer = "failed" => source'[cause] = source[cause]
    BY <1>1, <2>1, <2>2, AdapterFacts DEF RaisedInv, BusTypeOK
  <2> QED
    BY <1>1, <2>2, <2>3 DEF RaisedInv, From, Promised
<1>4. ASSUME StartDone \/ EventHandled PROVE RaisedInv'
  BY <1>4 DEF StartDone, EventHandled, RaisedInv
<1>5. ASSUME NEW a \in Adapter, Accept(a) PROVE RaisedInv'
  <2>1. /\ source[a] = "up" /\ accepted' = [accepted EXCEPT ![a] = @ + 1]
        /\ UNCHANGED <<consumer, cause, delivered, source>>
    BY <1>5 DEF Accept
  <2>2. consumer = "failed" => accepted'[cause] = accepted[cause]
    BY <1>1, <2>1, AdapterFacts DEF RaisedInv, BusTypeOK
  <2> QED
    BY <1>1, <2>1, <2>2 DEF RaisedInv, From, Promised
<1>6. ASSUME NEW a \in Adapter, SourceFails(a) \/ StopAdapter(a) PROVE RaisedInv'
  <2>1. /\ \E x \in {"failed", "stopped"} : source' = [source EXCEPT ![a] = x]
        /\ UNCHANGED <<consumer, cause, delivered, accepted>>
    BY <1>6 DEF SourceFails, StopAdapter
  <2>2. consumer = "failed" => source'[cause] \in {"failed", "stopped"}
    BY <1>1, <2>1, AdapterFacts DEF RaisedInv, BusTypeOK
  <2> QED
    BY <1>1, <2>1, <2>2 DEF RaisedInv, From, Promised
<1>7. ASSUME GetItem PROVE RaisedInv'
  <2>1. SUFFICES ASSUME consumer' = "failed" PROVE RaisedInv'
    BY DEF RaisedInv
  <2>2. /\ bus # <<>> /\ bus \in Seq(Items) /\ ~stopped /\ Head(bus).kind = "failure"
        /\ cause' = Head(bus).adapter /\ UNCHANGED <<source, accepted, delivered>>
    BY <1>1, <1>7, <2>1 DEF GetItem, EndsStream, BusTypeOK
  <2>3. PICK a \in Adapter : Head(bus) = Failure(a) /\ a = Head(bus).adapter
    BY <2>2, SeqFacts, ItemKinds
  <2>4. Has(bus, Failure(a))
    BY <2>2, <2>3, TailHas
  <2>5. pump[a] = "crashed" /\ Ended(a) /\ NothingAfter(bus, a)
    BY <2>4 DEF BusInv, FailureInv
  <2>6. Only(bus, EventsOf(a)) = <<>>
    BY <2>2, <2>3, <2>5, NothingAfterTail
  <2>7. Held(a) = <<>> /\ inbox[a] = <<>>
    BY <1>1, <2>5 DEF Held, Ended, BusTypeOK
  <2>8. Line(delivered, bus, Held(a), inbox[a], EventsOf(a)) = Promised(a)
    BY <2>2 DEF BusInv, WayInv
  <2>9. PICK d \in Seq(Items) : d = Only(delivered, EventsOf(a))
    BY <1>1, OnlyKeeps DEF BusTypeOK
  <2>10. Cat(d, <<>>) = d
    BY CatEmpty
  <2>11. From(a, delivered) = Promised(a)
    BY <2>6, <2>7, <2>8, <2>9, <2>10, Zenon DEF Line, From
  <2> QED
    BY <2>2, <2>3, <2>5, <2>11 DEF RaisedInv, Ended, From, Promised
<1>8. ASSUME NEW a \in Adapter, TakeEvent(a) \/ PutEvent(a) \/ StreamEnds(a) \/ PutFailure(a)
      PROVE  RaisedInv'
  BY <1>2, <1>8 DEF TakeEvent, PutEvent, StreamEnds, PutFailure
<1>9. ASSUME StartFails \/ Stop \/ CancelPumps \/ WakeStream PROVE RaisedInv'
  BY <1>2, <1>9 DEF StartFails, Stop, CancelPumps, WakeStream
<1>10. ASSUME UNCHANGED busVars PROVE RaisedInv'
  BY <1>2, <1>10 DEF busVars
<1> QED
  BY <1>3, <1>4, <1>5, <1>6, <1>7, <1>8, <1>9, <1>10 DEF BusNext

LEMMA WayStep ==
  ASSUME BusInv, [BusNext]_busVars
  PROVE  WayInv'
<1> USE DEF startup, stopping, reader
<1>1. BusTypeOK /\ WayInv
  BY DEF BusInv
<1> DEFINE Way(a) == /\ ~stopped => Line(delivered, bus, Held(a), inbox[a], EventsOf(a)) = Promised(a)
                     /\ IsPrefix(From(a, delivered), Promised(a))
<1>2. ASSUME NEW a \in Adapter, UNCHANGED <<delivered, bus, hand, accepted>>, inbox'[a] = inbox[a],
             stopped => stopped'
      PROVE  Way(a)'
  BY <1>1, <1>2 DEF WayInv, From, Held, Promised
<1>3. ASSUME UNCHANGED <<delivered, bus, hand, accepted, inbox>>, phase' = phase \/ stopped'
      PROVE  WayInv'
  BY <1>2, <1>3 DEF WayInv, stopped
<1>4. ASSUME NEW a \in Adapter, Accept(a) PROVE WayInv'
  <2>1. /\ accepted[a] < MaxEvents
        /\ accepted' = [accepted EXCEPT ![a] = @ + 1]
        /\ inbox' = [inbox EXCEPT ![a] = Append(@, Event(a, accepted[a] + 1))]
        /\ UNCHANGED <<delivered, bus, hand, phase>>
    BY <1>4 DEF Accept
  <2>2. PICK x \in EventsOf(a) : x = Event(a, accepted[a] + 1)
    BY <1>1, <2>1, HeldTypes, ToldGrows
  <2>3. x \in Items /\ Told(a, accepted[a]) \in Seq(Items)
        /\ Told(a, accepted[a] + 1) = Append(Told(a, accepted[a]), x)
    BY <1>1, <2>1, <2>2, HeldTypes, ToldGrows, ItemFacts
  <2>4. /\ accepted'[a] = accepted[a] + 1 /\ inbox'[a] = Append(inbox[a], x)
        /\ \A b \in Adapter : b # a => accepted'[b] = accepted[b] /\ inbox'[b] = inbox[b]
    BY <1>1, <2>1, <2>2 DEF BusTypeOK
  <2>5. /\ Promised(a)' = Append(Promised(a), x) /\ Promised(a) \in Seq(Items)
        /\ Held(a)' = Held(a)
    BY <1>1, <2>1, <2>3, <2>4, HeldTypes DEF Promised, Told, Held
  <2>6. Line(delivered, bus, Held(a), Append(inbox[a], x), EventsOf(a))
          = Append(Line(delivered, bus, Held(a), inbox[a], EventsOf(a)), x)
    BY <1>1, <2>3, HeldTypes, LineAccepts, SMT
  <2>7. IsPrefix(From(a, delivered), Append(Promised(a), x))
    <3>1. From(a, delivered) \in Seq(Items)
      BY <1>1, OnlyKeeps DEF BusTypeOK, From
    <3>2. IsPrefix(From(a, delivered), Promised(a))
      BY <1>1 DEF WayInv
    <3> QED
      BY <2>3, <2>5, <3>1, <3>2, PrefixOfAppend
  <2>8. Way(a)'
    BY <1>1, <2>1, <2>4, <2>5, <2>6, <2>7 DEF WayInv, stopped, From
  <2>9. ASSUME NEW b \in Adapter, b # a PROVE Way(b)'
    BY <1>1, <2>1, <2>4, <2>9 DEF WayInv, stopped, From, Held, Promised
  <2> QED
    BY <2>8, <2>9 DEF WayInv
<1>5. ASSUME NEW a \in Adapter, TakeEvent(a) PROVE WayInv'
  <2>1. /\ inbox[a] # <<>> /\ inbox' = [inbox EXCEPT ![a] = Tail(inbox[a])] /\ hand[a] = None
        /\ UNCHANGED <<delivered, bus, accepted, phase>>
        /\ ~stopped => hand' = [hand EXCEPT ![a] = Head(inbox[a])]
        /\ stopped => UNCHANGED hand
    BY <1>1, <1>5 DEF TakeEvent, BusTypeOK
  <2>2. CASE stopped
    BY <1>1, <2>1, <2>2 DEF WayInv, stopped, From, Promised
  <2>3. CASE ~stopped
    <3>1. Held(a) = <<>> /\ Queues(Items, delivered, bus, <<>>, inbox[a])
      BY <1>1, <2>1, HeldTypes DEF Held
    <3>2. Line(delivered, bus, <<Head(inbox[a])>>, Tail(inbox[a]), EventsOf(a))
            = Line(delivered, bus, <<>>, inbox[a], EventsOf(a))
      BY <2>1, <3>1, LineTakes
    <3>3. Head(inbox[a]) # None
      <4>1. Head(inbox[a]) \in EventsOf(a)
        BY <1>1, <2>1, SeqFacts DEF BusTypeOK
      <4> QED
        BY <4>1, ItemFacts
    <3>4. /\ hand'[a] = Head(inbox[a]) /\ inbox'[a] = Tail(inbox[a])
          /\ \A b \in Adapter : b # a => hand'[b] = hand[b] /\ inbox'[b] = inbox[b]
      BY <1>1, <2>1, <2>3 DEF BusTypeOK
    <3>5. Held(a)' = <<Head(inbox[a])>>
      BY <3>3, <3>4 DEF Held
    <3>6. Way(a)'
      BY <1>1, <2>1, <3>1, <3>2, <3>4, <3>5 DEF WayInv, stopped, From, Promised
    <3>7. ASSUME NEW b \in Adapter, b # a PROVE Way(b)'
      BY <1>1, <2>1, <3>4, <3>7 DEF WayInv, stopped, From, Held, Promised
    <3> QED
      BY <3>6, <3>7 DEF WayInv
  <2> QED
    BY <2>2, <2>3
<1>6. ASSUME NEW a \in Adapter, PutEvent(a) PROVE WayInv'
  <2>1. /\ pump[a] = "holding" /\ hand' = [hand EXCEPT ![a] = None]
        /\ bus' = Append(bus, hand[a]) /\ UNCHANGED <<delivered, inbox, accepted, phase>>
    BY <1>6 DEF PutEvent, PutWait
  <2>2. hand[a] \in EventsOf(a) /\ hand[a] # None /\ hand[a] \in Items
    BY <1>1, <2>1, ItemFacts DEF BusTypeOK
  <2>3. Held(a) = <<hand[a]>> /\ Held(a)' = <<>>
    BY <1>1, <2>1, <2>2 DEF Held, BusTypeOK
  <2>4. Line(delivered, bus', <<>>, inbox[a], EventsOf(a))
          = Line(delivered, bus, <<hand[a]>>, inbox[a], EventsOf(a))
    BY <1>1, <2>1, <2>2, HeldTypes, LinePuts
  <2>5. Way(a)'
    BY <1>1, <2>1, <2>3, <2>4 DEF WayInv, stopped, From, Promised
  <2>6. ASSUME NEW b \in Adapter, b # a PROVE Way(b)'
    <3>1. hand[a] \notin EventsOf(b) /\ Held(b)' = Held(b)
      BY <1>1, <2>1, <2>2, <2>6, ItemFacts DEF Held, BusTypeOK
    <3>0. bus \in Seq(Items)
      BY <1>1 DEF BusTypeOK
    <3>2. Line(delivered, Append(bus, hand[a]), Held(b), inbox[b], EventsOf(b))
            = Line(delivered, bus, Held(b), inbox[b], EventsOf(b))
      BY <2>2, <3>0, <3>1, LineLeaves
    <3> QED
      BY <1>1, <2>1, <3>1, <3>2 DEF WayInv, stopped, From, Promised
  <2> QED
    BY <2>5, <2>6 DEF WayInv
<1>7. ASSUME NEW a \in Adapter, PutFailure(a) PROVE WayInv'
  <2>1. bus' = Append(bus, Failure(a)) /\ UNCHANGED <<delivered, inbox, accepted, phase, hand>>
    BY <1>7 DEF PutFailure, PutWait
  <2>2. ASSUME NEW b \in Adapter PROVE Way(b)'
    <3>1. Failure(a) \notin EventsOf(b) /\ Failure(a) \in Items
      BY ItemFacts
    <3>0. bus \in Seq(Items)
      BY <1>1 DEF BusTypeOK
    <3>2. Line(delivered, Append(bus, Failure(a)), Held(b), inbox[b], EventsOf(b))
            = Line(delivered, bus, Held(b), inbox[b], EventsOf(b))
      BY <3>0, <3>1, LineLeaves
    <3> QED
      BY <1>1, <2>1, <3>2 DEF WayInv, stopped, From, Promised, Held
  <2> QED
    BY <2>2 DEF WayInv
<1>8. ASSUME GetItem PROVE WayInv'
  <2>1. /\ bus # <<>> /\ bus' = Tail(bus) /\ bus \in Seq(Items)
        /\ UNCHANGED <<inbox, accepted, phase, hand>>
        /\ delivered \in Seq(Items)
    BY <1>1, <1>8 DEF GetItem, BusTypeOK
  <2>2. Head(bus) \in Items
    BY <2>1, SeqFacts
  <2>3. CASE stopped
    <3>1. delivered' = delivered
      BY <1>8, <2>3 DEF GetItem, EndsStream
    <3> QED
      BY <1>1, <2>1, <2>3, <3>1 DEF WayInv, stopped, From, Promised
  <2>4. ASSUME ~stopped, delivered' = delivered, \A b \in Adapter : Head(bus) \notin EventsOf(b)
        PROVE  WayInv'
    <3>1. ASSUME NEW b \in Adapter PROVE Way(b)'
      <4>1. Line(delivered, bus', Held(b), inbox[b], EventsOf(b))
              = Line(delivered, bus, Held(b), inbox[b], EventsOf(b))
        BY <2>1, <2>4, LineSkips
      <4> QED
        BY <1>1, <2>1, <2>4, <4>1 DEF WayInv, stopped, From, Promised, Held
    <3> QED
      BY <3>1 DEF WayInv
  <2>5. ASSUME ~stopped, delivered' = Append(delivered, Head(bus)) PROVE WayInv'
    <3>1. ASSUME NEW b \in Adapter PROVE Way(b)'
      <4>1. Line(delivered', bus', Held(b), inbox[b], EventsOf(b))
              = Line(delivered, bus, Held(b), inbox[b], EventsOf(b))
        BY <1>1, <2>1, <2>5, HeldTypes, LineGets
      <4>2. Line(delivered', bus', Held(b), inbox[b], EventsOf(b)) = Promised(b)
        BY <1>1, <2>5, <4>1 DEF WayInv
      <4>3. delivered' \in Seq(Items) /\ bus' \in Seq(Items)
        BY <2>1, <2>2, <2>5, SeqFacts
      <4>4. IsPrefix(Only(delivered', EventsOf(b)), Promised(b))
        <5>1. Queues(Items, delivered', bus', Held(b), inbox[b])
          BY <1>1, <4>3, HeldTypes DEF Queues
        <5>2. PICK d \in Seq(Items) : d = Only(delivered', EventsOf(b))
          BY <4>3, OnlyKeeps
        <5>3. PICK u \in Seq(Items) : u = Only(bus', EventsOf(b))
          BY <4>3, OnlyKeeps
        <5>4. PICK w \in Seq(Items) : w = Cat(Held(b), inbox[b])
          BY <5>1, CatType DEF Queues
        <5>5. PICK v \in Seq(Items) : v = Cat(u, w)
          BY CatType
        <5>6. Line(delivered', bus', Held(b), inbox[b], EventsOf(b)) =
                Cat(Only(delivered', EventsOf(b)), Cat(Only(bus', EventsOf(b)), Cat(Held(b), inbox[b])))
          BY <5>1, LineIs, SMT
        <5>7. Promised(b) = Cat(d, v)
          BY <4>2, <5>2, <5>3, <5>4, <5>5, <5>6, Zenon
        <5>8. IsPrefix(d, d \o v)
          BY PrefixOfConcat
        <5> QED
          BY <5>2, <5>7, <5>8, Zenon DEF Cat
      <4>5. Held(b)' = Held(b) /\ Promised(b)' = Promised(b) /\ inbox'[b] = inbox[b]
        BY <2>1 DEF Held, Promised
      <4> QED
        BY <4>2, <4>4, <4>5 DEF From
    <3> QED
      BY <3>1 DEF WayInv
  <2>6. CASE ~stopped
    <3>1. \/ delivered' = delivered /\ (Head(bus) = STOP \/ Head(bus).kind = "failure")
          \/ delivered' = Append(delivered, Head(bus))
      BY <1>8, <2>6 DEF GetItem, EndsStream
    <3>2. Head(bus) = STOP \/ Head(bus).kind = "failure"
             => \A b \in Adapter : Head(bus) \notin EventsOf(b)
      BY <2>2, ItemKinds, ItemFacts
    <3> QED
      BY <2>4, <2>5, <2>6, <3>1, <3>2
  <2> QED
    BY <2>3, <2>6
<1>9. ASSUME CancelPumps PROVE WayInv'
  <2>1. stopped /\ stopped' /\ UNCHANGED <<delivered, accepted>>
    BY <1>9 DEF CancelPumps, stopped
  <2> QED
    BY <1>1, <2>1 DEF WayInv, From, Promised
<1>10. ASSUME WakeStream PROVE WayInv'
  <2>1. stopped /\ stopped' /\ UNCHANGED <<delivered, accepted>>
    BY <1>10 DEF WakeStream, stopped
  <2> QED
    BY <1>1, <2>1 DEF WayInv, From, Promised
<1>11. ASSUME StartAdapter \/ StartDone \/ StartFails \/ EventHandled \/ Stop PROVE WayInv'
  BY <1>3, <1>11 DEF StartAdapter, StartDone, StartFails, EventHandled, Stop, BeginStop, stopped
<1>12. ASSUME NEW a \in Adapter, SourceFails(a) \/ StreamEnds(a) \/ StopAdapter(a) PROVE WayInv'
  BY <1>3, <1>12 DEF SourceFails, StreamEnds, StopAdapter
<1>13. ASSUME UNCHANGED busVars PROVE WayInv'
  BY <1>3, <1>13 DEF busVars
<1> QED
  BY <1>4, <1>5, <1>6, <1>7, <1>8, <1>9, <1>10, <1>11, <1>12, <1>13 DEF BusNext

-----------------------------------------------------------------------------
(* The theorems *)

LEMMA BusInvStep == BusInv /\ [BusNext]_busVars => BusInv'
  BY BusTypesStep, StartStep, FailureStep, RaisedStep, WayStep DEF BusInv

LEMMA WayIsOrder == BusInv => AcceptedInOrder
  BY DEF BusInv, WayInv, RaisedInv, AcceptedInOrder, Line, Cat, From

(* The types, for any adapters, queue sizes and number of events.          *)
THEOREM BusTypes == BusSpec => []BusTypeOK
<1>1. BusInv => BusTypeOK
  BY DEF BusInv
<1> QED
  BY <1>1, BusInvInit, BusInvStep, PTL DEF BusSpec

(* No event that an adapter accepted is lost, doubled or overtaken on its  *)
(* way to the main loop before a stop, and the loop fails for a required   *)
(* adapter only after it was given all that this adapter had accepted.     *)
THEOREM NothingIsOvertaken == BusSpec => []AcceptedInOrder
  BY BusInvInit, BusInvStep, WayIsOrder, PTL DEF BusSpec

-----------------------------------------------------------------------------
(* RemoteRelay: the table of pending jobs                                  *)

States == {"new", "sending", "resolved", "waiting", "answered", "returned"}

CallInv ==
    /\ call \in [Jobs -> States]
    /\ pendingJobs \subseteq Jobs
    /\ Cardinality(pendingJobs) <= MaxPendingJobs
    /\ PendingHasCaller

LEMMA SettledType == ASSUME NEW s \in States PROVE Settled(s) \in States
  BY DEF Settled, States

(* The jobs only leave the table, or one enters that its call waits for.   *)
LEMMA TableShrinks ==
  ASSUME CallInv, NEW P \in SUBSET pendingJobs
  PROVE  Cardinality(P) <= MaxPendingJobs
<1>1. IsFiniteSet(pendingJobs)
  BY RelayAssumption, FS_Subset DEF CallInv
<1>2. /\ IsFiniteSet(P) /\ Cardinality(P) <= Cardinality(pendingJobs)
      /\ Cardinality(P) \in Nat /\ Cardinality(pendingJobs) \in Nat
  BY <1>1, FS_Subset, FS_CardinalityType
<1> QED
  BY <1>2, RelayAssumption DEF CallInv

LEMMA TableGrows ==
  ASSUME CallInv, ~Full, NEW j \in Jobs
  PROVE  Cardinality(pendingJobs \cup {j}) <= MaxPendingJobs
<1>1. IsFiniteSet(pendingJobs) /\ Cardinality(pendingJobs) \in Nat
  BY RelayAssumption, FS_Subset, FS_CardinalityType DEF CallInv
<1>2. \/ Cardinality(pendingJobs \cup {j}) = Cardinality(pendingJobs)
      \/ Cardinality(pendingJobs \cup {j}) = Cardinality(pendingJobs) + 1
  BY <1>1, FS_AddElement
<1>3. MaxPendingJobs \in Nat
  BY RelayAssumption
<1>4. Cardinality(pendingJobs) < MaxPendingJobs
  BY <1>1, <1>3 DEF Full
<1> QED
  BY <1>1, <1>2, <1>3, <1>4

LEMMA CallStep == CallInv /\ [RelayNext]_relayVars => CallInv'
<1> SUFFICES ASSUME CallInv, [RelayNext]_relayVars PROVE CallInv'
  OBVIOUS
<1> USE DEF CallInv, PendingHasCaller, Return, connVars, pollVars, callVars, nodeVars
<1>1. ASSUME NEW j \in Jobs, StartSend(j) \/ GiveToPoll(j) PROVE CallInv'
  <2>1. pendingJobs' = pendingJobs \cup {j} /\ ~Full
    BY <1>1 DEF StartSend, GiveToPoll
  <2>2. Cardinality(pendingJobs') <= MaxPendingJobs
    BY <2>1, TableGrows
  <2>3. \/ call' = [call EXCEPT ![j] = "sending"] \/ call' = [call EXCEPT ![j] = "waiting"]
    BY <1>1 DEF StartSend, GiveToPoll
  <2>4. orphans' = orphans
    BY <1>1 DEF StartSend, GiveToPoll
  <2> QED
    BY <2>1, <2>2, <2>3, <2>4 DEF States
<1>2. ASSUME NEW j \in Jobs, RefuseJob(j) \/ NodeOffline(j) PROVE CallInv'
  BY <1>2 DEF RefuseJob, NodeOffline, States
<1>3. ASSUME NEW j \in Jobs, JobSent(j) PROVE CallInv'
  BY <1>3 DEF JobSent, Sending, HandOver, States
<1>4. ASSUME NEW j \in Jobs, SendFails(j) \/ GiveUp(j) PROVE CallInv'
  <2>1. pendingJobs' = pendingJobs \ {j} /\ call' = [call EXCEPT ![j] = "returned"]
        /\ orphans' = orphans
    BY <1>4 DEF SendFails, GiveUp, Unlisted
  <2> QED
    BY <2>1, TableShrinks DEF States
<1>5. ASSUME NEW j \in Jobs, CallReturns(j) \/ CancelSend(j) PROVE CallInv'
  BY <1>5 DEF CallReturns, CancelSend, States
<1>6. ASSUME NEW j \in Jobs, Report(j) PROVE CallInv'
  <2>1. /\ pendingJobs' = pendingJobs \ {j} /\ orphans' = orphans
        /\ call' = [call EXCEPT ![j] = Settled(call[j])]
    BY <1>6 DEF Report
  <2> QED
    BY <2>1, TableShrinks, SettledType
<1>7. ASSUME NEW c \in Conns, Connect(c) \/ Disconnect(c) PROVE CallInv'
  <2>1. orphans' = orphans
    BY <1>7 DEF Connect, Disconnect
  <2>2. CASE FailPending
    <3>1. call' \in [Jobs -> States]
      BY <2>2, SettledType DEF FailPending
    <3>2. Cardinality(pendingJobs') <= MaxPendingJobs
      BY <2>2, TableShrinks DEF FailPending
    <3> QED
      BY <2>2, <3>1, <3>2 DEF FailPending
  <2>3. CASE UNCHANGED <<pendingJobs, callVars>>
    BY <2>1, <2>3
  <2> QED
    BY <1>7, <2>2, <2>3 DEF Connect, Disconnect
<1>8. ASSUME NEW c \in Conns, TransportFails(c) \/ SendBacklog(c) \/ BacklogFails(c) \/ BacklogSent(c)
      PROVE  CallInv'
  BY <1>8 DEF TransportFails, SendBacklog, BacklogFails, BacklogSent, HandOver
<1>9. ASSUME NEW p \in Polls, \/ PollStarts(p) \/ PollReturns(p) \/ PollExpires(p)
                              \/ PollLeaves(p) \/ PollDropsJob(p)
      PROVE  CallInv'
  BY <1>9 DEF PollStarts, PollReturns, PollExpires, PollLeaves, PollDropsJob, HandOver
<1>10. ASSUME UNCHANGED relayVars PROVE CallInv'
  BY <1>10 DEF relayVars
<1> QED
  BY <1>1, <1>2, <1>3, <1>4, <1>5, <1>6, <1>7, <1>8, <1>9, <1>10 DEF RelayNext

LEMMA CallInit == RelayInit => CallInv
<1> SUFFICES ASSUME RelayInit PROVE CallInv
  OBVIOUS
<1>1. Cardinality(pendingJobs) = 0
  BY FS_EmptySet DEF RelayInit
<1> QED
  BY <1>1, RelayAssumption DEF RelayInit, CallInv, States, PendingHasCaller

(* The table never holds more jobs than its limit.                         *)
THEOREM TableStaysBounded == RelaySpec => [](Cardinality(pendingJobs) <= MaxPendingJobs)
<1>1. CallInv => Cardinality(pendingJobs) <= MaxPendingJobs
  BY DEF CallInv
<1> QED
  BY <1>1, CallInit, CallStep, PTL DEF RelaySpec

-----------------------------------------------------------------------------
(* RemoteRelay: the places of a job                                        *)

InQueue(j)      == Has(httpQueue, j)
InBacklog(c, j) == Has(backlog[c], j)
Somewhere(j) ==
    \/ handed[j] = 1 \/ InQueue(j) \/ j \in lostJobs
    \/ \E c \in Conns : InBacklog(c, j)
    \/ \E p \in Polls : given[p] = j

(* No job is in two places, or twice in one. *)
Apart ==
    /\ Injective(httpQueue)
    /\ \A c \in Conns : Injective(backlog[c])
    /\ \A j \in Jobs : handed[j] \in {0, 1}
    /\ \A j \in lostJobs : handed[j] = 0
    /\ \A j \in Jobs : InQueue(j) => handed[j] = 0 /\ j \notin lostJobs
    /\ \A j \in Jobs, c \in Conns :
         InBacklog(c, j) => handed[j] = 0 /\ j \notin lostJobs /\ ~InQueue(j)
    /\ \A j \in Jobs, p \in Polls :
         given[p] = j => /\ handed[j] = 0 /\ j \notin lostJobs /\ ~InQueue(j)
                         /\ \A c \in Conns : ~InBacklog(c, j)
    /\ \A j \in Jobs, c, d \in Conns : InBacklog(c, j) /\ InBacklog(d, j) => c = d
    /\ \A p, q \in Polls : given[p] = given[q] /\ given[p] # NoJob => p = q

CallAt ==
    \A j \in Jobs : /\ call[j] \in {"new", "sending", "resolved"} => ~Somewhere(j)
                    /\ call[j] = "waiting" => Somewhere(j)

HolderAt ==
    /\ \A c \in Conns : conn[c] # "sending" => backlog[c] = <<>>
    /\ \A p \in Polls : poll[p] = "given" <=> given[p] # NoJob
    /\ \A p \in Polls : poll[p] = "waiting" => Has(waiters, p)

(* What was never carried is in the queue of a call that waits, while the  *)
(* node has no connection and no poll sleeps.                              *)
CarriedAt ==
    /\ \A j \in Jobs, c \in Conns : InBacklog(c, j) => j \in carried
    /\ \A j \in Jobs, p \in Polls : given[p] = j => j \in carried
    /\ \A j \in Jobs : InQueue(j) /\ j \notin carried =>
         call[j] = "waiting" /\ node = NoConn /\ \A p \in Polls : poll[p] # "waiting"
    /\ tooLate \subseteq carried

PlacesInv == Apart /\ CallAt /\ HolderAt /\ CarriedAt

Step == [RelayNext]_relayVars

LEMMA SettledIs ==
  /\ Settled("sending") = "resolved" /\ Settled("waiting") = "answered"
  /\ \A s : s \notin {"sending", "waiting"} => Settled(s) = s
  BY DEF Settled

LEMMA HandOverType ==
  ASSUME RelayTypeOK, NEW j \in Jobs, HandOver(j)
  PROVE  /\ handed' \in [Jobs -> Nat] /\ lostJobs' \subseteq Jobs
         /\ carried' \subseteq Jobs /\ tooLate' \subseteq Jobs /\ orphans' \subseteq Jobs
  BY DEF RelayTypeOK, HandOver

LEMMA FailPendingType ==
  ASSUME RelayTypeOK, FailPending
  PROVE  /\ pendingJobs' \subseteq Jobs /\ sock' = sock
         /\ call' \in [Jobs -> {"new", "sending", "resolved", "waiting", "answered", "returned"}]
<1>1. \A j \in Jobs : Settled(call[j]) \in {"new", "sending", "resolved", "waiting", "answered", "returned"}
  BY SettledIs DEF RelayTypeOK
<1> QED
  BY <1>1 DEF RelayTypeOK, FailPending

LEMMA SkippedIs ==
  ASSUME RelayTypeOK
  PROVE  /\ Skipped \in Seq(Polls) /\ Len(Skipped) <= Len(waiters)
         /\ \A p : Has(Skipped, p) <=> p \in Polls /\ poll[p] = "waiting" /\ Has(waiters, p)
<1>1. waiters \in Seq(Polls)
  BY DEF RelayTypeOK
<1> DEFINE Q == {p \in Polls : poll[p] = "waiting"}
<1>2. /\ Only(waiters, Q) \in Seq(Polls) /\ Len(Only(waiters, Q)) <= Len(waiters)
      /\ \A x : Has(Only(waiters, Q), x) <=> x \in Q /\ Has(waiters, x)
  BY <1>1, OnlyKeeps
<1> QED
  BY <1>2 DEF Skipped

LEMMA UnqueuedIs ==
  ASSUME RelayTypeOK, NEW j \in Jobs
  PROVE  /\ Unqueued(j) \in Seq(Jobs)
         /\ \A k \in Jobs : Has(Unqueued(j), k) <=> k # j /\ Has(httpQueue, k)
         /\ Injective(httpQueue) => Injective(Unqueued(j))
<1>1. httpQueue \in Seq(Jobs)
  BY DEF RelayTypeOK
<1> QED
  BY <1>1, OnlyKeeps DEF Unqueued

LEMMA TypeStep == RelayTypeOK /\ HolderAt /\ Step => RelayTypeOK'
<1> SUFFICES ASSUME RelayTypeOK, HolderAt, Step PROVE RelayTypeOK'
  OBVIOUS
<1> USE DEF connVars, pollVars, callVars, nodeVars
<1>1. ASSUME NEW j \in Jobs, RefuseJob(j) \/ NodeOffline(j) \/ CallReturns(j) PROVE RelayTypeOK'
  BY <1>1 DEF RelayTypeOK, RefuseJob, NodeOffline, CallReturns, Return
<1>2. ASSUME NEW j \in Jobs, StartSend(j) PROVE RelayTypeOK'
  BY <1>2 DEF RelayTypeOK, StartSend
<1>3. ASSUME NEW j \in Jobs, GiveToPoll(j) PROVE RelayTypeOK'
  <2>1. /\ pendingJobs' \subseteq Jobs /\ UNCHANGED <<connVars, sock>>
        /\ call' = [call EXCEPT ![j] = "waiting"]
    BY <1>3 DEF RelayTypeOK, GiveToPoll
  <2>2. CASE Skipped = <<>>
    <3>1. /\ httpQueue' = Append(httpQueue, j) /\ waiters' = <<>>
          /\ UNCHANGED <<poll, given, nodeVars>>
      BY <1>3, <2>2 DEF GiveToPoll
    <3>2. httpQueue' \in Seq(Jobs) /\ waiters' \in Seq(Polls)
      BY <3>1 DEF RelayTypeOK
    <3> QED
      BY <2>1, <3>1, <3>2 DEF RelayTypeOK
  <2>3. CASE Skipped # <<>>
    <3>1. waiters' = Tail(Skipped) /\ httpQueue' = httpQueue
      BY <1>3, <2>3 DEF GiveToPoll
    <3>2. Tail(Skipped) \in Seq(Polls) /\ Head(Skipped) \in Polls
      BY <2>3, SkippedIs, TailHas
    <3>3. /\ \/ /\ poll' = [poll EXCEPT ![Head(Skipped)] = "given"]
                /\ given' = [given EXCEPT ![Head(Skipped)] = j]
                /\ carried' = carried \cup {j}
             \/ UNCHANGED <<poll, given, carried>>
          /\ UNCHANGED <<handed, lostJobs, tooLate, orphans>>
      BY <1>3, <2>3 DEF GiveToPoll
    <3> QED
      BY <2>1, <3>1, <3>2, <3>3 DEF RelayTypeOK
  <2> QED
    BY <2>2, <2>3
<1>4. ASSUME NEW j \in Jobs, JobSent(j) PROVE RelayTypeOK'
  BY <1>4, HandOverType DEF RelayTypeOK, JobSent, Sending
<1>5. ASSUME NEW j \in Jobs, SendFails(j) PROVE RelayTypeOK'
  BY <1>5 DEF RelayTypeOK, SendFails, Return
<1>6. ASSUME NEW j \in Jobs, GiveUp(j) PROVE RelayTypeOK'
  BY <1>6, UnqueuedIs DEF RelayTypeOK, GiveUp, Return, Unlisted
<1>7. ASSUME NEW j \in Jobs, CancelSend(j) PROVE RelayTypeOK'
  BY <1>7 DEF RelayTypeOK, CancelSend, Return
<1>8. ASSUME NEW j \in Jobs, Report(j) PROVE RelayTypeOK'
  BY <1>8, SettledIs DEF RelayTypeOK, Report
<1>9. ASSUME NEW c \in Conns, Connect(c) PROVE RelayTypeOK'
  <2>1. /\ pendingJobs' \subseteq Jobs /\ sock' = sock
        /\ call' \in [Jobs -> {"new", "sending", "resolved", "waiting", "answered", "returned"}]
    BY <1>9, FailPendingType DEF Connect, RelayTypeOK
  <2>2. Range(httpQueue) \subseteq Jobs /\ TakenQueue \in Seq(Jobs)
    BY DEF RelayTypeOK, Range, TakenQueue
  <2> QED
    BY <1>9, <2>1, <2>2 DEF RelayTypeOK, Connect
<1>10. ASSUME NEW c \in Conns, TransportFails(c) \/ BacklogSent(c) PROVE RelayTypeOK'
  BY <1>10 DEF RelayTypeOK, TransportFails, BacklogSent
<1>11. ASSUME NEW c \in Conns, SendBacklog(c) PROVE RelayTypeOK'
  <2>1. backlog[c] \in Seq(Jobs) /\ backlog[c] # <<>>
    BY <1>11 DEF RelayTypeOK, SendBacklog
  <2>2. Head(backlog[c]) \in Jobs /\ Tail(backlog[c]) \in Seq(Jobs)
    BY <2>1, TailHas
  <2> QED
    BY <1>11, <2>2, HandOverType DEF RelayTypeOK, SendBacklog
<1>12. ASSUME NEW c \in Conns, BacklogFails(c) PROVE RelayTypeOK'
  BY <1>12 DEF RelayTypeOK, BacklogFails
<1>13. ASSUME NEW c \in Conns, Disconnect(c) PROVE RelayTypeOK'
  <2>1. /\ pendingJobs' \subseteq Jobs /\ sock' = sock
        /\ call' \in [Jobs -> {"new", "sending", "resolved", "waiting", "answered", "returned"}]
    BY <1>13, FailPendingType DEF Disconnect, RelayTypeOK
  <2> QED
    BY <1>13, <2>1 DEF RelayTypeOK, Disconnect
<1>14. ASSUME NEW p \in Polls, PollStarts(p) PROVE RelayTypeOK'
  <2>1. CASE httpQueue # <<>>
    <3>1. Head(httpQueue) \in Jobs /\ Tail(httpQueue) \in Seq(Jobs)
      BY <2>1, TailHas DEF RelayTypeOK
    <3> QED
      BY <1>14, <2>1, <3>1, HandOverType DEF RelayTypeOK, PollStarts
  <2>2. CASE httpQueue = <<>>
    <3>1. Append(Skipped, p) \in Seq(Polls)
      BY SkippedIs
    <3> QED
      BY <1>14, <2>2, <3>1 DEF RelayTypeOK, PollStarts
  <2> QED
    BY <2>1, <2>2
<1>15. ASSUME NEW p \in Polls, PollReturns(p), given[p] # NoJob PROVE RelayTypeOK'
  BY <1>15, HandOverType DEF RelayTypeOK, PollReturns
<1>16. ASSUME NEW p \in Polls, PollExpires(p) PROVE RelayTypeOK'
  BY <1>16 DEF RelayTypeOK, PollExpires
<1>17. ASSUME NEW p \in Polls, PollLeaves(p) PROVE RelayTypeOK'
  BY <1>17, OnlyKeeps DEF RelayTypeOK, PollLeaves
<1>18. ASSUME NEW p \in Polls, PollDropsJob(p), given[p] # NoJob PROVE RelayTypeOK'
  BY <1>18 DEF RelayTypeOK, PollDropsJob
<1>19. CASE UNCHANGED relayVars
  BY <1>19 DEF RelayTypeOK, relayVars
<1>20. \A p \in Polls : PollReturns(p) \/ PollDropsJob(p) => given[p] # NoJob
  BY DEF HolderAt, PollReturns, PollDropsJob
<1> QED
  BY <1>20, <1>1, <1>2, <1>3, <1>4, <1>5, <1>6, <1>7, <1>8, <1>9, <1>10, <1>11, <1>12, <1>13,
     <1>14, <1>15, <1>16, <1>17, <1>18, <1>19 DEF Step, RelayNext

(* A step that moves no job. *)
LEMMA PlacesStay ==
  ASSUME PlacesInv,
         UNCHANGED <<httpQueue, backlog, given, handed, lostJobs, carried, tooLate>>,
         \A j \in Jobs : call'[j] \in {"new", "sending", "resolved"} =>
                           call[j] \in {"new", "sending", "resolved"},
         \A j \in Jobs : call'[j] = "waiting" => call[j] = "waiting",
         \A j \in Jobs : call[j] = "waiting" /\ call'[j] # "waiting" /\ InQueue(j) => j \in carried,
         node = NoConn => node' = NoConn,
         \A c \in Conns : conn'[c] # "sending" => backlog[c] = <<>>,
         \A p \in Polls : poll'[p] = "given" <=> poll[p] = "given",
         \A p \in Polls : poll'[p] = "waiting" => poll[p] = "waiting" /\ Has(waiters', p)
  PROVE  PlacesInv'
<1>1. Apart'
  BY DEF PlacesInv, Apart, InQueue, InBacklog
<1>2. CallAt'
  BY DEF PlacesInv, CallAt, Somewhere, InQueue, InBacklog
<1>3. HolderAt'
  BY DEF PlacesInv, HolderAt
<1>4. CarriedAt'
  BY DEF PlacesInv, CarriedAt, InQueue, InBacklog
<1> QED
  BY <1>1, <1>2, <1>3, <1>4 DEF PlacesInv

LEMMA HandOverIs ==
  ASSUME RelayTypeOK, NEW j \in Jobs, handed[j] = 0, HandOver(j)
  PROVE  /\ handed'[j] = 1 /\ \A k \in Jobs : k # j => handed'[k] = handed[k]
         /\ lostJobs' = lostJobs /\ carried' = carried
         /\ call[j] = "returned" => tooLate' = tooLate \cup {j}
         /\ call[j] # "returned" => tooLate' = tooLate
  BY DEF RelayTypeOK, HandOver

(* A call that gets or loses its answer, starts or returns. *)
LEMMA CallMoves ==
  ASSUME RelayTypeOK, PlacesInv, NEW j \in Jobs,
         \/ RefuseJob(j) \/ NodeOffline(j) \/ StartSend(j) \/ SendFails(j)
         \/ CallReturns(j) \/ CancelSend(j) \/ Report(j)
  PROVE  PlacesInv'
<1> USE DEF connVars, pollVars, callVars, nodeVars
<1>1. UNCHANGED <<node, conn, backlog, waiters, poll, given, httpQueue, handed, lostJobs, carried, tooLate>>
  BY DEF RefuseJob, NodeOffline, StartSend, SendFails, CallReturns, CancelSend, Report
<1>2. \A k \in Jobs : k # j => call'[k] = call[k]
  BY DEF RelayTypeOK, RefuseJob, NodeOffline, StartSend, SendFails, CallReturns, CancelSend, Report, Return
<1>3. /\ call'[j] \in {"new", "sending", "resolved"} => call[j] \in {"new", "sending", "resolved"}
      /\ call'[j] = "waiting" => call[j] = "waiting"
      /\ call[j] = "waiting" => call'[j] = "waiting" \/ handed[j] > 0
  <2>1. CASE Report(j)
    <3>1. call'[j] = Settled(call[j]) /\ handed[j] > 0
      BY <2>1 DEF RelayTypeOK, Report
    <3> QED
      BY <3>1, SettledIs
  <2>2. CASE ~Report(j)
    BY <2>2 DEF RelayTypeOK, RefuseJob, NodeOffline, StartSend, SendFails, CallReturns, CancelSend, Return, Sending
  <2> QED
    BY <2>1, <2>2
<1>4. call[j] = "waiting" /\ call'[j] # "waiting" => ~InQueue(j)
  BY <1>3 DEF PlacesInv, Apart
<1> QED
  BY <1>1, <1>2, <1>3, <1>4, PlacesStay DEF PlacesInv, HolderAt

LEMMA HolderMoves ==
  ASSUME RelayTypeOK, PlacesInv,
         \/ \E c \in Conns : TransportFails(c) \/ BacklogSent(c)
         \/ \E p \in Polls : PollExpires(p) \/ PollLeaves(p)
  PROVE  PlacesInv'
<1> USE DEF connVars, pollVars, callVars, nodeVars
<1>1. ASSUME NEW c \in Conns, TransportFails(c) PROVE PlacesInv'
  <2>1. UNCHANGED <<node, conn, backlog, waiters, poll, given, httpQueue, call, handed, lostJobs, carried, tooLate>>
    BY <1>1 DEF TransportFails
  <2> QED
    BY <2>1, PlacesStay DEF PlacesInv, HolderAt
<1>2. ASSUME NEW c \in Conns, BacklogSent(c) PROVE PlacesInv'
  <2>1. UNCHANGED <<node, backlog, waiters, poll, given, httpQueue, call, handed, lostJobs, carried, tooLate>>
    BY <1>2 DEF BacklogSent
  <2>2. \A d \in Conns : conn'[d] # "sending" => backlog[d] = <<>>
    BY <1>2 DEF BacklogSent, PlacesInv, HolderAt, RelayTypeOK
  <2> QED
    BY <2>1, <2>2, PlacesStay DEF PlacesInv, HolderAt
<1>3. ASSUME NEW p \in Polls, PollExpires(p) PROVE PlacesInv'
  <2>1. UNCHANGED <<node, conn, backlog, waiters, given, httpQueue, call, handed, lostJobs, carried, tooLate>>
    BY <1>3 DEF PollExpires
  <2>2. \A q \in Polls : poll'[q] = IF q = p THEN "expired" ELSE poll[q]
    BY <1>3 DEF PollExpires, RelayTypeOK
  <2> QED
    BY <1>3, <2>1, <2>2, PlacesStay DEF PlacesInv, HolderAt, PollExpires
<1>4. ASSUME NEW p \in Polls, PollLeaves(p) PROVE PlacesInv'
  <2>1. UNCHANGED <<node, conn, backlog, given, httpQueue, call, handed, lostJobs, carried, tooLate>>
    BY <1>4 DEF PollLeaves
  <2>2. \A q \in Polls : poll'[q] = IF q = p THEN "done" ELSE poll[q]
    BY <1>4 DEF PollLeaves, RelayTypeOK
  <2>3. waiters' = Only(waiters, Polls \ {p}) /\ waiters \in Seq(Polls)
    BY <1>4 DEF PollLeaves, RelayTypeOK
  <2>4. \A x : Has(waiters', x) <=> x \in Polls \ {p} /\ Has(waiters, x)
    BY <2>3, OnlyKeeps
  <2>5. poll[p] = "expired"
    BY <1>4 DEF PollLeaves
  <2>6. \A q \in Polls : /\ poll'[q] = "given" <=> poll[q] = "given"
                         /\ poll'[q] = "waiting" => poll[q] = "waiting" /\ Has(waiters', q)
    BY <2>2, <2>4, <2>5 DEF PlacesInv, HolderAt
  <2> QED
    BY <2>1, <2>6, PlacesStay DEF PlacesInv, HolderAt
<1> QED
  BY <1>1, <1>2, <1>3, <1>4

(* The connection goes and every pending call gets an error: what waits    *)
(* in the queue beside a connection was carried before.                    *)
LEMMA DisconnectMoves ==
  ASSUME RelayTypeOK, PlacesInv, NEW c \in Conns, Disconnect(c)
  PROVE  PlacesInv'
<1> USE DEF connVars, pollVars, callVars, nodeVars
<1>1. UNCHANGED <<backlog, waiters, poll, given, httpQueue, handed, lostJobs, carried, tooLate>>
  BY DEF Disconnect
<1>2. \A d \in Conns : conn'[d] # "sending" => backlog[d] = <<>>
  BY DEF Disconnect, PlacesInv, HolderAt, RelayTypeOK
<1>3. CASE node = c
  <2>1. /\ node' = NoConn /\ node # NoConn
        /\ \A j \in Jobs : call'[j] = call[j] \/ call'[j] = Settled(call[j])
    BY <1>3, RelayAssumption DEF Disconnect, FailPending
  <2>2. \A j \in Jobs : InQueue(j) => j \in carried
    BY <2>1 DEF PlacesInv, CarriedAt
  <2>3. \A j \in Jobs : /\ call'[j] \in {"new", "sending", "resolved"} => call[j] \in {"new", "sending", "resolved"}
                        /\ call'[j] = "waiting" => call[j] = "waiting"
    BY <2>1, SettledIs
  <2> QED
    BY <1>1, <1>2, <2>1, <2>2, <2>3, PlacesStay DEF PlacesInv, HolderAt
<1>4. CASE node # c
  <2>1. UNCHANGED <<node, call>>
    BY <1>4 DEF Disconnect
  <2> QED
    BY <1>1, <1>2, <2>1, PlacesStay DEF PlacesInv, HolderAt
<1> QED
  BY <1>3, <1>4

LEMMA JobSentMoves ==
  ASSUME RelayTypeOK, PlacesInv, NEW j \in Jobs, JobSent(j)
  PROVE  PlacesInv'
<1> USE DEF connVars, pollVars, callVars, nodeVars
<1>1. /\ UNCHANGED <<node, conn, backlog, waiters, poll, given, httpQueue>>
      /\ call[j] \in {"sending", "resolved"} /\ call'[j] \in {"waiting", "answered"}
      /\ \A k \in Jobs : k # j => call'[k] = call[k]
      /\ HandOver(j)
  BY DEF JobSent, Sending, RelayTypeOK
<1>2. ~Somewhere(j) /\ handed[j] = 0
  BY <1>1 DEF PlacesInv, CallAt, Apart, Somewhere
<1>3. /\ handed'[j] = 1 /\ \A k \in Jobs : k # j => handed'[k] = handed[k]
      /\ UNCHANGED <<lostJobs, carried, tooLate>>
  BY <1>1, <1>2, HandOverIs
<1>4. /\ \A c \in Conns : ~InBacklog(c, j)
      /\ \A p \in Polls : given[p] # j
      /\ ~InQueue(j) /\ j \notin lostJobs
  BY <1>2 DEF Somewhere
<1>5. lostJobs \subseteq Jobs
  BY DEF RelayTypeOK
<1>6. Apart'
  BY <1>1, <1>3, <1>4, <1>5 DEF PlacesInv, Apart, InQueue, InBacklog
<1>7. CallAt'
  BY <1>1, <1>3 DEF PlacesInv, CallAt, Somewhere, InQueue, InBacklog
<1>8. HolderAt'
  BY <1>1 DEF PlacesInv, HolderAt
<1>9. CarriedAt'
  BY <1>1, <1>3, <1>4 DEF PlacesInv, CarriedAt, InQueue, InBacklog
<1> QED
  BY <1>6, <1>7, <1>8, <1>9 DEF PlacesInv

LEMMA GiveUpMoves ==
  ASSUME RelayTypeOK, PlacesInv, NEW j \in Jobs, GiveUp(j)
  PROVE  PlacesInv'
<1> USE DEF connVars, pollVars, callVars, nodeVars
<1>1. /\ UNCHANGED <<node, conn, backlog, waiters, poll, given, handed, lostJobs, carried, tooLate>>
      /\ httpQueue' = Unqueued(j)
      /\ call'[j] = "returned"
      /\ \A k \in Jobs : k # j => call'[k] = call[k]
  BY DEF GiveUp, Return, RelayTypeOK
<1>2. /\ \A k \in Jobs : InQueue(k)' <=> k # j /\ InQueue(k)
      /\ Injective(httpQueue)'
  BY <1>1, UnqueuedIs DEF InQueue, PlacesInv, Apart
<1>3. Apart'
  BY <1>1, <1>2 DEF PlacesInv, Apart, InBacklog
<1>4. CallAt'
  BY <1>1, <1>2 DEF PlacesInv, CallAt, Somewhere, InBacklog
<1>5. HolderAt'
  BY <1>1 DEF PlacesInv, HolderAt
<1>6. CarriedAt'
  BY <1>1, <1>2 DEF PlacesInv, CarriedAt, InBacklog
<1> QED
  BY <1>3, <1>4, <1>5, <1>6 DEF PlacesInv

LEMMA GiveToPollMoves ==
  ASSUME RelayTypeOK, PlacesInv, NEW j \in Jobs, GiveToPoll(j)
  PROVE  PlacesInv'
<1> USE DEF connVars, pollVars, callVars, nodeVars
<1>1. /\ UNCHANGED <<node, conn, backlog, handed, lostJobs, tooLate>>
      /\ node = NoConn /\ call[j] = "new" /\ call'[j] = "waiting"
      /\ \A k \in Jobs : k # j => call'[k] = call[k]
  BY DEF GiveToPoll, RelayTypeOK
<1>2. /\ handed[j] = 0 /\ ~InQueue(j) /\ j \notin lostJobs
      /\ \A c \in Conns : ~InBacklog(c, j)
      /\ \A p \in Polls : given[p] # j
  BY <1>1 DEF PlacesInv, CallAt, Apart, Somewhere
<1>3. lostJobs \subseteq Jobs /\ httpQueue \in Seq(Jobs)
  BY DEF RelayTypeOK
<1>4. CASE Skipped = <<>>
  <2>1. UNCHANGED <<poll, given, carried>> /\ httpQueue' = Append(httpQueue, j)
    BY <1>4 DEF GiveToPoll
  <2>2. /\ \A k : InQueue(k)' <=> InQueue(k) \/ k = j
        /\ Injective(httpQueue)'
    BY <1>2, <1>3, <2>1, AppendHas DEF InQueue, PlacesInv, Apart
  <2>3. \A p \in Polls : poll[p] # "waiting"
    <3>1. \A p : ~Has(Skipped, p)
      BY <1>4, EmptyHas
    <3> QED
      BY <3>1, SkippedIs DEF PlacesInv, HolderAt
  <2>4. Apart'
    BY <1>1, <1>2, <1>3, <2>1, <2>2 DEF PlacesInv, Apart, InBacklog
  <2>5. CallAt'
    BY <1>1, <2>1, <2>2 DEF PlacesInv, CallAt, Somewhere, InBacklog
  <2>6. HolderAt'
    BY <1>1, <2>1, <2>3 DEF PlacesInv, HolderAt
  <2>7. CarriedAt'
    BY <1>1, <2>1, <2>2, <2>3 DEF PlacesInv, CarriedAt, InBacklog
  <2> QED
    BY <2>4, <2>5, <2>6, <2>7 DEF PlacesInv
<1>5. CASE Skipped # <<>>
  <2> DEFINE w == Head(Skipped)
  <2>1. /\ w \in Polls /\ poll[w] = "waiting"
        /\ \A p : Has(Skipped, p) <=> Has(Tail(Skipped), p) \/ p = w
    BY <1>5, SkippedIs, TailHas
  <2> HIDE DEF w
  <2>2. /\ waiters' = Tail(Skipped) /\ httpQueue' = httpQueue
        /\ poll' = [poll EXCEPT ![w] = "given"]
        /\ given' = [given EXCEPT ![w] = j]
        /\ carried' = carried \cup {j}
    BY <1>5, <2>1 DEF GiveToPoll, w
  <2>3. /\ \A p \in Polls : given'[p] = IF p = w THEN j ELSE given[p]
        /\ \A p \in Polls : poll'[p] = IF p = w THEN "given" ELSE poll[p]
    BY <2>1, <2>2 DEF RelayTypeOK
  <2>4. Apart'
    BY <1>1, <1>2, <1>3, <2>1, <2>2, <2>3 DEF PlacesInv, Apart, InQueue, InBacklog
  <2>5. \A k \in Jobs : Somewhere(k)' <=> Somewhere(k) \/ k = j
    <3>1. given[w] = NoJob
      BY <2>1 DEF PlacesInv, HolderAt
    <3> QED
      BY <1>1, <2>1, <2>2, <2>3, <3>1, RelayAssumption DEF Somewhere, InQueue, InBacklog
  <2>6. CallAt'
    BY <1>1, <2>5 DEF PlacesInv, CallAt
  <2>7. HolderAt'
    <3>1. \A p \in Polls : poll[p] = "waiting" /\ p # w => Has(waiters', p)
      BY <2>1, <2>2, SkippedIs DEF PlacesInv, HolderAt
    <3>2. j # NoJob
      BY RelayAssumption
    <3> QED
      BY <1>1, <2>1, <2>2, <2>3, <3>1, <3>2 DEF PlacesInv, HolderAt
  <2>8. CarriedAt'
    BY <1>1, <2>1, <2>2, <2>3 DEF PlacesInv, CarriedAt, InQueue, InBacklog
  <2> QED
    BY <2>4, <2>6, <2>7, <2>8 DEF PlacesInv
<1> QED
  BY <1>4, <1>5

LEMMA SettledAll ==
  ASSUME RelayTypeOK, FailPending, NEW j \in Jobs
  PROVE  /\ call'[j] \in {"new", "sending", "resolved"} => call[j] \in {"new", "sending", "resolved"}
         /\ call'[j] = "waiting" => call[j] = "waiting"
<1>1. call'[j] = call[j] \/ call'[j] = Settled(call[j])
  BY DEF FailPending
<1> QED
  BY <1>1, SettledIs

LEMMA ConnectMoves ==
  ASSUME RelayTypeOK, PlacesInv, NEW c \in Conns, Connect(c)
  PROVE  PlacesInv'
<1> USE DEF connVars, pollVars, callVars, nodeVars
<1>1. /\ UNCHANGED <<waiters, poll, given, handed, lostJobs, tooLate>>
      /\ httpQueue' = <<>> /\ carried' = carried \cup Range(httpQueue)
      /\ conn[c] = "new" /\ backlog[c] = <<>>
  BY DEF Connect, TakenQueue, PlacesInv, HolderAt
<1>2. /\ backlog'[c] = httpQueue /\ \A d \in Conns : d # c => backlog'[d] = backlog[d]
      /\ conn'[c] = "sending" /\ \A d \in Conns : d # c => conn'[d] = conn[d]
  BY DEF Connect, RelayTypeOK
<1>3. \A j : InQueue(j) => j \in carried'
  BY <1>1 DEF InQueue, Has, Range, RelayTypeOK
<1>4. /\ \A j : ~InBacklog(c, j) /\ ~InQueue(j)'
      /\ \A j : InBacklog(c, j)' <=> InQueue(j)
      /\ \A j : \A d \in Conns : d # c => (InBacklog(d, j)' <=> InBacklog(d, j))
  BY <1>1, <1>2, EmptyHas DEF InQueue, InBacklog
<1>5. Injective(httpQueue)' /\ \A d \in Conns : Injective(backlog[d])'
  BY <1>1, <1>2, EmptyHas DEF PlacesInv, Apart
<1>6. Apart'
  BY <1>1, <1>4, <1>5 DEF PlacesInv, Apart
<1>7. \A j \in Jobs : Somewhere(j)' <=> Somewhere(j)
  BY <1>1, <1>4 DEF Somewhere
<1>8. CallAt'
  <2>1. CASE node # NoConn
    <3>1. FailPending
      BY <2>1 DEF Connect
    <3> QED
      BY <3>1, <1>7, SettledAll DEF PlacesInv, CallAt
  <2>2. CASE node = NoConn
    <3>1. call' = call
      BY <2>2 DEF Connect
    <3> QED
      BY <3>1, <1>7 DEF PlacesInv, CallAt
  <2> QED
    BY <2>1, <2>2
<1>9. HolderAt'
  BY <1>1, <1>2 DEF PlacesInv, HolderAt
<1>10. CarriedAt'
  BY <1>1, <1>3, <1>4 DEF PlacesInv, CarriedAt
<1> QED
  BY <1>6, <1>8, <1>9, <1>10 DEF PlacesInv

LEMMA SendBacklogMoves ==
  ASSUME RelayTypeOK, PlacesInv, NEW c \in Conns, SendBacklog(c)
  PROVE  PlacesInv'
<1> USE DEF connVars, pollVars, callVars, nodeVars
<1> DEFINE j == Head(backlog[c])
<1>1. /\ UNCHANGED <<node, conn, waiters, poll, given, httpQueue, call>>
      /\ backlog[c] # <<>> /\ HandOver(j)
      /\ backlog'[c] = Tail(backlog[c]) /\ \A d \in Conns : d # c => backlog'[d] = backlog[d]
      /\ backlog[c] \in Seq(Jobs) /\ conn[c] = "sending"
  BY DEF SendBacklog, RelayTypeOK
<1>2. /\ j \in Jobs /\ InBacklog(c, j)
      /\ \A x : InBacklog(c, x)' <=> InBacklog(c, x) /\ x # j
      /\ Injective(backlog[c])'
  BY <1>1, TailHas DEF InBacklog, PlacesInv, Apart
<1> HIDE DEF j
<1>3. /\ handed[j] = 0 /\ ~InQueue(j) /\ j \notin lostJobs /\ j \in carried
      /\ \A p \in Polls : given[p] # j
      /\ \A d \in Conns : d # c => ~InBacklog(d, j)
  BY <1>2 DEF PlacesInv, Apart, CarriedAt
<1>4. /\ handed'[j] = 1 /\ \A k \in Jobs : k # j => handed'[k] = handed[k]
      /\ UNCHANGED <<lostJobs, carried>>
      /\ tooLate' \subseteq tooLate \cup {j}
  BY <1>1, <1>2, <1>3, HandOverIs
<1>5. \A x : \A d \in Conns : d # c => (InBacklog(d, x)' <=> InBacklog(d, x))
  BY <1>1 DEF InBacklog
<1>6. lostJobs \subseteq Jobs
  BY DEF RelayTypeOK
<1>7. Apart'
  <2>1. \A d \in Conns : Injective(backlog[d])'
    BY <1>1, <1>2 DEF PlacesInv, Apart
  <2> QED
    BY <1>1, <1>2, <1>3, <1>4, <1>5, <1>6, <2>1 DEF PlacesInv, Apart, InQueue
<1>8. \A k \in Jobs : Somewhere(k)' <=> Somewhere(k)
  BY <1>1, <1>2, <1>3, <1>4, <1>5 DEF Somewhere, InQueue
<1>9. CallAt'
  BY <1>1, <1>8 DEF PlacesInv, CallAt
<1>10. HolderAt'
  BY <1>1 DEF PlacesInv, HolderAt
<1>11. CarriedAt'
  BY <1>1, <1>2, <1>3, <1>4, <1>5 DEF PlacesInv, CarriedAt, InQueue
<1> QED
  BY <1>7, <1>9, <1>10, <1>11 DEF PlacesInv

LEMMA BacklogFailsMoves ==
  ASSUME RelayTypeOK, PlacesInv, NEW c \in Conns, BacklogFails(c)
  PROVE  PlacesInv'
<1> USE DEF connVars, pollVars, callVars, nodeVars
<1>1. /\ UNCHANGED <<node, waiters, poll, given, call, handed, lostJobs, carried, tooLate>>
      /\ httpQueue' = backlog[c] \o httpQueue
      /\ backlog'[c] = <<>> /\ \A d \in Conns : d # c => backlog'[d] = backlog[d]
      /\ backlog[c] \in Seq(Jobs) /\ httpQueue \in Seq(Jobs)
      /\ \A d \in Conns : d # c => conn'[d] = conn[d]
  BY DEF BacklogFails, RelayTypeOK
<1>2. /\ \A x : InQueue(x)' <=> InQueue(x) \/ InBacklog(c, x)
      /\ Injective(httpQueue)'
  <2>1. \A x : ~(Has(backlog[c], x) /\ Has(httpQueue, x))
    <3>1. \A x : Has(httpQueue, x) => x \in Jobs
      BY <1>1 DEF Has
    <3> QED
      BY <3>1 DEF PlacesInv, Apart, InQueue, InBacklog
  <2> QED
    BY <1>1, <2>1, ConcatHas DEF PlacesInv, Apart, InQueue, InBacklog
<1>3. /\ \A x : ~InBacklog(c, x)'
      /\ \A x : \A d \in Conns : d # c => (InBacklog(d, x)' <=> InBacklog(d, x))
  BY <1>1, EmptyHas DEF InBacklog
<1>4. Apart'
  <2>1. \A d \in Conns : Injective(backlog[d])'
    BY <1>1, EmptyHas DEF PlacesInv, Apart
  <2> QED
    BY <1>1, <1>2, <1>3, <2>1 DEF PlacesInv, Apart
<1>5. \A k \in Jobs : Somewhere(k)' <=> Somewhere(k)
  BY <1>1, <1>2, <1>3 DEF Somewhere
<1>6. CallAt'
  BY <1>1, <1>5 DEF PlacesInv, CallAt
<1>7. HolderAt'
  BY <1>1 DEF PlacesInv, HolderAt
<1>8. CarriedAt'
  BY <1>1, <1>2, <1>3 DEF PlacesInv, CarriedAt
<1> QED
  BY <1>4, <1>6, <1>7, <1>8 DEF PlacesInv

LEMMA PollStartsMoves ==
  ASSUME RelayTypeOK, PlacesInv, NEW p \in Polls, PollStarts(p)
  PROVE  PlacesInv'
<1> USE DEF connVars, pollVars, callVars, nodeVars
<1>1. /\ UNCHANGED <<node, conn, backlog, given, call>> /\ poll[p] = "new"
      /\ \A q \in Polls : q # p => poll'[q] = poll[q]
      /\ httpQueue \in Seq(Jobs) /\ lostJobs \subseteq Jobs
  BY DEF PollStarts, RelayTypeOK
<1>2. CASE httpQueue # <<>>
  <2> DEFINE j == Head(httpQueue)
  <2>1. /\ HandOver(j) /\ waiters' = waiters /\ poll'[p] = "done" /\ httpQueue' = Tail(httpQueue)
    BY <1>2 DEF PollStarts, RelayTypeOK
  <2>2. /\ j \in Jobs /\ InQueue(j)
        /\ \A x : InQueue(x)' <=> InQueue(x) /\ x # j
        /\ Injective(httpQueue)'
    BY <1>1, <1>2, <2>1, TailHas DEF InQueue, PlacesInv, Apart
  <2> HIDE DEF j
  <2>3. /\ handed[j] = 0 /\ j \notin lostJobs
        /\ \A q \in Polls : given[q] # j
        /\ \A d \in Conns : ~InBacklog(d, j)
    BY <2>2 DEF PlacesInv, Apart
  <2>4. /\ handed'[j] = 1 /\ \A k \in Jobs : k # j => handed'[k] = handed[k]
        /\ UNCHANGED <<lostJobs, carried>>
        /\ call[j] = "returned" => tooLate' = tooLate \cup {j}
        /\ call[j] # "returned" => tooLate' = tooLate
    BY <2>1, <2>2, <2>3, HandOverIs
  <2>5. call[j] = "returned" => j \in carried
    BY <2>2 DEF PlacesInv, CarriedAt
  <2>6. Apart'
    BY <1>1, <2>2, <2>3, <2>4 DEF PlacesInv, Apart, InBacklog
  <2>7. \A k \in Jobs : Somewhere(k)' <=> Somewhere(k)
    BY <1>1, <2>2, <2>3, <2>4 DEF Somewhere, InBacklog
  <2>8. CallAt'
    BY <1>1, <2>7 DEF PlacesInv, CallAt
  <2>9. HolderAt'
    BY <1>1, <2>1 DEF PlacesInv, HolderAt
  <2>10. CarriedAt'
    BY <1>1, <2>1, <2>2, <2>4, <2>5 DEF PlacesInv, CarriedAt, InBacklog
  <2> QED
    BY <2>6, <2>8, <2>9, <2>10 DEF PlacesInv
<1>3. CASE httpQueue = <<>>
  <2>1. UNCHANGED <<httpQueue, handed, lostJobs, carried, tooLate>> /\ \A x : ~InQueue(x)
    BY <1>3, EmptyHas DEF PollStarts, InQueue
  <2>2. \/ poll'[p] = "waiting" /\ waiters' = Append(Skipped, p)
        \/ poll'[p] = "done" /\ waiters' = waiters
    BY <1>3 DEF PollStarts, RelayTypeOK
  <2>3. \A x : Has(Append(Skipped, p), x) <=> Has(Skipped, x) \/ x = p
    BY SkippedIs, AppendHas
  <2>4. HolderAt'
    <3>1. \A q \in Polls : poll[q] = "waiting" => Has(waiters', q)
      BY <2>2, <2>3, SkippedIs DEF PlacesInv, HolderAt
    <3>2. poll'[p] = "waiting" => Has(waiters', p)
      BY <2>2, <2>3
    <3> QED
      BY <1>1, <2>2, <3>1, <3>2 DEF PlacesInv, HolderAt
  <2>5. Apart'
    BY <1>1, <2>1 DEF PlacesInv, Apart, InQueue, InBacklog
  <2>6. CallAt'
    BY <1>1, <2>1 DEF PlacesInv, CallAt, Somewhere, InQueue, InBacklog
  <2>7. CarriedAt'
    BY <1>1, <2>1 DEF PlacesInv, CarriedAt, InQueue, InBacklog
  <2> QED
    BY <2>4, <2>5, <2>6, <2>7 DEF PlacesInv
<1> QED
  BY <1>2, <1>3

LEMMA PollEndsMoves ==
  ASSUME RelayTypeOK, PlacesInv, NEW p \in Polls, PollReturns(p) \/ PollDropsJob(p)
  PROVE  PlacesInv'
<1> USE DEF connVars, pollVars, callVars, nodeVars
<1> DEFINE j == given[p]
<1>1. /\ UNCHANGED <<node, conn, backlog, httpQueue, waiters, call>> /\ poll[p] = "given"
      /\ \A q \in Polls : poll'[q] = IF q = p THEN "done" ELSE poll[q]
      /\ \A q \in Polls : given'[q] = IF q = p THEN NoJob ELSE given[q]
      /\ lostJobs \subseteq Jobs
  BY DEF PollReturns, PollDropsJob, RelayTypeOK
<1>2. j \in Jobs /\ given[p] = j
  BY <1>1 DEF PlacesInv, HolderAt, RelayTypeOK
<1>3. /\ handed[j] = 0 /\ ~InQueue(j) /\ j \notin lostJobs /\ j \in carried
      /\ \A q \in Polls : q # p => given[q] # j
      /\ \A d \in Conns : ~InBacklog(d, j)
  BY <1>2, RelayAssumption DEF PlacesInv, Apart, CarriedAt
<1>4. /\ carried' = carried /\ tooLate' \subseteq tooLate \cup {j}
      /\ \A k \in Jobs : k # j => handed'[k] = handed[k]
      /\ \/ handed'[j] = 1 /\ lostJobs' = lostJobs
         \/ handed'[j] = 0 /\ lostJobs' = lostJobs \cup {j}
  <2>1. CASE PollReturns(p)
    BY <1>2, <1>3, <2>1, HandOverIs DEF PollReturns
  <2>2. CASE PollDropsJob(p)
    BY <1>2, <1>3, <2>2 DEF PollDropsJob
  <2> QED
    BY <2>1, <2>2
<1> HIDE DEF j
<1>5. \A q \in Polls : given'[q] # j
  BY <1>1, <1>2, <1>3, RelayAssumption
<1>6. Apart'
  BY <1>1, <1>2, <1>3, <1>4, <1>5, RelayAssumption DEF PlacesInv, Apart, InQueue, InBacklog
<1>7. \A k \in Jobs : Somewhere(k)' <=> Somewhere(k)
  BY <1>1, <1>2, <1>3, <1>4, <1>5, RelayAssumption DEF Somewhere, InQueue, InBacklog
<1>8. CallAt'
  BY <1>1, <1>7 DEF PlacesInv, CallAt
<1>9. HolderAt'
  BY <1>1 DEF PlacesInv, HolderAt
<1>10. CarriedAt'
  BY <1>1, <1>3, <1>4, RelayAssumption DEF PlacesInv, CarriedAt, InQueue, InBacklog
<1> QED
  BY <1>6, <1>8, <1>9, <1>10 DEF PlacesInv

LEMMA PlacesInit == RelayInit => RelayTypeOK /\ PlacesInv
<1> SUFFICES ASSUME RelayInit PROVE RelayTypeOK /\ PlacesInv
  OBVIOUS
<1>1. RelayTypeOK
  BY DEF RelayInit, RelayTypeOK
<1>2. /\ \A x : ~Has(httpQueue, x)
      /\ \A c \in Conns : \A x : ~Has(backlog[c], x)
      /\ Injective(httpQueue) /\ \A c \in Conns : Injective(backlog[c])
  BY EmptyHas DEF RelayInit
<1>3. /\ \A p \in Polls : given[p] = NoJob /\ poll[p] = "new"
      /\ \A j \in Jobs : call[j] = "new" /\ handed[j] = 0 /\ j # NoJob
      /\ \A c \in Conns : conn[c] = "new" /\ backlog[c] = <<>>
      /\ lostJobs = {} /\ tooLate = {}
  BY RelayAssumption DEF RelayInit
<1>4. \A j \in Jobs : ~Somewhere(j)
  BY <1>2, <1>3 DEF Somewhere, InQueue, InBacklog
<1>5. Apart
  BY <1>2, <1>3 DEF Apart, InQueue, InBacklog
<1>6. CallAt /\ HolderAt
  BY <1>3, <1>4 DEF CallAt, HolderAt
<1>7. CarriedAt
  BY <1>2, <1>3 DEF CarriedAt, InQueue, InBacklog
<1> QED
  BY <1>1, <1>5, <1>6, <1>7 DEF PlacesInv

LEMMA PlacesStep == RelayTypeOK /\ PlacesInv /\ Step => (RelayTypeOK /\ PlacesInv)'
<1> SUFFICES ASSUME RelayTypeOK, PlacesInv, Step PROVE (RelayTypeOK /\ PlacesInv)'
  OBVIOUS
<1>1. RelayTypeOK'
  BY TypeStep DEF PlacesInv
<1>2. CASE UNCHANGED relayVars
  <2>1. UNCHANGED <<node, conn, backlog, waiters, poll, given, httpQueue, call, handed, lostJobs, carried, tooLate>>
    BY <1>2 DEF relayVars, connVars, pollVars, callVars, nodeVars
  <2>2. /\ \A c \in Conns : conn'[c] # "sending" => backlog[c] = <<>>
        /\ \A p \in Polls : /\ poll'[p] = "given" <=> poll[p] = "given"
                           /\ poll'[p] = "waiting" => poll[p] = "waiting" /\ Has(waiters', p)
    BY <2>1 DEF PlacesInv, HolderAt
  <2> QED
    BY <1>1, <2>1, <2>2, PlacesStay
<1>3. PlacesInv'
  BY <1>2, CallMoves, GiveToPollMoves, JobSentMoves, GiveUpMoves, ConnectMoves, HolderMoves,
     SendBacklogMoves, BacklogFailsMoves, DisconnectMoves, PollStartsMoves, PollEndsMoves
     DEF Step, RelayNext
<1> QED
  BY <1>1, <1>3

(* A job that is somewhere, and in no two places, is in exactly one.       *)
LEMMA OnePlace ==
  ASSUME RelayTypeOK, Apart, NEW j \in Jobs, Somewhere(j)
  PROVE  \E x : Places(j) = {x}
<1> DEFINE QueueAt == {<<"queue", i>> : i \in {k \in DOMAIN httpQueue : httpQueue[k] = j}}
           OfConn(c) == {<<c, i>> : i \in {k \in DOMAIN backlog[c] : backlog[c][k] = j}}
           ConnsAt == UNION {OfConn(c) : c \in Conns}
           PollsAt == {<<p, 1>> : p \in {q \in Polls : given[q] = j}}
           NodeAt  == {<<"node", i>> : i \in 1..handed[j]}
           LostAt  == {<<"lost", i>> : i \in {k \in {1} : j \in lostJobs}}
<1>1. Places(j) = QueueAt \cup ConnsAt \cup PollsAt \cup NodeAt \cup LostAt
  BY DEF Places
<1>2. DOMAIN httpQueue = 1..Len(httpQueue) /\ \A c \in Conns : DOMAIN backlog[c] = 1..Len(backlog[c])
  BY DEF RelayTypeOK
<1>3. ~InQueue(j) => QueueAt = {}
  BY <1>2 DEF InQueue, Has
<1>4. (\A c \in Conns : ~InBacklog(c, j)) => ConnsAt = {}
  BY <1>2 DEF InBacklog, Has
<1>5. (\A p \in Polls : given[p] # j) => PollsAt = {}
  OBVIOUS
<1>6. handed[j] = 0 => NodeAt = {}
  OBVIOUS
<1>7. j \notin lostJobs => LostAt = {}
  OBVIOUS
<1>8. InQueue(j) => \E x : QueueAt = {x}
  <2>1. SUFFICES ASSUME InQueue(j) PROVE \E x : QueueAt = {x}
    OBVIOUS
  <2>2. PICK i \in 1..Len(httpQueue) : httpQueue[i] = j
    BY <2>1 DEF InQueue, Has
  <2>3. {k \in DOMAIN httpQueue : httpQueue[k] = j} = {i}
    BY <1>2, <2>2 DEF Apart, Injective
  <2>4. QueueAt = {<<"queue", i>>}
    BY <2>3
  <2> QED
    BY <2>4
<1>9. ASSUME NEW c \in Conns, InBacklog(c, j) PROVE \E x : ConnsAt = {x}
  <2>1. PICK i \in 1..Len(backlog[c]) : backlog[c][i] = j
    BY <1>9 DEF InBacklog, Has
  <2>2. {k \in DOMAIN backlog[c] : backlog[c][k] = j} = {i}
    BY <1>2, <2>1 DEF Apart, Injective
  <2>3. OfConn(c) = {<<c, i>>}
    BY <2>2
  <2>4. \A d \in Conns : d # c => OfConn(d) = {}
    <3>1. \A d \in Conns : d # c => ~InBacklog(d, j)
      BY <1>9 DEF Apart
    <3> QED
      BY <1>2, <3>1 DEF InBacklog, Has
  <2> HIDE DEF OfConn
  <2>5. ConnsAt = {<<c, i>>}
    BY <2>3, <2>4
  <2> QED
    BY <2>5
<1>10. ASSUME NEW p \in Polls, given[p] = j PROVE \E x : PollsAt = {x}
  <2>1. j # NoJob
    BY RelayAssumption
  <2>2. {q \in Polls : given[q] = j} = {p}
    BY <1>10, <2>1 DEF Apart
  <2>3. PollsAt = {<<p, 1>>}
    BY <2>2
  <2> QED
    BY <2>3
<1>11. handed[j] = 1 => \E x : NodeAt = {x}
  <2>1. 1..1 = {1}
    OBVIOUS
  <2>2. handed[j] = 1 => NodeAt = {<<"node", 1>>}
    BY <2>1
  <2> QED
    BY <2>2
<1>12. j \in lostJobs => \E x : LostAt = {x}
  <2>1. j \in lostJobs => {k \in {1} : j \in lostJobs} = {1}
    OBVIOUS
  <2>2. j \in lostJobs => LostAt = {<<"lost", 1>>}
    BY <2>1
  <2> QED
    BY <2>2
<1> HIDE DEF QueueAt, ConnsAt, PollsAt, NodeAt, LostAt
<1>13. CASE InQueue(j)
  BY <1>1, <1>4, <1>5, <1>6, <1>7, <1>8, <1>13 DEF Apart
<1>14. ASSUME NEW c \in Conns, InBacklog(c, j) PROVE \E x : Places(j) = {x}
  BY <1>1, <1>3, <1>5, <1>6, <1>7, <1>9, <1>14 DEF Apart
<1>15. ASSUME NEW p \in Polls, given[p] = j PROVE \E x : Places(j) = {x}
  BY <1>1, <1>3, <1>4, <1>6, <1>7, <1>10, <1>15 DEF Apart
<1>16. CASE handed[j] = 1
  <2>1. ~InQueue(j) /\ (\A c \in Conns : ~InBacklog(c, j)) /\ (\A p \in Polls : given[p] # j) /\ j \notin lostJobs
    BY <1>16 DEF Apart
  <2> QED
    BY <1>1, <1>3, <1>4, <1>5, <1>7, <1>11, <1>16, <2>1
<1>17. CASE j \in lostJobs
  <2>1. ~InQueue(j) /\ (\A c \in Conns : ~InBacklog(c, j)) /\ (\A p \in Polls : given[p] # j) /\ handed[j] = 0
    BY <1>17 DEF Apart
  <2> QED
    BY <1>1, <1>3, <1>4, <1>5, <1>6, <1>12, <1>17, <2>1
<1> QED
  BY <1>13, <1>14, <1>15, <1>16, <1>17 DEF Somewhere

LEMMA PlacesAccounted == RelayTypeOK /\ PlacesInv /\ PendingHasCaller => JobsAccounted
<1> SUFFICES ASSUME RelayTypeOK, PlacesInv, PendingHasCaller PROVE JobsAccounted
  OBVIOUS
<1>1. \A j \in Jobs : handed[j] <= 1
  BY DEF PlacesInv, Apart
<1>2. tooLate \subseteq carried
  BY DEF PlacesInv, CarriedAt
<1>3. ASSUME NEW j \in Jobs, call[j] = "waiting" PROVE Cardinality(Places(j)) = 1
  <2>1. Somewhere(j)
    BY <1>3 DEF PlacesInv, CallAt
  <2>2. PICK x : Places(j) = {x}
    BY <2>1, OnePlace DEF PlacesInv
  <2> QED
    BY <2>2, FS_Singleton
<1>4. ASSUME NEW p \in Polls, poll[p] = "waiting" PROVE Range(httpQueue) \subseteq carried
  <2>1. \A x \in Range(httpQueue) : x \in Jobs /\ InQueue(x)
    BY DEF RelayTypeOK, Range, InQueue, Has
  <2> QED
    BY <1>4, <2>1 DEF PlacesInv, CarriedAt
<1> QED
  BY <1>1, <1>2, <1>3, <1>4 DEF JobsAccounted

(* Whatever connections, polls and callers come and go, a job is sent to   *)
(* the node once at most, and one that is waited for is in one place; and  *)
(* the table of the node holds no job whose call is over.                  *)
THEOREM EveryJobIsSomewhere == RelaySpec => []JobsAccounted
<1> DEFINE All == CallInv /\ RelayTypeOK /\ PlacesInv
<1>1. RelayInit => All
  BY CallInit, PlacesInit
<1>2. All /\ [RelayNext]_relayVars => All'
  BY CallStep, PlacesStep DEF Step
<1>3. All => JobsAccounted
  BY PlacesAccounted DEF CallInv
<1> QED
  BY <1>1, <1>2, <1>3, PTL DEF RelaySpec
=============================================================================
