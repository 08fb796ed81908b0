---------------------------- MODULE StoresProofs ----------------------------
(* What is proved of the stores that edits, drains, payments and crashes   *)
(* work on: the memory files and their index (SleepMemory), the provider   *)
(* files, the routes and their clients (Providers), the paid sessions      *)
(* (PaidSessions); for any files, providers, workers and payments.         *)
EXTENDS SleepMemory, Providers, PaidSessions, SequenceTheorems, FiniteSetTheorems, TLAPS

(* SleepMemory: the types                                                  *)

Stages == {"idle", "flush", "distill", "drained"}

MemoryTypes ==
    /\ place \in [Inputs -> {"none", "fresh", "sleep", "linked", "archive"}]
    /\ says \in [Inputs -> SUBSET Lines] /\ shelved \subseteq Lines
    /\ copies \in [Routes -> [Lines -> 0..2]] /\ exact \in [Routes -> SUBSET Lines] /\ flash \subseteq Notes
    /\ at \in [Drainers -> Stages]
    /\ batch \in [Drainers -> SUBSET Inputs] /\ left \in [Drainers -> SUBSET Lines]
    /\ hand \in [Drainers -> Inputs \cup {Nobody}]
    /\ turn \in [Notes -> {"none", "written", "done"}]
    /\ late \subseteq Notes /\ raced \subseteq flash
    /\ sync \in [Syncers -> {"none", "waiting", "queued", "building", "built"}]
    /\ moved \in [Syncers -> BOOLEAN]
    /\ dirty \in BOOLEAN

LEMMA MemoryTypesInit == MemoryInit => MemoryTypes
<1> SUFFICES ASSUME MemoryInit PROVE MemoryTypes
  OBVIOUS
<1>1. /\ copies \in [Routes -> [Lines -> 0..2]] /\ exact \in [Routes -> SUBSET Lines]
      /\ says \in [Inputs -> SUBSET Lines]
  BY DEF MemoryInit
<1> QED
  BY <1>1 DEF MemoryInit, MemoryTypes, Stages

(* The directories a line is looked up in and written to.                  *)
LEMMA RoutesOf ==
  ASSUME NEW stage, NEW x
  PROVE  /\ LineRoute(stage, x) \in Searched(stage, x)
         /\ Searched(stage, x) \subseteq Routes
  BY DEF LineRoute, Searched, FlushRoute, DistillRoute, Routes

LEMMA NewTyped ==
  ASSUME MemoryTypes, NEW stage, NEW F \in SUBSET Inputs
  PROVE  New(stage, F) \in SUBSET Lines
<1>1. \A f \in F : says[f] \subseteq Lines
  BY DEF MemoryTypes
<1> QED
  BY <1>1 DEF New

LEMMA DrainTypes ==
  ASSUME MemoryTypes, NEW p \in Drainers, DrainStep(p)
  PROVE  MemoryTypes'
<1> USE DEF MemoryTypes, Stages, fileVars, canonVars, drainVars, turnVars, indexVars
<1>1. CASE StartFlush(p)
  <2>1. Eligible(Spills) \in SUBSET Inputs
    BY DEF Eligible, Inputs
  <2> QED
    BY <1>1, <2>1, NewTyped DEF StartFlush
<1>2. CASE StartConsolidate(p)
  <2>1. Eligible(Inputs) \in SUBSET Inputs
    BY DEF Eligible
  <2> QED
    BY <1>2, <2>1, NewTyped DEF StartConsolidate
<1>3. ASSUME NEW x \in Lines, AppendLine(p, x) PROVE MemoryTypes'
  <2> DEFINE d == LineRoute(at[p], x)
  <2>1. d \in Routes
    BY RoutesOf
  <2>2. /\ copies' = [copies EXCEPT ![d][x] = IF @ = 2 THEN 2 ELSE @ + 1]
        /\ exact' = [exact EXCEPT ![d] = @ \cup {x}] \/ exact' = exact
    BY <1>3 DEF AppendLine
  <2>3. (IF copies[d][x] = 2 THEN 2 ELSE copies[d][x] + 1) \in 0..2
    BY <2>1
  <2>4. copies' \in [Routes -> [Lines -> 0..2]]
    BY <2>1, <2>2, <2>3
  <2>5. exact' \in [Routes -> SUBSET Lines]
    BY <2>1, <2>2
  <2> HIDE DEF d
  <2> QED
    BY <1>3, <2>4, <2>5 DEF AppendLine
<1>4. ASSUME NEW f \in Inputs, Link(p, f) PROVE MemoryTypes'
  BY <1>4 DEF Link
<1>5. CASE Unlink(p)
  BY <1>5 DEF Unlink, Lines
<1>6. CASE RefuseLinked(p) \/ AppendFails(p)
  BY <1>6 DEF RefuseLinked, AppendFails, Dropped, Fault
<1>7. CASE Drained(p)
  BY <1>7 DEF Drained
<1> QED
  BY <1>1, <1>2, <1>3, <1>4, <1>5, <1>6, <1>7 DEF DrainStep

LEMMA TurnTypes ==
  ASSUME MemoryTypes, NEW n \in Notes,
         WriteBuffer(n) \/ WriteFlashbulb(n) \/ ReportTurn(n) \/ CutTurn(n)
  PROVE  MemoryTypes'
<1> USE DEF MemoryTypes, Stages, fileVars, canonVars, drainVars, turnVars, indexVars
<1>1. n \in Lines /\ Buffer \in Inputs
  BY DEF Lines, Inputs
<1>2. CASE WriteBuffer(n)
  BY <1>1, <1>2 DEF WriteBuffer
<1>3. CASE WriteFlashbulb(n)
  <2>1. "semantic" \in Routes
    BY DEF Routes
  <2>2. copies' \in [Routes -> [Lines -> 0..2]]
    BY <1>1, <1>3, <2>1 DEF WriteFlashbulb
  <2> QED
    BY <1>1, <1>3, <2>2 DEF WriteFlashbulb
<1>4. CASE ReportTurn(n) \/ CutTurn(n)
  BY <1>4 DEF ReportTurn, CutTurn, Reported
<1> QED
  BY <1>2, <1>3, <1>4

LEMMA OtherTypes ==
  ASSUME MemoryTypes,
         \/ \E s \in Spills, facts \in SUBSET Facts : WriteSpill(s, facts)
         \/ \E f \in Inputs : Matures(f)
         \/ ReportDrain \/ WorkerDies \/ RuntimeDies
         \/ \E c \in Syncers : SyncStep(c)
         \/ UNCHANGED memoryVars
  PROVE  MemoryTypes'
<1> USE DEF MemoryTypes, Stages, fileVars, canonVars, drainVars, turnVars, indexVars
<1>1. ASSUME NEW s \in Spills, NEW facts \in SUBSET Facts, WriteSpill(s, facts)
      PROVE  MemoryTypes'
  BY <1>1 DEF WriteSpill, Inputs, Lines
<1>2. ASSUME NEW f \in Inputs, Matures(f) PROVE MemoryTypes'
  BY <1>2 DEF Matures
<1>3. CASE ReportDrain
  BY <1>3 DEF ReportDrain, Dropped, Reported, Drainers
<1>7. CASE WorkerDies
  BY <1>7 DEF WorkerDies, Dropped, Drainers
<1>4. CASE RuntimeDies
  BY <1>4 DEF RuntimeDies, Dropped, Reported, Fault, Drainers
<1>5. ASSUME NEW c \in Syncers, SyncStep(c) PROVE MemoryTypes'
  BY <1>5 DEF SyncStep, CallSync, TakeTarget, StartBuild, Build, BuildFails, Synced, StillDirty, Fault
<1>6. CASE UNCHANGED memoryVars
  BY <1>6 DEF memoryVars
<1> QED
  BY <1>1, <1>2, <1>3, <1>4, <1>5, <1>6, <1>7

LEMMA MemoryTypesStep == MemoryTypes /\ [MemoryNext]_memoryVars => MemoryTypes'
  BY DrainTypes, TurnTypes, OtherTypes DEF MemoryNext

-----------------------------------------------------------------------------
(* The maintenance lock                                                    *)

LockInv ==
    /\ holder \in Drainers \cup {"index", Nobody}
    /\ at["worker"] # "drained"
    /\ \A p \in Drainers :
         /\ at[p] \in {"flush", "distill"} <=> holder = p
         /\ at[p] \in {"idle", "drained"} => batch[p] = {} /\ left[p] = {}
         /\ at[p] = "flush" => batch[p] \subseteq Spills
         /\ hand[p] # Nobody => hand[p] \in batch[p] /\ left[p] = {}
    /\ \A c \in Syncers : sync[c] = "building" => holder = "index"
    /\ \A c, d \in Syncers : sync[c] = "building" /\ sync[d] = "building" => c = d

(* A drain that ends anyhow gives back the lock it holds.                  *)
LEMMA FreesLock ==
  ASSUME MemoryTypes, LockInv, NEW p \in Drainers, Dropped(p),
         holder' = IF holder = p THEN Nobody ELSE holder, sync' = sync
  PROVE  LockInv'
<1>1. ASSUME NEW q \in Drainers
      PROVE  /\ at'[q] = IF q = p THEN "idle" ELSE at[q]
             /\ batch'[q] = IF q = p THEN {} ELSE batch[q]
             /\ left'[q] = IF q = p THEN {} ELSE left[q]
             /\ hand'[q] = IF q = p THEN Nobody ELSE hand[q]
  BY DEF Dropped, MemoryTypes
<1>2. \A q \in Drainers : at'[q] \in {"flush", "distill"} <=> holder' = q
  BY <1>1, MemoryAssumption DEF LockInv, Drainers
<1> QED
  BY <1>1, <1>2 DEF LockInv, Drainers

LEMMA DrainLock ==
  ASSUME MemoryTypes, LockInv, NEW p \in Drainers, DrainStep(p)
  PROVE  LockInv'
<1> USE MemoryAssumption DEF MemoryTypes, LockInv, Stages, fileVars, canonVars, drainVars, turnVars, indexVars
<1>0. p \in {"runtime", "worker"} /\ Drainers = {"runtime", "worker"}
  BY DEF Drainers
<1>1. CASE StartFlush(p)
  BY <1>0, <1>1 DEF StartFlush, Eligible, LockFree
<1>2. CASE StartConsolidate(p)
  BY <1>0, <1>2 DEF StartConsolidate, Eligible
<1>3. ASSUME NEW x \in Lines, AppendLine(p, x) PROVE LockInv'
  BY <1>0, <1>3 DEF AppendLine
<1>4. ASSUME NEW f \in Inputs, Link(p, f) PROVE LockInv'
  BY <1>0, <1>4 DEF Link, Appended
<1>5. CASE Unlink(p)
  BY <1>0, <1>5 DEF Unlink
<1>6. CASE RefuseLinked(p) \/ AppendFails(p)
  <2>1. batch[p] # {} \/ left[p] # {}
    BY <1>6 DEF RefuseLinked, AppendFails
  <2>2. holder = p
    BY <2>1
  <2> QED
    BY <1>6, <2>2, FreesLock DEF RefuseLinked, AppendFails
<1>7. CASE Drained(p)
  BY <1>0, <1>7 DEF Drained
<1> QED
  BY <1>1, <1>2, <1>3, <1>4, <1>5, <1>6, <1>7 DEF DrainStep

LEMMA OtherLock ==
  ASSUME MemoryTypes, LockInv,
         \/ \E s \in Spills, facts \in SUBSET Facts : WriteSpill(s, facts)
         \/ \E f \in Inputs : Matures(f)
         \/ \E n \in Notes : WriteBuffer(n) \/ WriteFlashbulb(n) \/ ReportTurn(n) \/ CutTurn(n)
         \/ ReportDrain \/ WorkerDies \/ RuntimeDies
         \/ \E c \in Syncers : SyncStep(c)
         \/ UNCHANGED memoryVars
  PROVE  LockInv'
<1> USE MemoryAssumption DEF MemoryTypes, LockInv, Stages, fileVars, canonVars, drainVars, turnVars, indexVars
<1>1. ASSUME UNCHANGED <<holder, at, batch, left, hand, sync>> PROVE LockInv'
  BY <1>1
<1>2. CASE ReportDrain
  BY <1>2 DEF ReportDrain, Dropped, Drainers
<1>3. CASE WorkerDies
  <2>1. holder = "worker"
    BY <1>3 DEF WorkerDies, Drainers
  <2> QED
    BY <1>3, <2>1, FreesLock DEF WorkerDies, Drainers
<1>5. CASE RuntimeDies
  BY <1>5 DEF RuntimeDies, Dropped, Drainers
<1>4. ASSUME NEW c \in Syncers, SyncStep(c) PROVE LockInv'
  <2>1. UNCHANGED <<at, batch, left, hand>> /\ \A d \in Syncers : d # c => sync'[d] = sync[d]
    BY <1>4 DEF SyncStep, CallSync, TakeTarget, StartBuild, Build, BuildFails, Synced
  <2>2. \/ sync'[c] # "building" /\ holder' = holder /\ sync[c] # "building"
        \/ sync'[c] = "building" /\ holder' = "index" /\ holder = Nobody
        \/ sync'[c] # "building" /\ holder' = Nobody /\ sync[c] = "building"
    BY <1>4 DEF SyncStep, CallSync, TakeTarget, StartBuild, Build, BuildFails, Synced, LockFree
  <2>3. \A q \in Drainers : q # "index" /\ q # Nobody
    BY DEF Drainers
  <2>4. holder' \in {"index", Nobody} \/ holder' = holder
    BY <2>2
  <2>5. \A q \in Drainers : holder = q <=> holder' = q
    BY <2>2, <2>3
  <2>6. \A d \in Syncers : sync'[d] = "building" => holder' = "index"
    BY <2>1, <2>2
  <2>7. \A d, e \in Syncers : sync'[d] = "building" /\ sync'[e] = "building" => d = e
    BY <2>1, <2>2
  <2> QED
    BY <2>1, <2>4, <2>5, <2>6, <2>7
<1> QED
  BY <1>1, <1>2, <1>3, <1>4, <1>5
  DEF WriteSpill, Matures, WriteBuffer, WriteFlashbulb, ReportTurn, CutTurn, memoryVars

-----------------------------------------------------------------------------
(* What was read is written                                                *)

ReadInv ==
    /\ \A s \in Spills : says[s] \subseteq Facts
    /\ shelved \ late \subseteq Canonical
    /\ \A p \in Drainers : \A f \in batch[p] :
         /\ f \in Spills => place[f] # "none"
         /\ (says[f] \cap Keeps(at[p])) \ late \subseteq Canonical \cup left[p]

(* A line that no drain may meet: a note that no buffer holds.             *)
Unmet(n) == (\A f \in Inputs : n \notin says[f]) /\ \A p \in Drainers : n \notin left[p]

(* What a drain has still to write was not found where it looked.          *)
Unfound(p) == \A x \in left[p] : \A d \in Searched(at[p], x) : x \notin exact[d]

OnceInv ==
    /\ \A d \in Routes : \A x \in exact[d] : copies[d][x] > 0
    /\ \A d \in Routes : \A x \in Marked \cup Notes :
         copies[d][x] <= 1 /\ (copies[d][x] > 0 => x \in exact[d] \cup flash)
    /\ \A n \in Notes : turn[n] = "none" \/ n \in flash => Unmet(n)
    /\ \A n \in Notes : turn[n] = "none" => n \notin flash /\ \A d \in Routes : copies[d][n] = 0
    /\ \A p \in Drainers : Unfound(p) /\ (at[p] = "flush" => left[p] \subseteq Facts)

FlushInv == MemoryTypes /\ LockInv /\ ReadInv /\ OnceInv

(* A drain takes files at a stage, or drops the ones it has.               *)
LEMMA TakesFiles ==
  ASSUME FlushInv, NEW p \in Drainers, NEW F \in SUBSET Inputs, NEW L \in SUBSET Lines, NEW stage,
         UNCHANGED <<fileVars, copies, late>>, at' = [at EXCEPT ![p] = stage],
         batch' = [batch EXCEPT ![p] = F], left' = [left EXCEPT ![p] = L],
         \A f \in F : place[f] # "none" /\ says[f] \cap Keeps(stage) \subseteq Canonical \cup L
  PROVE  ReadInv'
<1>1. Canonical' = Canonical
  BY DEF Canonical
<1>2. UNCHANGED <<place, says, shelved, late>>
  BY DEF fileVars
<1>3. ASSUME NEW q \in Drainers, NEW f \in batch'[q]
      PROVE  /\ f \in Spills => place[f] # "none"
             /\ (says[f] \cap Keeps(at'[q])) \ late \subseteq Canonical \cup left'[q]
  <2>1. CASE q = p
    BY <1>3, <2>1 DEF FlushInv, MemoryTypes
  <2>2. CASE q # p
    <3>1. batch'[q] = batch[q] /\ left'[q] = left[q] /\ at'[q] = at[q]
      BY <2>2 DEF FlushInv, MemoryTypes
    <3> QED
      BY <1>3, <3>1 DEF FlushInv, ReadInv
  <2> QED
    BY <2>1, <2>2
<1>4. \A q \in Drainers : \A f \in batch'[q] :
        /\ f \in Spills => place'[f] # "none"
        /\ (says'[f] \cap Keeps(at'[q])) \ late' \subseteq Canonical' \cup left'[q]
  BY <1>1, <1>2, <1>3
<1>5. (\A s \in Spills : says'[s] \subseteq Facts) /\ shelved' \ late' \subseteq Canonical'
  BY <1>1, <1>2 DEF FlushInv, ReadInv
<1> QED
  BY <1>4, <1>5 DEF ReadInv, Keeps

LEMMA DropsFiles ==
  ASSUME FlushInv, NEW p \in Drainers, UNCHANGED <<fileVars, copies, late>>, Dropped(p)
  PROVE  ReadInv'
<1>1. {} \in SUBSET Inputs /\ {} \in SUBSET Lines
  OBVIOUS
<1>2. batch' = [batch EXCEPT ![p] = {}] /\ left' = [left EXCEPT ![p] = {}] /\ at' = [at EXCEPT ![p] = "idle"]
  BY DEF Dropped
<1>3. \A f \in {} : place[f] # "none" /\ says[f] \cap Keeps("idle") \subseteq Canonical \cup {}
  OBVIOUS
<1> QED
  BY <1>1, <1>2, <1>3, TakesFiles

(* What is found is in a canonical file, and the rest is to be written.    *)
LEMMA NewLines ==
  ASSUME FlushInv, NEW F \in SUBSET Inputs, NEW stage
  PROVE  /\ New(stage, F) \subseteq Lines /\ Eligible(F) \subseteq F
         /\ \A f \in Eligible(F) : place[f] # "none"
         /\ \A f \in F : says[f] \cap Keeps(stage) \subseteq Canonical \cup New(stage, F)
<1>1. \A f \in F : says[f] \subseteq Lines
  BY DEF FlushInv, MemoryTypes
<1>2. New(stage, F) \subseteq Lines /\ Eligible(F) \subseteq F /\ \A f \in Eligible(F) : place[f] # "none"
  BY <1>1 DEF New, Eligible
<1>3. ASSUME NEW f \in F, NEW x \in says[f] \cap Keeps(stage) PROVE x \in Canonical \cup New(stage, F)
  <2>1. x \in Keeps(stage) \cap UNION {says[g] : g \in F} /\ x \in Lines
    BY <1>1
  <2>2. ASSUME NEW d \in Searched(stage, x), x \in exact[d] PROVE x \in Canonical
    BY <2>1, <2>2, RoutesOf DEF Canonical, FlushInv, OnceInv
  <2> QED
    BY <2>1, <2>2 DEF New
<1> QED
  BY <1>2, <1>3

(* A line reaches a canonical file.                                        *)
LEMMA LineWritten ==
  ASSUME FlushInv, NEW p \in Drainers, NEW x \in Lines, AppendLine(p, x)
  PROVE  /\ Canonical' = Canonical \cup {x} /\ LineRoute(at[p], x) \in Routes
         /\ \A d \in Routes, y \in Lines :
              copies'[d][y] = IF d = LineRoute(at[p], x) /\ y = x
                              THEN (IF copies[d][y] = 2 THEN 2 ELSE copies[d][y] + 1)
                              ELSE copies[d][y]
<1> DEFINE d == LineRoute(at[p], x)
<1>1. d \in Routes
  BY RoutesOf
<1>2. copies' = [copies EXCEPT ![d][x] = IF @ = 2 THEN 2 ELSE @ + 1]
  BY DEF AppendLine
<1> HIDE DEF d
<1>3. \A e \in Routes, y \in Lines :
        copies'[e][y] = IF e = d /\ y = x THEN (IF copies[e][y] = 2 THEN 2 ELSE copies[e][y] + 1)
                                         ELSE copies[e][y]
  BY <1>1, <1>2 DEF FlushInv, MemoryTypes
<1>4. \A e \in Routes, y \in Lines : copies[e][y] \in 0..2
  BY DEF FlushInv, MemoryTypes
<1>5. \A e \in Routes, y \in Lines : copies'[e][y] > 0 <=> copies[e][y] > 0 \/ (e = d /\ y = x)
  BY <1>3, <1>4
<1>6. Canonical' = Canonical \cup {x}
  BY <1>1, <1>5 DEF Canonical
<1> QED
  BY <1>1, <1>3, <1>6 DEF d

LEMMA DrainReads ==
  ASSUME FlushInv, NEW p \in Drainers, DrainStep(p)
  PROVE  ReadInv'
<1> USE DEF FlushInv
<1>1. CASE StartFlush(p)
  <2>1. /\ UNCHANGED <<fileVars, copies, late>>
        /\ batch' = [batch EXCEPT ![p] = Eligible(Spills)]
        /\ left' = [left EXCEPT ![p] = New("flush", Eligible(Spills))]
        /\ at' = [at EXCEPT ![p] = "flush"]
    BY <1>1 DEF StartFlush, canonVars, turnVars
  <2>2. /\ Spills \subseteq Inputs /\ Eligible(Spills) \subseteq Inputs
        /\ \A f \in Eligible(Spills) : place[f] # "none"
    BY DEF Inputs, Eligible
  <2>3. /\ New("flush", Eligible(Spills)) \subseteq Lines
        /\ \A f \in Eligible(Spills) :
             says[f] \cap Keeps("flush") \subseteq Canonical \cup New("flush", Eligible(Spills))
    BY <2>2, NewLines
  <2> QED
    BY <2>1, <2>2, <2>3, TakesFiles
<1>2. CASE StartConsolidate(p)
  <2>1. /\ UNCHANGED <<fileVars, copies, late>>
        /\ batch' = [batch EXCEPT ![p] = Eligible(Inputs)]
        /\ left' = [left EXCEPT ![p] = New("distill", Eligible(Inputs))]
        /\ at' = [at EXCEPT ![p] = "distill"]
    BY <1>2 DEF StartConsolidate, canonVars, turnVars
  <2>2. Eligible(Inputs) \subseteq Inputs /\ \A f \in Eligible(Inputs) : place[f] # "none"
    BY DEF Eligible
  <2>3. /\ New("distill", Eligible(Inputs)) \subseteq Lines
        /\ \A f \in Eligible(Inputs) :
             says[f] \cap Keeps("distill") \subseteq Canonical \cup New("distill", Eligible(Inputs))
    BY <2>2, NewLines
  <2> QED
    BY <2>1, <2>2, <2>3, TakesFiles
<1>3. ASSUME NEW x \in Lines, AppendLine(p, x) PROVE ReadInv'
  <2>1. Canonical' = Canonical \cup {x}
    BY <1>3, LineWritten
  <2>2. UNCHANGED <<fileVars, batch, late, at>> /\ left' = [left EXCEPT ![p] = @ \ {x}]
    BY <1>3 DEF AppendLine, turnVars
  <2>3. \A q \in Drainers : left[q] \subseteq left'[q] \cup {x}
    BY <2>2 DEF MemoryTypes
  <2> QED
    BY <2>1, <2>2, <2>3 DEF ReadInv, fileVars, Keeps
<1>4. ASSUME NEW f \in Inputs, Link(p, f) PROVE ReadInv'
  <2>1. UNCHANGED <<says, shelved, copies, late, batch, left, at>>
    BY <1>4 DEF Link, canonVars, turnVars
  <2>2. \A g \in Inputs : place[g] # "none" => place'[g] # "none"
    BY <1>4 DEF Link, MemoryTypes
  <2>3. Canonical' = Canonical /\ Spills \subseteq Inputs
    BY <2>1 DEF Canonical, Inputs
  <2> QED
    BY <2>1, <2>2, <2>3 DEF ReadInv, Keeps
<1>5. CASE Unlink(p)
  <2> DEFINE f == hand[p]
  <2>1. f \in batch[p] /\ left[p] = {} /\ f \in Inputs
    BY <1>5 DEF Unlink, LockInv, MemoryTypes
  <2>2. Canonical' = Canonical /\ UNCHANGED <<left, late, at>> /\ batch' = [batch EXCEPT ![p] = @ \ {f}]
    BY <1>5 DEF Unlink, Canonical, canonVars, turnVars
  <2>3. shelved' = shelved \cup (says[f] \cap Keeps(at[p]))
    BY <1>5 DEF Unlink
  <2>4. shelved' \ late' \subseteq Canonical'
    BY <2>1, <2>2, <2>3 DEF ReadInv
  <2>5. \A q \in Drainers : batch'[q] \subseteq batch[q] /\ \A g \in batch[q] : g \in Inputs
    BY <2>2 DEF MemoryTypes
  <2>6. \A g \in Inputs : says'[g] \subseteq says[g]
    BY <1>5 DEF Unlink, MemoryTypes
  <2>7. \A g \in Spills : place[g] # "none" => place'[g] # "none"
    BY <1>5, MemoryAssumption DEF Unlink, MemoryTypes, Inputs
  <2>8. ASSUME NEW q \in Drainers, NEW g \in batch'[q]
        PROVE  /\ g \in Spills => place'[g] # "none"
               /\ (says'[g] \cap Keeps(at'[q])) \ late' \subseteq Canonical' \cup left'[q]
    <3>1. g \in batch[q] /\ says'[g] \subseteq says[g]
      BY <2>5, <2>6
    <3>2. (says[g] \cap Keeps(at[q])) \ late \subseteq Canonical \cup left[q]
      BY <3>1 DEF ReadInv
    <3> QED
      BY <2>2, <2>7, <3>1, <3>2 DEF ReadInv
  <2>9. \A g \in Spills : says'[g] \subseteq Facts
    BY <2>6 DEF ReadInv, Inputs
  <2> HIDE DEF f
  <2> QED
    BY <2>4, <2>8, <2>9 DEF ReadInv, Keeps
<1>6. CASE RefuseLinked(p) \/ AppendFails(p)
  BY <1>6, DropsFiles DEF RefuseLinked, AppendFails, canonVars, turnVars
<1>7. CASE Drained(p)
  <2>1. /\ UNCHANGED <<fileVars, copies, late, left, batch>> /\ batch[p] = {}
        /\ \A q \in Drainers : q = p \/ at'[q] = at[q]
    BY <1>7 DEF Drained, canonVars, turnVars, MemoryTypes
  <2>2. Canonical' = Canonical
    BY <2>1 DEF Canonical
  <2> QED
    BY <2>1, <2>2 DEF ReadInv, fileVars, Keeps
<1> QED
  BY <1>1, <1>2, <1>3, <1>4, <1>5, <1>6, <1>7 DEF DrainStep

LEMMA OtherReads ==
  ASSUME FlushInv,
         \/ \E s \in Spills, facts \in SUBSET Facts : WriteSpill(s, facts)
         \/ \E f \in Inputs : Matures(f)
         \/ \E n \in Notes : WriteBuffer(n) \/ WriteFlashbulb(n) \/ ReportTurn(n) \/ CutTurn(n)
         \/ ReportDrain \/ WorkerDies \/ RuntimeDies
         \/ \E c \in Syncers : SyncStep(c)
         \/ UNCHANGED memoryVars
  PROVE  ReadInv'
<1> USE DEF FlushInv
<1>1. ASSUME UNCHANGED <<fileVars, copies, late, at, batch, left>> PROVE ReadInv'
  BY <1>1 DEF ReadInv, fileVars, Canonical, Keeps
<1>2. ASSUME NEW s \in Spills, NEW facts \in SUBSET Facts, WriteSpill(s, facts) PROVE ReadInv'
  <2>1. s \in Inputs /\ place[s] = "none" /\ UNCHANGED <<shelved, at, batch, left, late>> /\ Canonical' = Canonical
    BY <1>2 DEF WriteSpill, Inputs, Canonical, canonVars, turnVars, drainVars
  <2>2. \A f \in Inputs : /\ place'[f] = IF f = s THEN "fresh" ELSE place[f]
                         /\ says'[f] = IF f = s THEN facts ELSE says[f]
    BY <1>2 DEF WriteSpill, MemoryTypes
  <2>3. ASSUME NEW p \in Drainers, NEW f \in batch'[p]
        PROVE  /\ f \in Spills => place'[f] # "none"
               /\ (says'[f] \cap Keeps(at'[p])) \ late' \subseteq Canonical' \cup left'[p]
    <3>1. f \in batch[p] /\ f \in Inputs
      BY <2>1, <2>3 DEF MemoryTypes
    <3>2. f # s
      BY <2>1, <3>1 DEF ReadInv
    <3>3. (says[f] \cap Keeps(at[p])) \ late \subseteq Canonical \cup left[p]
      BY <3>1 DEF ReadInv
    <3> QED
      BY <2>1, <2>2, <3>1, <3>2, <3>3 DEF ReadInv
  <2>4. \A r \in Spills : says'[r] \subseteq Facts
    BY <2>2 DEF ReadInv, Inputs
  <2>5. shelved' \ late' \subseteq Canonical'
    BY <2>1 DEF ReadInv
  <2> QED
    BY <2>3, <2>4, <2>5 DEF ReadInv, Keeps
<1>3. ASSUME NEW f \in Inputs, Matures(f) PROVE ReadInv'
  BY <1>3 DEF Matures, ReadInv, Inputs, MemoryTypes, Canonical, Keeps, canonVars, drainVars, turnVars
<1>4. ASSUME NEW n \in Notes, WriteBuffer(n) PROVE ReadInv'
  <2>1. UNCHANGED <<shelved, at, batch, left>> /\ Canonical' = Canonical /\ late \subseteq late'
    BY <1>4 DEF WriteBuffer, Canonical, canonVars, drainVars
  <2>2. \A f \in Inputs : f # Buffer => place'[f] = place[f] /\ says'[f] = says[f]
    BY <1>4 DEF WriteBuffer, MemoryTypes
  <2>3. says'[Buffer] = says[Buffer] \cup {n} /\ Buffer \notin Spills
    BY <1>4, MemoryAssumption DEF WriteBuffer, MemoryTypes, Inputs
  <2>4. ASSUME NEW p \in Drainers, Buffer \in batch[p] PROVE n \in late'
    <3>1. at[p] = "distill"
      BY <2>4, MemoryAssumption DEF LockInv, MemoryTypes, Stages
    <3> QED
      BY <2>4, <1>4, <3>1 DEF WriteBuffer
  <2>5. ASSUME NEW p \in Drainers, NEW f \in batch'[p]
        PROVE  /\ f \in Spills => place'[f] # "none"
               /\ (says'[f] \cap Keeps(at'[p])) \ late' \subseteq Canonical' \cup left'[p]
    <3>1. f \in batch[p] /\ f \in Inputs
      BY <2>1, <2>5 DEF MemoryTypes
    <3>2. /\ f \in Spills => place[f] # "none"
          /\ (says[f] \cap Keeps(at[p])) \ late \subseteq Canonical \cup left[p]
      BY <3>1 DEF ReadInv
    <3>3. CASE f = Buffer
      BY <2>1, <2>3, <2>4, <3>1, <3>2, <3>3
    <3>4. CASE f # Buffer
      BY <2>1, <2>2, <3>1, <3>2, <3>4
    <3> QED
      BY <3>3, <3>4
  <2>6. \A r \in Spills : says'[r] \subseteq Facts
    BY <2>2, <2>3 DEF ReadInv, Inputs
  <2>7. shelved' \ late' \subseteq Canonical'
    BY <2>1 DEF ReadInv
  <2> QED
    BY <2>5, <2>6, <2>7 DEF ReadInv, Keeps
<1>5. ASSUME NEW n \in Notes, WriteFlashbulb(n) PROVE ReadInv'
  <2>1. Canonical \subseteq Canonical' /\ UNCHANGED <<fileVars, at, batch, left, late>>
    BY <1>5 DEF WriteFlashbulb, Canonical, MemoryTypes, drainVars
  <2> QED
    BY <2>1 DEF ReadInv, fileVars, Keeps
<1>6. CASE ReportDrain \/ WorkerDies \/ RuntimeDies
  <2>1. PICK p \in Drainers : Dropped(p)
    BY <1>6 DEF ReportDrain, WorkerDies, RuntimeDies, Drainers
  <2>2. UNCHANGED <<fileVars, copies, late>>
    BY <1>6 DEF ReportDrain, WorkerDies, RuntimeDies, canonVars, turnVars
  <2> QED
    BY <2>1, <2>2, DropsFiles
<1>7. ASSUME NEW c \in Syncers, SyncStep(c) PROVE ReadInv'
  <2>1. UNCHANGED <<fileVars, copies, late, at, batch, left>>
    BY <1>7 DEF SyncStep, CallSync, TakeTarget, StartBuild, Build, BuildFails, Synced,
                canonVars, turnVars, drainVars
  <2> QED
    BY <2>1, <1>1
<1> QED
  BY <1>1, <1>2, <1>3, <1>4, <1>5, <1>6, <1>7
  DEF ReportTurn, CutTurn, memoryVars, canonVars, turnVars, drainVars

-----------------------------------------------------------------------------
(* What is written word for word is once in a directory                    *)

(* The steps that write no line.                                           *)
LEMMA NothingWritten ==
  ASSUME FlushInv, UNCHANGED canonVars, \A f \in Inputs : says'[f] \subseteq says[f] \cup Facts,
         \A n \in Notes : turn'[n] = "none" => turn[n] = "none",
         \A p \in Drainers :
            \/ left'[p] = {}
            \/ left'[p] = left[p] /\ at'[p] = at[p]
            \/ \E F \in SUBSET Inputs : left'[p] = New(at'[p], F)
  PROVE  OnceInv'
<1>1. UNCHANGED <<copies, exact, flash>> /\ \A n \in Notes : n \notin Facts
  BY MemoryAssumption DEF canonVars
<1>2. ASSUME NEW p \in Drainers, NEW F \in SUBSET Inputs, left'[p] = New(at'[p], F)
      PROVE  /\ \A x \in left'[p] : \A d \in Searched(at'[p], x) : x \notin exact[d]
             /\ at'[p] = "flush" => left'[p] \subseteq Facts
             /\ \A n \in Notes : n \in left'[p] => \E f \in Inputs : n \in says[f]
  BY <1>2, MemoryAssumption DEF New, Keeps
<1>3. ASSUME NEW p \in Drainers
      PROVE  /\ \A x \in left'[p] : \A d \in Searched(at'[p], x) : x \notin exact[d]
             /\ at'[p] = "flush" => left'[p] \subseteq Facts
             /\ \A n \in Notes : n \in left'[p] => n \in left[p] \/ \E f \in Inputs : n \in says[f]
  <2>1. CASE left'[p] = {}
    BY <2>1
  <2>2. CASE left'[p] = left[p] /\ at'[p] = at[p]
    BY <2>2 DEF FlushInv, OnceInv, Unfound
  <2> QED
    BY <1>2, <2>1, <2>2
<1>4. ASSUME NEW n \in Notes, turn'[n] = "none" \/ n \in flash' PROVE Unmet(n)'
  <2>1. Unmet(n)
    BY <1>1, <1>4 DEF FlushInv, OnceInv
  <2> QED
    BY <1>1, <1>3, <2>1 DEF Unmet
<1>5. \A p \in Drainers : Unfound(p)'
  BY <1>1, <1>3 DEF Unfound, Searched, FlushRoute
<1> QED
  BY <1>1, <1>3, <1>4, <1>5 DEF FlushInv, OnceInv

(* A line that is written: it was not found, and no other drain meets it.  *)
LEMMA LineOnce ==
  ASSUME FlushInv, NEW p \in Drainers, NEW x \in Lines, AppendLine(p, x)
  PROVE  OnceInv'
<1> DEFINE d == LineRoute(at[p], x)
<1>1. /\ x \in left[p] /\ UNCHANGED <<says, at, turn, flash>>
      /\ \A q \in Drainers : left'[q] = IF q = p THEN left[p] \ {x} ELSE left[q]
      /\ exact' = IF Verbatim(p, x) THEN [exact EXCEPT ![d] = @ \cup {x}] ELSE exact
  BY DEF AppendLine, fileVars, turnVars, FlushInv, MemoryTypes
<1>2. d \in Routes /\ d \in Searched(at[p], x)
  BY RoutesOf
<1>3. \A e \in Routes, y \in Lines :
        copies'[e][y] = IF e = d /\ y = x THEN (IF copies[e][y] = 2 THEN 2 ELSE copies[e][y] + 1)
                                         ELSE copies[e][y]
  BY LineWritten
<1> HIDE DEF d
<1>4. x \notin exact[d]
  BY <1>1, <1>2 DEF FlushInv, OnceInv, Unfound
<1>5. \A n \in Notes : turn[n] = "none" \/ n \in flash => n # x
  BY <1>1 DEF FlushInv, OnceInv, Unmet
<1>6. \A e \in Routes, y \in Lines : copies[e][y] \in 0..2
  BY DEF FlushInv, MemoryTypes
<1>7. x \in Marked \cup Notes => copies[d][x] = 0
  <2>1. x \notin flash
    BY <1>5 DEF FlushInv, MemoryTypes
  <2> QED
    BY <1>2, <1>4, <1>6, <2>1 DEF FlushInv, OnceInv
<1>8. \A q \in Drainers : q # p => left[q] = {}
  BY <1>1 DEF FlushInv, LockInv, MemoryTypes, Stages
<1>9. x \in Marked \cup Notes => Verbatim(p, x)
  <2>1. at[p] \in {"flush", "distill"}
    BY <1>1 DEF FlushInv, LockInv, MemoryTypes, Stages
  <2>2. x \in Notes => at[p] # "flush"
    BY <1>1, MemoryAssumption DEF FlushInv, OnceInv
  <2> QED
    BY <2>1, <2>2 DEF Verbatim
<1>10. \A e \in Routes : /\ exact[e] \subseteq exact'[e]
                         /\ exact'[e] \subseteq IF e = d THEN exact[e] \cup {x} ELSE exact[e]
                         /\ e = d /\ Verbatim(p, x) => x \in exact'[e]
  BY <1>1, <1>2 DEF FlushInv, MemoryTypes
<1>11. Marked \cup Notes \subseteq Lines
  BY MemoryAssumption DEF Lines
<1>12. \A e \in Routes : \A y \in exact'[e] : copies'[e][y] > 0
  <2>1. copies'[d][x] > 0
    BY <1>2, <1>3, <1>6
  <2>2. \A e \in Routes : exact[e] \subseteq Lines
    BY DEF FlushInv, MemoryTypes
  <2>3. \A e \in Routes : \A y \in exact[e] : copies[e][y] > 0
    BY DEF FlushInv, OnceInv
  <2> QED
    BY <1>3, <1>10, <2>1, <2>2, <2>3
<1>13. \A e \in Routes : \A y \in Marked \cup Notes :
         copies'[e][y] <= 1 /\ (copies'[e][y] > 0 => y \in exact'[e] \cup flash')
  <2>1. ASSUME NEW e \in Routes, NEW y \in Marked \cup Notes
        PROVE  copies'[e][y] <= 1 /\ (copies'[e][y] > 0 => y \in exact'[e] \cup flash')
    <3>1. CASE e = d /\ y = x
      BY <1>2, <1>3, <1>7, <1>9, <1>10, <3>1
    <3>2. CASE ~(e = d /\ y = x)
      <4>1. copies'[e][y] = copies[e][y]
        BY <1>3, <1>11, <3>2
      <4> QED
        BY <1>1, <1>10, <4>1 DEF FlushInv, OnceInv
    <3> QED
      BY <3>1, <3>2
  <2> QED
    BY <2>1
<1>14. \A n \in Notes : turn'[n] = "none" \/ n \in flash' => Unmet(n)'
  BY <1>1 DEF FlushInv, OnceInv, Unmet
<1>15. \A n \in Notes : turn'[n] = "none" => n \notin flash' /\ \A e \in Routes : copies'[e][n] = 0
  BY <1>1, <1>3, <1>5, <1>11 DEF FlushInv, OnceInv
<1>16. ASSUME NEW q \in Drainers PROVE Unfound(q)' /\ (at'[q] = "flush" => left'[q] \subseteq Facts)
  <2>1. \A y \in left'[q] : y \in left[q] /\ y # x
    BY <1>1, <1>8
  <2>2. \A y \in left'[q] : \A e \in Searched(at[q], y) : e \in Routes /\ y \notin exact'[e]
    BY <1>10, <2>1, RoutesOf DEF FlushInv, OnceInv, Unfound
  <2>3. at' = at
    BY <1>1
  <2> QED
    BY <2>1, <2>2, <2>3 DEF FlushInv, OnceInv, Unfound, Searched, FlushRoute
<1> QED
  BY <1>12, <1>13, <1>14, <1>15, <1>16 DEF OnceInv

LEMMA DrainOnce ==
  ASSUME FlushInv, NEW p \in Drainers, DrainStep(p)
  PROVE  OnceInv'
<1>1. ASSUME NEW x \in Lines, AppendLine(p, x) PROVE OnceInv'
  BY <1>1, LineOnce
<1>2. CASE StartFlush(p)
  <2>1. /\ left' = [left EXCEPT ![p] = New("flush", Eligible(Spills))] /\ at' = [at EXCEPT ![p] = "flush"]
        /\ UNCHANGED <<says, canonVars, turn>>
    BY <1>2 DEF StartFlush, fileVars, turnVars
  <2>2. \A q \in Drainers : IF q = p THEN left'[q] = New(at'[q], Eligible(Spills))
                                     ELSE left'[q] = left[q] /\ at'[q] = at[q]
    BY <2>1 DEF FlushInv, MemoryTypes
  <2>3. Eligible(Spills) \in SUBSET Inputs
    BY DEF Eligible, Inputs
  <2> QED
    BY <2>1, <2>2, <2>3, NothingWritten
<1>3. CASE StartConsolidate(p)
  <2>1. /\ left' = [left EXCEPT ![p] = New("distill", Eligible(Inputs))] /\ at' = [at EXCEPT ![p] = "distill"]
        /\ UNCHANGED <<says, canonVars, turn>>
    BY <1>3 DEF StartConsolidate, fileVars, turnVars
  <2>2. \A q \in Drainers : IF q = p THEN left'[q] = New(at'[q], Eligible(Inputs))
                                     ELSE left'[q] = left[q] /\ at'[q] = at[q]
    BY <2>1 DEF FlushInv, MemoryTypes
  <2>3. Eligible(Inputs) \in SUBSET Inputs
    BY DEF Eligible
  <2> QED
    BY <2>1, <2>2, <2>3, NothingWritten
<1>4. ASSUME NEW f \in Inputs, Link(p, f) PROVE OnceInv'
  BY <1>4, NothingWritten DEF Link, turnVars
<1>5. CASE Unlink(p)
  <2>1. UNCHANGED <<canonVars, turn, at, left>>
    BY <1>5 DEF Unlink, turnVars
  <2>2. \A f \in Inputs : says'[f] \subseteq says[f]
    BY <1>5 DEF Unlink, FlushInv, MemoryTypes
  <2> QED
    BY <2>1, <2>2, NothingWritten
<1>6. CASE RefuseLinked(p) \/ AppendFails(p) \/ Drained(p)
  <2>1. UNCHANGED <<says, canonVars, turn>>
    BY <1>6 DEF RefuseLinked, AppendFails, Drained, fileVars, turnVars
  <2>2. \A q \in Drainers : left'[q] = {} \/ (left'[q] = left[q] /\ at'[q] = at[q])
    BY <1>6 DEF RefuseLinked, AppendFails, Drained, Dropped, FlushInv, MemoryTypes
  <2> QED
    BY <2>1, <2>2, NothingWritten
<1> QED
  BY <1>1, <1>2, <1>3, <1>4, <1>5, <1>6 DEF DrainStep

LEMMA OtherOnce ==
  ASSUME FlushInv,
         \/ \E s \in Spills, facts \in SUBSET Facts : WriteSpill(s, facts)
         \/ \E f \in Inputs : Matures(f)
         \/ \E n \in Notes : WriteBuffer(n) \/ WriteFlashbulb(n) \/ ReportTurn(n) \/ CutTurn(n)
         \/ ReportDrain \/ WorkerDies \/ RuntimeDies
         \/ \E c \in Syncers : SyncStep(c)
         \/ UNCHANGED memoryVars
  PROVE  OnceInv'
<1>1. ASSUME NEW s \in Spills, NEW facts \in SUBSET Facts, WriteSpill(s, facts) PROVE OnceInv'
  <2>1. \A f \in Inputs : says'[f] \subseteq says[f] \cup Facts
    BY <1>1 DEF WriteSpill, FlushInv, MemoryTypes
  <2> QED
    BY <1>1, <2>1, NothingWritten DEF WriteSpill, turnVars, drainVars
<1>2. ASSUME NEW n \in Notes, WriteBuffer(n) PROVE OnceInv'
  <2>1. UNCHANGED <<copies, exact, flash, at, left>>
    BY <1>2 DEF WriteBuffer, canonVars, drainVars
  <2>2. /\ \A f \in Inputs : says'[f] \subseteq says[f] \cup {n}
        /\ turn[n] = "none" /\ \A m \in Notes : m # n => turn'[m] = turn[m]
        /\ turn'[n] = "written"
    BY <1>2 DEF WriteBuffer, FlushInv, MemoryTypes
  <2>3. n \notin flash
    BY <2>2 DEF FlushInv, OnceInv
  <2>4. ASSUME NEW m \in Notes, turn'[m] = "none" \/ m \in flash' PROVE Unmet(m)'
    <3>1. m # n /\ Unmet(m)
      BY <2>1, <2>2, <2>3, <2>4 DEF FlushInv, OnceInv
    <3> QED
      BY <2>1, <2>2, <3>1 DEF Unmet
  <2>5. \A p \in Drainers : Unfound(p)' /\ (at'[p] = "flush" => left'[p] \subseteq Facts)
    BY <2>1 DEF FlushInv, OnceInv, Unfound, Searched, FlushRoute
  <2>6. \A m \in Notes : turn'[m] = "none" => turn[m] = "none"
    BY <2>2
  <2> QED
    BY <2>1, <2>4, <2>5, <2>6 DEF FlushInv, OnceInv
<1>3. ASSUME NEW n \in Notes, WriteFlashbulb(n) PROVE OnceInv'
  <2>1. /\ UNCHANGED <<says, exact, at, left>> /\ flash' = flash \cup {n} /\ turn[n] = "none"
        /\ n \in Lines /\ n \notin Facts /\ "semantic" \in Routes
        /\ copies' = [copies EXCEPT !["semantic"][n] = 1]
        /\ \A m \in Notes : turn'[m] = "none" => turn[m] = "none" /\ m # n
    BY <1>3, MemoryAssumption
    DEF WriteFlashbulb, fileVars, drainVars, FlushInv, MemoryTypes, Lines, Routes
  <2>2. \A d \in Routes, x \in Lines :
          copies'[d][x] = IF d = "semantic" /\ x = n THEN 1 ELSE copies[d][x]
    BY <2>1 DEF FlushInv, MemoryTypes
  <2>3. Marked \cup Notes \subseteq Lines /\ \A d \in Routes : exact[d] \subseteq Lines
    BY MemoryAssumption DEF Lines, FlushInv, MemoryTypes
  <2>4. \A d \in Routes : \A x \in exact'[d] : copies'[d][x] > 0
    BY <2>1, <2>2, <2>3 DEF FlushInv, OnceInv
  <2>5. \A d \in Routes : \A x \in Marked \cup Notes :
          copies'[d][x] <= 1 /\ (copies'[d][x] > 0 => x \in exact'[d] \cup flash')
    <3>1. ASSUME NEW d \in Routes, NEW x \in Marked \cup Notes
          PROVE  copies'[d][x] <= 1 /\ (copies'[d][x] > 0 => x \in exact'[d] \cup flash')
      <4>1. copies[d][x] <= 1 /\ (copies[d][x] > 0 => x \in exact[d] \cup flash)
        BY DEF FlushInv, OnceInv
      <4> QED
        BY <2>1, <2>2, <2>3, <4>1
    <3> QED
      BY <3>1
  <2>6. \A m \in Notes : turn'[m] = "none" \/ m \in flash' => Unmet(m)'
    BY <2>1 DEF FlushInv, OnceInv, Unmet
  <2>7. \A m \in Notes : turn'[m] = "none" => m \notin flash' /\ \A d \in Routes : copies'[d][m] = 0
    BY <2>1, <2>2, <2>3 DEF FlushInv, OnceInv
  <2>8. \A p \in Drainers : Unfound(p)' /\ (at'[p] = "flush" => left'[p] \subseteq Facts)
    BY <2>1 DEF FlushInv, OnceInv, Unfound, Searched, FlushRoute
  <2> QED
    BY <2>4, <2>5, <2>6, <2>7, <2>8 DEF OnceInv
<1>4. CASE ReportDrain \/ WorkerDies \/ RuntimeDies
  <2>1. PICK p \in Drainers : Dropped(p)
    BY <1>4 DEF ReportDrain, WorkerDies, RuntimeDies, Drainers
  <2>2. UNCHANGED <<says, canonVars>> /\ \A n \in Notes : turn'[n] = "none" => turn[n] = "none"
    BY <1>4 DEF ReportDrain, WorkerDies, RuntimeDies, fileVars, turnVars
  <2>3. /\ \A q \in Drainers : left'[q] = IF q = p THEN {} ELSE left[q]
        /\ \A q \in Drainers : at'[q] = IF q = p THEN "idle" ELSE at[q]
    BY <2>1 DEF Dropped, FlushInv, MemoryTypes
  <2> QED
    BY <2>2, <2>3, NothingWritten
<1>5. CASE \/ \E f \in Inputs : Matures(f)
           \/ \E n \in Notes : ReportTurn(n) \/ CutTurn(n)
           \/ \E c \in Syncers : SyncStep(c)
           \/ UNCHANGED memoryVars
  <2>1. UNCHANGED <<says, canonVars, at, left>> /\ \A n \in Notes : turn'[n] = "none" => turn[n] = "none"
    BY <1>5 DEF Matures, ReportTurn, CutTurn, SyncStep, CallSync, TakeTarget, StartBuild, Build, BuildFails,
                Synced, memoryVars, fileVars, canonVars, turnVars, drainVars, FlushInv, MemoryTypes
  <2> QED
    BY <2>1, NothingWritten
<1> QED
  BY <1>1, <1>2, <1>3, <1>4, <1>5

LEMMA FlushInit == MemoryInit => FlushInv
<1> SUFFICES ASSUME MemoryInit PROVE FlushInv
  OBVIOUS
<1>1. MemoryTypes
  BY MemoryTypesInit
<1>2. LockInv
  BY MemoryAssumption DEF MemoryInit, LockInv, Drainers
<1>3. Canonical = {} /\ Marked \cup Notes \subseteq Lines
      /\ \A d \in Routes : exact[d] = {} /\ \A x \in Lines : copies[d][x] = 0
  BY MemoryAssumption DEF MemoryInit, Canonical, Lines
<1>4. ReadInv
  BY DEF MemoryInit, ReadInv, Inputs
<1>5. flash = {} /\ \A p \in Drainers : left[p] = {}
  BY DEF MemoryInit
<1>6. \A f \in Inputs : says[f] = {}
  BY DEF MemoryInit
<1>7. OnceInv
  BY <1>3, <1>5, <1>6 DEF OnceInv, Unmet, Unfound
<1> QED
  BY <1>1, <1>2, <1>4, <1>7 DEF FlushInv

LEMMA FlushStep == FlushInv /\ [MemoryNext]_memoryVars => FlushInv'
  BY MemoryTypesStep, DrainLock, OtherLock, DrainReads, OtherReads, DrainOnce, OtherOnce
  DEF FlushInv, MemoryNext

(* An input of the drains is archived only when everything that the        *)
(* archiving drain keeps of it is in a canonical file, whoever drains,     *)
(* fails or dies in between; and a line that is written word for word is   *)
(* at most once in a directory, although the two stages look it up and     *)
(* send it by rules of their own.                                          *)
THEOREM ArchivedIsKept == MemorySpec => []ConsumedOnce
<1>1. FlushInv => ConsumedOnce
  BY DEF FlushInv, ReadInv, OnceInv, ConsumedOnce
<1> QED
  BY <1>1, FlushInit, FlushStep, PTL DEF MemorySpec

-----------------------------------------------------------------------------
(* The index                                                               *)

(* A build is of its call alone.  If nothing was reported since the call   *)
(* took its target, a note that the build may have missed is not promised. *)
BuildInv ==
    /\ promised \subseteq Canonical
    /\ \A n \in Notes : turn[n] = "none" => n \notin Canonical
    /\ \A c \in Syncers :
         /\ Syncing(c) => dirty
         /\ \A d \in Syncers : Syncing(c) /\ Syncing(d) => c = d
         /\ sync[c] = "building" /\ ~moved[c] => raced \cap promised = {}
         /\ sync[c] = "built" /\ ~moved[c] /\ flash \subseteq promised => promised \subseteq indexed
    /\ IndexKeepsUp

IndexInv == FlushInv /\ BuildInv

LEMMA CanonicalGrows ==
  ASSUME FlushInv, [MemoryNext]_memoryVars
  PROVE  Canonical \subseteq Canonical'
<1>1. ASSUME copies' = copies PROVE Canonical \subseteq Canonical'
  BY <1>1 DEF Canonical
<1>2. ASSUME NEW p \in Drainers, DrainStep(p) PROVE Canonical \subseteq Canonical'
  <2>1. ASSUME NEW x \in Lines, AppendLine(p, x) PROVE Canonical' = Canonical \cup {x}
    BY <2>1, LineWritten
  <2> QED
    BY <1>2, <1>1, <2>1 DEF DrainStep, StartFlush, StartConsolidate, Link, Unlink, RefuseLinked,
       AppendFails, Drained, canonVars
<1>3. ASSUME NEW n \in Notes, WriteFlashbulb(n) PROVE Canonical \subseteq Canonical'
  BY <1>3 DEF WriteFlashbulb, Canonical, FlushInv, MemoryTypes
<1>4. ASSUME NEW c \in Syncers, SyncStep(c) PROVE copies' = copies
  BY <1>4 DEF SyncStep, CallSync, TakeTarget, StartBuild, Build, BuildFails, Synced, canonVars
<1> QED
  BY <1>1, <1>2, <1>3, <1>4
  DEF MemoryNext, WriteSpill, Matures, ReportDrain, WriteBuffer, ReportTurn, CutTurn, WorkerDies,
      RuntimeDies, memoryVars, canonVars

(* A report makes the coordinator dirty, and every build of now stale.     *)
LEMMA ReportKeeps ==
  ASSUME IndexInv, Reported, UNCHANGED <<canonVars, raced, indexed>>,
         sync' = sync \/ (\A c \in Syncers : sync'[c] = "none"),
         \A n \in Notes : turn'[n] = "none" => turn[n] = "none"
  PROVE  BuildInv'
<1>1. dirty' /\ Canonical' = Canonical /\ promised' = Canonical /\ \A c \in Syncers : moved'[c]
  BY DEF Reported, canonVars, Canonical
<1> QED
  BY <1>1 DEF IndexInv, BuildInv, Syncing, IndexKeepsUp

LEMMA QuietKeeps ==
  ASSUME IndexInv, FlushInv', Canonical \subseteq Canonical', UNCHANGED <<flash, indexVars>>
  PROVE  BuildInv'
  BY DEF IndexInv, BuildInv, FlushInv, OnceInv, Canonical, Syncing, IndexKeepsUp, indexVars

LEMMA SyncKeeps ==
  ASSUME IndexInv, NEW c \in Syncers, SyncStep(c)
  PROVE  BuildInv'
<1>1. Canonical' = Canonical /\ turn' = turn /\ flash' = flash /\ promised' = promised
  BY DEF SyncStep, CallSync, TakeTarget, StartBuild, Build, BuildFails, Synced, canonVars, turnVars, Canonical
<1> USE DEF IndexInv, FlushInv, MemoryTypes, BuildInv, Syncing, IndexKeepsUp
<1>2. CASE CallSync(c)
  BY <1>1, <1>2 DEF CallSync
<1>3. CASE TakeTarget(c)
  BY <1>1, <1>3 DEF TakeTarget
<1>4. CASE StartBuild(c)
  BY <1>1, <1>4 DEF StartBuild
<1>5. CASE Build(c)
  BY <1>1, <1>5 DEF Build
<1>6. CASE BuildFails(c)
  BY <1>1, <1>6 DEF BuildFails
<1>7. CASE Synced(c)
  BY <1>1, <1>7 DEF Synced, StillDirty
<1> QED
  BY <1>2, <1>3, <1>4, <1>5, <1>6, <1>7 DEF SyncStep

LEMMA FlashbulbKeeps ==
  ASSUME IndexInv, NEW n \in Notes, WriteFlashbulb(n)
  PROVE  BuildInv'
<1>1. /\ n \notin Canonical /\ n \notin promised /\ flash' = flash \cup {n}
      /\ UNCHANGED <<dirty, sync, moved, promised, indexed>>
      /\ raced' \subseteq raced \cup {n}
  BY DEF WriteFlashbulb, IndexInv, BuildInv
<1>2. Canonical \subseteq Canonical'
  BY DEF WriteFlashbulb, Canonical, IndexInv, FlushInv, MemoryTypes
<1>3. \A m \in Notes : turn'[m] = "none" => m \notin Canonical'
  BY MemoryAssumption DEF WriteFlashbulb, Canonical, IndexInv, BuildInv, FlushInv, MemoryTypes, Lines
<1> QED
  BY <1>1, <1>2, <1>3 DEF IndexInv, BuildInv, Syncing, IndexKeepsUp

LEMMA IndexStep == IndexInv /\ [MemoryNext]_memoryVars => IndexInv'
<1> SUFFICES ASSUME IndexInv, [MemoryNext]_memoryVars PROVE IndexInv'
  OBVIOUS
<1>1. FlushInv' /\ Canonical \subseteq Canonical'
  BY FlushStep, CanonicalGrows DEF IndexInv, FlushInv
<1>2. ASSUME UNCHANGED <<flash, indexVars>> PROVE BuildInv'
  BY <1>1, <1>2, QuietKeeps
<1>3. ASSUME NEW p \in Drainers, DrainStep(p) PROVE BuildInv'
  BY <1>2, <1>3 DEF DrainStep, StartFlush, StartConsolidate, AppendLine, Link, Unlink, RefuseLinked,
     AppendFails, Drained, canonVars
<1>4. ASSUME NEW n \in Notes, WriteBuffer(n) \/ ReportTurn(n) \/ CutTurn(n) PROVE BuildInv'
  <2>1. \A m \in Notes : turn'[m] = "none" => turn[m] = "none"
    BY <1>4 DEF WriteBuffer, ReportTurn, CutTurn, IndexInv, FlushInv, MemoryTypes
  <2>2. CASE ReportTurn(n)
    BY <2>1, <2>2, ReportKeeps DEF ReportTurn
  <2> QED
    BY <1>2, <1>4, <2>2 DEF WriteBuffer, CutTurn, canonVars
<1>5. ASSUME ReportDrain PROVE BuildInv'
  <2>1. /\ UNCHANGED <<canonVars, turn, sync, indexed, raced>>
        /\ Reported \/ UNCHANGED <<dirty, moved, promised>>
    BY <1>5 DEF ReportDrain, turnVars
  <2>2. CASE Reported
    BY <2>1, <2>2, ReportKeeps
  <2>3. CASE UNCHANGED <<dirty, moved, promised>>
    BY <1>2, <2>1, <2>3 DEF canonVars, indexVars
  <2> QED
    BY <2>1, <2>2, <2>3
<1>6. ASSUME RuntimeDies PROVE BuildInv'
  <2>1. /\ \A m \in Notes : turn'[m] = "none" => turn[m] = "none"
        /\ \A c \in Syncers : sync'[c] = "none"
        /\ raced' = {} /\ Reported /\ UNCHANGED <<canonVars, indexed>>
    BY <1>6 DEF RuntimeDies
  <2>2. dirty' /\ Canonical' = Canonical /\ promised' = Canonical
    BY <2>1 DEF Reported, canonVars, Canonical
  <2>3. \A n \in Notes : turn[n] = "none" => n \notin Canonical
    BY DEF IndexInv, BuildInv
  <2> QED
    BY <2>1, <2>2, <2>3 DEF BuildInv, Syncing, IndexKeepsUp
<1>7. ASSUME WorkerDies PROVE BuildInv'
  BY <1>2, <1>7 DEF WorkerDies, canonVars
<1>10. ASSUME UNCHANGED memoryVars PROVE BuildInv'
  BY <1>2, <1>10 DEF memoryVars, canonVars
<1>8. ASSUME NEW s \in Spills, NEW facts \in SUBSET Facts, WriteSpill(s, facts) PROVE BuildInv'
  BY <1>2, <1>8 DEF WriteSpill, canonVars
<1>9. ASSUME NEW f \in Inputs, Matures(f) PROVE BuildInv'
  BY <1>2, <1>9 DEF Matures, canonVars
<1> QED
  BY <1>1, <1>3, <1>4, <1>5, <1>6, <1>7, <1>8, <1>9, <1>10, FlashbulbKeeps, SyncKeeps DEF IndexInv, MemoryNext

LEMMA IndexInit == MemoryInit => IndexInv
<1> SUFFICES ASSUME MemoryInit PROVE IndexInv
  OBVIOUS
<1>1. Canonical = {} /\ promised = {} /\ raced = {} /\ \A c \in Syncers : ~Syncing(c)
  BY DEF MemoryInit, Canonical, Syncing
<1> QED
  BY <1>1, FlushInit DEF IndexInv, BuildInv, IndexKeepsUp, Syncing

(* A coordinator that says it is clean has in its index every note that    *)
(* was reported to it, although reports arrive in the middle of builds.    *)
THEOREM CleanIndexIsCurrent == MemorySpec => []IndexKeepsUp
<1>1. IndexInv => IndexKeepsUp
  BY DEF IndexInv, BuildInv
<1> QED
  BY <1>1, IndexInit, IndexStep, PTL DEF MemorySpec

-----------------------------------------------------------------------------
(* Providers: the clients                                                  *)

Rows    == [version : Nat, on : BOOLEAN, key : Nat]
Clients == [name : Names, version : Nat, key : Nat]
Both    == {"row", "key"}
Orders  == {<<"row">>, <<"key">>, <<"row", "key">>, <<"key", "row">>}

EditTypes ==
    [name : Names, kind : {"on", "off", "remove"}, row : Rows, key : Nat,
     todo : Orders \cup {<<>>}, written : SUBSET Both, was : [row : Rows, key : Nat],
     client : Clients \cup {None}, undo : BOOLEAN, at : {"discover", "store", "route"}]

Askings == [r : EditRequests, version : Nat]

(* Made before any edit that still waits.                                  *)
Old(v) == v \in 0..edits /\ \A i \in 1..Len(asked) : v < asked[i].version

QueueInv ==
    /\ edits \in Nat
    /\ asked \in Seq(Askings)
    /\ \A i \in 1..Len(asked) : asked[i].version \in 1..edits
    /\ \A i, j \in 1..Len(asked) : i < j => asked[i].version < asked[j].version

ShapeInv ==
    /\ metaFile \in [Names -> Rows] /\ keyFile \in [Names -> Nat]
    /\ \A n \in Names : metaFile[n].version <= edits
    /\ edit = NoEdit \/ edit \in EditTypes
    /\ edit # NoEdit =>
         /\ edit.row.version <= edits /\ edit.was.row.version <= edits
         /\ edit.at # "route" => edit.todo \in Orders
    /\ live \in [Names -> Clients \cup {None}]
    /\ lease \in [Queries -> Clients \cup {None}]
    /\ phase \in {"up", "draining", "closed"}

(* The client of an edit under way is not known to anyone else.            *)
Known(k) == k \in LiveClients \/ k \in retired \/ Leased(k)

ClientInv ==
    /\ \A n \in Names : live[n] # None => live[n].name = n
    /\ \A k : k # None /\ Known(k) => k \in Clients /\ Old(k.version)
    /\ None \notin retired /\ None \notin openClients
    /\ retired \cap LiveClients = {}
    /\ edit # NoEdit /\ edit.client # None =>
         /\ edit.client.name = edit.name /\ Old(edit.client.version) /\ ~Known(edit.client)
         /\ edit.client \in openClients
    /\ edit # NoEdit /\ edit.kind # "on" => edit.client = None

AccountInv == QueueInv /\ ShapeInv /\ ClientInv /\ ClientsAccounted

LEMMA EditShape ==
  ASSUME NEW e \in EditTypes
  PROVE  /\ e # NoEdit
         /\ e.name \in Names /\ e.kind \in {"on", "off", "remove"} /\ e.row \in Rows /\ e.key \in Nat
         /\ e.todo \in Orders \cup {<<>>} /\ e.written \in SUBSET Both
         /\ e.was.row \in Rows /\ e.was.key \in Nat
         /\ e.client \in Clients \cup {None} /\ e.undo \in BOOLEAN
         /\ e.at \in {"discover", "store", "route"}
  BY DEF EditTypes, NoEdit

LEMMA EditMoves ==
  ASSUME NEW e \in EditTypes, NEW a \in {"discover", "store", "route"}
  PROVE  [e EXCEPT !.at = a] \in EditTypes
  BY DEF EditTypes

LEMMA EditMoved ==
  ASSUME NEW e \in EditTypes, NEW a
  PROVE  LET d == [e EXCEPT !.at = a] IN
         /\ d.at = a /\ d.name = e.name /\ d.kind = e.kind /\ d.client = e.client
         /\ d.row = e.row /\ d.key = e.key /\ d.was = e.was /\ d.todo = e.todo
         /\ d.undo = e.undo /\ d.written = e.written
  BY DEF EditTypes

LEMMA EditWrites ==
  ASSUME NEW e \in EditTypes, NEW t \in Orders \cup {<<>>}, NEW w \in SUBSET Both
  PROVE  [e EXCEPT !.todo = t, !.written = w] \in EditTypes
  BY DEF EditTypes

LEMMA EditReturns ==
  ASSUME NEW e \in EditTypes, NEW r \in Rows, NEW s \in Rows, NEW k \in Nat, NEW l \in Nat,
         NEW t \in Orders
  PROVE  [e EXCEPT !.at = "store", !.undo = TRUE, !.written = {}, !.row = r, !.key = k,
                   !.todo = t, !.was = [row |-> s, key |-> l]] \in EditTypes
  BY DEF EditTypes

LEMMA RowTypes ==
  /\ NoRow \in Rows /\ NoRow.version = 0
  /\ \A r \in Rows : r.version \in Nat /\ r.on \in BOOLEAN /\ r.key \in Nat
  /\ \A n \in Names, r \in Rows, k \in Nat :
       Client(n, r, k) \in Clients /\ Client(n, r, k).name = n /\ Client(n, r, k).version = r.version
  BY DEF NoRow, Rows, Client, Clients

(* Nothing that the account of clients is about changes.                   *)
LEMMA AsideKeeps ==
  ASSUME AccountInv, UNCHANGED <<diskVars, asked, edit, routeVars, lease, phase, edits>>
  PROVE  AccountInv'
<1> USE DEF AccountInv, diskVars, routeVars
<1>1. QueueInv' /\ ShapeInv'
  BY DEF QueueInv, ShapeInv
<1>2. ClientsAccounted'
  BY DEF ClientsAccounted, LiveClients, Leased
<1>3. ClientInv'
  BY DEF ClientInv, Old, Known, LiveClients, Leased
<1> QED
  BY <1>1, <1>2, <1>3

LEMMA LeaseStep ==
  ASSUME AccountInv, NEW n \in Names, NEW q \in Queries, LeaseClient(n, q)
  PROVE  AccountInv'
<1>1. /\ UNCHANGED <<diskVars, asked, edit, routeVars, phase, edits>> /\ phase # "closed"
      /\ lease' = [lease EXCEPT ![q] = live[n]] /\ live[n] # None
  BY DEF LeaseClient
<1>2. live[n] \in LiveClients /\ live[n] \in Clients
  BY <1>1 DEF LiveClients, AccountInv, ShapeInv
<1>3. LiveClients' = LiveClients
  BY <1>1 DEF routeVars, LiveClients
<1>4. \A k : Leased(k)' => Leased(k) \/ k = live[n]
  BY <1>1 DEF Leased, AccountInv, ShapeInv
<1>4a. \A k : k # None /\ Leased(k) => Leased(k)'
  BY <1>1 DEF Leased, AccountInv, ShapeInv, LeaseClient
<1>5. \A k : Known(k)' => Known(k)
  BY <1>1, <1>2, <1>3, <1>4 DEF Known, routeVars
<1>6. QueueInv' /\ ShapeInv' /\ \A v : Old(v)' <=> Old(v)
  BY <1>1, <1>2 DEF AccountInv, QueueInv, ShapeInv, diskVars, routeVars, Old
<1>7. ClientInv'
  BY <1>1, <1>3, <1>5, <1>6 DEF AccountInv, ClientInv, routeVars
<1>8. ClientsAccounted'
  <2>1. (\A p \in Queries : lease[p] # None => lease[p] \in openClients)'
    BY <1>1, <1>2 DEF AccountInv, ClientsAccounted, ShapeInv, routeVars
  <2>2. (\A k \in openClients : \/ k \in LiveClients
                                \/ k \in retired /\ Leased(k)
                                \/ edit # NoEdit /\ edit.client = k)'
    BY <1>1, <1>3, <1>4a DEF AccountInv, ClientsAccounted, ClientInv, routeVars
  <2> QED
    BY <1>1, <1>3, <2>1, <2>2 DEF AccountInv, ClientsAccounted, routeVars
<1> QED
  BY <1>6, <1>7, <1>8 DEF AccountInv

LEMMA ReleaseStep ==
  ASSUME AccountInv, NEW q \in Queries, ReleaseClient(q)
  PROVE  AccountInv'
<1> DEFINE c == lease[q]
<1>1. /\ UNCHANGED <<diskVars, asked, edit, live, phase, edits>>
      /\ lease' = [lease EXCEPT ![q] = None] /\ c # None
      /\ Leased(c)
  BY DEF ReleaseClient, Leased
<1>2. \/ /\ c \in retired /\ ~(\E p \in Queries : lease'[p] = c)
         /\ retired' = retired \ {c} /\ openClients' = openClients \ {c}
      \/ /\ c \notin retired \/ (\E p \in Queries : lease'[p] = c)
         /\ UNCHANGED <<retired, openClients>>
  BY DEF ReleaseClient, CloseRetired
<1>3. LiveClients' = LiveClients
  BY <1>1 DEF LiveClients
<1>4. \A k : k # None => (Leased(k)' => Leased(k)) /\ (k # c /\ Leased(k) => Leased(k)')
  BY <1>1 DEF Leased, AccountInv, ShapeInv
<1>5. \A k : k # None /\ Known(k)' => Known(k)
  BY <1>2, <1>3, <1>4 DEF Known
<1>6. QueueInv' /\ ShapeInv' /\ \A v : Old(v)' <=> Old(v)
  BY <1>1 DEF AccountInv, QueueInv, ShapeInv, diskVars, Old
<1>7. ClientInv'
  <2>1. retired' \subseteq retired /\ openClients' \subseteq openClients
    BY <1>2
  <2>2. edit # NoEdit /\ edit.client # None => edit.client \in openClients'
    BY <1>1, <1>2 DEF AccountInv, ClientInv, Known
  <2> QED
    BY <1>1, <1>3, <1>5, <1>6, <2>1, <2>2 DEF AccountInv, ClientInv
<1>8. ClientsAccounted'
  <2>1. phase' # "closed" => (\A p \in Queries : lease[p] # None => lease[p] \in openClients)'
    <3>1. SUFFICES ASSUME phase # "closed", NEW p \in Queries, lease'[p] # None
                   PROVE  lease'[p] \in openClients'
      BY <1>1
    <3>2. lease'[p] = lease[p] /\ lease[p] \in openClients
      BY <1>1, <3>1 DEF AccountInv, ClientsAccounted, ShapeInv
    <3> QED
      BY <1>2, <3>2
  <2>2. phase' # "closed" => (LiveClients \subseteq openClients)'
    BY <1>1, <1>2, <1>3 DEF AccountInv, ClientsAccounted, ClientInv
  <2>3. (\A k \in openClients : \/ k \in LiveClients
                                \/ k \in retired /\ Leased(k)
                                \/ edit # NoEdit /\ edit.client = k)'
    <3>1. SUFFICES ASSUME NEW k \in openClients'
                   PROVE  \/ k \in LiveClients
                          \/ k \in retired' /\ Leased(k)'
                          \/ edit # NoEdit /\ edit.client = k
      BY <1>1, <1>3
    <3>2. k \in openClients /\ k # None
      BY <1>2 DEF AccountInv, ClientInv
    <3>3. CASE k \in retired /\ Leased(k)
      BY <1>1, <1>2, <1>4, <3>1, <3>2, <3>3 DEF Leased
    <3> QED
      BY <3>2, <3>3 DEF AccountInv, ClientsAccounted
  <2> QED
    BY <2>1, <2>2, <2>3 DEF ClientsAccounted
<1> QED
  BY <1>6, <1>7, <1>8 DEF AccountInv

LEMMA AskStep ==
  ASSUME AccountInv, AskEdit
  PROVE  AccountInv'
<1>1. /\ UNCHANGED <<diskVars, edit, routeVars, lease, phase>> /\ edits' = edits + 1
      /\ edits \in Nat /\ edits' \in Nat /\ Len(asked) \in Nat
  BY DEF AskEdit, AccountInv, QueueInv
<1>2. PICK r \in EditRequests : asked' = Append(asked, [r |-> r, version |-> edits'])
  BY DEF AskEdit
<1>3. [r |-> r, version |-> edits'] \in Askings
  BY <1>1 DEF Askings
<1>4. /\ asked' \in Seq(Askings) /\ Len(asked') = Len(asked) + 1
      /\ \A i \in 1..Len(asked) : asked'[i] = asked[i]
      /\ asked'[Len(asked) + 1].version = edits'
  BY <1>2, <1>3 DEF AccountInv, QueueInv
<1>5. QueueInv'
  <2>1. \A i \in 1..Len(asked') : i \in 1..Len(asked) \/ i = Len(asked) + 1
    BY <1>1, <1>4
  <2>2. \A i \in 1..Len(asked') : asked'[i].version \in 1..edits'
    BY <1>1, <1>4, <2>1 DEF AccountInv, QueueInv
  <2>3. ASSUME NEW i \in 1..Len(asked'), NEW j \in 1..Len(asked'), i < j
        PROVE  asked'[i].version < asked'[j].version
    <3>1. i \in 1..Len(asked)
      BY <1>1, <1>4, <2>3
    <3> QED
      BY <1>1, <1>4, <2>1, <2>3, <3>1 DEF AccountInv, QueueInv
  <2> QED
    BY <1>1, <1>4, <2>2, <2>3 DEF QueueInv
<1>6. ASSUME NEW v, Old(v) PROVE Old(v)'
  <2>1. \A i \in 1..Len(asked') : i \in 1..Len(asked) \/ i = Len(asked) + 1
    BY <1>1, <1>4
  <2> QED
    BY <1>1, <1>4, <1>6, <2>1 DEF Old
<1>7. ShapeInv'
  BY <1>1, RowTypes DEF AccountInv, ShapeInv, diskVars, routeVars, EditTypes
<1>8. \A k : Known(k)' <=> Known(k)
  BY <1>1 DEF Known, LiveClients, Leased, routeVars
<1>9. ClientInv'
  BY <1>1, <1>6, <1>8 DEF AccountInv, ClientInv, routeVars, LiveClients
<1>10. ClientsAccounted'
  BY <1>1 DEF AccountInv, ClientsAccounted, routeVars, LiveClients, Leased
<1> QED
  BY <1>5, <1>7, <1>9, <1>10 DEF AccountInv

(* The next edit leaves the queue.                                         *)
LEMMA Dequeued ==
  ASSUME QueueInv, asked # <<>>, asked' = Tail(asked), edits' = edits
  PROVE  /\ QueueInv'
         /\ \A v : Old(v) => Old(v)' /\ v < Head(asked).version
         /\ \A v : v = Head(asked).version => v \in 1..edits /\ Old(v)'
         /\ Head(asked).r \in EditRequests
<1>1. /\ Len(asked) \in Nat \ {0} /\ Len(asked') = Len(asked) - 1 /\ asked' \in Seq(Askings)
      /\ \A i \in 1..Len(asked') : asked'[i] = asked[i + 1] /\ i + 1 \in 1..Len(asked)
      /\ 1 \in 1..Len(asked) /\ Head(asked) = asked[1] /\ asked[1] \in Askings
  BY DEF QueueInv
<1>2. \A i \in 1..Len(asked) : asked[i].version \in 1..edits
  BY DEF QueueInv
<1>3. \A i, j \in 1..Len(asked) : i < j => asked[i].version < asked[j].version
  BY DEF QueueInv
<1>4. \A i \in 1..Len(asked') : asked'[i].version \in 1..edits'
  BY <1>1, <1>2
<1>5. ASSUME NEW i \in 1..Len(asked'), NEW j \in 1..Len(asked'), i < j
      PROVE  asked'[i].version < asked'[j].version
  <2>1. i + 1 < j + 1 /\ i + 1 \in 1..Len(asked) /\ j + 1 \in 1..Len(asked)
    BY <1>1, <1>5
  <2> QED
    BY <1>1, <1>3, <2>1
<1>6. QueueInv'
  BY <1>1, <1>4, <1>5 DEF QueueInv
<1>7. ASSUME NEW v, Old(v) PROVE Old(v)' /\ v < Head(asked).version
  BY <1>1, <1>7 DEF Old
<1>8. ASSUME NEW v, v = Head(asked).version PROVE v \in 1..edits /\ Old(v)'
  <2>1. \A i \in 1..Len(asked') : v < asked'[i].version
    BY <1>1, <1>3, <1>8
  <2> QED
    BY <1>1, <1>2, <1>8, <2>1 DEF Old, QueueInv
<1> QED
  BY <1>1, <1>2, <1>6, <1>7, <1>8 DEF Askings

LEMMA RowForType ==
  ASSUME ShapeInv, NEW r \in EditRequests, NEW v \in 1..edits, edits \in Nat
  PROVE  /\ r.name \in Names /\ r.kind \in {"on", "off", "remove"}
         /\ KeyFor(r, v) \in Nat /\ RowFor(r, v) \in Rows /\ RowFor(r, v).version <= edits
         /\ Files(r) \in Orders
<1>1. r.name \in Names /\ r.kind \in {"on", "off", "remove"} /\ r.key \in {"keep", "new", "clear"}
  BY DEF EditRequests
<1>2. KeyFor(r, v) \in Nat
  BY <1>1 DEF KeyFor, PreviousKey, ShapeInv
<1>3. RowFor(r, v) \in Rows /\ RowFor(r, v).version <= edits
  BY <1>1, <1>2, RowTypes DEF RowFor, Rows
<1> QED
  BY <1>1, <1>2, <1>3 DEF Files, Orders

LEMMA BeginStep ==
  ASSUME AccountInv, BeginEdit
  PROVE  AccountInv'
<1>1. /\ asked # <<>> /\ asked' = Tail(asked) /\ edit = NoEdit
      /\ UNCHANGED <<diskVars, live, retired, lease, phase, edits>>
  BY DEF BeginEdit
<1>2. /\ QueueInv' /\ \A v : Old(v) => Old(v)' /\ v < Head(asked).version
      /\ \A v : v = Head(asked).version => v \in 1..edits /\ Old(v)'
      /\ Head(asked).r \in EditRequests /\ edits \in Nat
  BY <1>1, Dequeued DEF AccountInv, QueueInv
<1>3. \A k : Known(k)' <=> Known(k)
  BY <1>1 DEF Known, LiveClients, Leased
<1>4. LiveClients' = LiveClients /\ \A k : Leased(k)' <=> Leased(k)
  BY <1>1 DEF LiveClients, Leased
<1>5. CASE UNCHANGED <<edit, openClients>>
  <2>1. ShapeInv'
    BY <1>1, <1>5 DEF AccountInv, ShapeInv, diskVars
  <2>2. ClientInv'
    BY <1>1, <1>2, <1>3, <1>4, <1>5 DEF AccountInv, ClientInv
  <2>3. ClientsAccounted'
    BY <1>1, <1>4, <1>5 DEF AccountInv, ClientsAccounted
  <2> QED
    BY <1>2, <2>1, <2>2, <2>3 DEF AccountInv
<1>6. ASSUME NEW r \in EditRequests, NEW v \in 1..edits, r = Head(asked).r, v = Head(asked).version,
             NEW k, k = (IF r.kind = "on" THEN Client(r.name, RowFor(r, v), KeyFor(r, v)) ELSE None),
             edit' = [name |-> r.name, kind |-> r.kind, row |-> RowFor(r, v),
                        key |-> KeyFor(r, v), todo |-> Files(r), written |-> {},
                        was |-> Previous(r.name), client |-> k, undo |-> FALSE,
                        at |-> IF r.kind = "on" THEN "discover" ELSE "store"],
             openClients' = openClients \cup ({k} \ {None})
      PROVE  AccountInv'
  <2>1. /\ r.name \in Names /\ r.kind \in {"on", "off", "remove"}
        /\ KeyFor(r, v) \in Nat /\ RowFor(r, v) \in Rows /\ RowFor(r, v).version <= edits
        /\ Files(r) \in Orders
    BY <1>2, <1>6, RowForType DEF AccountInv
  <2>2. r.kind = "on" => RowFor(r, v).version = v
    BY DEF RowFor
  <2>3. /\ k \in Clients \cup {None}
        /\ r.kind = "on" => k.name = r.name /\ k.version = v /\ k \in Clients
        /\ r.kind # "on" => k = None
    BY <1>6, <2>1, <2>2, RowTypes
  <2>4. /\ Previous(r.name).row \in Rows /\ Previous(r.name).key \in Nat
        /\ Previous(r.name) \in [row : Rows, key : Nat]
        /\ Previous(r.name).row.version <= edits
    BY <2>1 DEF Previous, AccountInv, ShapeInv
  <2>5. edit' \in EditTypes /\ edit'.client = k /\ edit'.kind = r.kind /\ edit'.name = r.name
        /\ edit'.row.version <= edits /\ edit'.was.row.version <= edits
        /\ edit'.todo \in Orders
    <3> HIDE DEF NoEdit
    <3> QED
      BY <1>6, <2>1, <2>3, <2>4 DEF EditTypes
  <2>6. edit' # NoEdit
    BY <2>5, EditShape
  <2>7. ShapeInv'
    BY <1>1, <2>5 DEF AccountInv, ShapeInv, diskVars
  <2>8. k # None => ~Known(k)
    <3>1. SUFFICES ASSUME k # None, Known(k) PROVE FALSE
      OBVIOUS
    <3>2. Old(k.version)
      BY <3>1 DEF AccountInv, ClientInv
    <3>3. k.version < v /\ k.version = v
      BY <1>2, <1>6, <2>3, <3>1, <3>2
    <3> QED
      BY <3>3
  <2>9. k # None => Old(k.version)'
    BY <1>2, <1>6, <2>3
  <2>10. ClientInv'
    BY <1>1, <1>2, <1>3, <1>4, <1>6, <2>3, <2>5, <2>8, <2>9 DEF AccountInv, ClientInv
  <2>11. ClientsAccounted'
    BY <1>1, <1>4, <1>6, <2>5, <2>6 DEF AccountInv, ClientsAccounted
  <2> QED
    BY <1>2, <2>7, <2>10, <2>11 DEF AccountInv
<1> QED
  BY <1>2, <1>5, <1>6 DEF BeginEdit

(* An edit goes on; the routes, the clients and the queue stay.            *)
LEMMA EditGoesOn ==
  ASSUME AccountInv, UNCHANGED <<asked, routeVars, lease, phase, edits>>,
         edit \in EditTypes, edit' \in EditTypes,
         edit'.name = edit.name, edit'.kind = edit.kind, edit'.client = edit.client,
         edit'.row.version <= edits, edit'.was.row.version <= edits,
         edit'.at # "route" => edit'.todo \in Orders,
         metaFile' \in [Names -> Rows], keyFile' \in [Names -> Nat],
         \A n \in Names : metaFile'[n].version <= edits
  PROVE  AccountInv'
<1>1. edit # NoEdit /\ edit' # NoEdit
  BY EditShape
<1>2. QueueInv' /\ \A v : Old(v)' <=> Old(v)
  BY DEF AccountInv, QueueInv, Old
<1>3. LiveClients' = LiveClients /\ \A k : (Leased(k)' <=> Leased(k)) /\ (Known(k)' <=> Known(k))
  BY DEF LiveClients, Leased, Known, routeVars
<1>4. ShapeInv'
  BY <1>1 DEF AccountInv, ShapeInv, routeVars
<1>5. ClientInv'
  BY <1>1, <1>2, <1>3 DEF AccountInv, ClientInv, routeVars
<1>6. ClientsAccounted'
  BY <1>1, <1>3 DEF AccountInv, ClientsAccounted, routeVars
<1> QED
  BY <1>2, <1>4, <1>5, <1>6 DEF AccountInv

(* An edit ends and its client is closed.                                  *)
LEMMA EditAborts ==
  ASSUME AccountInv, Abort, edit # NoEdit, UNCHANGED <<asked, lease, phase, edits>>,
         metaFile' \in [Names -> Rows], keyFile' \in [Names -> Nat],
         \A n \in Names : metaFile'[n].version <= edits
  PROVE  AccountInv'
<1>1. /\ edit' = NoEdit /\ openClients' = openClients \ {edit.client}
      /\ UNCHANGED <<live, retired>>
  BY DEF Abort
<1>2. QueueInv' /\ \A v : Old(v)' <=> Old(v)
  BY DEF AccountInv, QueueInv, Old
<1>3. LiveClients' = LiveClients /\ \A k : (Leased(k)' <=> Leased(k)) /\ (Known(k)' <=> Known(k))
  BY <1>1 DEF LiveClients, Leased, Known
<1>4. ShapeInv'
  BY <1>1 DEF AccountInv, ShapeInv
<1>5. ClientInv'
  BY <1>1, <1>2, <1>3 DEF AccountInv, ClientInv
<1>6. edit.client # None => ~Known(edit.client)
  BY DEF AccountInv, ClientInv
<1>7. \A n \in Queries : lease[n] # None => lease[n] # edit.client
  BY <1>6 DEF Known, Leased
<1>8. edit.client \notin LiveClients
  BY <1>6 DEF Known, LiveClients
<1>9. ClientsAccounted'
  BY <1>1, <1>3, <1>7, <1>8 DEF AccountInv, ClientsAccounted
<1> QED
  BY <1>2, <1>4, <1>5, <1>9 DEF AccountInv

LEMMA ReplaceTypes ==
  ASSUME AccountInv, edit \in EditTypes, NEW F, NEW row \in Rows, row.version <= edits, NEW key \in Nat,
         Replace(F, row, key)
  PROVE  /\ metaFile' \in [Names -> Rows] /\ keyFile' \in [Names -> Nat]
         /\ \A n \in Names : metaFile'[n].version <= edits
  BY EditShape DEF Replace, AccountInv, ShapeInv

LEMMA HeadOfOrder ==
  ASSUME NEW t \in Orders
  PROVE  /\ Head(t) \in Both /\ Tail(t) \in Orders \cup {<<>>}
         /\ Tail(t) # <<>> => Tail(t) \in Orders
<1>1. ASSUME NEW x PROVE Head(<<x>>) = x /\ Tail(<<x>>) = <<>>
  OBVIOUS
<1>2. ASSUME NEW x, NEW y PROVE Head(<<x, y>>) = x /\ Tail(<<x, y>>) = <<y>>
  OBVIOUS
<1>3. CASE t = <<"row">> \/ t = <<"key">>
  BY <1>1, <1>3 DEF Both
<1>4. CASE t = <<"row", "key">> \/ t = <<"key", "row">>
  BY <1>2, <1>4 DEF Orders, Both
<1> QED
  BY <1>3, <1>4 DEF Orders

LEMMA DiscoverStep ==
  ASSUME AccountInv, Discover
  PROVE  AccountInv'
<1>1. /\ edit # NoEdit /\ edit \in EditTypes /\ edit.at = "discover"
      /\ UNCHANGED <<diskVars, asked, lease, phase, edits>>
  BY DEF Discover, AccountInv, ShapeInv
<1>2. /\ metaFile' \in [Names -> Rows] /\ keyFile' \in [Names -> Nat]
      /\ \A n \in Names : metaFile'[n].version <= edits
  BY <1>1 DEF diskVars, AccountInv, ShapeInv
<1>3. CASE Abort
  BY <1>1, <1>2, <1>3, EditAborts
<1>4. CASE edit' = [edit EXCEPT !.at = "store"] /\ UNCHANGED routeVars
  <2>1. edit' \in EditTypes
    BY <1>1, <1>4, EditMoves
  <2>2. /\ edit'.name = edit.name /\ edit'.kind = edit.kind /\ edit'.client = edit.client
        /\ edit'.row = edit.row /\ edit'.was = edit.was /\ edit'.todo = edit.todo
    BY <1>1, <1>4 DEF EditTypes
  <2>3. edit.row.version <= edits /\ edit.was.row.version <= edits /\ edit.todo \in Orders
    BY <1>1 DEF AccountInv, ShapeInv
  <2> QED
    BY <1>1, <1>2, <1>4, <2>1, <2>2, <2>3, EditGoesOn
<1> QED
  BY <1>3, <1>4 DEF Discover

LEMMA WriteStep ==
  ASSUME AccountInv, WriteFile
  PROVE  AccountInv'
<1>1. /\ edit # NoEdit /\ edit \in EditTypes /\ edit.at = "store"
      /\ UNCHANGED <<asked, lease, phase, edits>>
      /\ Replace({Head(edit.todo)}, edit.row, edit.key)
      /\ edit.row.version <= edits /\ edit.was.row.version <= edits /\ edit.todo \in Orders
  BY DEF WriteFile, AccountInv, ShapeInv
<1>2. /\ metaFile' \in [Names -> Rows] /\ keyFile' \in [Names -> Nat]
      /\ \A n \in Names : metaFile'[n].version <= edits
  BY <1>1, EditShape, ReplaceTypes
<1>3. CASE Abort
  BY <1>1, <1>2, <1>3, EditAborts
<1>4. ASSUME NEW rest, rest = [edit EXCEPT !.todo = Tail(@), !.written = @ \cup {Head(edit.todo)}],
             UNCHANGED routeVars,
             \/ edit' = rest /\ rest.todo # <<>>
             \/ edit' = [rest EXCEPT !.at = "route"]
      PROVE  AccountInv'
  <2>1. Tail(edit.todo) \in Orders \cup {<<>>} /\ Head(edit.todo) \in Both
        /\ (Tail(edit.todo) # <<>> => Tail(edit.todo) \in Orders)
        /\ edit.written \in SUBSET Both
    BY <1>1, HeadOfOrder, EditShape
  <2>2. rest \in EditTypes
    <3>1. edit.written \cup {Head(edit.todo)} \in SUBSET Both
      BY <2>1
    <3>2. rest = [edit EXCEPT !.todo = Tail(edit.todo), !.written = edit.written \cup {Head(edit.todo)}]
      BY <1>1, <1>4 DEF EditTypes
    <3> QED
      BY <1>1, <2>1, <3>1, <3>2, EditWrites
  <2>3. /\ rest.name = edit.name /\ rest.kind = edit.kind /\ rest.client = edit.client
        /\ rest.row = edit.row /\ rest.was = edit.was /\ rest.todo = Tail(edit.todo)
    BY <1>1, <1>4 DEF EditTypes
  <2>4. edit' \in EditTypes
    BY <1>4, <2>2, EditMoves
  <2>5. /\ edit'.name = edit.name /\ edit'.kind = edit.kind /\ edit'.client = edit.client
        /\ edit'.row = edit.row /\ edit'.was = edit.was
        /\ edit'.at # "route" => edit'.todo \in Orders
    <3>1. CASE edit' = rest /\ rest.todo # <<>>
      BY <2>1, <2>3, <3>1
    <3>2. CASE edit' = [rest EXCEPT !.at = "route"]
      BY <2>2, <2>3, <3>2, EditMoved
    <3> QED
      BY <1>4, <3>1, <3>2
  <2> QED
    BY <1>1, <1>2, <1>4, <2>4, <2>5, EditGoesOn
<1> QED
  BY <1>3, <1>4 DEF WriteFile

LEMMA FailStep ==
  ASSUME AccountInv, WriteFails
  PROVE  AccountInv'
<1>1. /\ edit # NoEdit /\ edit \in EditTypes /\ edit.at = "store" /\ Abort
      /\ UNCHANGED <<asked, lease, phase, edits>>
      /\ edit.row.version <= edits /\ edit.was.row.version <= edits
      /\ metaFile \in [Names -> Rows] /\ keyFile \in [Names -> Nat]
      /\ \A n \in Names : metaFile[n].version <= edits
  BY DEF WriteFails, AccountInv, ShapeInv
<1>2. /\ edit.name \in Names /\ edit.row \in Rows /\ edit.key \in Nat
      /\ edit.was.row \in Rows /\ edit.was.key \in Nat
  BY <1>1, EditShape
<1>3. \/ Replace(PutBack, edit.was.row, edit.was.key)
      \/ /\ metaFile' \in {metaFile, [metaFile EXCEPT ![edit.name] = edit.row],
                           [metaFile EXCEPT ![edit.name] = edit.was.row]}
         /\ keyFile' \in {keyFile, [keyFile EXCEPT ![edit.name] = edit.key],
                          [keyFile EXCEPT ![edit.name] = edit.was.key]}
  BY DEF WriteFails, diskVars
<1>4. /\ metaFile' \in [Names -> Rows] /\ keyFile' \in [Names -> Nat]
      /\ \A n \in Names : metaFile'[n].version <= edits
  BY <1>1, <1>2, <1>3, ReplaceTypes
<1> QED
  BY <1>1, <1>4, EditAborts

(* The routes take the client of the edit; the one it replaces is closed   *)
(* unless a request uses it.                                               *)
LEMMA CommitStep ==
  ASSUME AccountInv, edit \in EditTypes, Committed,
         live' = [live EXCEPT ![edit.name] = edit.client], Retire(live[edit.name]),
         ~(phase = "closed" /\ (edit.kind = "on" \/ live[edit.name] # None)),
         UNCHANGED <<diskVars, asked, lease, phase, edits>>
  PROVE  AccountInv'
<1> DEFINE n == edit.name  old == live[edit.name]  new == edit.client
<1>1. /\ edit # NoEdit /\ n \in Names /\ new \in Clients \cup {None} /\ edit' = NoEdit
      /\ live \in [Names -> Clients \cup {None}]
  BY EditShape DEF Committed, AccountInv, ShapeInv
<1>2. QueueInv' /\ (\A v : Old(v)' <=> Old(v)) /\ (\A k : Leased(k)' <=> Leased(k))
  BY DEF AccountInv, QueueInv, Old, Leased
<1>3. ShapeInv'
  BY <1>1 DEF AccountInv, ShapeInv, diskVars
<1>4. \A m \in Names : live[m] # None => live[m].name = m
  BY DEF AccountInv, ClientInv
<1>5. new # None => new.name = n /\ Old(new.version) /\ ~Known(new)
  BY <1>1 DEF AccountInv, ClientInv
<1>6. \A m \in Names : live'[m] # None => live'[m].name = m
  BY <1>1, <1>4, <1>5
<1>7. LiveClients' = (LiveClients \ {old}) \cup ({new} \ {None})
  <2>1. \A m \in Names \ {n} : live'[m] = live[m] /\ (live[m] # None => live[m] # old)
    BY <1>1, <1>4
  <2>2. live'[n] = new
    BY <1>1
  <2> HIDE DEF n, old, new
  <2>3. LiveClients' \subseteq (LiveClients \ {old}) \cup ({new} \ {None})
    BY <1>1, <2>1, <2>2 DEF LiveClients
  <2>4. (LiveClients \ {old}) \subseteq LiveClients'
    BY <1>1, <2>1, <2>2 DEF LiveClients, old, n
  <2>5. ({new} \ {None}) \subseteq LiveClients'
    BY <1>1, <2>2 DEF LiveClients
  <2> QED
    BY <2>3, <2>4, <2>5
<1>8. \/ /\ old # None /\ Leased(old)
         /\ retired' = retired \cup {old} /\ openClients' = openClients
      \/ /\ ~(old # None /\ Leased(old))
         /\ retired' = retired \ {old} /\ openClients' = openClients \ {old}
  BY DEF Retire
<1>9. old # None => old \in LiveClients /\ Known(old)
  BY <1>1 DEF LiveClients, Known
<1>10. new # None => new # old /\ new \in openClients
  BY <1>1, <1>5, <1>9 DEF AccountInv, ClientInv
<1> HIDE DEF n, old, new
<1>11. ASSUME NEW k, k # None, Known(k)' PROVE k \in Clients /\ Old(k.version)'
  <2>1. Known(k) \/ k = new
    BY <1>2, <1>7, <1>8, <1>9, <1>11 DEF Known
  <2>2. CASE Known(k)
    BY <1>2, <1>11, <2>2 DEF AccountInv, ClientInv
  <2>3. CASE k = new
    BY <1>1, <1>2, <1>5, <1>11, <2>3
  <2> QED
    BY <2>1, <2>2, <2>3
<1>12. None \notin retired' /\ None \notin openClients'
  BY <1>8 DEF AccountInv, ClientInv
<1>13. retired' \cap LiveClients' = {}
  <2>1. retired \cap LiveClients = {}
    BY DEF AccountInv, ClientInv
  <2>2. new # None => new \notin retired
    BY <1>5 DEF Known
  <2> QED
    BY <1>7, <1>8, <1>10, <2>1, <2>2
<1>14. ClientInv'
  BY <1>1, <1>6, <1>11, <1>12, <1>13 DEF ClientInv
<1>15. ClientsAccounted'
  <2>1. phase # "closed" => \A q \in Queries : lease[q] # None => lease[q] \in openClients'
    <3>1. SUFFICES ASSUME phase # "closed", NEW q \in Queries, lease[q] # None
                   PROVE  lease[q] \in openClients'
      OBVIOUS
    <3>2. lease[q] \in openClients /\ Leased(lease[q])
      BY <3>1 DEF AccountInv, ClientsAccounted, Leased
    <3> QED
      BY <1>8, <3>1, <3>2
  <2>2. phase # "closed" => LiveClients' \subseteq openClients'
    BY <1>7, <1>8, <1>10 DEF AccountInv, ClientsAccounted
  <2>3. ASSUME NEW k \in openClients'
        PROVE  k \in LiveClients' \/ (k \in retired' /\ Leased(k)')
    <3>1. k \in openClients /\ k # None
      BY <1>8, <1>12
    <3>2. k \in LiveClients \/ (k \in retired /\ Leased(k)) \/ k = new
      BY <3>1 DEF AccountInv, ClientsAccounted, new
    <3>3. k = old => Leased(old) /\ k \in retired'
      BY <1>8, <2>3, <3>1
    <3>4. k # old => (k \in retired => k \in retired')
      BY <1>8
    <3> QED
      BY <1>2, <1>7, <3>1, <3>2, <3>3, <3>4
  <2> QED
    BY <2>1, <2>2, <2>3 DEF ClientsAccounted
<1> QED
  BY <1>2, <1>3, <1>14, <1>15 DEF AccountInv

LEMMA RouteStep ==
  ASSUME AccountInv, Route
  PROVE  AccountInv'
<1>1. /\ edit # NoEdit /\ edit \in EditTypes /\ edit.at = "route"
      /\ UNCHANGED <<diskVars, asked, lease, phase, edits>>
      /\ edit.row.version <= edits /\ edit.was.row.version <= edits
  BY DEF Route, AccountInv, ShapeInv
<1>2. CASE Restore
  <2>1. /\ edit.name \in Names /\ edit.row \in Rows /\ edit.was.row \in Rows
        /\ edit.was.key \in Nat /\ keyFile[edit.name] \in Nat
    BY <1>1, EditShape DEF AccountInv, ShapeInv
  <2>2. PICK t \in Orders, k \in Nat :
          edit' = [edit EXCEPT !.at = "store", !.undo = TRUE, !.written = {},
                               !.row = edit.was.row, !.key = k, !.todo = t,
                               !.was = [row |-> edit.row, key |-> keyFile[edit.name]]]
    <3> DEFINE t == IF edit.was.row = NoRow THEN <<"row", "key">> ELSE <<"key", "row">>
               k == IF edit.was.row = NoRow THEN 0 ELSE edit.was.key
    <3>1. t \in Orders /\ k \in Nat
      BY <2>1 DEF Orders
    <3> QED
      BY <1>2, <3>1 DEF Restore
  <2>3. edit' \in EditTypes
    BY <1>1, <2>1, <2>2, EditReturns
  <2>4. /\ edit'.name = edit.name /\ edit'.kind = edit.kind /\ edit'.client = edit.client
        /\ edit'.row.version <= edits /\ edit'.was.row.version <= edits
        /\ edit'.todo \in Orders
    BY <1>1, <2>1, <2>2 DEF EditTypes
  <2>5. /\ metaFile' \in [Names -> Rows] /\ keyFile' \in [Names -> Nat]
        /\ \A n \in Names : metaFile'[n].version <= edits
    BY <1>1 DEF diskVars, AccountInv, ShapeInv
  <2> QED
    BY <1>1, <1>2, <2>3, <2>4, <2>5, EditGoesOn DEF Restore
<1>3. CASE /\ ~(phase = "closed" /\ (edit.kind = "on" \/ live[edit.name] # None))
           /\ Committed /\ live' = [live EXCEPT ![edit.name] = edit.client]
           /\ Retire(live[edit.name])
  BY <1>1, <1>3, CommitStep
<1> QED
  BY <1>2, <1>3 DEF Route

LEMMA DrainOrClose ==
  ASSUME AccountInv, DrainProviders \/ CloseRouter
  PROVE  AccountInv'
<1>1. /\ UNCHANGED <<diskVars, asked, edit, live, lease, edits>>
      /\ phase' \in {"draining", "closed"}
  BY DEF DrainProviders, CloseRouter, routeVars
<1>2. /\ QueueInv' /\ (\A v : Old(v)' <=> Old(v)) /\ (\A k : Leased(k)' <=> Leased(k))
      /\ LiveClients' = LiveClients
  BY <1>1 DEF AccountInv, QueueInv, Old, Leased, LiveClients
<1>3. ShapeInv'
  BY <1>1 DEF AccountInv, ShapeInv, diskVars
<1>4. CASE DrainProviders
  <2>1. retired' = retired /\ openClients' = openClients /\ phase # "closed"
    BY <1>4 DEF DrainProviders, routeVars
  <2> QED
    BY <1>1, <1>2, <1>3, <2>1 DEF AccountInv, ClientInv, ClientsAccounted, Known
<1>5. CASE CloseRouter
  <2>1. /\ retired' = {} /\ openClients' = openClients \ (LiveClients \cup retired)
        /\ phase' = "closed"
    BY <1>5 DEF CloseRouter
  <2>2. \A k : Known(k)' => Known(k)
    BY <1>2, <2>1 DEF Known
  <2>3. edit # NoEdit /\ edit.client # None => edit.client \in openClients'
    BY <2>1 DEF AccountInv, ClientInv, Known
  <2>4. ClientInv'
    BY <1>1, <1>2, <2>1, <2>2, <2>3 DEF AccountInv, ClientInv
  <2>5. ClientsAccounted'
    BY <1>1, <1>2, <2>1 DEF AccountInv, ClientsAccounted
  <2> QED
    BY <1>2, <1>3, <2>4, <2>5 DEF AccountInv
<1> QED
  BY <1>4, <1>5

LEMMA RestartStep ==
  ASSUME AccountInv, RestartProcess
  PROVE  AccountInv'
<1>1. /\ asked' = <<>> /\ edit' = NoEdit /\ live' = Configured /\ retired' = {}
      /\ openClients' = {Configured[n] : n \in Names} \ {None}
      /\ lease' = [q \in Queries |-> None] /\ phase' = "up"
      /\ UNCHANGED <<diskVars, edits>>
  BY DEF RestartProcess
<1>2. /\ metaFile \in [Names -> Rows] /\ keyFile \in [Names -> Nat] /\ edits \in Nat
      /\ \A n \in Names : metaFile[n].version <= edits
  BY DEF AccountInv, ShapeInv, QueueInv
<1>3. QueueInv'
  BY <1>1, <1>2 DEF QueueInv
<1>4. \A n \in Names : Configured[n] # None =>
        /\ Configured[n] \in Clients /\ Configured[n].name = n
        /\ Configured[n].version \in 0..edits
  BY <1>2, RowTypes DEF Configured
<1>5. LiveClients' = {Configured[n] : n \in Names} \ {None}
  BY <1>1 DEF LiveClients
<1>6. ShapeInv'
  BY <1>1, <1>2, <1>4 DEF ShapeInv, Configured, diskVars
<1>7. \A k : k # None => ~Leased(k)'
  BY <1>1 DEF Leased
<1>8. ASSUME NEW v \in 0..edits PROVE Old(v)'
  BY <1>1, <1>2 DEF Old
<1>9. ClientInv'
  BY <1>1, <1>4, <1>5, <1>7, <1>8 DEF ClientInv, Known
<1>10. ClientsAccounted'
  BY <1>1, <1>5 DEF ClientsAccounted
<1> QED
  BY <1>3, <1>6, <1>9, <1>10 DEF AccountInv

LEMMA AccountInit == ProvidersInit => AccountInv
<1> SUFFICES ASSUME ProvidersInit PROVE AccountInv
  OBVIOUS
<1>1. LiveClients = {} /\ \A k : k # None => ~Known(k)
  BY DEF ProvidersInit, LiveClients, Known, Leased
<1>2. QueueInv
  BY DEF ProvidersInit, QueueInv
<1>3. ShapeInv
  BY RowTypes DEF ProvidersInit, ShapeInv
<1>4. ClientInv
  BY <1>1 DEF ProvidersInit, ClientInv
<1>5. ClientsAccounted
  BY <1>1 DEF ProvidersInit, ClientsAccounted
<1> QED
  BY <1>2, <1>3, <1>4, <1>5 DEF AccountInv

LEMMA AccountNext == AccountInv /\ [ProvidersNext]_providerVars => AccountInv'
<1> SUFFICES ASSUME AccountInv, [ProvidersNext]_providerVars PROVE AccountInv'
  OBVIOUS
<1>1. ASSUME NEW p, SelectModel(p) PROVE AccountInv'
  BY <1>1, AsideKeeps DEF SelectModel
<1>2. ASSUME NEW i, StartWriter(i) \/ WriteModel(i) \/ WriterFinished(i) PROVE AccountInv'
  BY <1>2, AsideKeeps DEF StartWriter, WriteModel, WriterFinished
<1>3. CASE UNCHANGED providerVars
  BY <1>3, AsideKeeps DEF providerVars
<1> QED
  BY <1>1, <1>2, <1>3, AskStep, BeginStep, DiscoverStep, WriteStep, FailStep, RouteStep,
     LeaseStep, ReleaseStep, DrainOrClose, RestartStep DEF ProvidersNext

(* The router closes no client that a request holds, and closes each       *)
(* client that is out of its routes, for any edits, failures and requests. *)
THEOREM NoClientLeaks == ProvidersSpec => []ClientsAccounted
<1>1. AccountInv => ClientsAccounted
  BY DEF AccountInv
<1> QED
  BY <1>1, AccountInit, AccountNext, PTL DEF ProvidersSpec

-----------------------------------------------------------------------------
(* The files and the routes.  Between edits they agree; during one, what   *)
(* is written so far and what it would be put back to are known.           *)

Served(n, row, key) == IF row.on THEN Client(n, row, key) ELSE None
FilesOf(t) == {t[i] : i \in 1..Len(t)}

Stage ==
    /\ metaFile[edit.name] = IF "row" \in edit.written THEN edit.row ELSE edit.was.row
    /\ keyFile[edit.name]  = IF "key" \in edit.written THEN edit.key ELSE edit.was.key
    /\ \A f \in Both :
         f \in edit.written \/ f \in FilesOf(edit.todo) \/ (f = "key" /\ edit.key = edit.was.key)
    /\ edit.at = "discover" => edit.written = {} /\ ~edit.undo
    /\ edit.at = "route" => edit.todo = <<>> /\ ~edit.undo
    /\ (edit.row = NoRow => edit.key = 0) /\ (edit.was.row = NoRow => edit.was.key = 0)
    /\ ~edit.undo => /\ edit.client = Served(edit.name, edit.row, edit.key)
                     /\ live[edit.name] = Served(edit.name, edit.was.row, edit.was.key)
    /\ edit.undo => live[edit.name] = Served(edit.name, edit.row, edit.key)

InStep(n) ==
    /\ live[n] = Served(n, metaFile[n], keyFile[n])
    /\ metaFile[n] = NoRow => keyFile[n] = 0

StepInv ==
    ~split /\ ~spoiled =>
      /\ \A n \in Names : edit = NoEdit \/ edit.name # n => InStep(n)
      /\ edit # NoEdit => Stage

LEMMA OrderFiles ==
  /\ FilesOf(<<>>) = {}
  /\ \A t \in Orders : FilesOf(t) \subseteq {Head(t)} \cup FilesOf(Tail(t))
<1>1. ASSUME NEW x PROVE Head(<<x>>) = x /\ Tail(<<x>>) = <<>> /\ FilesOf(<<x>>) = {x}
  BY DEF FilesOf
<1>2. ASSUME NEW x, NEW y
      PROVE  Head(<<x, y>>) = x /\ Tail(<<x, y>>) = <<y>> /\ FilesOf(<<x, y>>) = {x, y}
  <2>1. Len(<<x, y>>) = 2 /\ <<x, y>>[1] = x /\ <<x, y>>[2] = y
    OBVIOUS
  <2>2. 1..2 = {1, 2}
    OBVIOUS
  <2> QED
    BY <2>1, <2>2 DEF FilesOf
<1>3. FilesOf(<<>>) = {}
  BY DEF FilesOf
<1>4. ASSUME NEW t \in Orders PROVE FilesOf(t) \subseteq {Head(t)} \cup FilesOf(Tail(t))
  <2>1. CASE t = <<"row">> \/ t = <<"key">>
    BY <1>1, <2>1
  <2>2. CASE t = <<"row", "key">>
    BY <1>1, <1>2, <2>2
  <2>3. CASE t = <<"key", "row">>
    BY <1>1, <1>2, <2>3
  <2> QED
    BY <2>1, <2>2, <2>3 DEF Orders
<1> QED
  BY <1>3, <1>4

LEMMA RoutesStay ==
  ASSUME StepInv, UNCHANGED <<metaFile, keyFile, edit, live, split, spoiled>>
  PROVE  StepInv'
  BY DEF StepInv, Stage, InStep

(* An edit ends with the files and the route of its provider in step.      *)
LEMMA EditEnds ==
  ASSUME StepInv, edit # NoEdit, edit' = NoEdit, NEW m, m = edit.name,
         ~split' => ~split, ~spoiled' => ~spoiled,
         \A n \in Names \ {m} :
            metaFile'[n] = metaFile[n] /\ keyFile'[n] = keyFile[n] /\ live'[n] = live[n],
         ~split' /\ ~spoiled' => InStep(m)'
  PROVE  StepInv'
<1>1. ASSUME ~split' /\ ~spoiled', NEW n \in Names PROVE InStep(n)'
  <2>1. CASE n = m
    BY <1>1, <2>1
  <2>2. CASE n # m
    BY <1>1, <2>2 DEF StepInv, InStep
  <2> QED
    BY <2>1, <2>2
<1>2. ~split' /\ ~spoiled' => \A n \in Names : InStep(n)'
  BY <1>1
<1> QED
  BY <1>2 DEF StepInv

LEMMA EditStays ==
  ASSUME StepInv, edit # NoEdit, edit' # NoEdit, NEW m, m = edit.name, edit'.name = m,
         ~split' => ~split, ~spoiled' => ~spoiled,
         \A n \in Names \ {m} :
            metaFile'[n] = metaFile[n] /\ keyFile'[n] = keyFile[n] /\ live'[n] = live[n],
         ~split' /\ ~spoiled' => Stage'
  PROVE  StepInv'
<1>1. ASSUME ~split' /\ ~spoiled', NEW n \in Names, n # m PROVE InStep(n)'
  BY <1>1 DEF StepInv, InStep
<1>2. ~split' /\ ~spoiled' => \A n \in Names : n # m => InStep(n)'
  BY <1>1
<1> QED
  BY <1>2 DEF StepInv

LEMMA RequestedRow ==
  ASSUME ShapeInv, NEW r \in EditRequests, NEW v \in 1..edits, edits \in Nat, InStep(r.name)
  PROVE  /\ RowFor(r, v).on <=> r.kind = "on"
         /\ RowFor(r, v) = NoRow => KeyFor(r, v) = 0
         /\ metaFile[r.name] = NoRow => keyFile[r.name] = 0
         /\ \A f \in Both : f \in FilesOf(Files(r)) \/ (f = "key" /\ KeyFor(r, v) = keyFile[r.name])
<1>1. /\ r.kind \in {"on", "off", "remove"} /\ r.key \in {"keep", "new", "clear"}
      /\ r.kind = "remove" => r.key = "clear"
      /\ edits \in Nat /\ v # 0
  BY DEF EditRequests
<1>2. /\ FilesOf(<<"row">>) = {"row"} /\ FilesOf(<<"row", "key">>) = {"row", "key"}
      /\ FilesOf(<<"key", "row">>) = {"row", "key"}
  <2>1. 1..1 = {1} /\ 1..2 = {1, 2}
    OBVIOUS
  <2> QED
    BY <2>1 DEF FilesOf
<1>3. RowFor(r, v) # NoRow \/ r.kind = "remove"
  BY <1>1 DEF RowFor, NoRow
<1>4. RowFor(r, v).on <=> r.kind = "on"
  BY <1>1 DEF RowFor, NoRow
<1>5. metaFile[r.name] = NoRow => keyFile[r.name] = 0
  BY DEF InStep
<1>6. r.key = "keep" => KeyFor(r, v) = keyFile[r.name] /\ Files(r) = <<"row">>
  BY <1>1, <1>5 DEF KeyFor, PreviousKey, Files
<1>7. r.key # "keep" => Files(r) \in {<<"row", "key">>, <<"key", "row">>}
  BY DEF Files
<1>8. r.key = "clear" => KeyFor(r, v) = 0
  BY DEF KeyFor
<1> QED
  BY <1>1, <1>2, <1>3, <1>4, <1>5, <1>6, <1>7, <1>8 DEF Both

LEMMA BeginInStep ==
  ASSUME AccountInv, StepInv, BeginEdit
  PROVE  StepInv'
<1>1. /\ asked # <<>> /\ asked' = Tail(asked) /\ edit = NoEdit
      /\ UNCHANGED <<metaFile, keyFile, live, lease, phase, edits, split, spoiled>>
  BY DEF BeginEdit, diskVars
<1>2. /\ \A v : v = Head(asked).version => v \in 1..edits
      /\ Head(asked).r \in EditRequests /\ edits \in Nat
  BY <1>1, Dequeued DEF AccountInv, QueueInv
<1>3. CASE UNCHANGED edit
  BY <1>1, <1>3, RoutesStay
<1>4. ASSUME NEW r \in EditRequests, NEW v \in 1..edits,
             edit' = [name |-> r.name, kind |-> r.kind, row |-> RowFor(r, v),
                        key |-> KeyFor(r, v), todo |-> Files(r), written |-> {},
                        was |-> Previous(r.name),
                        client |-> IF r.kind = "on" THEN Client(r.name, RowFor(r, v), KeyFor(r, v))
                                   ELSE None,
                        undo |-> FALSE,
                        at |-> IF r.kind = "on" THEN "discover" ELSE "store"]
      PROVE  StepInv'
  <2>1. SUFFICES ASSUME ~split', ~spoiled'
                 PROVE  /\ \A n \in Names : InStep(n)'
                        /\ Stage'
    BY DEF StepInv
  <2>2. \A n \in Names : InStep(n) /\ InStep(n)'
    BY <1>1, <2>1 DEF StepInv, InStep
  <2>3. r.name \in Names
    BY DEF EditRequests
  <2>4. /\ RowFor(r, v).on <=> r.kind = "on"
        /\ RowFor(r, v) = NoRow => KeyFor(r, v) = 0
        /\ metaFile[r.name] = NoRow => keyFile[r.name] = 0
        /\ \A f \in Both : f \in FilesOf(Files(r)) \/ (f = "key" /\ KeyFor(r, v) = keyFile[r.name])
    BY <1>2, <2>2, <2>3, RequestedRow DEF AccountInv
  <2>5. /\ edit'.name = r.name /\ edit'.row = RowFor(r, v) /\ edit'.key = KeyFor(r, v)
        /\ edit'.todo = Files(r) /\ edit'.written = {} /\ ~edit'.undo /\ edit'.at # "route"
        /\ edit'.was.row = metaFile[r.name] /\ edit'.was.key = keyFile[r.name]
        /\ edit'.client = IF r.kind = "on" THEN Client(r.name, RowFor(r, v), KeyFor(r, v)) ELSE None
    BY <1>4 DEF Previous
  <2>6. live[r.name] = Served(r.name, metaFile[r.name], keyFile[r.name])
    BY <2>2, <2>3 DEF InStep
  <2>7. edit'.client = Served(r.name, RowFor(r, v), KeyFor(r, v))
    BY <2>4, <2>5 DEF Served
  <2>8. Stage'
    BY <1>1, <2>4, <2>5, <2>6, <2>7 DEF Stage
  <2> QED
    BY <2>2, <2>8
<1> QED
  BY <1>2, <1>3, <1>4 DEF BeginEdit

(* Undone before its first write, or put back after it.                    *)
LEMMA EndsAsBefore ==
  ASSUME AccountInv, StepInv, edit # NoEdit, Abort,
         ~split' => ~split, ~spoiled' => ~spoiled,
         \A n \in Names \ {edit.name} : metaFile'[n] = metaFile[n] /\ keyFile'[n] = keyFile[n],
         ~split' /\ ~spoiled' =>
           \E row, key : /\ metaFile'[edit.name] = row /\ keyFile'[edit.name] = key
                         /\ live[edit.name] = Served(edit.name, row, key)
                         /\ row = NoRow => key = 0
  PROVE  StepInv'
<1>1. PICK m : m = edit.name
  OBVIOUS
<1>2. edit' = NoEdit /\ live' = live
  BY DEF Abort
<1>3. ~split' /\ ~spoiled' => InStep(m)'
  BY <1>1, <1>2 DEF InStep
<1> QED
  BY <1>1, <1>2, <1>3, EditEnds

LEMMA DiscoverInStep ==
  ASSUME AccountInv, StepInv, Discover
  PROVE  StepInv'
<1>1. /\ edit # NoEdit /\ edit \in EditTypes /\ edit.at = "discover"
      /\ UNCHANGED <<metaFile, keyFile, split, spoiled>>
  BY DEF Discover, AccountInv, ShapeInv, diskVars
<1>2. ~split /\ ~spoiled => Stage /\ edit.written = {} /\ ~edit.undo
  BY <1>1 DEF StepInv, Stage
<1>3. CASE Abort
  <2>1. ~split /\ ~spoiled =>
          /\ metaFile[edit.name] = edit.was.row /\ keyFile[edit.name] = edit.was.key
          /\ live[edit.name] = Served(edit.name, edit.was.row, edit.was.key)
          /\ edit.was.row = NoRow => edit.was.key = 0
    BY <1>2 DEF Stage
  <2> QED
    BY <1>1, <1>3, <2>1, EndsAsBefore
<1>4. CASE edit' = [edit EXCEPT !.at = "store"] /\ UNCHANGED routeVars
  <2>1. edit' \in EditTypes /\ edit' # NoEdit
    BY <1>1, <1>4, EditMoves, EditShape
  <2>2. /\ edit'.name = edit.name /\ edit'.kind = edit.kind /\ edit'.client = edit.client
        /\ edit'.row = edit.row /\ edit'.was = edit.was /\ edit'.todo = edit.todo
        /\ edit'.written = edit.written /\ edit'.undo = edit.undo /\ edit'.key = edit.key
        /\ edit'.at = "store"
    BY <1>1, <1>4 DEF EditTypes
  <2>3. live' = live
    BY <1>4 DEF routeVars
  <2>4. ~split /\ ~spoiled => Stage'
    BY <1>1, <1>2, <2>2, <2>3 DEF Stage
  <2>5. PICK m : m = edit.name
    OBVIOUS
  <2> QED
    BY <1>1, <2>1, <2>2, <2>3, <2>4, <2>5, EditStays
<1> QED
  BY <1>3, <1>4 DEF Discover

(* The files that an edit has written hold its row and key, the others     *)
(* what was there before.                                                  *)
LEMMA ReplacedFiles ==
  ASSUME AccountInv, edit \in EditTypes, NEW F, NEW row, NEW key, Replace(F, row, key)
  PROVE  /\ \A n \in Names \ {edit.name} : metaFile'[n] = metaFile[n] /\ keyFile'[n] = keyFile[n]
         /\ metaFile'[edit.name] = IF "row" \in F THEN row ELSE metaFile[edit.name]
         /\ keyFile'[edit.name] = IF "key" \in F THEN key ELSE keyFile[edit.name]
  BY EditShape DEF Replace, AccountInv, ShapeInv

LEMMA WriteInStep ==
  ASSUME AccountInv, StepInv, WriteFile
  PROVE  StepInv'
<1>1. /\ edit # NoEdit /\ edit \in EditTypes /\ edit.at = "store" /\ edit.todo \in Orders
      /\ UNCHANGED <<split, spoiled>>
      /\ Replace({Head(edit.todo)}, edit.row, edit.key)
  BY DEF WriteFile, AccountInv, ShapeInv
<1>2. PICK m, h : m = edit.name /\ h = Head(edit.todo)
  OBVIOUS
<1>3. /\ \A n \in Names \ {m} : metaFile'[n] = metaFile[n] /\ keyFile'[n] = keyFile[n]
      /\ metaFile'[m] = IF "row" = h THEN edit.row ELSE metaFile[m]
      /\ keyFile'[m] = IF "key" = h THEN edit.key ELSE keyFile[m]
  BY <1>1, <1>2, ReplacedFiles
<1>4. /\ h \in Both /\ FilesOf(edit.todo) \subseteq {h} \cup FilesOf(Tail(edit.todo))
      /\ Tail(edit.todo) \in Orders \cup {<<>>} /\ FilesOf(<<>>) = {}
      /\ edit.written \in SUBSET Both
  BY <1>1, <1>2, HeadOfOrder, OrderFiles, EditShape
<1>5. ~split /\ ~spoiled =>
        /\ Stage
        /\ metaFile'[m] = IF "row" \in edit.written \cup {h} THEN edit.row ELSE edit.was.row
        /\ keyFile'[m] = IF "key" \in edit.written \cup {h} THEN edit.key ELSE edit.was.key
        /\ \A f \in Both : \/ f \in edit.written \cup {h} \/ f \in FilesOf(Tail(edit.todo))
                           \/ f = "key" /\ edit.key = edit.was.key
  <2>1. ~split /\ ~spoiled => Stage
    BY <1>1 DEF StepInv
  <2> QED
    BY <1>2, <1>3, <1>4, <2>1 DEF Stage
<1>6. CASE Tail(edit.todo) = <<>> /\ edit.undo /\ Abort
  <2>1. ~split /\ ~spoiled =>
          /\ metaFile'[m] = edit.row /\ keyFile'[m] = edit.key
          /\ live[m] = Served(m, edit.row, edit.key) /\ (edit.row = NoRow => edit.key = 0)
    BY <1>2, <1>4, <1>5, <1>6 DEF Stage, Both
  <2> QED
    BY <1>1, <1>2, <1>3, <1>6, <2>1, EndsAsBefore
<1>7. ASSUME NEW rest, rest = [edit EXCEPT !.todo = Tail(@), !.written = @ \cup {Head(edit.todo)}],
             UNCHANGED routeVars,
             \/ edit' = rest /\ rest.todo # <<>>
             \/ edit' = [rest EXCEPT !.at = "route"] /\ ~edit.undo /\ Tail(edit.todo) = <<>>
      PROVE  StepInv'
  <2>1. rest \in EditTypes
    <3>1. edit.written \cup {h} \in SUBSET Both
      BY <1>4
    <3>2. rest = [edit EXCEPT !.todo = Tail(edit.todo), !.written = edit.written \cup {h}]
      BY <1>1, <1>2, <1>7 DEF EditTypes
    <3> QED
      BY <1>1, <1>4, <3>1, <3>2, EditWrites
  <2>2. /\ rest.name = edit.name /\ rest.client = edit.client /\ rest.at = "store"
        /\ rest.row = edit.row /\ rest.key = edit.key /\ rest.was = edit.was
        /\ rest.todo = Tail(edit.todo) /\ rest.undo = edit.undo
        /\ rest.written = edit.written \cup {h}
    BY <1>1, <1>2, <1>7 DEF EditTypes
  <2>3. edit' \in EditTypes /\ edit' # NoEdit
    BY <1>7, <2>1, EditMoves, EditShape
  <2>4. /\ edit'.name = edit.name /\ edit'.client = edit.client
        /\ edit'.row = edit.row /\ edit'.key = edit.key /\ edit'.was = edit.was
        /\ edit'.todo = Tail(edit.todo) /\ edit'.undo = edit.undo
        /\ edit'.written = edit.written \cup {h}
        /\ \/ edit'.at = "store"
           \/ edit'.at = "route" /\ ~edit.undo /\ Tail(edit.todo) = <<>>
    <3>1. CASE edit' = rest
      BY <2>2, <3>1
    <3>2. CASE edit' = [rest EXCEPT !.at = "route"] /\ ~edit.undo /\ Tail(edit.todo) = <<>>
      <4>1. /\ edit'.at = "route" /\ edit'.name = rest.name /\ edit'.client = rest.client
            /\ edit'.row = rest.row /\ edit'.key = rest.key /\ edit'.was = rest.was
            /\ edit'.todo = rest.todo /\ edit'.undo = rest.undo /\ edit'.written = rest.written
        BY <2>1, <3>2, EditMoved
      <4> QED
        BY <2>2, <3>2, <4>1
    <3> QED
      BY <1>7, <3>1, <3>2
  <2>5. live' = live
    BY <1>7 DEF routeVars
  <2>6. ~split /\ ~spoiled => Stage'
    BY <1>2, <1>5, <2>4, <2>5 DEF Stage
  <2> QED
    BY <1>1, <1>2, <1>3, <2>3, <2>4, <2>5, <2>6, EditStays
<1>8. ASSUME NEW rest, rest = [edit EXCEPT !.todo = Tail(@), !.written = @ \cup {Head(edit.todo)}]
      PROVE  rest.todo = Tail(edit.todo)
  BY <1>1, <1>8 DEF EditTypes
<1>9. edit.undo \in BOOLEAN
  BY <1>1, EditShape
<1> QED
  BY <1>6, <1>7, <1>8, <1>9 DEF WriteFile

LEMMA FailInStep ==
  ASSUME AccountInv, StepInv, WriteFails
  PROVE  StepInv'
<1>1. /\ edit # NoEdit /\ edit \in EditTypes /\ edit.at = "store" /\ Abort
      /\ split' = split /\ (~spoiled' => ~spoiled)
      /\ edit.undo \in BOOLEAN
  <2>1. edit # NoEdit /\ edit \in EditTypes /\ edit.at = "store" /\ Abort /\ split' = split
    BY DEF WriteFails, AccountInv, ShapeInv
  <2>2. spoiled' = (spoiled \/ edit.undo) \/ spoiled' = TRUE
    BY DEF WriteFails
  <2> QED
    BY <2>1, <2>2, EditShape
<1>2. /\ edit.name \in Names /\ metaFile \in [Names -> Rows] /\ keyFile \in [Names -> Nat]
  BY <1>1, EditShape DEF AccountInv, ShapeInv
<1>3. \A n \in Names \ {edit.name} : metaFile'[n] = metaFile[n] /\ keyFile'[n] = keyFile[n]
  <2>1. \/ Replace(PutBack, edit.was.row, edit.was.key)
        \/ /\ metaFile' \in {metaFile, [metaFile EXCEPT ![edit.name] = edit.row],
                             [metaFile EXCEPT ![edit.name] = edit.was.row]}
           /\ keyFile' \in {keyFile, [keyFile EXCEPT ![edit.name] = edit.key],
                            [keyFile EXCEPT ![edit.name] = edit.was.key]}
    BY DEF WriteFails, diskVars
  <2>2. CASE Replace(PutBack, edit.was.row, edit.was.key)
    BY <1>1, <2>2, ReplacedFiles
  <2> QED
    BY <1>2, <2>1, <2>2
<1>4. ~split' /\ ~spoiled' =>
        /\ metaFile'[edit.name] = edit.was.row /\ keyFile'[edit.name] = edit.was.key
        /\ live[edit.name] = Served(edit.name, edit.was.row, edit.was.key)
        /\ edit.was.row = NoRow => edit.was.key = 0
  <2>1. SUFFICES ASSUME ~split', ~spoiled'
                 PROVE  /\ metaFile'[edit.name] = edit.was.row /\ keyFile'[edit.name] = edit.was.key
                        /\ live[edit.name] = Served(edit.name, edit.was.row, edit.was.key)
                        /\ edit.was.row = NoRow => edit.was.key = 0
    OBVIOUS
  <2>2. Replace(PutBack, edit.was.row, edit.was.key) /\ ~edit.undo /\ Stage
    BY <1>1, <2>1 DEF WriteFails, StepInv
  <2>3. /\ metaFile'[edit.name] = IF "row" \in edit.written THEN edit.was.row ELSE metaFile[edit.name]
        /\ keyFile'[edit.name] = IF "key" \in edit.written THEN edit.was.key ELSE keyFile[edit.name]
    BY <1>1, <2>2, ReplacedFiles DEF PutBack
  <2> QED
    BY <2>2, <2>3 DEF Stage
<1> QED
  BY <1>1, <1>3, <1>4, EndsAsBefore

LEMMA RouteInStep ==
  ASSUME AccountInv, StepInv, Route
  PROVE  StepInv'
<1>1. /\ edit # NoEdit /\ edit \in EditTypes /\ edit.at = "route" /\ edit.name \in Names
      /\ UNCHANGED <<metaFile, keyFile, split, spoiled>>
      /\ live \in [Names -> Clients \cup {None}]
  BY EditShape DEF Route, AccountInv, ShapeInv, diskVars
<1>2. PICK m : m = edit.name
  OBVIOUS
<1>3. ~split /\ ~spoiled =>
        /\ metaFile[m] = edit.row /\ keyFile[m] = edit.key /\ Stage /\ ~edit.undo
  BY <1>1, <1>2, OrderFiles DEF StepInv, Stage, Both
<1>4. CASE Restore
  <2>1. /\ edit.name \in Names /\ edit.row \in Rows /\ edit.was.row \in Rows
        /\ edit.was.key \in Nat /\ keyFile[edit.name] \in Nat
    BY <1>1, EditShape DEF AccountInv, ShapeInv
  <2>2. PICK t \in Orders, k \in Nat :
          /\ edit' = [edit EXCEPT !.at = "store", !.undo = TRUE, !.written = {},
                               !.row = edit.was.row, !.key = k, !.todo = t,
                               !.was = [row |-> edit.row, key |-> keyFile[edit.name]]]
          /\ k = IF edit.was.row = NoRow THEN 0 ELSE edit.was.key
          /\ FilesOf(t) = Both
    <3> DEFINE t == IF edit.was.row = NoRow THEN <<"row", "key">> ELSE <<"key", "row">>
               k == IF edit.was.row = NoRow THEN 0 ELSE edit.was.key
    <3>1. t \in Orders /\ k \in Nat
      BY <2>1 DEF Orders
    <3>2. 1..2 = {1, 2}
      OBVIOUS
    <3>3. FilesOf(<<"row", "key">>) = Both /\ FilesOf(<<"key", "row">>) = Both
      BY <3>2 DEF FilesOf, Both
    <3> QED
      BY <1>4, <3>1, <3>3 DEF Restore
  <2>3. edit' \in EditTypes /\ edit' # NoEdit
    <3>1. edit' \in EditTypes
      <4>1. edit \in EditTypes /\ edit.row \in Rows /\ edit.was.row \in Rows /\ keyFile[edit.name] \in Nat
        BY <1>1, <2>1
      <4>2. edit' = [edit EXCEPT !.at = "store", !.undo = TRUE, !.written = {},
                               !.row = edit.was.row, !.key = k, !.todo = t,
                               !.was = [row |-> edit.row, key |-> keyFile[edit.name]]]
        BY <2>2
      <4> QED
        BY <4>1, <4>2, EditReturns
    <3> QED
      BY <3>1, EditShape
  <2>4. /\ edit'.name = edit.name /\ edit'.row = edit.was.row /\ edit'.key = k /\ edit'.todo = t
        /\ edit'.written = {} /\ edit'.undo /\ edit'.at = "store"
        /\ edit'.was.row = edit.row /\ edit'.was.key = keyFile[edit.name]
    BY <1>1, <2>1, <2>2 DEF EditTypes
  <2>5. live' = live
    BY <1>4 DEF Restore, routeVars
  <2>6. ~split /\ ~spoiled => Stage'
    BY <1>1, <1>2, <1>3, <2>2, <2>4, <2>5 DEF Stage
  <2> QED
    BY <1>1, <1>2, <2>3, <2>4, <2>5, <2>6, EditStays
<1>5. CASE Committed /\ live' = [live EXCEPT ![edit.name] = edit.client]
  <2>1. live'[m] = edit.client /\ \A n \in Names \ {m} : live'[n] = live[n]
    BY <1>1, <1>2, <1>5
  <2>2. ~split' /\ ~spoiled' => InStep(m)'
    BY <1>1, <1>2, <1>3, <2>1 DEF Stage, InStep
  <2> QED
    BY <1>1, <1>2, <1>5, <2>1, <2>2, EditEnds DEF Committed
<1> QED
  BY <1>4, <1>5 DEF Route

LEMMA RestartInStep ==
  ASSUME AccountInv, StepInv, RestartProcess
  PROVE  StepInv'
<1>1. /\ edit' = NoEdit /\ live' = Configured /\ UNCHANGED <<metaFile, keyFile, spoiled>>
      /\ split' = (split \/ (edit # NoEdit /\ edit.at = "store" /\ edit.written # {}))
  BY DEF RestartProcess, diskVars
<1>2. ASSUME ~split' /\ ~spoiled', NEW n \in Names PROVE InStep(n)'
  <2>1. live'[n] = Served(n, metaFile[n], keyFile[n])
    BY <1>1 DEF Configured, Served
  <2>2. ~split /\ ~spoiled
    BY <1>1, <1>2
  <2>3. CASE edit = NoEdit \/ edit.name # n
    BY <1>1, <2>1, <2>2, <2>3 DEF StepInv, InStep
  <2>4. CASE edit # NoEdit /\ edit.name = n
    <3>1. Stage /\ edit.at \in {"discover", "store", "route"}
      BY <2>2, <2>4, EditShape DEF StepInv, AccountInv, ShapeInv
    <3>2. edit.at # "route" => edit.written = {}
      BY <1>1, <1>2, <2>4, <3>1 DEF Stage
    <3>3. metaFile[n] = NoRow => keyFile[n] = 0
      BY <2>4, <3>1, <3>2, OrderFiles DEF Stage, Both
    <3> QED
      BY <1>1, <2>1, <3>3 DEF InStep
  <2> QED
    BY <2>3, <2>4
<1>3. ~split' /\ ~spoiled' => \A n \in Names : InStep(n)'
  BY <1>2
<1> QED
  BY <1>1, <1>3 DEF StepInv

-----------------------------------------------------------------------------
(* The default model.  At most one task is writing; what it has not taken  *)
(* yet is the model selected last.                                         *)

Selections == [nr : 0..MaxChoices, provider : Names \cup {None}]
Tasks == [at : {"none", "new", "writing", "done", "over"}, choice : Selections \cup {None}]

ModelInv ==
    /\ choices \in 0..MaxChoices /\ persistTask \in 0..MaxChoices
    /\ writer \in [1..MaxChoices -> Tasks]
    /\ model \in Selections /\ modelFile \in Selections
    /\ \A i \in 1..MaxChoices : Busy(i) => i = persistTask
    /\ pendingModel # None => pendingModel = model /\ Busy(persistTask)
    /\ \A i \in 1..MaxChoices : writer[i].at = "writing" => writer[i].choice \in Selections
    /\ pendingModel = None =>
         IF Busy(persistTask)
           THEN writer[persistTask].at = "writing" /\ writer[persistTask].choice = model
           ELSE modelFile = model \/ model \in unsaved

(* A task starts, or goes on after a write: it takes the pending model.    *)
LEMMA TurnKeeps ==
  ASSUME ModelInv, NEW i \in 1..MaxChoices, Busy(i), Turns(i), pendingModel' = None,
         UNCHANGED <<choices, persistTask, model>>, modelFile' \in Selections,
         pendingModel = None => modelFile' = model \/ model \in unsaved'
  PROVE  ModelInv'
<1>1. i = persistTask /\ i # 0
  BY DEF ModelInv
<1>2. pendingModel # None => pendingModel = model /\ model \in Selections
  BY DEF ModelInv
<1> DEFINE t == IF pendingModel = None THEN [at |-> "done", choice |-> None]
                                       ELSE [at |-> "writing", choice |-> pendingModel]
<1>3. t \in Tasks /\ t.at \in {"done", "writing"}
      /\ (t.at = "writing" => t.choice = model /\ t.choice \in Selections)
      /\ (pendingModel # None => t.at = "writing")
  BY <1>2 DEF Tasks
<1>4. writer' = [writer EXCEPT ![i] = t]
  BY DEF Turns
<1> HIDE DEF t
<1>5. /\ writer' \in [1..MaxChoices -> Tasks] /\ writer'[i] = t
      /\ \A j \in 1..MaxChoices : j # i => writer'[j] = writer[j]
  BY <1>3, <1>4 DEF ModelInv
<1>6. \A j \in 1..MaxChoices : Busy(j)' => j = i
  BY <1>1, <1>5 DEF ModelInv, Busy
<1>7. \A j \in 1..MaxChoices : writer'[j].at = "writing" => writer'[j].choice \in Selections
  BY <1>2, <1>3, <1>5 DEF ModelInv
<1>8. persistTask' = i /\ (Busy(i)' <=> t.at = "writing")
  BY <1>1, <1>3, <1>5 DEF Busy
<1>9. Busy(i)' => writer'[i].at = "writing" /\ writer'[i].choice = model
  BY <1>3, <1>5, <1>8
<1>10. ~Busy(i)' => modelFile' = model \/ model \in unsaved'
  BY <1>3, <1>8
<1> QED
  BY <1>5, <1>6, <1>7, <1>8, <1>9, <1>10 DEF ModelInv

LEMMA SelectStep ==
  ASSUME ModelInv, NEW p \in Names \cup {None}, SelectModel(p)
  PROVE  ModelInv'
<1>1. /\ choices' = choices + 1 /\ choices' \in 1..MaxChoices /\ choices' \in 0..MaxChoices
      /\ model' = [nr |-> choices', provider |-> p] /\ pendingModel' = model'
      /\ model' \in Selections /\ modelFile' = modelFile
  BY ProvidersAssumption DEF SelectModel, ModelInv, Selections
<1>2. pendingModel' # None
  BY <1>1, ProvidersAssumption
<1>3. CASE Busy(persistTask) /\ UNCHANGED <<persistTask, writer>>
  BY <1>1, <1>2, <1>3 DEF ModelInv, Busy
<1>4. CASE /\ ~Busy(persistTask) /\ persistTask' = choices'
           /\ writer' = [writer EXCEPT ![choices'].at = "new"]
  <2>1. \A i \in 1..MaxChoices : ~Busy(i)
    BY <1>4 DEF ModelInv
  <2>2. PICK c \in 1..MaxChoices : c = choices'
    BY <1>1
  <2>3. [writer[c] EXCEPT !.at = "new"] \in Tasks /\ [writer[c] EXCEPT !.at = "new"].at = "new"
    BY <2>2 DEF ModelInv, Tasks
  <2>4. writer' = [writer EXCEPT ![c] = [writer[c] EXCEPT !.at = "new"]]
    BY <1>4, <2>2 DEF ModelInv
  <2>5. /\ writer' \in [1..MaxChoices -> Tasks] /\ writer'[c].at = "new"
        /\ \A i \in 1..MaxChoices : i # c => writer'[i] = writer[i]
    BY <2>3, <2>4 DEF ModelInv
  <2>6. Busy(persistTask)' /\ \A i \in 1..MaxChoices : Busy(i)' => i = persistTask'
    BY <1>4, <2>1, <2>2, <2>5 DEF Busy
  <2> QED
    BY <1>1, <1>2, <1>4, <2>5, <2>6 DEF ModelInv
<1> QED
  BY <1>3, <1>4 DEF SelectModel

LEMMA WriterStep ==
  ASSUME ModelInv, NEW i \in 1..MaxChoices, StartWriter(i) \/ WriteModel(i) \/ WriterFinished(i)
  PROVE  ModelInv'
<1>1. CASE StartWriter(i)
  <2>1. /\ Busy(i) /\ writer[i].at = "new" /\ Turns(i) /\ pendingModel' = None
        /\ UNCHANGED <<choices, persistTask, model, modelFile, unsaved>>
    BY <1>1 DEF StartWriter, Busy
  <2>2. i = persistTask
    BY <2>1 DEF ModelInv
  <2>3. pendingModel = None => modelFile = model \/ model \in unsaved
    BY <2>1, <2>2 DEF ModelInv
  <2>4. modelFile \in Selections
    BY DEF ModelInv
  <2> QED
    BY <2>1, <2>3, <2>4, TurnKeeps
<1>2. CASE WriteModel(i)
  <2>1. /\ Busy(i) /\ writer[i].at = "writing" /\ Turns(i) /\ pendingModel' = None
        /\ UNCHANGED <<choices, persistTask, model>>
        /\ \/ modelFile' = writer[i].choice /\ unsaved' = unsaved
           \/ modelFile' \in {modelFile, writer[i].choice} /\ unsaved' = unsaved \cup {writer[i].choice}
    BY <1>2 DEF WriteModel, Busy
  <2>2. i = persistTask
    BY <2>1 DEF ModelInv
  <2>3. pendingModel = None => modelFile' = model \/ model \in unsaved'
    BY <2>1, <2>2 DEF ModelInv
  <2>4. modelFile' \in Selections
    BY <2>1 DEF ModelInv
  <2> QED
    BY <2>1, <2>3, <2>4, TurnKeeps
<1>3. CASE WriterFinished(i)
  <2>1. /\ writer[i].at = "done" /\ writer' = [writer EXCEPT ![i].at = "over"]
        /\ persistTask' = (IF persistTask = i THEN 0 ELSE persistTask)
        /\ UNCHANGED <<choices, model, modelFile, pendingModel, unsaved>>
    BY <1>3 DEF WriterFinished, Unreferenced
  <2>2. [writer[i] EXCEPT !.at = "over"] \in Tasks /\ [writer[i] EXCEPT !.at = "over"].at = "over"
    BY DEF ModelInv, Tasks
  <2>3. /\ writer' \in [1..MaxChoices -> Tasks] /\ writer'[i].at = "over"
        /\ \A j \in 1..MaxChoices : j # i => writer'[j] = writer[j]
    BY <2>1, <2>2 DEF ModelInv
  <2>4. \A j \in 1..MaxChoices : Busy(j)' <=> Busy(j)
    BY <2>1, <2>3 DEF Busy
  <2>5. ~Busy(i)
    BY <2>1 DEF Busy
  <2>6. Busy(persistTask)' <=> Busy(persistTask)
    <3>1. CASE persistTask = i
      BY <2>1, <2>5, <3>1 DEF Busy
    <3>2. CASE persistTask # i
      BY <2>1, <2>3, <3>2 DEF ModelInv, Busy
    <3> QED
      BY <3>1, <3>2
  <2>7. Busy(persistTask) => persistTask' = persistTask /\ writer'[persistTask] = writer[persistTask]
    BY <2>1, <2>3, <2>5 DEF ModelInv, Busy
  <2>8. /\ \A j \in 1..MaxChoices : Busy(j)' => j = persistTask'
        /\ persistTask' \in 0..MaxChoices
    BY <2>1, <2>4, <2>5, ProvidersAssumption DEF ModelInv
  <2>9. \A j \in 1..MaxChoices : writer'[j].at = "writing" => writer'[j].choice \in Selections
    BY <2>3 DEF ModelInv
  <2> QED
    BY <2>1, <2>3, <2>6, <2>7, <2>8, <2>9 DEF ModelInv
<1> QED
  BY <1>1, <1>2, <1>3

LEMMA ModelStep == ModelInv /\ [ProvidersNext]_providerVars => ModelInv'
<1> SUFFICES ASSUME ModelInv, [ProvidersNext]_providerVars PROVE ModelInv'
  OBVIOUS
<1>1. ASSUME UNCHANGED modelVars PROVE ModelInv'
  BY <1>1 DEF ModelInv, modelVars, Busy
<1>2. CASE RestartProcess
  <2>1. /\ model' = modelFile /\ modelFile' = modelFile /\ pendingModel' = None /\ persistTask' = 0
        /\ writer' = [i \in 1..MaxChoices |-> NoTask] /\ choices' = choices
    BY <1>2 DEF RestartProcess
  <2>2. NoTask \in Tasks /\ NoTask.at = "none"
    BY DEF NoTask, Tasks
  <2> QED
    BY <2>1, <2>2, ProvidersAssumption DEF ModelInv, Busy
<1> QED
  BY <1>1, <1>2, SelectStep, WriterStep
  DEF ProvidersNext, AskEdit, BeginEdit, Discover, WriteFile, WriteFails, Route, ReleaseClient,
      LeaseClient, DrainProviders, CloseRouter, providerVars

LEMMA FilesInit == ProvidersInit => StepInv /\ ModelInv
<1> SUFFICES ASSUME ProvidersInit PROVE StepInv /\ ModelInv
  OBVIOUS
<1>1. StepInv
  BY DEF ProvidersInit, StepInv, InStep, Served, NoRow
<1>2. NoTask \in Tasks /\ NoTask.at = "none"
  BY DEF NoTask, Tasks
<1>3. ModelInv
  BY <1>2, ProvidersAssumption DEF ProvidersInit, ModelInv, Busy, Selections
<1> QED
  BY <1>1, <1>3

LEMMA FilesNext ==
  AccountInv /\ StepInv /\ ModelInv /\ [ProvidersNext]_providerVars => StepInv' /\ ModelInv'
<1> SUFFICES ASSUME AccountInv, StepInv, ModelInv, [ProvidersNext]_providerVars
             PROVE  StepInv'
  BY ModelStep
<1>1. ASSUME UNCHANGED <<metaFile, keyFile, edit, live, split, spoiled>> PROVE StepInv'
  BY <1>1, RoutesStay
<1> QED
  BY <1>1, BeginInStep, DiscoverInStep, WriteInStep, FailInStep, RouteInStep, RestartInStep
  DEF ProvidersNext, AskEdit, ReleaseClient, LeaseClient, SelectModel, StartWriter, WriteModel,
      WriterFinished, DrainProviders, CloseRouter, providerVars, diskVars, routeVars

(* Whenever no edit is under way the two provider files and the routes     *)
(* agree, and a model whose writers are through is the model in its file.  *)
THEOREM FilesTellTheRoutes == ProvidersSpec => []FilesInStep
<1>1. ASSUME AccountInv, StepInv, ModelInv PROVE FilesInStep
  <2>1. ASSUME edit = NoEdit, ~split, ~spoiled PROVE live = Configured
    <3>1. \A n \in Names : live[n] = Configured[n]
      BY <1>1, <2>1 DEF StepInv, InStep, Served, Configured
    <3> QED
      BY <1>1, <3>1 DEF AccountInv, ShapeInv, Configured
  <2>2. (\A i \in 1..MaxChoices : ~Busy(i)) => modelFile = model \/ model \in unsaved
    BY <1>1 DEF ModelInv, Busy
  <2> QED
    BY <2>1, <2>2 DEF FilesInStep
<1> QED
  BY <1>1, AccountInit, AccountNext, FilesInit, FilesNext, PTL DEF ProvidersSpec

-----------------------------------------------------------------------------
(* PaidSessions: the operations on a table of sessions                     *)

Tables == [Payments -> Entries]

LEMMA EntryShape ==
  ASSUME NEW e \in Entries
  PROVE  /\ e.expires \in {0} \cup Expiries /\ e.credits \in 0..Credits /\ e.row \in BOOLEAN
         /\ e.expires \in Nat /\ e.credits \in Nat
  BY ConfigAssumption DEF Entries, Expiries

(* Two tables redeem the same payments for the same sessions.              *)
SameExpiry(s, t) == \A p \in Payments : s[p].expires = t[p].expires

LEMMA EntryWithoutRow ==
  ASSUME NEW s \in Tables, NEW p \in Payments
  PROVE  /\ DropRow(s, p) \in Tables
         /\ SameExpiry(DropRow(s, p), s)
<1> DEFINE e == [expires |-> s[p].expires, credits |-> 0, row |-> FALSE]
<1>1. e \in Entries
  BY ConfigAssumption DEF Tables, Entries
<1> QED
  BY <1>1 DEF DropRow, Tables, SameExpiry

LEMMA CurrentTable ==
  ASSUME NEW s \in Tables
  PROVE  Current(s) \in Tables /\ SameExpiry(Current(s), s)
<1>1. ASSUME NEW p \in Payments
      PROVE  Current(s)[p] \in Entries /\ Current(s)[p].expires = s[p].expires
  BY EntryWithoutRow DEF Current, Tables, SameExpiry
<1> QED
  BY <1>1 DEF Current, Tables, SameExpiry

LEMMA DebitedTable ==
  ASSUME NEW s \in Tables, NEW p \in Payments, s[p].credits >= 1
  PROVE  Debited(s, p) \in Tables /\ SameExpiry(Debited(s, p), s)
<1>1. [s[p] EXCEPT !.credits = @ - 1] \in Entries
  BY ConfigAssumption DEF Tables, Entries
<1> QED
  BY <1>1 DEF Debited, Tables, Entries, SameExpiry

LEMMA CreditedTable ==
  ASSUME NEW s \in Tables, NEW p \in Payments, s[p].credits + 1 <= Credits
  PROVE  Credited(s, p) \in Tables /\ SameExpiry(Credited(s, p), s)
<1>1. [s[p] EXCEPT !.credits = @ + 1] \in Entries
  BY ConfigAssumption DEF Tables, Entries
<1> QED
  BY <1>1 DEF Credited, Tables, Entries, SameExpiry

-----------------------------------------------------------------------------
(* The store.  The cache of a fresh worker agrees with the file about what *)
(* every payment was redeemed for.                                         *)

StoreInv ==
    /\ disk \in Tables /\ cache \in [Workers -> Tables] /\ fresh \subseteq Workers
    /\ clock \in 0..MaxTime
    /\ \A w \in fresh : SameExpiry(cache[w], disk)

(* A step of the store that redeems nothing.                               *)
StoreStep ==
    /\ disk' \in Tables /\ cache' \in [Workers -> Tables] /\ fresh' \subseteq Workers
    /\ \A w \in fresh' : SameExpiry(cache'[w], disk')
Steady == StoreStep /\ SameExpiry(disk', disk)

LEMMA ViewAgrees ==
  ASSUME StoreInv, NEW w \in Workers
  PROVE  View(w) \in Tables /\ SameExpiry(View(w), disk)
  BY CurrentTable DEF View, StoreInv

LEMMA NewEntryType ==
  ASSUME StoreInv
  PROVE  NewEntry \in Entries /\ NewEntry.expires \in Expiries
  BY ConfigAssumption DEF NewEntry, Entries, Expiries, StoreInv

LEMMA ReadSteady ==
  ASSUME StoreInv, NEW w \in Workers, NEW s \in Tables, SameExpiry(s, disk), Read(w, s)
  PROVE  Steady
  BY DEF StoreInv, Read, Holds, Steady, StoreStep, SameExpiry

LEMMA UnreadableSteady ==
  ASSUME StoreInv, NEW w \in Workers, Unreadable(w)
  PROVE  Steady
  BY DEF StoreInv, Unreadable, Steady, StoreStep, SameExpiry

LEMMA WrittenStep ==
  ASSUME StoreInv, NEW w \in Workers, NEW s \in Tables, Written(w, s)
  PROVE  StoreStep /\ SameExpiry(disk', s)
  BY CurrentTable DEF StoreInv, Written, Holds, StoreStep, SameExpiry

LEMMA UnsyncedStep ==
  ASSUME StoreInv, NEW w \in Workers, NEW s \in Tables, NEW r \in Tables, Unsynced(w, s, r)
  PROVE  StoreStep /\ SameExpiry(disk', s)
  BY CurrentTable DEF StoreInv, Unsynced, Holds, StoreStep, SameExpiry

LEMMA AbsentSteady ==
  ASSUME StoreInv, NEW w \in Workers, NEW t \in Tokens, Absent(w, t) \/ AbsentFails(w, t)
  PROVE  Steady
<1> DEFINE gone == DropRow(View(w), t.payment)
<1>1. View(w) \in Tables /\ SameExpiry(View(w), disk)
  BY ViewAgrees
<1>2. gone \in Tables /\ SameExpiry(gone, disk)
  BY <1>1, EntryWithoutRow DEF Tokens, SameExpiry
<1> HIDE DEF gone
<1>3. \/ Read(w, View(w)) \/ Read(w, gone) \/ Unreadable(w)
      \/ Written(w, gone) \/ Unsynced(w, gone, gone)
  BY DEF Absent, AbsentFails, Unwritten, gone
<1> QED
  BY <1>1, <1>2, <1>3, ReadSteady, UnreadableSteady, WrittenStep, UnsyncedStep
  DEF Steady, SameExpiry

-----------------------------------------------------------------------------
(* Payments *)

RequestTypes == [Requests -> Active \cup {Idle}]

PayInv ==
    /\ StoreInv
    /\ request \in RequestTypes
    /\ told \subseteq Tokens
    /\ OneSessionPerPayment

LEMMA SteadyKeeps ==
  ASSUME PayInv, Steady, clock' = clock, told' = told, request' \in RequestTypes
  PROVE  PayInv'
<1>1. \A t \in told : t.payment \in Payments
  BY DEF PayInv, Tokens
<1> QED
  BY <1>1 DEF PayInv, StoreInv, Steady, StoreStep, SameExpiry, OneSessionPerPayment

(* Only a payment for which no token was handed out is redeemed anew.      *)
LEMMA RedeemsOnce ==
  ASSUME PayInv, NEW w \in Workers, NEW p \in Payments, ~Redeemed(w, p), StoreStep,
         SameExpiry(disk', [View(w) EXCEPT ![p] = NewEntry])
  PROVE  /\ \A t \in told : disk'[t.payment].expires = t.expires
         /\ disk'[p].expires = NewEntry.expires
<1>1. View(w) \in Tables /\ SameExpiry(View(w), disk)
  BY ViewAgrees DEF PayInv
<1>2. disk[p].expires = 0
  BY <1>1 DEF Redeemed, SameExpiry
<1>3. ASSUME NEW t \in told PROVE disk'[t.payment].expires = t.expires
  <2>1. t.payment \in Payments /\ t.expires # 0 /\ disk[t.payment].expires = t.expires
    BY <1>3, ConfigAssumption DEF PayInv, Tokens, Expiries, OneSessionPerPayment
  <2>2. t.payment # p
    BY <1>2, <2>1
  <2> QED
    BY <1>1, <2>1, <2>2 DEF SameExpiry, Tables
<1>4. disk'[p].expires = NewEntry.expires
  BY <1>1 DEF SameExpiry, Tables
<1> QED
  BY <1>3, <1>4

LEMMA NewTable ==
  ASSUME StoreInv, NEW w \in Workers, NEW p \in Payments
  PROVE  [View(w) EXCEPT ![p] = NewEntry] \in Tables
  BY ViewAgrees, NewEntryType DEF Tables

LEMMA PayStep ==
  ASSUME PayInv, NEW w \in Workers, NEW p \in Payments,
         Pay(w, p) \/ PayAgain(w, p) \/ PayFails(w, p)
  PROVE  PayInv'
<1> DEFINE new == [View(w) EXCEPT ![p] = NewEntry]
<1>0. /\ StoreInv /\ new \in Tables /\ View(w) \in Tables /\ SameExpiry(View(w), disk)
      /\ clock' = clock /\ request' = request /\ request' \in RequestTypes
  BY NewTable, ViewAgrees DEF PayInv, Pay, PayAgain, PayFails
<1>1. CASE PayAgain(w, p)
  <2>1. Steady
    BY <1>0, <1>1, ReadSteady DEF PayAgain
  <2>2. View(w)[p].expires \in Expiries /\ disk[p].expires = View(w)[p].expires
    BY <1>0, <1>1, EntryShape DEF PayAgain, Redeemed, Tables, SameExpiry
  <2>3. \A t \in told' : t \in told \/ t = [payment |-> p, expires |-> View(w)[p].expires]
    BY <1>1 DEF PayAgain
  <2>4. ASSUME NEW t \in told'
        PROVE  t \in Tokens /\ disk'[t.payment].expires = t.expires
    <3>1. CASE t \in told
      BY <3>1, <2>1 DEF PayInv, OneSessionPerPayment, Tokens, Steady, SameExpiry
    <3>2. CASE t = [payment |-> p, expires |-> View(w)[p].expires]
      BY <3>2, <2>1, <2>2 DEF Tokens, Steady, SameExpiry
    <3> QED
      BY <2>3, <3>1, <3>2
  <2> QED
    BY <1>0, <2>1, <2>4 DEF PayInv, StoreInv, Steady, StoreStep, OneSessionPerPayment
<1>2. CASE Pay(w, p)
  <2>1. StoreStep /\ SameExpiry(disk', new)
    BY <1>0, <1>2, WrittenStep DEF Pay
  <2>2. /\ \A t \in told : disk'[t.payment].expires = t.expires
        /\ disk'[p].expires = NewEntry.expires
    BY <1>2, <2>1, RedeemsOnce DEF Pay
  <2>3. [payment |-> p, expires |-> NewEntry.expires] \in Tokens
    BY <1>0, NewEntryType DEF Tokens
  <2> QED
    BY <1>0, <1>2, <2>1, <2>2, <2>3 DEF Pay, PayInv, StoreInv, StoreStep, OneSessionPerPayment
<1>3. CASE PayFails(w, p)
  <2>1. told' = told
    BY <1>3 DEF PayFails
  <2>2. CASE Unreadable(w) \/ Read(w, View(w))
    <3>1. Steady
      BY <1>0, <2>2, UnreadableSteady, ReadSteady
    <3> QED
      BY <1>0, <2>1, <3>1, SteadyKeeps
  <2>3. CASE ~Redeemed(w, p) /\ Unsynced(w, new, View(w))
    <3>1. StoreStep /\ SameExpiry(disk', new)
      BY <1>0, <2>3, UnsyncedStep
    <3>2. \A t \in told : disk'[t.payment].expires = t.expires
      BY <2>3, <3>1, RedeemsOnce
    <3> QED
      BY <1>0, <2>1, <3>1, <3>2 DEF PayInv, StoreInv, StoreStep, OneSessionPerPayment
  <2> QED
    BY <1>3, <2>2, <2>3 DEF PayFails, Fails, Unwritten
<1> QED
  BY <1>1, <1>2, <1>3

-----------------------------------------------------------------------------
(* Requests *)

LEMMA MoveType ==
  ASSUME request \in RequestTypes, NEW r \in Requests
  PROVE  /\ Ends(r) => request' \in RequestTypes
         /\ \A pc \in {"checked", "running", "refunding"} :
              request[r] \in Active /\ Moves(r, pc) => request' \in RequestTypes
<1>1. ASSUME NEW pc \in {"checked", "running", "refunding"}, request[r] \in Active
      PROVE  [request[r] EXCEPT !.pc = pc] \in Active
  BY <1>1 DEF Active
<1> QED
  BY <1>1 DEF Ends, Moves, RequestTypes

LEMMA ActiveRequest ==
  ASSUME request \in RequestTypes, NEW r \in Requests, request[r].pc # "idle"
  PROVE  request[r] \in Active /\ request[r].worker \in Workers /\ request[r].token \in Tokens
<1>1. request[r] \in Active
  BY DEF RequestTypes, Idle
<1> QED
  BY <1>1 DEF Active

LEMMA CheckStep ==
  ASSUME PayInv, NEW r \in Requests, NEW w \in Workers, NEW t \in told,
         Check(r, w, t) \/ CheckRefused(r, w, t) \/ CheckFails(r, w, t)
  PROVE  PayInv'
<1>0. StoreInv /\ t \in Tokens /\ View(w) \in Tables /\ SameExpiry(View(w), disk)
  BY ViewAgrees DEF PayInv
<1>1. Read(w, View(w)) \/ Absent(w, t) \/ AbsentFails(w, t) \/ Unreadable(w)
  BY DEF Check, CheckRefused, CheckFails
<1>2. Steady
  BY <1>0, <1>1, ReadSteady, AbsentSteady, UnreadableSteady
<1>3. request' \in RequestTypes
  BY <1>0 DEF Check, CheckRefused, CheckFails, PayInv, RequestTypes, Active
<1>4. told' = told /\ clock' = clock
  BY DEF Check, CheckRefused, CheckFails, history
<1> QED
  BY <1>2, <1>3, <1>4, SteadyKeeps

RequestStep(r) ==
    \/ Charge(r) \/ ChargeRefused(r) \/ ChargeFails(r)
    \/ Answer(r) \/ AnswerFails(r) \/ HandlerFails(r)
    \/ Refund(r) \/ RefundRefused(r) \/ RefundFails(r)

LEMMA RequestKeeps ==
  ASSUME PayInv, NEW r \in Requests, RequestStep(r)
  PROVE  PayInv'
<1> DEFINE w == request[r].worker  t == request[r].token  p == t.payment
<1>0. StoreInv /\ request \in RequestTypes
  BY DEF PayInv
<1>1. request[r] \in Active /\ w \in Workers /\ t \in Tokens /\ p \in Payments
  <2>1. request[r].pc # "idle"
    BY DEF RequestStep, Charge, ChargeRefused, ChargeFails, Answer, AnswerFails, HandlerFails,
           Refund, RefundRefused, RefundFails, In
  <2> QED
    BY <1>0, <2>1, ActiveRequest DEF Tokens
<1>2. View(w) \in Tables /\ SameExpiry(View(w), disk)
  BY <1>0, <1>1, ViewAgrees
<1>3. told' = told /\ clock' = clock
  BY DEF RequestStep, Charge, ChargeRefused, ChargeFails, Answer, AnswerFails, HandlerFails,
         Refund, RefundRefused, RefundFails, history
<1>4. request' \in RequestTypes
  BY <1>0, <1>1, MoveType
  DEF RequestStep, Charge, ChargeRefused, ChargeFails, Answer, AnswerFails, HandlerFails,
      Refund, RefundRefused, RefundFails
<1>5. CASE \/ Read(w, View(w)) \/ Absent(w, t) \/ AbsentFails(w, t) \/ Unreadable(w)
           \/ UNCHANGED store
  <2>1. UNCHANGED store => Steady
    BY <1>0 DEF store, Steady, StoreStep, StoreInv, SameExpiry
  <2>2. Steady
    BY <1>0, <1>1, <1>2, <1>5, <2>1, ReadSteady, AbsentSteady, UnreadableSteady
  <2> QED
    BY <2>2, <1>3, <1>4, SteadyKeeps
<1>6. ASSUME NEW s \in Tables, SameExpiry(s, disk), Written(w, s) \/ Unsynced(w, s, View(w))
      PROVE  PayInv'
  <2>1. Steady
    BY <1>0, <1>1, <1>2, <1>6, WrittenStep, UnsyncedStep DEF Steady, SameExpiry
  <2> QED
    BY <2>1, <1>3, <1>4, SteadyKeeps
<1>7. CASE Enough(w, p) /\ (\/ Written(w, Debited(View(w), p))
                           \/ Unsynced(w, Debited(View(w), p), View(w)))
  <2>1. Debited(View(w), p) \in Tables /\ SameExpiry(Debited(View(w), p), disk)
    BY <1>1, <1>2, <1>7, DebitedTable DEF Enough, SameExpiry
  <2> QED
    BY <2>1, <1>6, <1>7
<1>8. CASE Fits(w, p) /\ (\/ Written(w, Credited(View(w), p))
                         \/ Unsynced(w, Credited(View(w), p), View(w)))
  <2>1. Credited(View(w), p) \in Tables /\ SameExpiry(Credited(View(w), p), disk)
    BY <1>1, <1>2, <1>8, CreditedTable DEF Fits, SameExpiry
  <2> QED
    BY <2>1, <1>6, <1>8
<1> HIDE DEF w, t, p
<1> QED
  BY <1>5, <1>7, <1>8
  DEF RequestStep, Charge, ChargeRefused, ChargeFails, Answer, AnswerFails, HandlerFails,
      Refund, RefundRefused, RefundFails, Unwritten, w, t, p

LEMMA CrashOrTick ==
  ASSUME PayInv, (\E w \in Workers : Crash(w)) \/ Tick \/ UNCHANGED vars
  PROVE  PayInv'
<1>1. CASE \E w \in Workers : Crash(w)
  <2>1. PICK w \in Workers : Crash(w)
    BY <1>1
  <2>2. Steady
    BY <2>1 DEF Crash, PayInv, StoreInv, Steady, StoreStep, SameExpiry
  <2>3. request' \in RequestTypes
    BY <2>1 DEF Crash, PayInv, RequestTypes
  <2> QED
    BY <2>1, <2>2, <2>3, SteadyKeeps DEF Crash
<1>2. CASE Tick
  <2>1. clock' \in 0..MaxTime
    BY <1>2, ConfigAssumption DEF Tick, PayInv, StoreInv
  <2> QED
    BY <1>2, <2>1 DEF Tick, store, history, PayInv, StoreInv, SameExpiry, OneSessionPerPayment
<1>3. CASE UNCHANGED vars
  BY <1>3 DEF vars, PayInv, StoreInv, SameExpiry, OneSessionPerPayment
<1> QED
  BY <1>1, <1>2, <1>3

LEMMA PayInit == Init => PayInv
<1> SUFFICES ASSUME Init PROVE PayInv
  OBVIOUS
<1>1. NotRedeemed \in Entries
  BY ConfigAssumption DEF NotRedeemed, Entries
<1>2. disk \in Tables /\ cache = [w \in Workers |-> disk] /\ clock \in 0..MaxTime
  BY <1>1, ConfigAssumption DEF Init, Tables
<1> QED
  BY <1>2 DEF Init, PayInv, StoreInv, RequestTypes, OneSessionPerPayment

(* A token handed out stays the one its payment is redeemed for: no fault, *)
(* restart, other worker or expiry lets a payment buy a second session.    *)
THEOREM PaymentsRedeemedOnce == Spec => []OneSessionPerPayment
<1>1. PayInv /\ [Next]_vars => PayInv'
  BY PayStep, CheckStep, RequestKeeps, CrashOrTick DEF Next, RequestStep, PayInv
<1>2. PayInv => OneSessionPerPayment
  BY DEF PayInv
<1> QED
  BY <1>1, <1>2, PayInit, PTL DEF Spec

-----------------------------------------------------------------------------
(* The account of every payment                                            *)


(* A copy of the table differs from the file in expired sessions only.     *)
Same(s, p)   == s[p].expires = disk[p].expires /\ (s[p] = disk[p] \/ Expired(disk[p]))
Agrees(s)    == \A p \in Payments : Same(s, p)

Used(p) == Cardinality(Outstanding(p)) + served[p] + lost[p]

EntryInv(p) ==
    /\ disk[p].row => disk[p].expires # 0 /\ disk[p].credits + Used(p) = Credits
    /\ ~disk[p].row => Used(p) <= Credits /\ (disk[p].expires # 0 => Expired(disk[p]))
    /\ disk[p].expires = 0 => Used(p) = 0
    /\ lost[p] > 0 => faulted \/ Expired(disk[p])

CreditInv ==
    /\ PayInv
    /\ served \in [Payments -> Nat] /\ lost \in [Payments -> Nat] /\ faulted \in BOOLEAN
    /\ \A r \in Requests : request[r].pc # "idle" => request[r].token \in told
    /\ \A w \in fresh : Agrees(cache[w])
    /\ \A p \in Payments : EntryInv(p)

(* What a step of the store leaves of the session of a payment, unless it  *)
(* is the one that the step is about.                                      *)
Kept(p) ==
    /\ disk'[p].expires = disk[p].expires
    /\ disk'[p] = disk[p] \/ (~disk'[p].row /\ Expired(disk[p]))

AllFreshAgree == \A w \in fresh' : \A p \in Payments :
    cache'[w][p].expires = disk'[p].expires /\ (cache'[w][p] = disk'[p] \/ Expired(disk'[p]))

LEMMA ExpiryTypes ==
  ASSUME PayInv, NEW p \in Payments
  PROVE  clock \in Nat /\ disk[p] \in Entries /\ disk[p].expires \in Nat /\ disk[p].credits \in Nat
         /\ disk[p].row \in BOOLEAN
  BY EntryShape, ConfigAssumption DEF PayInv, StoreInv, Tables

LEMMA CurrentAt ==
  ASSUME NEW s \in Tables, NEW p \in Payments
  PROVE  /\ Current(s)[p].expires = s[p].expires
         /\ Current(s)[p] = s[p] \/ (~Current(s)[p].row /\ s[p].row /\ Expired(s[p]))
         /\ s[p].row /\ Expired(s[p]) => ~Current(s)[p].row
  BY DEF Current, DropRow, Tables

LEMMA ViewSame ==
  ASSUME CreditInv, NEW w \in Workers
  PROVE  View(w) \in Tables /\ Agrees(View(w))
<1>1. View(w) \in Tables
  BY ViewAgrees DEF CreditInv, PayInv
<1>2. disk \in Tables /\ \A p \in Payments : Same(Current(disk), p)
  BY CurrentAt DEF CreditInv, PayInv, StoreInv, Same
<1> QED
  BY <1>1, <1>2 DEF View, CreditInv, Agrees

LEMMA DropSame ==
  ASSUME NEW s \in Tables, Agrees(s), NEW p \in Payments, Expired(s[p])
  PROVE  DropRow(s, p) \in Tables /\ Agrees(DropRow(s, p))
<1>1. DropRow(s, p) \in Tables
  BY EntryWithoutRow
<1>2. Expired(disk[p])
  BY DEF Agrees, Same, Expired
<1>3. ASSUME NEW q \in Payments PROVE Same(DropRow(s, p), q)
  BY <1>2 DEF Agrees, Same, DropRow, Tables
<1> QED
  BY <1>1, <1>3 DEF Agrees

(* The file is replaced by s without its expired rows.                     *)
LEMMA WrittenKeeps ==
  ASSUME CreditInv, NEW w \in Workers, NEW s \in Tables, clock' = clock,
         Written(w, s) \/ \E r \in Tables : Unsynced(w, s, r)
  PROVE  /\ AllFreshAgree
         /\ disk' = Current(s)
         /\ \A p \in Payments : Same(s, p) => Kept(p)
<1>1. disk' = Current(s)
  BY DEF Written, Unsynced
<1>2. ASSUME NEW v \in fresh', NEW p \in Payments
      PROVE  cache'[v][p].expires = disk'[p].expires /\ (cache'[v][p] = disk'[p] \/ Expired(disk'[p]))
  <2>1. v = w /\ cache' = [cache EXCEPT ![w] = s]
    BY DEF Written, Unsynced, Holds
  <2>2. cache'[v] = s
    BY <2>1 DEF CreditInv, PayInv, StoreInv
  <2> QED
    BY <1>1, <2>2, CurrentAt DEF Expired
<1>3. ASSUME NEW p \in Payments, Same(s, p) PROVE Kept(p)
  <2>1. disk[p] \in Entries /\ s[p] \in Entries
    BY DEF CreditInv, PayInv, StoreInv, Tables
  <2>2. Expired(s[p]) <=> Expired(disk[p])
    BY <1>3 DEF Same, Expired
  <2>3. CASE s[p] = disk[p]
    <3>1. Current(s)[p].expires = disk[p].expires
      BY <2>3, CurrentAt
    <3>2. Current(s)[p] = disk[p] \/ (~Current(s)[p].row /\ Expired(disk[p]))
      BY <2>3, CurrentAt
    <3> QED
      BY <1>1, <3>1, <3>2 DEF Kept
  <2>4. CASE s[p] # disk[p]
    <3>1. ~Current(s)[p].row
      BY <1>3, <2>1, <2>2, <2>4, CurrentAt DEF Same, Entries
    <3> QED
      BY <1>1, <1>3, <2>4, <3>1, CurrentAt DEF Kept, Same
  <2> QED
    BY <2>3, <2>4
<1> QED
  BY <1>1, <1>2, <1>3 DEF AllFreshAgree

LEMMA ReadKeeps ==
  ASSUME CreditInv, NEW w \in Workers, clock' = clock,
         \/ Unreadable(w) \/ UNCHANGED store
         \/ \E s \in Tables : Agrees(s) /\ Read(w, s)
  PROVE  AllFreshAgree /\ disk' = disk /\ \A p \in Payments : Kept(p)
<1>1. disk' = disk
  BY DEF Unreadable, store, Read
<1>2. ASSUME NEW v \in fresh'
      PROVE  Agrees(cache'[v])
  BY DEF Unreadable, store, Read, Holds, CreditInv, PayInv, StoreInv
<1>3. AllFreshAgree
  BY <1>1, <1>2 DEF AllFreshAgree, Agrees, Same
<1> QED
  BY <1>1, <1>3 DEF Kept

LEMMA AbsentKeeps ==
  ASSUME CreditInv, NEW w \in Workers, NEW t \in Tokens, clock' = clock, ~Usable(w, t),
         Absent(w, t) \/ AbsentFails(w, t)
  PROVE  AllFreshAgree /\ \A p \in Payments : Kept(p)
<1> DEFINE gone == DropRow(View(w), t.payment)
<1>1. View(w) \in Tables /\ Agrees(View(w)) /\ t.payment \in Payments
  BY ViewSame DEF Tokens
<1>2. CASE Session(w, t) = {}
  <2>1. Read(w, View(w)) \/ Unreadable(w)
    BY <1>2 DEF Absent, AbsentFails
  <2> QED
    BY <1>1, <2>1, ReadKeeps
<1>3. CASE Session(w, t) # {}
  <2>1. Expired(View(w)[t.payment])
    BY <1>3 DEF Session, Usable
  <2>2. gone \in Tables /\ Agrees(gone)
    BY <1>1, <2>1, DropSame
  <2>3. Written(w, gone) \/ Unreadable(w) \/ Read(w, gone) \/ Unsynced(w, gone, gone)
    BY <1>3 DEF Absent, AbsentFails, Unwritten
  <2> HIDE DEF gone
  <2>4. CASE Unreadable(w) \/ Read(w, gone)
    BY <2>2, <2>4, ReadKeeps
  <2>5. CASE Written(w, gone) \/ Unsynced(w, gone, gone)
    BY <2>2, <2>5, WrittenKeeps DEF Agrees
  <2> QED
    BY <2>3, <2>4, <2>5
<1> QED
  BY <1>2, <1>3

-----------------------------------------------------------------------------
(* Requests that have been charged                                         *)

Charged(x, p) == x.token.payment = p /\ x.pc \in {"running", "refunding"}

LEMMA OutstandingFinite ==
  ASSUME NEW p
  PROVE  IsFiniteSet(Outstanding(p)) /\ Cardinality(Outstanding(p)) \in Nat
<1>1. Outstanding(p) \in SUBSET Requests
  BY DEF Outstanding
<1> QED
  BY <1>1, ConfigAssumption, FS_Subset, FS_CardinalityType

LEMMA UsedType ==
  ASSUME CreditInv, NEW p \in Payments
  PROVE  /\ Used(p) \in Nat /\ served[p] \in Nat /\ lost[p] \in Nat
         /\ Cardinality(Outstanding(p)) \in Nat
  BY OutstandingFinite DEF Used, CreditInv

LEMMA OutstandingChanges ==
  ASSUME CreditInv, NEW r \in Requests, NEW x, request' = [request EXCEPT ![r] = x],
         NEW p \in Payments
  PROVE  /\ Charged(x, p) /\ ~Charged(request[r], p) =>
              Cardinality(Outstanding(p)') = Cardinality(Outstanding(p)) + 1
         /\ ~Charged(x, p) /\ Charged(request[r], p) =>
              Cardinality(Outstanding(p)') = Cardinality(Outstanding(p)) - 1
         /\ (Charged(x, p) <=> Charged(request[r], p)) =>
              Cardinality(Outstanding(p)') = Cardinality(Outstanding(p))
<1>1. \A q \in Requests : request'[q] = IF q = r THEN x ELSE request[q]
  BY DEF CreditInv, PayInv, RequestTypes
<1>2. Outstanding(p) = {q \in Requests : Charged(request[q], p)}
  BY DEF Outstanding, Charged
<1>3. Outstanding(p)' = {q \in Requests : Charged(request'[q], p)}
  BY DEF Outstanding, Charged
<1> HIDE DEF Charged
<1>4. Outstanding(p)' = IF Charged(x, p) THEN Outstanding(p) \cup {r} ELSE Outstanding(p) \ {r}
  BY <1>1, <1>2, <1>3
<1>5. r \in Outstanding(p) <=> Charged(request[r], p)
  BY <1>2
<1>6. IsFiniteSet(Outstanding(p)) /\ Cardinality(Outstanding(p)) \in Nat
  BY OutstandingFinite
<1>7. Cardinality(Outstanding(p) \cup {r}) =
        IF r \in Outstanding(p) THEN Cardinality(Outstanding(p)) ELSE Cardinality(Outstanding(p)) + 1
  BY <1>6, FS_AddElement
<1>8. Cardinality(Outstanding(p) \ {r}) =
        IF r \in Outstanding(p) THEN Cardinality(Outstanding(p)) - 1 ELSE Cardinality(Outstanding(p))
  BY <1>6, FS_RemoveElement
<1> QED
  BY <1>4, <1>5, <1>7, <1>8

-----------------------------------------------------------------------------
(* The account of one payment                                              *)

LEMMA EntryKept ==
  ASSUME CreditInv, NEW p \in Payments, Kept(p), clock' \in Nat, clock' >= clock,
         Used(p)' = Used(p), faulted => faulted',
         lost'[p] = lost[p] \/ faulted' \/ Expired(disk[p])
  PROVE  EntryInv(p)'
<1>1. EntryInv(p) /\ Used(p) \in Nat /\ disk[p].expires \in Nat /\ disk[p].credits \in Nat /\ clock \in Nat
      /\ Credits \in Nat
  BY UsedType, ExpiryTypes, ConfigAssumption DEF CreditInv
<1>2. Expired(disk[p]) => Expired(disk[p])'
  BY <1>1 DEF Expired, Kept
<1>3. disk'[p].row => disk'[p] = disk[p]
  BY DEF Kept
<1> QED
  BY <1>1, <1>2, <1>3 DEF EntryInv, Kept

LEMMA UsableEntry ==
  ASSUME CreditInv, NEW w \in Workers, NEW t \in told
  PROVE  /\ t.payment \in Payments /\ t \in Tokens
         /\ disk[t.payment].expires = t.expires
         /\ Usable(w, t) => /\ View(w)[t.payment] = disk[t.payment]
                            /\ disk[t.payment].row /\ ~Expired(disk[t.payment])
         /\ ~Usable(w, t) => Expired(disk[t.payment])
<1> DEFINE p == t.payment
<1>1. t \in Tokens /\ p \in Payments /\ t.expires # 0 /\ disk[p].expires = t.expires
  BY ConfigAssumption DEF CreditInv, PayInv, Tokens, Expiries, OneSessionPerPayment
<1>2. Same(View(w), p)
  BY <1>1, ViewSame DEF Agrees
<1>3. View(w)[p].row \in BOOLEAN /\ disk[p].row \in BOOLEAN
  BY <1>1, ViewSame, ExpiryTypes, EntryShape DEF Tables, CreditInv
<1>4. Usable(w, t) <=> View(w)[p].row /\ ~Expired(View(w)[p]) /\ View(w)[p].expires = t.expires
  BY DEF Usable, Session
<1>5. Expired(View(w)[p]) <=> Expired(disk[p])
  BY <1>2 DEF Same, Expired
<1>6. ~disk[p].row => Expired(disk[p])
  BY <1>1 DEF CreditInv, EntryInv
<1> QED
  BY <1>1, <1>2, <1>3, <1>4, <1>5, <1>6 DEF Same

LEMMA DebitKeeps ==
  ASSUME CreditInv, NEW w \in Workers, NEW t \in told, Usable(w, t), Enough(w, t.payment),
         clock' = clock, disk' = Current(Debited(View(w), t.payment)),
         Used(t.payment)' = Used(t.payment) + 1, faulted => faulted',
         lost'[t.payment] = lost[t.payment] \/ faulted'
  PROVE  EntryInv(t.payment)'
<1> DEFINE p == t.payment  s == Debited(View(w), p)
<1>1. p \in Payments /\ View(w)[p] = disk[p] /\ disk[p].row /\ ~Expired(disk[p])
  BY UsableEntry
<1>2. /\ EntryInv(p) /\ Used(p) \in Nat /\ disk[p] \in Entries
      /\ disk[p].credits \in Nat /\ Credits \in Nat
  BY <1>1, UsedType, ExpiryTypes, ConfigAssumption DEF CreditInv
<1>3. s \in Tables
  BY <1>1, ViewSame, DebitedTable DEF Enough
<1>4. /\ s[p].expires = disk[p].expires /\ s[p].credits = disk[p].credits - 1
      /\ s[p].row
  BY <1>1, <1>2, ViewSame DEF Debited, Tables, Entries
<1>5. disk'[p] = s[p]
  BY <1>1, <1>3, <1>4, CurrentAt DEF Expired
<1> QED
  BY <1>1, <1>2, <1>4, <1>5 DEF EntryInv, Expired

LEMMA CreditKeeps ==
  ASSUME CreditInv, NEW w \in Workers, NEW t \in told, Usable(w, t), Fits(w, t.payment),
         clock' = clock, disk' = Current(Credited(View(w), t.payment)),
         Used(t.payment)' = Used(t.payment) - 1, faulted => faulted',
         lost'[t.payment] = lost[t.payment]
  PROVE  EntryInv(t.payment)'
<1> DEFINE p == t.payment  s == Credited(View(w), p)
<1>1. p \in Payments /\ View(w)[p] = disk[p] /\ disk[p].row /\ ~Expired(disk[p])
  BY UsableEntry
<1>2. /\ EntryInv(p) /\ Used(p) \in Nat /\ disk[p] \in Entries
      /\ disk[p].credits \in Nat /\ Credits \in Nat
  BY <1>1, UsedType, ExpiryTypes, ConfigAssumption DEF CreditInv
<1>3. s \in Tables
  BY <1>1, ViewSame, CreditedTable DEF Fits
<1>4. /\ s[p].expires = disk[p].expires /\ s[p].credits = disk[p].credits + 1
      /\ s[p].row
  BY <1>1, <1>2, ViewSame DEF Credited, Tables, Entries
<1>5. disk'[p] = s[p]
  BY <1>1, <1>3, <1>4, CurrentAt DEF Expired
<1> QED
  BY <1>1, <1>2, <1>4, <1>5 DEF EntryInv, Expired

LEMMA OthersSame ==
  ASSUME CreditInv, NEW w \in Workers, NEW p \in Payments, NEW e
  PROVE  \A q \in Payments \ {p} :
           /\ Same([View(w) EXCEPT ![p] = e], q)
           /\ Same(Debited(View(w), p), q) /\ Same(Credited(View(w), p), q)
  BY ViewSame DEF Agrees, Same, Tables, Debited, Credited

LEMMA FreshAgree ==
  ASSUME AllFreshAgree, clock' = clock
  PROVE  \A w \in fresh' : Agrees(cache[w])'
  BY DEF AllFreshAgree, Agrees, Same, Expired

-----------------------------------------------------------------------------
(* The steps                                                               *)

(* A request goes to state x, on the token it is about.                    *)
OwnMove(r, x, t) ==
    /\ request' = [request EXCEPT ![r] = x]
    /\ request[r].token = t /\ (x = Idle \/ x.token = t)
    /\ clock' = clock /\ (faulted => faulted')
    /\ \A q \in Payments \ {t.payment} : served'[q] = served[q] /\ lost'[q] = lost[q]

LEMMA OthersKept ==
  ASSUME CreditInv, NEW r \in Requests, NEW x, NEW t \in told, OwnMove(r, x, t),
         \A q \in Payments \ {t.payment} : Kept(q), EntryInv(t.payment)'
  PROVE  \A q \in Payments : EntryInv(q)'
<1>1. SUFFICES ASSUME NEW q \in Payments, q # t.payment PROVE EntryInv(q)'
  OBVIOUS
<1>2. ~Charged(x, q) /\ ~Charged(request[r], q)
  BY <1>1 DEF Charged, Idle, OwnMove
<1>3. Cardinality(Outstanding(q)') = Cardinality(Outstanding(q))
  BY <1>2, OutstandingChanges DEF OwnMove
<1>4. Used(q)' = Used(q)
  BY <1>1, <1>3 DEF Used, OwnMove
<1>5. clock \in Nat
  BY ExpiryTypes DEF CreditInv
<1> QED
  BY <1>1, <1>4, <1>5, EntryKept DEF OwnMove

(* The charge of the request stays, moves to served or lost, or was none.  *)
LEMMA KeptMove ==
  ASSUME CreditInv, NEW r \in Requests, NEW x, NEW t \in told, OwnMove(r, x, t),
         \A q \in Payments : Kept(q),
         Used(t.payment)' = Used(t.payment),
         lost'[t.payment] = lost[t.payment] \/ faulted' \/ Expired(disk[t.payment])
  PROVE  \A q \in Payments : EntryInv(q)'
<1>1. t.payment \in Payments /\ clock \in Nat
  BY UsableEntry, ExpiryTypes DEF CreditInv, PayInv, Tokens
<1>2. EntryInv(t.payment)'
  BY <1>1, EntryKept DEF OwnMove
<1> QED
  BY <1>2, OthersKept

LEMMA UsedMoves ==
  ASSUME CreditInv, NEW r \in Requests, NEW x, NEW t \in told, OwnMove(r, x, t),
         served'[t.payment] \in Nat, lost'[t.payment] \in Nat
  PROVE  LET p  == t.payment
             d  == (served'[p] - served[p]) + (lost'[p] - lost[p])
             on == request[r].pc \in {"running", "refunding"}
             to == x # Idle /\ x.pc \in {"running", "refunding"}
         IN  /\ (on <=> to) => Used(p)' = Used(p) + d
             /\ on /\ ~to => Used(p)' = Used(p) + d - 1
             /\ ~on /\ to => Used(p)' = Used(p) + d + 1
<1> DEFINE p == t.payment
<1>1. p \in Payments /\ served[p] \in Nat /\ lost[p] \in Nat /\ Cardinality(Outstanding(p)) \in Nat
  BY UsedType DEF CreditInv, PayInv, Tokens
<1>2. Charged(request[r], p) <=> request[r].pc \in {"running", "refunding"}
  BY DEF Charged, OwnMove
<1>3. Charged(x, p) <=> x # Idle /\ x.pc \in {"running", "refunding"}
  BY DEF Charged, OwnMove, Idle
<1>4. Used(p)' = Cardinality(Outstanding(p)') + served'[p] + lost'[p]
  BY DEF Used
<1>5. Used(p) = Cardinality(Outstanding(p)) + served[p] + lost[p]
  BY DEF Used
<1>6. /\ Charged(x, p) /\ ~Charged(request[r], p) =>
              Cardinality(Outstanding(p)') = Cardinality(Outstanding(p)) + 1
      /\ ~Charged(x, p) /\ Charged(request[r], p) =>
              Cardinality(Outstanding(p)') = Cardinality(Outstanding(p)) - 1
      /\ (Charged(x, p) <=> Charged(request[r], p)) =>
              Cardinality(Outstanding(p)') = Cardinality(Outstanding(p))
  BY <1>1, OutstandingChanges DEF OwnMove
<1> HIDE DEF p
<1> QED
  BY <1>1, <1>2, <1>3, <1>4, <1>5, <1>6 DEF p

LEMMA ChargedStep ==
  ASSUME CreditInv, NEW r \in Requests, NEW x, NEW t \in told, OwnMove(r, x, t),
         NEW w \in Workers, Usable(w, t), Enough(w, t.payment),
         \/ Written(w, Debited(View(w), t.payment))
         \/ Unsynced(w, Debited(View(w), t.payment), View(w)),
         Used(t.payment)' = Used(t.payment) + 1,
         lost'[t.payment] = lost[t.payment] \/ faulted'
  PROVE  AllFreshAgree /\ \A q \in Payments : EntryInv(q)'
<1> DEFINE s == Debited(View(w), t.payment)
<1>1. t.payment \in Payments /\ View(w) \in Tables /\ s \in Tables
  BY UsableEntry, ViewSame, DebitedTable DEF Enough
<1>2. AllFreshAgree /\ disk' = Current(s) /\ \A q \in Payments : Same(s, q) => Kept(q)
  BY <1>1, WrittenKeeps DEF OwnMove
<1>3. \A q \in Payments \ {t.payment} : Kept(q)
  BY <1>1, <1>2, OthersSame
<1>4. EntryInv(t.payment)'
  BY <1>2, DebitKeeps DEF OwnMove
<1> QED
  BY <1>2, <1>3, <1>4, OthersKept

LEMMA RefundedStep ==
  ASSUME CreditInv, NEW r \in Requests, NEW x, NEW t \in told, OwnMove(r, x, t),
         NEW w \in Workers, Usable(w, t), Fits(w, t.payment),
         \/ Written(w, Credited(View(w), t.payment))
         \/ Unsynced(w, Credited(View(w), t.payment), View(w)),
         Used(t.payment)' = Used(t.payment) - 1,
         lost'[t.payment] = lost[t.payment]
  PROVE  AllFreshAgree /\ \A q \in Payments : EntryInv(q)'
<1> DEFINE s == Credited(View(w), t.payment)
<1>1. t.payment \in Payments /\ View(w) \in Tables /\ s \in Tables
  BY UsableEntry, ViewSame, CreditedTable DEF Fits
<1>2. AllFreshAgree /\ disk' = Current(s) /\ \A q \in Payments : Same(s, q) => Kept(q)
  BY <1>1, WrittenKeeps DEF OwnMove
<1>3. \A q \in Payments \ {t.payment} : Kept(q)
  BY <1>1, <1>2, OthersSame
<1>4. EntryInv(t.payment)'
  BY <1>2, CreditKeeps DEF OwnMove
<1> QED
  BY <1>2, <1>3, <1>4, OthersKept

LEMMA QuietStep ==
  ASSUME CreditInv, NEW r \in Requests, NEW x, NEW t \in told, OwnMove(r, x, t),
         NEW w \in Workers,
         \/ Unreadable(w) \/ UNCHANGED store \/ Read(w, View(w))
         \/ ~Usable(w, t) /\ (Absent(w, t) \/ AbsentFails(w, t)),
         Used(t.payment)' = Used(t.payment),
         lost'[t.payment] = lost[t.payment] \/ faulted' \/ Expired(disk[t.payment])
  PROVE  AllFreshAgree /\ \A q \in Payments : EntryInv(q)'
<1>1. View(w) \in Tables /\ Agrees(View(w)) /\ t \in Tokens /\ clock' = clock
  BY ViewSame, UsableEntry DEF OwnMove
<1>2. AllFreshAgree /\ \A q \in Payments : Kept(q)
  BY <1>1, ReadKeeps, AbsentKeeps
<1> QED
  BY <1>2, KeptMove

LEMMA BusyToken ==
  ASSUME CreditInv, NEW r \in Requests, RequestStep(r)
  PROVE  /\ request[r] \in Active /\ request[r].worker \in Workers
         /\ request[r].token \in told /\ request[r].token.payment \in Payments
<1>1. request[r].pc # "idle"
  BY DEF RequestStep, Charge, ChargeRefused, ChargeFails, Answer, AnswerFails, HandlerFails,
         Refund, RefundRefused, RefundFails, In
<1> QED
  BY <1>1, ActiveRequest DEF Tokens, CreditInv, PayInv

LEMMA RequestCredits ==
  ASSUME CreditInv, NEW r \in Requests, RequestStep(r), NEW w, NEW t, NEW p,
         w = request[r].worker, t = request[r].token, p = t.payment
  PROVE  AllFreshAgree /\ \A q \in Payments : EntryInv(q)'
<1>1. request[r] \in Active /\ w \in Workers /\ t \in told /\ p \in Payments
  BY BusyToken
<1>2. /\ served[p] \in Nat /\ lost[p] \in Nat /\ Used(p) \in Nat
      /\ served \in [Payments -> Nat] /\ lost \in [Payments -> Nat]
      /\ \A n \in Nat : n + 1 \in Nat
  BY <1>1, UsedType DEF CreditInv
<1>3. ASSUME Ends(r) PROVE request' = [request EXCEPT ![r] = Idle]
  BY <1>3 DEF Ends
<1>4. ASSUME NEW pc \in {"running", "refunding"}, Moves(r, pc)
      PROVE  \E x : request' = [request EXCEPT ![r] = x] /\ x.token = t /\ x.pc = pc /\ x # Idle
  <2> DEFINE x == [request[r] EXCEPT !.pc = pc]
  <2>1. request' = [request EXCEPT ![r] = x] /\ x.token = t /\ x.pc = pc /\ x # Idle
    BY <1>1, <1>4 DEF Moves, Active, Idle
  <2> QED
    BY <2>1
<1>5. ~Usable(w, t) => Expired(disk[p])
  BY <1>1, UsableEntry
<1>6. CASE Charge(r)
  <2>1. /\ Usable(w, t) /\ Enough(w, p) /\ Written(w, Debited(View(w), p)) /\ clock' = clock
        /\ request[r].pc = "checked" /\ served' = served
        /\ \/ Moves(r, "running") /\ UNCHANGED history
           \/ Ends(r) /\ Loses(p) /\ faulted'
    BY <1>6 DEF Charge, In, history
  <2>2. CASE Moves(r, "running") /\ UNCHANGED history
    <3>1. PICK x : OwnMove(r, x, t) /\ x.pc = "running" /\ x # Idle
      BY <1>4, <2>1, <2>2 DEF OwnMove, history
    <3>2. Used(p)' = Used(p) + 1
      BY <1>1, <1>2, <2>1, <2>2, <3>1, UsedMoves DEF history
    <3> QED
      BY <1>1, <2>1, <2>2, <3>1, <3>2, ChargedStep DEF history
  <2>3. CASE Ends(r) /\ Loses(p) /\ faulted'
    <3>1. OwnMove(r, Idle, t) /\ lost'[p] = lost[p] + 1
      BY <1>1, <1>2, <1>3, <2>1, <2>3 DEF OwnMove, Loses
    <3>2. Used(p)' = Used(p) + 1
      BY <1>1, <1>2, <2>1, <3>1, UsedMoves
    <3> QED
      BY <1>1, <2>1, <2>3, <3>1, <3>2, ChargedStep
  <2> QED
    BY <2>1, <2>2, <2>3
<1>7. CASE ChargeRefused(r)
  <2>1. OwnMove(r, Idle, t) /\ lost' = lost /\ served' = served /\ request[r].pc = "checked"
    BY <1>3, <1>7 DEF ChargeRefused, OwnMove, history, In
  <2>2. Used(p)' = Used(p)
    BY <1>1, <1>2, <2>1, UsedMoves
  <2>3. Read(w, View(w)) \/ (~Usable(w, t) /\ Absent(w, t))
    BY <1>7 DEF ChargeRefused
  <2> QED
    BY <1>1, <2>1, <2>2, <2>3, QuietStep
<1>8. CASE ChargeFails(r)
  <2>1. /\ clock' = clock /\ Ends(r) /\ faulted' /\ served' = served /\ request[r].pc = "checked"
        /\ \/ ~Usable(w, t) /\ AbsentFails(w, t) /\ lost' = lost
           \/ Unreadable(w) /\ lost' = lost
           \/ Read(w, View(w)) /\ lost' = lost
           \/ /\ Usable(w, t) /\ Enough(w, p)
              /\ Unsynced(w, Debited(View(w), p), View(w)) /\ Loses(p)
    BY <1>8 DEF ChargeFails, Unwritten, In
  <2>2. OwnMove(r, Idle, t)
    BY <1>1, <1>2, <1>3, <2>1 DEF OwnMove, Loses
  <2>3. CASE lost' = lost
    <3>1. Used(p)' = Used(p)
      BY <1>1, <1>2, <2>1, <2>2, <2>3, UsedMoves
    <3>2. CASE (~Usable(w, t) /\ AbsentFails(w, t)) \/ Unreadable(w) \/ Read(w, View(w))
      BY <1>1, <2>1, <2>2, <3>1, <3>2, QuietStep
    <3>3. CASE Usable(w, t) /\ Enough(w, p) /\ Loses(p)
      <4>1. lost'[p] = lost[p] + 1
        BY <1>1, <1>2, <3>3 DEF Loses
      <4> QED
        BY <1>2, <2>3, <4>1
    <3> QED
      BY <2>1, <3>2, <3>3
  <2>4. CASE Usable(w, t) /\ Enough(w, p) /\ Unsynced(w, Debited(View(w), p), View(w)) /\ Loses(p)
    <3>1. lost'[p] = lost[p] + 1
      BY <1>1, <1>2, <2>4 DEF Loses
    <3>2. Used(p)' = Used(p) + 1
      BY <1>1, <1>2, <2>1, <2>2, <3>1, UsedMoves
    <3> QED
      BY <1>1, <2>1, <2>2, <2>4, <3>2, ChargedStep
  <2> QED
    BY <2>1, <2>3, <2>4
<1>9. CASE Answer(r)
  <2>1. /\ OwnMove(r, Idle, t) /\ lost' = lost /\ served'[p] = served[p] + 1 /\ request[r].pc = "running"
    BY <1>1, <1>2, <1>3, <1>9 DEF Answer, OwnMove, In
  <2>2. Used(p)' = Used(p)
    BY <1>1, <1>2, <2>1, UsedMoves
  <2>3. Read(w, View(w)) \/ (~Usable(w, t) /\ Absent(w, t))
    BY <1>9 DEF Answer
  <2> QED
    BY <1>1, <2>1, <2>2, <2>3, QuietStep
<1>10. CASE AnswerFails(r) \/ HandlerFails(r)
  <2>1. /\ Moves(r, "refunding") /\ clock' = clock /\ (faulted => faulted') /\ lost' = lost /\ served' = served
        /\ request[r].pc = "running"
        /\ Unreadable(w) \/ UNCHANGED store \/ (~Usable(w, t) /\ AbsentFails(w, t))
    BY <1>10 DEF AnswerFails, HandlerFails, history, In
  <2>2. PICK x : OwnMove(r, x, t) /\ x.pc = "refunding" /\ x # Idle
    BY <1>4, <2>1 DEF OwnMove
  <2>3. Used(p)' = Used(p)
    BY <1>1, <1>2, <2>1, <2>2, UsedMoves
  <2> QED
    BY <1>1, <2>1, <2>2, <2>3, QuietStep
<1>11. CASE Refund(r)
  <2>1. /\ OwnMove(r, Idle, t) /\ lost' = lost /\ served' = served /\ request[r].pc = "refunding"
        /\ Usable(w, t) /\ Fits(w, p) /\ Written(w, Credited(View(w), p))
    BY <1>1, <1>2, <1>3, <1>11 DEF Refund, OwnMove, In, history
  <2>2. Used(p)' = Used(p) - 1
    BY <1>1, <1>2, <2>1, UsedMoves
  <2> QED
    BY <1>1, <2>1, <2>2, RefundedStep
<1>12. CASE RefundRefused(r)
  <2>1. /\ Ends(r) /\ clock' = clock /\ faulted' = faulted /\ served' = served /\ Loses(p)
        /\ request[r].pc = "refunding"
        /\ \/ ~Usable(w, t) /\ Absent(w, t)
           \/ Usable(w, t) /\ ~Fits(w, p)
    BY <1>12 DEF RefundRefused, In
  <2>2. OwnMove(r, Idle, t) /\ lost'[p] = lost[p] + 1
    BY <1>1, <1>2, <1>3, <2>1 DEF OwnMove, Loses
  <2>3. Used(p)' = Used(p)
    BY <1>1, <1>2, <2>1, <2>2, UsedMoves
  <2>4. ASSUME Usable(w, t) PROVE Fits(w, p)
    <3>1. View(w)[p] = disk[p] /\ disk[p].row
      BY <1>1, <2>4, UsableEntry
    <3>2. r \in Outstanding(p)
      BY <2>1 DEF Outstanding
    <3>3. Cardinality(Outstanding(p)) # 0 /\ Cardinality(Outstanding(p)) \in Nat
      BY <3>2, OutstandingFinite, FS_EmptySet
    <3>4. disk[p].credits + Used(p) = Credits /\ disk[p].credits \in Nat /\ Credits \in Nat
      BY <1>1, <3>1, ExpiryTypes, ConfigAssumption DEF CreditInv, EntryInv
    <3>5. Used(p) >= 1
      BY <1>2, <3>3 DEF Used
    <3> QED
      BY <1>2, <3>1, <3>4, <3>5 DEF Fits
  <2> QED
    BY <1>1, <1>5, <2>1, <2>2, <2>3, <2>4, QuietStep
<1>13. CASE RefundFails(r)
  <2>1. /\ clock' = clock /\ Ends(r) /\ faulted' /\ served' = served /\ request[r].pc = "refunding"
        /\ \/ /\ (~Usable(w, t) /\ AbsentFails(w, t)) \/ Unreadable(w) \/ Read(w, View(w))
              /\ Loses(p)
           \/ /\ Usable(w, t) /\ Fits(w, p)
              /\ Unsynced(w, Credited(View(w), p), View(w)) /\ lost' = lost
    BY <1>13 DEF RefundFails, Unwritten, In
  <2>2. OwnMove(r, Idle, t)
    BY <1>1, <1>2, <1>3, <2>1 DEF OwnMove, Loses
  <2>3. CASE /\ (~Usable(w, t) /\ AbsentFails(w, t)) \/ Unreadable(w) \/ Read(w, View(w))
             /\ Loses(p)
    <3>1. lost'[p] = lost[p] + 1
      BY <1>1, <1>2, <2>3 DEF Loses
    <3>2. Used(p)' = Used(p)
      BY <1>1, <1>2, <2>1, <2>2, <3>1, UsedMoves
    <3> QED
      BY <1>1, <2>1, <2>2, <2>3, <3>2, QuietStep
  <2>4. CASE Usable(w, t) /\ Fits(w, p) /\ Unsynced(w, Credited(View(w), p), View(w)) /\ lost' = lost
    <3>1. Used(p)' = Used(p) - 1
      BY <1>1, <1>2, <2>1, <2>2, <2>4, UsedMoves
    <3> QED
      BY <1>1, <2>2, <2>4, <3>1, RefundedStep
  <2> QED
    BY <2>1, <2>3, <2>4
<1> QED
  BY <1>6, <1>7, <1>8, <1>9, <1>10, <1>11, <1>12, <1>13 DEF RequestStep

LEMMA Untouched ==
  ASSUME CreditInv, UNCHANGED <<request, served, lost>>, NEW p \in Payments, Kept(p),
         clock' \in Nat, clock' >= clock, faulted => faulted'
  PROVE  EntryInv(p)'
<1>1. Used(p)' = Used(p)
  BY DEF Used, Outstanding
<1> QED
  BY <1>1, EntryKept

LEMMA PayCredits ==
  ASSUME CreditInv, NEW w \in Workers, NEW p \in Payments,
         Pay(w, p) \/ PayAgain(w, p) \/ PayFails(w, p)
  PROVE  AllFreshAgree /\ \A q \in Payments : EntryInv(q)'
<1> DEFINE new == [View(w) EXCEPT ![p] = NewEntry]
<1>1. /\ clock' = clock /\ UNCHANGED <<request, served, lost>> /\ (faulted => faulted')
      /\ clock \in Nat /\ PayInv
  BY ExpiryTypes DEF CreditInv, Pay, PayAgain, PayFails
<1>2. /\ View(w) \in Tables /\ Agrees(View(w)) /\ new \in Tables
      /\ NewEntry \in Entries
  BY ViewSame, NewTable, NewEntryType DEF CreditInv, PayInv
<1>3. CASE Read(w, View(w)) \/ Unreadable(w)
  <2>1. AllFreshAgree /\ \A q \in Payments : Kept(q)
    BY <1>1, <1>2, <1>3, ReadKeeps
  <2> QED
    BY <1>1, <2>1, Untouched
<1>4. CASE ~Redeemed(w, p) /\ (Written(w, new) \/ Unsynced(w, new, View(w)))
  <2>1. AllFreshAgree /\ disk' = Current(new) /\ \A q \in Payments : Same(new, q) => Kept(q)
    BY <1>1, <1>2, <1>4, WrittenKeeps
  <2>2. \A q \in Payments \ {p} : Kept(q)
    BY <2>1, OthersSame
  <2>3. \A q \in Payments \ {p} : EntryInv(q)'
    BY <1>1, <2>2, Untouched
  <2>4. disk[p].expires = 0
    BY <1>2, <1>4 DEF Redeemed, Agrees, Same
  <2>5. Used(p) = 0 /\ lost[p] = 0
    BY <2>4, UsedType DEF CreditInv, EntryInv, Used
  <2>6. /\ new[p] = NewEntry /\ NewEntry.expires # 0 /\ ~Expired(NewEntry)
        /\ NewEntry.credits = Credits /\ NewEntry.row
    <3>1. new[p] = NewEntry
      BY <1>2 DEF Tables
    <3>2. NewEntry.expires = clock + SessionTtl /\ NewEntry.credits = Credits /\ NewEntry.row
      BY DEF NewEntry
    <3>3. NewEntry.expires # 0 /\ ~(clock > NewEntry.expires)
      BY <1>1, <3>2, ConfigAssumption
    <3>4. ~Expired(NewEntry)
      BY <3>3 DEF Expired
    <3> HIDE DEF new
    <3> QED
      BY <3>1, <3>2, <3>3, <3>4
  <2>7. disk'[p] = NewEntry
    <3> HIDE DEF new
    <3>1. Current(new)[p] = new[p] \/ Expired(new[p])
      BY <1>2, CurrentAt
    <3>2. ~Expired(new[p])
      BY <2>6 DEF Expired
    <3> QED
      BY <2>1, <2>6, <3>1, <3>2
  <2>8. Used(p)' = 0 /\ lost'[p] = 0
    BY <1>1, <2>5 DEF Used, Outstanding
  <2>9. EntryInv(p)'
    BY <2>6, <2>7, <2>8, ConfigAssumption DEF EntryInv
  <2> QED
    BY <2>1, <2>3, <2>9
<1> QED
  BY <1>3, <1>4 DEF Pay, PayAgain, PayFails, Fails, Unwritten

LEMMA CheckCredits ==
  ASSUME CreditInv, NEW r \in Requests, NEW w \in Workers, NEW t \in told,
         Check(r, w, t) \/ CheckRefused(r, w, t) \/ CheckFails(r, w, t)
  PROVE  AllFreshAgree /\ \A q \in Payments : EntryInv(q)'
<1>1. /\ clock' = clock /\ (faulted => faulted') /\ served' = served /\ lost' = lost
      /\ clock \in Nat /\ View(w) \in Tables /\ Agrees(View(w)) /\ t \in Tokens
      /\ request[r] = Idle
  BY ViewSame, ExpiryTypes, UsableEntry DEF CreditInv, Check, CheckRefused, CheckFails, history
<1>2. AllFreshAgree /\ \A q \in Payments : Kept(q)
  BY <1>1, ReadKeeps, AbsentKeeps DEF Check, CheckRefused, CheckFails
<1>3. \/ \E x : x.pc = "checked" /\ request' = [request EXCEPT ![r] = x]
      \/ UNCHANGED request
  <2> DEFINE x == [pc |-> "checked", worker |-> w, token |-> t]
  <2>1. x.pc = "checked"
    OBVIOUS
  <2> QED
    BY <2>1 DEF Check, CheckRefused, CheckFails
<1>4. ASSUME NEW q \in Payments PROVE Used(q)' = Used(q)
  <2>1. ~Charged(request[r], q)
    BY <1>1 DEF Charged, Idle
  <2>2. Cardinality(Outstanding(q)') = Cardinality(Outstanding(q))
    <3>1. CASE UNCHANGED request
      BY <3>1 DEF Outstanding
    <3>2. CASE \E x : x.pc = "checked" /\ request' = [request EXCEPT ![r] = x]
      <4>1. PICK x : x.pc = "checked" /\ request' = [request EXCEPT ![r] = x]
        BY <3>2
      <4>2. ~Charged(x, q)
        BY <4>1 DEF Charged
      <4> QED
        BY <2>1, <4>1, <4>2, OutstandingChanges
    <3> QED
      BY <1>3, <3>1, <3>2
  <2> QED
    BY <1>1, <2>2 DEF Used
<1> QED
  BY <1>1, <1>2, <1>4, EntryKept

LEMMA CrashCredits ==
  ASSUME CreditInv, NEW w \in Workers, Crash(w)
  PROVE  AllFreshAgree /\ \A q \in Payments : EntryInv(q)'
<1>1. AllFreshAgree
  BY DEF Crash, CreditInv, AllFreshAgree, Agrees, Same
<1>2. ASSUME NEW q \in Payments PROVE Used(q)' = Used(q)
  <2> DEFINE gone == {r \in Outstanding(q) : request[r].worker = w}
  <2>1. /\ IsFiniteSet(Outstanding(q)) /\ IsFiniteSet(gone)
        /\ Cardinality(Outstanding(q)) \in Nat /\ Cardinality(gone) \in Nat
    <3>1. gone \in SUBSET Outstanding(q)
      OBVIOUS
    <3> QED
      BY <3>1, OutstandingFinite, FS_Subset, FS_CardinalityType
  <2>2. Outstanding(q)' = Outstanding(q) \ gone
    BY DEF Crash, Outstanding, Idle
  <2>3. Outstanding(q) \cap gone = gone
    OBVIOUS
  <2>4. Cardinality(Outstanding(q) \ gone) = Cardinality(Outstanding(q)) - Cardinality(gone)
    BY <2>1, <2>3, FS_Difference
  <2>5. lost'[q] = lost[q] + Cardinality(gone) /\ served' = served
    BY <1>2 DEF Crash
  <2> HIDE DEF gone
  <2> QED
    BY <2>1, <2>2, <2>4, <2>5, UsedType DEF Used
<1>3. /\ clock' = clock /\ clock \in Nat /\ faulted'
      /\ \A q \in Payments : Kept(q)
  BY DEF Crash, CreditInv, PayInv, StoreInv, Kept
<1> QED
  BY <1>1, <1>2, <1>3, EntryKept

LEMMA TickCredits ==
  ASSUME CreditInv, Tick \/ UNCHANGED vars
  PROVE  (\A w \in fresh : Agrees(cache[w]))' /\ \A q \in Payments : EntryInv(q)'
<1>1. /\ UNCHANGED <<disk, cache, fresh, request, served, lost, faulted>>
      /\ clock \in Nat /\ clock' \in Nat /\ clock' >= clock
  BY ExpiryTypes DEF CreditInv, PayInv, StoreInv, Tick, store, history, vars
<1>2. \A p \in Payments : Expired(disk[p]) => Expired(disk[p])'
  BY <1>1, ExpiryTypes DEF CreditInv, Expired
<1>3. (\A w \in fresh : Agrees(cache[w]))'
  BY <1>1, <1>2 DEF CreditInv, Agrees, Same
<1>4. \A p \in Payments : Kept(p)
  BY <1>1 DEF Kept
<1> QED
  BY <1>1, <1>3, <1>4, Untouched

(* What a step leaves of the rest of the invariant.                        *)
LEMMA CreditTypes ==
  ASSUME CreditInv, Next
  PROVE  /\ served' \in [Payments -> Nat] /\ lost' \in [Payments -> Nat] /\ faulted' \in BOOLEAN
         /\ \A r \in Requests : request'[r].pc # "idle" => request'[r].token \in told'
<1>0. /\ served \in [Payments -> Nat] /\ lost \in [Payments -> Nat] /\ faulted \in BOOLEAN
      /\ \A r \in Requests : request[r].pc # "idle" => request[r].token \in told
      /\ request \in [Requests -> Active \cup {Idle}] /\ Idle.pc = "idle"
      /\ \A n \in Nat : n + 1 \in Nat
  BY DEF CreditInv, PayInv, RequestTypes, Idle
<1>1. CASE \E w \in Workers, p \in Payments : Pay(w, p) \/ PayAgain(w, p) \/ PayFails(w, p)
  BY <1>0, <1>1 DEF Pay, PayAgain, PayFails
<1>2. CASE \E r \in Requests, w \in Workers, t \in told :
             Check(r, w, t) \/ CheckRefused(r, w, t) \/ CheckFails(r, w, t)
  <2>1. PICK r \in Requests, w \in Workers, t \in told :
               Check(r, w, t) \/ CheckRefused(r, w, t) \/ CheckFails(r, w, t)
    BY <1>2
  <2>2. /\ served' = served /\ lost' = lost /\ told' = told
        /\ faulted' = faulted \/ faulted' = TRUE
    BY <2>1 DEF Check, CheckRefused, CheckFails, history
  <2>3. \A q \in Requests : request'[q].pc # "idle" => request'[q].token \in told
    BY <1>0, <2>1 DEF Check, CheckRefused, CheckFails
  <2> QED
    BY <1>0, <2>2, <2>3
<1>3. ASSUME NEW r \in Requests, RequestStep(r)
      PROVE  /\ served' \in [Payments -> Nat] /\ lost' \in [Payments -> Nat] /\ faulted' \in BOOLEAN
             /\ \A q \in Requests : request'[q].pc # "idle" => request'[q].token \in told'
  <2>1. request[r] \in Active /\ request[r].token \in told /\ request[r].token.payment \in Payments
    BY <1>3, BusyToken
  <2>2. told' = told /\ faulted' \in BOOLEAN
    BY <1>0, <1>3 DEF RequestStep, Charge, ChargeRefused, ChargeFails, Answer, AnswerFails,
         HandlerFails, Refund, RefundRefused, RefundFails, history
  <2>3. ASSUME NEW p \in Payments, Loses(p) PROVE lost' \in [Payments -> Nat]
    BY <1>0, <2>3 DEF Loses
  <2>4. lost' \in [Payments -> Nat]
    BY <1>0, <1>3, <2>1, <2>3 DEF RequestStep, Charge, ChargeRefused, ChargeFails, Answer, AnswerFails,
         HandlerFails, Refund, RefundRefused, RefundFails, history
  <2>5. served' \in [Payments -> Nat]
    BY <1>0, <1>3, <2>1 DEF RequestStep, Charge, ChargeRefused, ChargeFails, Answer, AnswerFails,
         HandlerFails, Refund, RefundRefused, RefundFails, history
  <2>6. Ends(r) \/ Moves(r, "running") \/ Moves(r, "refunding")
    BY <1>3 DEF RequestStep, Charge, ChargeRefused, ChargeFails, Answer, AnswerFails,
         HandlerFails, Refund, RefundRefused, RefundFails
  <2>7. \A q \in Requests : request'[q].pc # "idle" => request'[q].token \in told
    BY <1>0, <2>1, <2>6 DEF Ends, Moves, Active
  <2> QED
    BY <2>2, <2>4, <2>5, <2>7
<1>4. CASE \E w \in Workers : Crash(w)
  <2>1. PICK w \in Workers : Crash(w)
    BY <1>4
  <2>2. ASSUME NEW p \in Payments
        PROVE  Cardinality({r \in Outstanding(p) : request[r].worker = w}) \in Nat
    <3>1. {r \in Outstanding(p) : request[r].worker = w} \in SUBSET Outstanding(p)
      OBVIOUS
    <3> QED
      BY <3>1, OutstandingFinite, FS_Subset, FS_CardinalityType
  <2>3. lost' \in [Payments -> Nat]
    BY <1>0, <2>1, <2>2 DEF Crash
  <2> QED
    BY <1>0, <2>1, <2>3 DEF Crash
<1>5. CASE Tick
  BY <1>0, <1>5 DEF Tick, history
<1> QED
  BY <1>1, <1>2, <1>3, <1>4, <1>5 DEF Next, RequestStep

LEMMA CreditInit == Init => CreditInv
<1> SUFFICES ASSUME Init PROVE CreditInv
  OBVIOUS
<1>1. ASSUME NEW p \in Payments PROVE Used(p) = 0
  <2>1. Outstanding(p) = {}
    BY DEF Init, Outstanding, Idle
  <2> QED
    BY <2>1, FS_EmptySet DEF Used, Init
<1>2. \A p \in Payments : EntryInv(p)
  BY <1>1, ConfigAssumption DEF EntryInv, Init, NotRedeemed
<1> QED
  BY <1>2, PayInit DEF Init, CreditInv, Idle

LEMMA CreditNext == CreditInv /\ [Next]_vars => CreditInv'
<1> SUFFICES ASSUME CreditInv, [Next]_vars PROVE CreditInv'
  OBVIOUS
<1>1. PayInv'
  BY PayStep, CheckStep, RequestKeeps, CrashOrTick DEF Next, RequestStep, PayInv, CreditInv
<1>2. (\A w \in fresh : Agrees(cache[w]))' /\ \A q \in Payments : EntryInv(q)'
  <2>1. CASE \E w \in Workers, p \in Payments : Pay(w, p) \/ PayAgain(w, p) \/ PayFails(w, p)
    <3>1. clock' = clock
      BY <2>1 DEF Pay, PayAgain, PayFails
    <3> QED
      BY <2>1, <3>1, PayCredits, FreshAgree
  <2>2. CASE \E r \in Requests, w \in Workers, t \in told :
               Check(r, w, t) \/ CheckRefused(r, w, t) \/ CheckFails(r, w, t)
    <3>1. clock' = clock
      BY <2>2 DEF Check, CheckRefused, CheckFails
    <3> QED
      BY <2>2, <3>1, CheckCredits, FreshAgree
  <2>3. CASE \E r \in Requests : RequestStep(r)
    <3>1. clock' = clock
      BY <2>3 DEF RequestStep, Charge, ChargeRefused, ChargeFails, Answer, AnswerFails,
           HandlerFails, Refund, RefundRefused, RefundFails
    <3> QED
      BY <2>3, <3>1, RequestCredits, FreshAgree
  <2>4. CASE \E w \in Workers : Crash(w)
    <3>1. clock' = clock
      BY <2>4 DEF Crash
    <3> QED
      BY <2>4, <3>1, CrashCredits, FreshAgree
  <2>5. CASE Tick \/ UNCHANGED vars
    BY <2>5, TickCredits
  <2> QED
    BY <2>1, <2>2, <2>3, <2>4, <2>5 DEF Next, RequestStep
<1>3. /\ served' \in [Payments -> Nat] /\ lost' \in [Payments -> Nat] /\ faulted' \in BOOLEAN
      /\ \A r \in Requests : request'[r].pc # "idle" => request'[r].token \in told'
  <2>1. CASE UNCHANGED vars
    BY <2>1 DEF vars, CreditInv
  <2> QED
    BY <2>1, CreditTypes
<1> QED
  BY <1>1, <1>2, <1>3 DEF CreditInv

(* For every payment, the credits left in the file, the requests under way *)
(* that were charged, the answers given and the charges lost add up to     *)
(* what was bought: no interleaving of workers, failed write, crash or     *)
(* expiry spends a credit twice or makes one reappear.                     *)
THEOREM CreditsNeverVanish == Spec => []CreditsConserved
<1>1. CreditInv => CreditsConserved
  BY DEF CreditInv, EntryInv, Used, CreditsConserved
<1> QED
  BY <1>1, CreditInit, CreditNext, PTL DEF Spec
=============================================================================
