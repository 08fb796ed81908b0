---------------------------- MODULE SleepMemory -----------------------------
(***************************************************************************)
(* The memory maintenance of Norax: spills and buffers of memory/sleep/    *)
(* are drained into the canonical files (context/sleep_flush.py, then      *)
(* memory/consolidator.py) by the idle runtime and by the offline worker   *)
(* (sleep.py), under one process lock (memory/process_lock.py); turns add  *)
(* notes of their own without it (memory/vta_writer.py); the search index  *)
(* is rebuilt from the canonical files (runtime/memory_coordinator.py).    *)
(*                                                                         *)
(* A spill is the set of the texts that its frames state.  The flush and   *)
(* the consolidator extract from it by patterns of their own: each keeps   *)
(* some of the texts and sends each to a directory, and the two need not   *)
(* agree.  A text that one of them rewrites is two.  Scores are left out.  *)
(* The sidecar of a spill is archived just before it, the same way, and is *)
(* not modelled apart, nor is the deletion of old archives.  One buffer    *)
(* stands for those of the days.                                           *)
(***************************************************************************)
EXTENDS Integers, FiniteSets

CONSTANTS
    Spills,        \* spill-*.jsonl files
    Buffer,        \* the buffer-*.md file
    Facts,         \* what spills may state
    Notes,         \* lines that turns write, one each
    Flushed,       \* the facts that the flush keeps
    Intel,         \* those it sends to intel/
    Workflows,     \* those it sends to procedural/, and the rest to semantic/
    Distilled,     \* the facts and notes that the consolidator keeps
    Procedures,    \* those it sends to procedural/, and the rest to semantic/
    Marked,        \* the facts whose text carries a |W tag of its own
    MaxFaults,     \* bound: crashes and failed writes
    Nobody

ASSUME MemoryAssumption ==
    /\ Flushed \subseteq Facts /\ Distilled \subseteq Facts \cup Notes /\ Marked \subseteq Facts
    /\ Facts \cap Notes = {} /\ Buffer \notin Spills
    /\ Nobody \notin Spills \cup {Buffer, "runtime", "worker", "index"}
    /\ MaxFaults \in Nat

Inputs   == Spills \cup {Buffer}
Lines    == Facts \cup Notes
Drainers == {"runtime", "worker"}
Syncers  == {"idle", "turn"}        \* callers of sync_projections
Routes   == {"semantic", "procedural", "intel"}

VARIABLES
    place,         \* of a file: "none", "fresh", "sleep", "linked" (in both), "archive"
    says,          \* the lines of a file of sleep/
    shelved,       \* what the archived files said that their drain keeps
    copies,        \* how often a directory has a line, with a tag or without; 2 is several
    exact,         \* the lines that the drains wrote there word for word
    flash,         \* notes in the flashbulb file
    holder,        \* of the maintenance lock: a drainer, "index" or Nobody
    at,            \* where a drainer is
    batch,         \* its inputs that are not archived yet
    left,          \* lines it has still to append
    hand,          \* the file it has linked and not unlinked yet
    wrote,         \* the runtime's drain has something to report
    turn,          \* of a note: "none", "written", "done"
    late,          \* notes written into a buffer that was being consolidated
    dirty,         \* _dirty
    sync,          \* where a call of sync_projections is
    moved,         \* _generation has changed since the call took its target
    promised,      \* the canonical lines when a change was last reported
    indexed,       \* the lines in the index
    raced,         \* notes added to the flashbulb file during this build
    faults

fileVars  == <<place, says, shelved>>
canonVars == <<copies, exact, flash>>
drainVars == <<at, batch, left, hand, wrote>>
turnVars  == <<turn, late>>
indexVars == <<dirty, sync, moved, promised, indexed, raced>>
memoryVars == <<fileVars, canonVars, holder, drainVars, turnVars, indexVars, faults>>

MemoryInit ==
    /\ place = [f \in Inputs |-> "none"]
    /\ says = [f \in Inputs |-> {}]
    /\ shelved = {}
    /\ copies = [d \in Routes |-> [x \in Lines |-> 0]]
    /\ exact = [d \in Routes |-> {}]
    /\ flash = {}
    /\ holder = Nobody
    /\ at = [p \in Drainers |-> "idle"]
    /\ batch = [p \in Drainers |-> {}]
    /\ left = [p \in Drainers |-> {}]
    /\ hand = [p \in Drainers |-> Nobody]
    /\ wrote = FALSE
    /\ turn = [n \in Notes |-> "none"]
    /\ late = {}
    /\ dirty = FALSE
    /\ sync = [c \in Syncers |-> "none"]
    /\ moved = [c \in Syncers |-> FALSE]
    /\ promised = {} /\ indexed = {} /\ raced = {}
    /\ faults = 0

Canonical == {x \in Lines : \E d \in Routes : copies[d][x] > 0}

Fault == faults < MaxFaults /\ faults' = faults + 1

-----------------------------------------------------------------------------
(* The window writes a spill; a file is mature when nothing was added to   *)
(* it for min_age_sec.                                                     *)
WriteSpill(s, facts) ==
    /\ place[s] = "none"
    /\ place' = [place EXCEPT ![s] = "fresh"]
    /\ says' = [says EXCEPT ![s] = facts]
    /\ UNCHANGED <<shelved, canonVars, holder, drainVars, turnVars, indexVars, faults>>

Matures(f) ==
    /\ place[f] = "fresh"
    /\ place' = [place EXCEPT ![f] = "sleep"]
    /\ UNCHANGED <<says, shelved, canonVars, holder, drainVars, turnVars, indexVars, faults>>

Eligible(files) == {f \in files : place[f] \in {"sleep", "linked"}}

-----------------------------------------------------------------------------
(* The drain: SleepFlusher, then MemoryConsolidator *)

(* What the two stages keep and where they send it.                        *)
Keeps(stage) == IF stage = "flush" THEN Flushed ELSE Distilled

FlushRoute(x) ==
    CASE x \in Intel -> "intel"
      [] x \in Workflows \ Intel -> "procedural"
      [] OTHER -> "semantic"

DistillRoute(x) == IF x \in Procedures THEN "procedural" ELSE "semantic"

LineRoute(stage, x) == IF stage = "flush" THEN FlushRoute(x) ELSE DistillRoute(x)

(* A candidate is looked up as a whole line: by the flush in the directory *)
(* it would go to, by the consolidator in two.                             *)
SearchesNone(stage, x) == {}                        \* mutant: no lookup
Searched(stage, x) ==
    IF stage = "flush" THEN {FlushRoute(x)} ELSE {"semantic", "procedural"}

New(stage, files) ==
    {x \in Keeps(stage) \cap UNION {says[f] : f \in files} :
        \A d \in Searched(stage, x) : x \notin exact[d]}

LockFree == holder = Nobody

(* The idle loop looks for files first, and does one thing at a time.      *)
StartFlush(p) ==
    LET spills == Eligible(Spills)
    IN  /\ at[p] = "idle" /\ LockFree
        /\ p = "runtime" => /\ sync["idle"] = "none"
                            /\ \E f \in Inputs : place[f] \in {"fresh", "sleep", "linked"}
        /\ holder' = p
        /\ at' = [at EXCEPT ![p] = "flush"]
        /\ batch' = [batch EXCEPT ![p] = spills]
        /\ left' = [left EXCEPT ![p] = New("flush", spills)]
        /\ wrote' = IF p = "runtime" THEN spills # {} ELSE wrote
        /\ UNCHANGED <<fileVars, canonVars, hand, turnVars, indexVars, faults>>

StartConsolidate(p) ==
    LET mature == Eligible(Inputs)
    IN  /\ at[p] = "flush" /\ left[p] = {} /\ batch[p] = {}
        /\ at' = [at EXCEPT ![p] = "distill"]
        /\ batch' = [batch EXCEPT ![p] = mature]
        /\ left' = [left EXCEPT ![p] = New("distill", mature)]
        /\ wrote' = IF p = "runtime" THEN wrote \/ left'[p] # {} ELSE wrote
        /\ UNCHANGED <<fileVars, canonVars, holder, hand, turnVars, indexVars, faults>>

(* A line reaches its file, semantic/ before procedural/ before intel/.    *)
(* The flush adds a tag to a text that has none; the consolidator adds     *)
(* nothing.                                                                *)
Verbatim(p, x) == at[p] = "distill" \/ x \in Marked

Rank == [semantic |-> 1, procedural |-> 2, intel |-> 3]

AppendLine(p, x) ==
    LET d == LineRoute(at[p], x)
    IN  /\ x \in left[p]
        /\ \A y \in left[p] : Rank[d] <= Rank[LineRoute(at[p], y)]
        /\ left' = [left EXCEPT ![p] = @ \ {x}]
        /\ copies' = [copies EXCEPT ![d][x] = IF @ = 2 THEN 2 ELSE @ + 1]
        /\ exact' = IF Verbatim(p, x) THEN [exact EXCEPT ![d] = @ \cup {x}] ELSE exact
        /\ UNCHANGED <<fileVars, flash, holder, at, batch, hand, wrote, turnVars, indexVars, faults>>

(* archive_regular_file: the input gets a second name in archive/, then    *)
(* loses the first.                                                        *)
AppendedYet(p) == TRUE                              \* mutant: archived before it is written
Appended(p)    == left[p] = {}

Link(p, f) ==
    /\ f \in batch[p] /\ hand[p] = Nobody /\ Appended(p)
    /\ place[f] \in {"fresh", "sleep"}
    /\ place' = [place EXCEPT ![f] = "linked"]
    /\ hand' = [hand EXCEPT ![p] = f]
    /\ UNCHANGED <<says, shelved, canonVars, holder, at, batch, left, wrote, turnVars, indexVars, faults>>

Unlink(p) ==
    LET f == hand[p]
    IN  /\ f # Nobody
        /\ IF f = Buffer
           THEN /\ place' = [place EXCEPT ![f] = "none"]
                /\ says' = [says EXCEPT ![f] = {}]
           ELSE /\ place' = [place EXCEPT ![f] = "archive"]
                /\ UNCHANGED says
        /\ shelved' = shelved \cup (says[f] \cap Keeps(at[p]))
        /\ batch' = [batch EXCEPT ![p] = @ \ {f}]
        /\ hand' = [hand EXCEPT ![p] = Nobody]
        /\ UNCHANGED <<canonVars, holder, at, left, wrote, turnVars, indexVars, faults>>

(* The drain raises, or its process is gone: the lock is free again, and   *)
(* nothing is reported.                                                    *)
Dropped(p) ==
    /\ at' = [at EXCEPT ![p] = "idle"]
    /\ batch' = [batch EXCEPT ![p] = {}]
    /\ left' = [left EXCEPT ![p] = {}]
    /\ hand' = [hand EXCEPT ![p] = Nobody]
    /\ wrote' = IF p = "runtime" THEN FALSE ELSE wrote

(* A file that a crash left with two names is refused.                     *)
RefuseLinked(p) ==
    /\ hand[p] = Nobody /\ Appended(p)
    /\ \E f \in batch[p] : place[f] = "linked"
    /\ Dropped(p) /\ holder' = Nobody
    /\ UNCHANGED <<fileVars, canonVars, turnVars, indexVars, faults>>

AppendFails(p) ==
    /\ left[p] # {}
    /\ Fault /\ Dropped(p) /\ holder' = Nobody
    /\ UNCHANGED <<fileVars, canonVars, turnVars, indexVars>>

Drained(p) ==
    /\ at[p] = "distill" /\ left[p] = {} /\ batch[p] = {}
    /\ holder' = Nobody
    /\ at' = [at EXCEPT ![p] = IF p = "runtime" THEN "drained" ELSE "idle"]
    /\ UNCHANGED <<fileVars, canonVars, batch, left, hand, wrote, turnVars, indexVars, faults>>

-----------------------------------------------------------------------------
(* canonical_changed *)
Reported ==
    /\ dirty' = TRUE
    /\ moved' = [c \in Syncers |-> TRUE]
    /\ promised' = Canonical

(* consolidate_sleep goes on in the event loop.  The worker reports to     *)
(* nobody.                                                                 *)
ReportDrain ==
    /\ at["runtime"] = "drained"
    /\ Dropped("runtime")
    /\ IF wrote THEN Reported ELSE UNCHANGED <<dirty, moved, promised>>
    /\ UNCHANGED <<fileVars, canonVars, holder, turnVars, sync, indexed, raced, faults>>

(* A turn adds its note, in a thread and without the maintenance lock.     *)
WriteBuffer(n) ==
    /\ turn[n] = "none"
    /\ turn' = [turn EXCEPT ![n] = "written"]
    /\ place' = [place EXCEPT ![Buffer] = IF @ = "linked" THEN @ ELSE "fresh"]
    /\ says' = [says EXCEPT ![Buffer] = @ \cup {n}]
    /\ late' = IF \E p \in Drainers : at[p] = "distill" /\ Buffer \in batch[p]
               THEN late \cup {n} ELSE late
    /\ UNCHANGED <<shelved, canonVars, holder, drainVars, indexVars, faults>>

WriteFlashbulb(n) ==
    /\ turn[n] = "none"
    /\ turn' = [turn EXCEPT ![n] = "written"]
    /\ copies' = [copies EXCEPT !["semantic"][n] = 1]
    /\ flash' = flash \cup {n}
    /\ raced' = IF holder = "index" THEN raced \cup {n} ELSE raced
    /\ UNCHANGED <<fileVars, exact, holder, drainVars, late, dirty, sync, moved, promised,
                   indexed, faults>>

(* Back in the event loop the turn reports it, unless it was cancelled.    *)
ReportTurn(n) ==
    /\ turn[n] = "written"
    /\ turn' = [turn EXCEPT ![n] = "done"]
    /\ Reported
    /\ UNCHANGED <<fileVars, canonVars, holder, drainVars, late, sync, indexed, raced, faults>>

CutTurn(n) ==
    /\ turn[n] = "written"
    /\ turn' = [turn EXCEPT ![n] = "done"]
    /\ UNCHANGED <<fileVars, canonVars, holder, drainVars, late, indexVars, faults>>

-----------------------------------------------------------------------------
(* sync_projections: by the idle loop between its drains and by a turn *)

Syncing(c) == sync[c] \in {"queued", "building", "built"}

CallSync(c) ==
    /\ sync[c] = "none" /\ dirty
    /\ c = "idle" => at["runtime"] = "idle"
    /\ sync' = [sync EXCEPT ![c] = "waiting"]
    /\ UNCHANGED <<fileVars, canonVars, holder, drainVars, turnVars, dirty, moved, promised,
                   indexed, raced, faults>>

(* With the projection lock the call looks again, and takes its target.    *)
TakeTarget(c) ==
    /\ sync[c] = "waiting" /\ \A d \in Syncers : ~Syncing(d)
    /\ sync' = [sync EXCEPT ![c] = IF dirty THEN "queued" ELSE "none"]
    /\ moved' = [moved EXCEPT ![c] = FALSE]
    /\ UNCHANGED <<fileVars, canonVars, holder, drainVars, turnVars, dirty, promised, indexed, raced, faults>>

StartBuild(c) ==
    /\ sync[c] = "queued" /\ LockFree
    /\ sync' = [sync EXCEPT ![c] = "building"]
    /\ holder' = "index"
    /\ raced' = {}
    /\ UNCHANGED <<fileVars, canonVars, drainVars, turnVars, dirty, moved, promised, indexed, faults>>

(* A note added meanwhile is read or not; if its file changed while it was *)
(* read, the file is rejected and leaves the index.                        *)
Build(c) ==
    /\ sync[c] = "building"
    /\ sync' = [sync EXCEPT ![c] = "built"]
    /\ holder' = Nobody
    /\ indexed' \in {Canonical, Canonical \ raced} \cup (IF raced = {} THEN {} ELSE {Canonical \ flash})
    /\ raced' = {}
    /\ UNCHANGED <<fileVars, canonVars, drainVars, turnVars, dirty, moved, promised, faults>>

BuildFails(c) ==
    /\ sync[c] = "building"
    /\ Fault
    /\ sync' = [sync EXCEPT ![c] = "none"]
    /\ holder' = Nobody
    /\ raced' = {}
    /\ UNCHANGED <<fileVars, canonVars, drainVars, turnVars, dirty, moved, promised, indexed>>

CleanNow(c)   == FALSE                              \* mutant: no look at the generation
StillDirty(c) == moved[c]

Synced(c) ==
    /\ sync[c] = "built"
    /\ sync' = [sync EXCEPT ![c] = "none"]
    /\ dirty' = (dirty /\ StillDirty(c))
    /\ UNCHANGED <<fileVars, canonVars, holder, drainVars, turnVars, moved, promised, indexed, raced, faults>>

-----------------------------------------------------------------------------
(* The worker dies; the runtime dies and starts again, which reports a     *)
(* change.  The operating system frees the lock.                           *)
WorkerDies ==
    /\ at["worker"] # "idle"
    /\ Fault /\ Dropped("worker")
    /\ holder' = Nobody
    /\ UNCHANGED <<fileVars, canonVars, turnVars, indexVars>>

RuntimeDies ==
    /\ Fault /\ Dropped("runtime")
    /\ holder' = IF holder = "worker" THEN holder ELSE Nobody
    /\ turn' = [n \in Notes |-> IF turn[n] = "written" THEN "done" ELSE turn[n]]
    /\ sync' = [c \in Syncers |-> "none"]
    /\ raced' = {}
    /\ Reported
    /\ UNCHANGED <<fileVars, canonVars, late, indexed>>

DrainStep(p) ==
    \/ StartFlush(p) \/ StartConsolidate(p)
    \/ \E x \in Lines : AppendLine(p, x)
    \/ \E f \in Inputs : Link(p, f)
    \/ Unlink(p) \/ RefuseLinked(p) \/ AppendFails(p) \/ Drained(p)

SyncStep(c) ==
    CallSync(c) \/ TakeTarget(c) \/ StartBuild(c) \/ Build(c) \/ BuildFails(c) \/ Synced(c)

MemoryNext ==
    \/ \E s \in Spills, facts \in SUBSET Facts : WriteSpill(s, facts)
    \/ \E f \in Inputs : Matures(f)
    \/ \E p \in Drainers : DrainStep(p)
    \/ ReportDrain
    \/ \E n \in Notes : WriteBuffer(n) \/ WriteFlashbulb(n) \/ ReportTurn(n) \/ CutTurn(n)
    \/ \E c \in Syncers : SyncStep(c)
    \/ WorkerDies \/ RuntimeDies

MemorySpec == MemoryInit /\ [][MemoryNext]_memoryVars

-----------------------------------------------------------------------------
(* Properties *)

(* An input is archived only when what the drain that archives it keeps of *)
(* it is in the canonical files, although two processes drain, writes fail *)
(* and processes die; only a note added to a buffer after it was read is   *)
(* archived unread.  And a line that is written word for word is never     *)
(* written twice into one directory: each stage looks there before.        *)
ConsumedOnce ==
    /\ shelved \ late \subseteq Canonical
    /\ \A d \in Routes : \A x \in Marked \cup Notes : copies[d][x] <= 1

(* A coordinator that is clean has indexed every change it was told of:    *)
(* one that arrives during a build is not lost.  The exception is a line   *)
(* added to the flashbulb file and not reported yet, or never.             *)
IndexKeepsUp == ~dirty /\ flash \subseteq promised => promised \subseteq indexed

(* "The flush is idempotent: ... re-running can't produce dupes."          *)
NoDupes == \A d \in Routes : \A x \in Lines : copies[d][x] <= 1
=============================================================================
