------------------------------ MODULE EventLog ------------------------------
(***************************************************************************)
(* The hash-chained event log that several processes append to.            *)
(*                                                                         *)
(*   norax/observability/log.py    EventLog.__init__, _append_locked,      *)
(*                                 _load_tail_hash, _empty_tail_hash,      *)
(*                                 _write_line, _rotate_if_needed          *)
(*   norax/verify_event_chain.py   verify_all_generations                  *)
(*                                                                         *)
(* An append runs under an exclusive flock, so at most one process is      *)
(* between its steps; it may die or get an OSError at each of them.  A     *)
(* record is its pair of hashes.  SHA-256 is taken as injective: the hash  *)
(* of a record is a fresh number, Genesis is 0.                            *)
(***************************************************************************)
EXTENDS Integers, SequencesExt

CONSTANTS
    Procs,          \* processes with an EventLog on the same path
    RotateLines,    \* rotate_bytes, in records
    MaxRecords,     \* bound: records ever built
    Nothing

ASSUME RotateAssumption == RotateLines \in Nat /\ MaxRecords \in Nat

Records == [prev : 0..MaxRecords, hash : 1..MaxRecords]

ASSUME NothingAssumption == Nothing \notin Procs \cup Seq(Records)

Genesis == 0
Bad     == -1       \* _load_tail_hash raises ValueError

VARIABLES
    current,    \* the lines of the current file, Nothing when it is absent
    torn,       \* the current file ends in an unterminated fragment
    rotated,    \* the rotated generations, oldest first
    anchor,     \* the anchor file: generation and tail hash
    proc,       \* per process: "down", "up" or "refused" (constructor raised)
    prevHash,   \* self._prev_hash
    writable,   \* self._writable
    holder,     \* the process that holds the flock
    step,       \* where it is in _append_locked
    rec,        \* the record it has built
    built,      \* number of hashes used
    acked       \* history: hashes of the appends that returned

logVars ==
    <<current, torn, rotated, anchor, proc, prevHash, writable, holder, step, rec, built, acked>>
files == <<current, torn, rotated, anchor>>

LogTypes ==
    /\ current \in Seq(Records) \cup {Nothing} /\ rotated \in Seq(Seq(Records))
    /\ torn \in BOOLEAN
    /\ anchor = Nothing \/ anchor.rotated \in 1..Len(rotated)
    /\ proc \in [Procs -> {"down", "up", "refused"}]
    /\ prevHash \in [Procs -> 0..MaxRecords]
    /\ writable \in [Procs -> BOOLEAN]
    /\ holder \in Procs \cup {Nothing}
    /\ step \in {"none", "built", "renamed", "opened"}
    /\ built \in 0..MaxRecords
    /\ acked \subseteq 1..MaxRecords

LogInit ==
    /\ current = Nothing /\ torn = FALSE /\ rotated = <<>> /\ anchor = Nothing
    /\ proc = [p \in Procs |-> "down"]
    /\ prevHash = [p \in Procs |-> Genesis]
    /\ writable = [p \in Procs |-> TRUE]
    /\ holder = Nothing /\ step = "none" /\ rec = Nothing
    /\ built = 0 /\ acked = {}

-----------------------------------------------------------------------------
NoLog == current = Nothing \/ (current = <<>> /\ ~torn)

(* Genesis is allowed for a new log only. *)
EmptyTail(cached) ==
    IF cached # Genesis \/ anchor # Nothing \/ rotated # <<>> THEN Bad ELSE Genesis

(* mutant: the fragment at the end is skipped, not reported *)
LoadTailSkipsTorn(cached) ==
    IF current = Nothing \/ current = <<>> THEN EmptyTail(cached) ELSE Last(current).hash
LoadTail(cached) ==
    IF NoLog THEN EmptyTail(cached)
    ELSE IF torn THEN Bad ELSE Last(current).hash

(* The constructor reads the tail from disk, under the lock. *)
Open(p) ==
    /\ proc[p] # "up" /\ holder = Nothing
    /\ LET tail == LoadTail(Genesis) IN
       \/ /\ tail = Bad
          /\ proc' = [proc EXCEPT ![p] = "refused"]
          /\ UNCHANGED <<prevHash, writable>>
       \/ /\ tail # Bad
          /\ proc' = [proc EXCEPT ![p] = "up"]
          /\ prevHash' = [prevHash EXCEPT ![p] = tail]
          /\ writable' = [writable EXCEPT ![p] = TRUE]
    /\ UNCHANGED <<files, holder, step, rec, built, acked>>

(* _load_tail_hash(ignore_cache=True) *)
CachedTail(p) == prevHash[p]                          \* mutant: trust the cache
TailFor(p)    == LoadTail(prevHash[p])

(* Take the lock, read the tail, and build the record that follows it. *)
BuildRecord(p) ==
    /\ proc[p] = "up" /\ holder = Nothing
    /\ built < MaxRecords
    /\ TailFor(p) # Bad
    /\ holder' = p /\ step' = "built"
    /\ built' = built + 1
    /\ rec' = [prev |-> TailFor(p), hash |-> built + 1]
    /\ UNCHANGED <<files, proc, prevHash, writable, acked>>

(* The tail cannot be trusted: the append raises and nothing is written. *)
RefuseAppend(p) ==
    /\ proc[p] = "up" /\ holder = Nothing
    /\ TailFor(p) = Bad
    /\ writable' = [writable EXCEPT ![p] = FALSE]
    /\ UNCHANGED <<files, proc, prevHash, holder, step, rec, built, acked>>

(* _rotate_if_needed: an empty file is never rotated. *)
NeedsRotation == RotateLines > 0 /\ ~NoLog /\ Len(current) + 1 > RotateLines

Rename ==
    /\ step = "built" /\ NeedsRotation
    /\ rotated' = Append(rotated, current)
    /\ current' = Nothing
    /\ step' = "renamed"
    /\ UNCHANGED <<torn, anchor, proc, prevHash, writable, holder, rec, built, acked>>

(* The anchor names the generation that was just renamed. *)
StaleAnchor == [rotated |-> Len(rotated), tail |-> prevHash[holder]]   \* mutant: cached tail
NewAnchor   == [rotated |-> Len(rotated), tail |-> Last(Last(rotated)).hash]

WriteAnchor ==
    /\ step = "renamed"
    /\ anchor' = NewAnchor
    /\ step' = "opened"
    /\ UNCHANGED <<current, torn, rotated, proc, prevHash, writable, holder, rec, built, acked>>

(* os.open(O_WRONLY | O_APPEND | O_CREAT) *)
TruncatedFile == <<>>                                 \* mutant: O_TRUNC for O_APPEND
OpenedFile    == IF current = Nothing THEN <<>> ELSE current

(* The file need not be rotated. *)
OpenForAppend ==
    /\ step = "built" /\ ~NeedsRotation
    /\ current' = OpenedFile
    /\ step' = "opened"
    /\ UNCHANGED <<torn, rotated, anchor, proc, prevHash, writable, holder, rec, built, acked>>

Release == holder' = Nothing /\ step' = "none" /\ rec' = Nothing

(* The whole line reaches the file and append() returns. *)
WriteRecord ==
    /\ step = "opened"
    /\ current' = Append(OpenedFile, rec)
    /\ prevHash' = [prevHash EXCEPT ![holder] = rec.hash]
    /\ writable' = [writable EXCEPT ![holder] = TRUE]
    /\ acked' = acked \cup {rec.hash}
    /\ Release
    /\ UNCHANGED <<torn, rotated, anchor, proc, built>>

(* An OSError before or while the line is written: part of it may be there.*)
FailAppend ==
    /\ step \in {"built", "renamed", "opened"}
    /\ writable' = [writable EXCEPT ![holder] = FALSE]
    /\ \/ UNCHANGED <<current, torn>>
       \/ /\ step = "opened"
          /\ current' = OpenedFile
          /\ torn' = TRUE
    /\ Release
    /\ UNCHANGED <<rotated, anchor, proc, prevHash, built, acked>>

(* A process dies.  The kernel drops its flock; a fragment, or a whole     *)
(* line whose append never returned, may stay in the file.                 *)
WriterDies(p) ==
    /\ proc[p] = "up"
    /\ proc' = [proc EXCEPT ![p] = "down"]
    /\ prevHash' = [prevHash EXCEPT ![p] = Genesis]
    /\ IF holder = p
         THEN /\ Release
              /\ \/ UNCHANGED <<current, torn>>
                 \/ step = "opened" /\ torn' = TRUE
                      /\ current' = OpenedFile
                 \/ step = "opened" /\ UNCHANGED torn
                      /\ current' = Append(OpenedFile, rec)
         ELSE UNCHANGED <<current, torn, holder, step, rec>>
    /\ UNCHANGED <<rotated, anchor, writable, built, acked>>

LogNext ==
    \/ \E p \in Procs : Open(p) \/ BuildRecord(p) \/ RefuseAppend(p) \/ WriterDies(p)
    \/ Rename \/ WriteAnchor \/ OpenForAppend \/ WriteRecord \/ FailAppend

LogSpec == LogInit /\ [][LogNext]_logVars

-----------------------------------------------------------------------------
(* The verifier *)

Generations == IF current = Nothing THEN rotated ELSE Append(rotated, current)
AllRecords  == FlattenSeq(Generations)

(* _verify_single_file: the lines chain, from the expected hash if given.  *)
FileOK(lines, prev) ==
    /\ lines # <<>>
    /\ \A i \in DOMAIN lines :
         IF i = 1 THEN prev # Nothing => lines[1].prev = prev
                  ELSE lines[i].prev = lines[i - 1].hash

VerifyAllGenerations ==
    LET gens == Generations IN
    /\ gens # <<>>
    /\ ~torn
    /\ \A g \in DOMAIN gens :
         FileOK(gens[g], IF g = 1 THEN Nothing ELSE Last(gens[g - 1]).hash)
    /\ anchor # Nothing =>
         /\ rotated # <<>>
         /\ anchor.rotated = Len(rotated)
         /\ anchor.tail = Last(Last(rotated)).hash

-----------------------------------------------------------------------------
(* Properties *)

(* All records of all generations form one chain from Genesis: no two      *)
(* processes ever extend the same record, and no crash, failed write or    *)
(* interrupted rotation makes a later append start over; what append()     *)
(* returned for stays in it for ever; and when nobody is inside an append  *)
(* and no line was torn, --all-generations accepts what was written.       *)
OneChain ==
    /\ \A i \in DOMAIN AllRecords :
         AllRecords[i].prev = IF i = 1 THEN Genesis ELSE AllRecords[i - 1].hash
    /\ acked \subseteq {AllRecords[i].hash : i \in DOMAIN AllRecords}
    /\ holder = Nothing /\ ~torn /\ ~NoLog => VerifyAllGenerations
=============================================================================
