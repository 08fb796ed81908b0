---------------------------- MODULE TurnPipeline ----------------------------
(***************************************************************************)
(* The turns of one channel and the conversation they leave behind.        *)
(*                                                                         *)
(*   norax/runtime/turn_pipeline.py  _handle_turn_inner                    *)
(*   norax/runtime/delivery.py       _deliver_turn_response                *)
(*   norax/context/window.py         RollingWindow                         *)
(*   norax/runtime/session.py        _get_window, _persist_window,         *)
(*                                   _reset_window, _dump_window           *)
(*   norax/runtime/checkpoint.py     save_checkpoint, load_latest          *)
(*                                                                         *)
(* The turns of a channel follow one another (TurnQueue).  What is awaited *)
(* with asyncio.to_thread goes on in its thread when the turn that awaits  *)
(* it is cancelled, next to the following turn and to the native commands  *)
(* /new and /dump.  A frame is the pair of its turn and its kind; a tool   *)
(* call and its result are added and moved together and are one frame      *)
(* here.  Sizes are counted in frames.  Turn numbers stand for turn_id: in *)
(* one window both grow by one from turn to turn.                          *)
(*                                                                         *)
(* Any load of the file may fail: load() answers a read error, contents it *)
(* finds invalid and a file over its limits (10,000 frames, say, which     *)
(* save() does not enforce) with an empty window, and the next save        *)
(* overwrites the file.                                                    *)
(***************************************************************************)
EXTENDS Integers, FiniteSets, SequencesExt, Filters

CONSTANTS
    MaxTurns,       \* bound: turns
    MaxMoves,       \* bound: cancellations, crashes, commands and looks from outside
    Protect,        \* protect_tail_turns
    Budget,         \* budget_tokens
    Batch           \* the part of the budget an eviction frees at least

ASSUME PipelineAssumption == MaxTurns \in Nat /\ MaxMoves \in Nat

Turn   == 0..MaxTurns                \* turn 0 was saved before this process started
Object == 1..(MaxMoves + 1)          \* RollingWindow objects

Frame(n, kind) == [n |-> n, kind |-> kind]
Frames == [n : Turn, kind : {"user", "tool", "assistant"}]

VARIABLES
    latest,     \* number of the last turn started
    place,      \* where that turn awaits: "idle", "agent", "deliver", "compact", "save"
    moves,      \* moves made (bound)
    body,       \* per RollingWindow object: its frames
    made,       \* number of objects made
    live,       \* _windows: the object of the channel, 0 if there is none
    window,     \* per turn: the object it works with
    file,       \* the persisted window: its frames and the turn that wrote it (0: a command)
    spilled,    \* the frames archived under sleep/
    checkpoint, \* the newest checkpoint: its turn and status
    thread,     \* per turn: the next step of its to_thread work
    plan,       \* per turn: the lists that thread has computed
    outcome,    \* per turn: what its delivery returned
    ended,      \* per turn: "no", "finished", "unsaved", "failed" or "cancelled"
    shown,      \* history: the turns whose reply the channel has accepted
    said,       \* history: every frame added to a window
    gone,       \* history: frames a reset or a crash removed
    raced,      \* history: frames added while a thread was replacing the body
    lateWriters, \* history: threads that were writing the file during a reset
    unread,     \* history: frames of the file in whose place an empty window was loaded
    unrecorded  \* history: the turns whose checkpoint could not be saved

pipelineVars ==
    <<latest, place, moves, body, made, live, window, file, spilled, checkpoint, thread,
      plan, outcome, ended, shown, said, gone, raced, lateWriters, unread, unrecorded>>
turnVars    == <<latest, place, window, outcome, ended>>
windowVars  == <<body, made, live>>
threadVars  == <<thread, plan>>
historyVars == <<shown, said, gone, raced, lateWriters, unread, unrecorded>>

Past   == <<Frame(0, "user"), Frame(0, "tool"), Frame(0, "assistant")>>
Threads == {"none", "compact", "replace", "evict", "drop", "read", "write", "persisted",
            "save", "done"}
NoFile == [body |-> <<>>, by |-> 0]
NoCheckpoint == [n |-> 0, status |-> "none"]
NoWork       == [out |-> {}, kept |-> <<>>]

PipelineTypeOK ==
    /\ latest \in Turn /\ moves \in 0..MaxMoves
    /\ place \in {"idle", "agent", "deliver", "compact", "save"}
    /\ made \in 0..MaxMoves + 1 /\ live \in 0..made
    /\ body \in [Object -> Seq(Frames)]
    /\ window \in [Turn -> 0..made]
    /\ file \in [body : Seq(Frames), by : Turn]
    /\ checkpoint \in [n : Turn, status : {"none", "complete", "in_progress", "delivery_failed"}]
    /\ thread \in [Turn -> Threads]
    /\ plan \in [Turn -> [out : SUBSET Frames, kept : Seq(Frames)]]
    /\ outcome \in [Turn -> {"none", "delivered", "suppressed", "failed"}]
    /\ ended \in [Turn -> {"no", "finished", "unsaved", "failed", "cancelled"}]
    /\ said \subseteq Frames
    /\ shown \subseteq Turn /\ lateWriters \subseteq Turn /\ unrecorded \subseteq Turn

PipelineInit ==
    /\ latest = 0 /\ place = "idle" /\ moves = 0
    /\ said \in {{}, Range(Past)}
    /\ body = [o \in Object |-> <<>>] /\ made = 0 /\ live = 0
    /\ window = [n \in Turn |-> 0]
    /\ file = [body |-> IF said = {} THEN <<>> ELSE Past, by |-> 0]
    /\ spilled = {} /\ checkpoint = NoCheckpoint
    /\ thread = [n \in Turn |-> "none"] /\ plan = [n \in Turn |-> NoWork]
    /\ outcome = [n \in Turn |-> "none"] /\ ended = [n \in Turn |-> IF n = 0 THEN "finished" ELSE "no"]
    /\ shown = {0} /\ gone = {} /\ raced = {} /\ lateWriters = {}
    /\ unread = {} /\ unrecorded = {}

-----------------------------------------------------------------------------
(* RollingWindow *)

Without(b, out) == Only(b, Range(b) \ out)

(* The turns of the last Protect distinct ids in b. *)
Protected(b) ==
    LET ids == {f.n : f \in Range(b)}
    IN  {n \in ids : Cardinality({m \in ids : m > n}) < Protect}

(* compact_solved_turns: the tool frames of the unprotected turns.         *)
Solved(b) == {f \in Range(b) : f.kind = "tool" /\ f.n \notin Protected(b)}

(* evict_if_needed: of a window over its budget, the oldest unprotected    *)
(* frames until enough is freed.                                           *)
Evictable(b) ==
    LET old    == Only(b, {f \in Range(b) : f.n \notin Protected(b)})
        over   == Len(b) - Budget
        toFree == IF over > Batch THEN over ELSE Batch
    IN  IF over <= 0 THEN {}
        ELSE {old[i] : i \in {j \in DOMAIN old : j <= toFree}}

(* dump_to_sleep: the older half or all. *)
Dumped(b, half) ==
    LET k == IF ~half THEN Len(b) ELSE IF Len(b) < 2 THEN Len(b) ELSE Len(b) \div 2
    IN  {b[i] : i \in 1..k}

-----------------------------------------------------------------------------
(* _get_window: the object in memory, or a new one from the file, which is *)
(* empty when the load fails.                                              *)

LiveObject == IF live # 0 THEN live ELSE made + 1
LiveBody   == IF live # 0 THEN body[live] ELSE file.body
Loadable   == IF live # 0 THEN {LiveBody} ELSE {LiveBody, <<>>}

(* The channel has the window that was loaded, now with the frames b. *)
KeepLive(b) ==
    /\ live' = LiveObject
    /\ made' = IF live # 0 THEN made ELSE made + 1
    /\ body' = [body EXCEPT ![LiveObject] = b]

NotRead(loaded) == unread' = unread \cup (Range(LiveBody) \ Range(loaded))

(* Frames added to an object that is no longer the channel's are gone with *)
(* the reset that detached it.                                             *)
AddFrames(n, new) ==
    /\ said' = said \cup new
    /\ gone' = IF window[n] = live THEN gone ELSE gone \cup new
    /\ raced' = IF \E m \in Turn : thread[m] \in {"replace", "drop"} /\ window[m] = window[n]
                  THEN raced \cup new ELSE raced

-----------------------------------------------------------------------------
(* The turn *)

(* Everything up to the first await of the agent loop.  The spill of the   *)
(* eviction may fail: the turn then fails with its question in the window. *)
StartTurn(loaded, spillFails) ==
    LET n     == latest + 1
        asked == Append(loaded, Frame(n, "user"))
        out   == Evictable(asked)
    IN
    /\ loaded \in Loadable
    /\ NotRead(loaded)
    /\ place = "idle" /\ latest < MaxTurns
    /\ latest' = n
    /\ KeepLive(IF spillFails THEN asked ELSE Without(asked, out))
    /\ window' = [window EXCEPT ![n] = LiveObject]
    /\ said' = said \cup {Frame(n, "user")}
    /\ raced' = IF \E m \in Turn : thread[m] \in {"replace", "drop"} /\ window[m] = live
                  THEN raced \cup {Frame(n, "user")} ELSE raced
    /\ IF spillFails
         THEN /\ out # {}
              /\ ended' = [ended EXCEPT ![n] = "failed"]
              /\ UNCHANGED <<place, spilled>>
         ELSE /\ place' = "agent" /\ spilled' = spilled \cup out
              /\ UNCHANGED ended
    /\ UNCHANGED <<moves, file, checkpoint, threadVars, outcome, shown, gone, lateWriters,
                   unrecorded>>

(* The agent loop returns; its tool calls enter the window. *)
AgentReplies(withTools) ==
    LET new == IF withTools THEN {Frame(latest, "tool")} ELSE {}
        o   == window[latest]
    IN
    /\ place = "agent"
    /\ place' = "deliver"
    /\ body' = [body EXCEPT ![o] = IF withTools THEN Append(@, Frame(latest, "tool")) ELSE @]
    /\ AddFrames(latest, new)
    /\ UNCHANGED <<latest, window, outcome, ended, moves, made, live, file, spilled, checkpoint,
                   threadVars, shown, lateWriters, unread, unrecorded>>

(* The agent loop raises: a failure message is sent and nothing is saved.  *)
AgentFails ==
    /\ place = "agent"
    /\ place' = "idle"
    /\ ended' = [ended EXCEPT ![latest] = "failed"]
    /\ UNCHANGED <<latest, window, outcome, moves, windowVars, file, spilled, checkpoint,
                   threadVars, historyVars>>

(* The channel accepts the reply. *)
ChannelAccepts ==
    /\ place = "deliver" /\ latest \notin shown
    /\ shown' = shown \cup {latest}
    /\ UNCHANGED <<turnVars, moves, windowVars, file, spilled, checkpoint, threadVars,
                   said, gone, raced, lateWriters, unread, unrecorded>>

(* Delivery returns: with a receipt, with an error (the receipt may be     *)
(* lost), or having sent nothing on purpose.  Only a delivered reply is    *)
(* added to the window; the thread that compacts and saves it starts.      *)
DeliveryOutcomes == (IF latest \in shown THEN {"delivered"} ELSE {"suppressed"}) \cup {"failed"}

DeliveryEnds(state) ==
    LET new == IF state = "delivered" THEN {Frame(latest, "assistant")} ELSE {}
        o   == window[latest]
    IN
    /\ place = "deliver"
    /\ state \in DeliveryOutcomes
    /\ outcome' = [outcome EXCEPT ![latest] = state]
    /\ body' = [body EXCEPT ![o] = IF new = {} THEN @ ELSE Append(@, Frame(latest, "assistant"))]
    /\ AddFrames(latest, new)
    /\ place' = "compact"
    /\ thread' = [thread EXCEPT ![latest] = "compact"]
    /\ UNCHANGED <<latest, window, ended, moves, made, live, file, spilled, checkpoint, plan,
                   shown, lateWriters, unread, unrecorded>>

(* The first thread is done, also with an error: the checkpoint follows.   *)
StartSave ==
    /\ place = "compact" /\ thread[latest] = "persisted"
    /\ place' = "save"
    /\ thread' = [thread EXCEPT ![latest] = "save"]
    /\ UNCHANGED <<latest, window, outcome, ended, moves, windowVars, file, spilled, checkpoint,
                   plan, historyVars>>

TurnEnds ==
    /\ place = "save" /\ thread[latest] = "done"
    /\ place' = "idle"
    /\ ended' = [ended EXCEPT ![latest] = IF @ = "unsaved" THEN @ ELSE "finished"]
    /\ UNCHANGED <<latest, window, outcome, moves, windowVars, file, spilled, checkpoint,
                   threadVars, historyVars>>

-----------------------------------------------------------------------------
(* compact_and_persist_window and save_checkpoint, in a thread *)

(* compact_solved_turns and evict_if_needed compute what goes and what     *)
(* stays, write the archive, and only then assign the body.                *)
Plan(n, from, out, next, otherwise) ==
    LET b == body[window[n]] IN
    /\ thread[n] = from
    /\ IF out = {}
         THEN /\ thread' = [thread EXCEPT ![n] = otherwise]
              /\ UNCHANGED plan
         ELSE /\ thread' = [thread EXCEPT ![n] = next]
              /\ plan' = [plan EXCEPT ![n] = [out |-> out, kept |-> Without(b, out)]]
    /\ UNCHANGED <<turnVars, moves, windowVars, file, spilled, checkpoint, historyVars>>

Compact(n)     == Plan(n, "compact", Solved(body[window[n]]), "replace", "evict")
EvictFrames(n) == Plan(n, "evict", Evictable(body[window[n]]), "drop", "read")

ArchiveNone(n) == UNCHANGED spilled                  \* mutant: the archive is not written
Archive(n)     == spilled' = spilled \cup plan[n].out

Replace(n) ==
    LET o == window[n] IN
    /\ thread[n] \in {"replace", "drop"}
    /\ Archive(n)
    /\ body' = [body EXCEPT ![o] = plan[n].kept]
    /\ thread' = [thread EXCEPT ![n] = IF @ = "replace" THEN "evict" ELSE "read"]
    /\ plan' = [plan EXCEPT ![n] = NoWork]
    /\ UNCHANGED <<turnVars, moves, made, live, file, checkpoint, historyVars>>

(* The archive cannot be written: the thread raises before the assignment  *)
(* and the window is not saved either.                                     *)
Assigned(n)   == plan[n].kept                       \* mutant: assigned before it is archived
Unassigned(n) == body[window[n]]

SpillFails(n) ==
    /\ thread[n] \in {"replace", "drop"}
    /\ body' = [body EXCEPT ![window[n]] = Unassigned(n)]
    /\ thread' = [thread EXCEPT ![n] = "persisted"]
    /\ plan' = [plan EXCEPT ![n] = NoWork]
    /\ ended' = [ended EXCEPT ![n] = IF @ = "cancelled" THEN @ ELSE "unsaved"]
    /\ UNCHANGED <<latest, place, window, outcome, moves, made, live, file, spilled, checkpoint,
                   historyVars>>

(* _persist_window: the window of the channel now, if it has one. *)
ReadWindow(n) ==
    /\ thread[n] = "read"
    /\ IF live = 0
         THEN /\ thread' = [thread EXCEPT ![n] = "persisted"]
              /\ UNCHANGED plan
         ELSE /\ thread' = [thread EXCEPT ![n] = "write"]
              /\ plan' = [plan EXCEPT ![n] = [out |-> {}, kept |-> body[live]]]
    /\ UNCHANGED <<turnVars, moves, windowVars, file, spilled, checkpoint, historyVars>>

WriteWindow(n) ==
    /\ thread[n] = "write"
    /\ file' = [body |-> plan[n].kept, by |-> n]
    /\ thread' = [thread EXCEPT ![n] = "persisted"]
    /\ plan' = [plan EXCEPT ![n] = NoWork]
    /\ UNCHANGED <<turnVars, moves, windowVars, spilled, checkpoint, historyVars>>

(* A failed write is logged; the old file stays. *)
WriteFails(n) ==
    /\ thread[n] = "write"
    /\ thread' = [thread EXCEPT ![n] = "persisted"]
    /\ plan' = [plan EXCEPT ![n] = NoWork]
    /\ ended' = [ended EXCEPT ![n] = IF @ = "cancelled" THEN @ ELSE "unsaved"]
    /\ UNCHANGED <<latest, place, window, outcome, moves, windowVars, file, spilled, checkpoint,
                   historyVars>>

(* The status a checkpoint may carry: "complete" needs a delivery that was *)
(* ok and a response accepted as an outcome.                               *)
AnyStatus(n) == {"complete", "in_progress"}     \* mutant: delivery is not asked
Statuses(n) == IF outcome[n] = "failed" THEN {"delivery_failed"}
               ELSE {"complete", "in_progress"}

SaveCheckpoint(n, status) ==
    /\ thread[n] = "save"
    /\ status \in Statuses(n)
    /\ checkpoint' = [n |-> n, status |-> status]
    /\ thread' = [thread EXCEPT ![n] = "done"]
    /\ UNCHANGED <<turnVars, moves, windowVars, file, spilled, plan, historyVars>>

(* save_checkpoint raises before it has replaced the file: the turn goes   *)
(* on as if it had not.  (An error after that is a checkpoint saved.)      *)
CheckpointFails(n) ==
    /\ thread[n] = "save"
    /\ unrecorded' = unrecorded \cup {n}
    /\ thread' = [thread EXCEPT ![n] = "done"]
    /\ UNCHANGED <<turnVars, moves, windowVars, file, spilled, checkpoint, plan, shown, said,
                   gone, raced, lateWriters, unread>>

-----------------------------------------------------------------------------
(* Moves from outside *)

Move == moves < MaxMoves /\ moves' = moves + 1

(* The task of the turn is cancelled; a thread it awaits goes on. *)
Cancel ==
    /\ Move
    /\ place # "idle"
    /\ place' = "idle"
    /\ ended' = [ended EXCEPT ![latest] = "cancelled"]
    /\ UNCHANGED <<latest, window, outcome, windowVars, file, spilled, checkpoint, threadVars,
                   historyVars>>

(* Memory is lost; the file, the archive and the checkpoints are not.      *)
Restart ==
    /\ Move
    /\ place' = "idle"
    /\ ended' = IF place = "idle" THEN ended ELSE [ended EXCEPT ![latest] = "cancelled"]
    /\ live' = 0
    /\ body' = [o \in Object |-> <<>>]
    /\ thread' = [n \in Turn |-> "none"] /\ plan' = [n \in Turn |-> NoWork]
    /\ gone' = gone \cup (said \ (Range(file.body) \cup spilled))
    /\ lateWriters' = {n \in lateWriters : thread[n] # "write"}
    /\ UNCHANGED <<latest, window, outcome, made, file, spilled, checkpoint, shown, said, raced,
                   unread, unrecorded>>

(* _reset_window: first the file, then the object. *)
NotUnlinked == file                              \* mutant: only the object is forgotten
Unlinked   == NoFile

Reset ==
    /\ Move
    /\ file' = Unlinked
    /\ live' = 0
    /\ gone' = gone \cup Range(file.body) \cup Range(LiveBody)
    /\ lateWriters' = lateWriters \cup {n \in Turn : thread[n] = "write"}
    /\ UNCHANGED <<turnVars, body, made, spilled, checkpoint, threadVars, shown, said, raced,
                   unread, unrecorded>>

(* _dump_window archives, clears and saves in one step of the event loop;  *)
(* the save may fail.  A window whose load fails has nothing to dump: that *)
(* is a Look.                                                              *)
Dump(half) ==
    LET out  == Dumped(LiveBody, half)
        kept == Without(LiveBody, out)
    IN
    /\ Move
    /\ out # {}
    /\ KeepLive(kept)
    /\ spilled' = spilled \cup out
    /\ file' \in {file, [body |-> kept, by |-> 0]}
    /\ UNCHANGED <<turnVars, checkpoint, threadVars, historyVars>>

(* The HTTP history looks at the window and thereby loads it. *)
Look(loaded) ==
    /\ Move
    /\ live = 0
    /\ loaded \in Loadable
    /\ KeepLive(loaded)
    /\ NotRead(loaded)
    /\ UNCHANGED <<turnVars, file, spilled, checkpoint, threadVars, shown, said, gone, raced,
                   lateWriters, unrecorded>>

PipelineNext ==
    \/ \E loaded \in Loadable, spillFails \in BOOLEAN : StartTurn(loaded, spillFails)
    \/ \E withTools \in BOOLEAN : AgentReplies(withTools)
    \/ AgentFails
    \/ ChannelAccepts
    \/ \E state \in DeliveryOutcomes : DeliveryEnds(state)
    \/ StartSave \/ TurnEnds
    \/ \E n \in Turn :
         \/ Compact(n) \/ EvictFrames(n) \/ Replace(n) \/ SpillFails(n)
         \/ ReadWindow(n) \/ WriteWindow(n) \/ WriteFails(n)
         \/ \E status \in {"complete", "in_progress", "delivery_failed"} :
              SaveCheckpoint(n, status)
         \/ CheckpointFails(n)
    \/ Cancel \/ Restart \/ Reset
    \/ \E loaded \in Loadable : Look(loaded)
    \/ \E half \in BOOLEAN : Dump(half)

PipelineSpec == PipelineInit /\ [][PipelineNext]_pipelineVars

-----------------------------------------------------------------------------
(* Properties *)

(* "Lossless spillover": a frame that was added to the channel's window is *)
(* in the window, or in the file while no window is loaded, or in the      *)
(* archive, unless a reset or a crash removed it, it was added while a     *)
(* thread was between computing the new body and assigning it, or it was   *)
(* in the file when a load of it failed.                                   *)
NothingForgotten ==
    said \subseteq Range(LiveBody) \cup spilled \cup gone \cup raced \cup unread

(* A turn that ended with its window saved survives a restart: its frames  *)
(* are in the file or the archive, unless the file was last written by the *)
(* thread of a cancelled turn, which saves what it had read before, or a   *)
(* load of the file with them failed.                                      *)
FinishedIsDurable ==
    \A f \in said :
        \/ ended[f.n] # "finished"
        \/ f \in Range(file.body) \cup spilled \cup gone \cup raced \cup unread
        \/ file.by # 0 /\ ended[file.by] = "cancelled"

(* What /new removed stays away from memory and file, unless a thread was  *)
(* writing the file while it was unlinked and wrote after it.              *)
ResetIsFinal ==
    \/ \E n \in lateWriters : thread[n] # "write"
    \/ (Range(LiveBody) \cup Range(file.body)) \cap gone = {}

(* The newest checkpoint, which a restart offers as unfinished work or     *)
(* not, says "complete" only of a turn whose reply the channel has or that *)
(* had none.  It is older than a turn that has ended only when it is the   *)
(* late one of a cancelled turn or the save for that turn failed, and only *)
(* then is there none at all.                                              *)
CheckpointTellsTruth ==
    /\ checkpoint.status = "complete" =>
           checkpoint.n \in shown \/ outcome[checkpoint.n] = "suppressed"
    /\ \/ ended[checkpoint.n] = "cancelled"
       \/ \A n \in Turn \ unrecorded : ended[n] = "finished" => n <= checkpoint.n

(* What a restart finds, window file, archive and checkpoint together, is  *)
(* what the turns that ended left.                                         *)
RestartFindsTheEnded == FinishedIsDurable /\ CheckpointTellsTruth
=============================================================================
