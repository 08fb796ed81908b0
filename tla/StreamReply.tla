---------------------------- MODULE StreamReply -----------------------------
(***************************************************************************)
(* The reply of one turn in a Discord channel, shown while it is made.     *)
(*                                                                         *)
(*   norax/adapter/discord_in.py     StreamingMessage, DiscordInAdapter    *)
(*   norax/runtime/delivery.py       _deliver_turn_response, _emit_reply   *)
(*   norax/runtime/turn_pipeline.py  _handle_turn, _handle_turn_inner      *)
(*   norax/runtime/lifecycle.py      shutdown                              *)
(*                                                                         *)
(* The turn is one task; every request to Discord is an await.  A request  *)
(* may fail, or take effect without the program learning of it, and the    *)
(* turn may be cancelled in it.  shutdown() deletes the posts of a turn    *)
(* that ignores its cancellation, without the lock of the message.         *)
(***************************************************************************)
EXTENDS Integers, FiniteSets, SequencesExt, Filters

CONSTANTS
    MaxBuffer,      \* bound: length of the text generated, in half posts
    MaxFinal,       \* bound: posts of a final text
    MaxPosts,       \* bound: posts ever made
    MaxBreaks       \* bound: cancellations, deadlines and shutdowns

ASSUME StreamAssumption == {MaxBuffer, MaxFinal, MaxPosts, MaxBreaks} \subseteq Nat

VARIABLES
    posts,      \* the channel: the text of each post of the bot, or Gone
    placed,   \* _messages: the posts by position
    sentIds,    \* _sent_ids
    shownChunks,\* _pushed_chunks
    buffer,     \* length of _buf
    closed,     \* _closed
    direct,     \* there is no StreamingMessage: the reply is sent when it is complete
    stage,      \* where the turn awaits
    job,        \* the texts being shown and the requests still to make
    removal,    \* per deleting task: the list it goes through and its place in it
    owned,      \* _active_stream_messages has the message
    result,     \* what the delivery returned
    breaks,     \* cancellations, deadlines and shutdowns (bound)
    swept,      \* history: shutdown() has begun to delete
    orphans,    \* history: posts the program does not know of
    stuck       \* history: posts whose deletion failed, or was cut off

streamVars == <<posts, placed, sentIds, shownChunks, buffer, closed, direct, stage, job, removal,
                owned, result, breaks, swept, orphans, stuck>>
ownVars    == <<placed, sentIds, shownChunks, buffer, closed>>
histories  == <<swept, orphans, stuck>>

Gone == [kind |-> "gone", n |-> 0, size |-> 0]

(* The fixed-width chunks of a preview: all full but the last. *)
Half(n) == (n + 1) \div 2
Preview(length) ==
    [i \in 1..Half(length) |->
        [kind |-> "live", n |-> i, size |-> IF 2 * i <= length THEN 2 ELSE 1]]

(* The naturally split chunks of the complete text. *)
Complete(k) == [i \in 1..k |-> [kind |-> "final", n |-> i, size |-> 2]]

NoJob  == [texts |-> <<>>, todo |-> <<>>, ok |-> TRUE]
NoList == [ids |-> <<>>, own |-> FALSE, i |-> 0]

StreamTypeOK ==
    /\ Range(placed) \subseteq DOMAIN posts /\ Range(sentIds) \subseteq DOMAIN posts
    /\ buffer \in 0..MaxBuffer
    /\ stage \in {"generating", "push", "late", "final", "trim", "recording", "suppress",
               "cleanup", "over"}
    /\ result \in {"none", "delivered", "failed", "suppressed", "cancelled", "error"}
    /\ orphans \cup stuck \subseteq DOMAIN posts

StreamInit ==
    /\ posts = <<>> /\ placed = <<>> /\ sentIds = <<>> /\ shownChunks = <<>>
    /\ buffer = 0 /\ closed = FALSE
    /\ direct \in BOOLEAN
    /\ stage = "generating" /\ job = NoJob
    /\ removal = [who \in {"turn", "shutdown"} |-> NoList]
    /\ owned = ~direct
    /\ result = "none" /\ breaks = 0
    /\ swept = FALSE /\ orphans = {} /\ stuck = {}

-----------------------------------------------------------------------------
(* Showing texts: _push, finalize and send *)

(* Positions whose post does not show the text already. *)
Changed(texts) ==
    Only([i \in DOMAIN texts |-> i],
         {i \in DOMAIN texts : ~(i \in DOMAIN shownChunks /\ shownChunks[i] = texts[i])})

(* append() with a new delta: the edits are rate-limited. *)
Append1(pushes) ==
    /\ stage = "generating" /\ ~direct
    /\ ~closed /\ buffer < MaxBuffer
    /\ buffer' = buffer + 1
    /\ IF pushes
         THEN /\ stage' = "push"
              /\ job' = [texts |-> Preview(buffer'), todo |-> Changed(Preview(buffer')), ok |-> TRUE]
         ELSE UNCHANGED <<stage, job>>
    /\ UNCHANGED <<posts, placed, sentIds, shownChunks, closed, direct, removal, owned, result,
                   breaks, histories>>

(* The state after the last request of a job that is now j. *)
TrimNone(n, j) == <<>>                             \* mutant: stale previews stay
Stale(n, j) == SubSeq(n, Len(j.texts) + 1, Len(n))

PushEnds(j) ==
    /\ stage' = "generating" /\ job' = NoJob
    /\ shownChunks' = IF j.ok THEN j.texts ELSE shownChunks
    /\ UNCHANGED result

FinalEnds(n, j) ==
    /\ UNCHANGED shownChunks
    /\ IF Stale(n, j) # <<>>
         THEN stage' = "trim" /\ job' = [j EXCEPT !.todo = Stale(n, j)] /\ UNCHANGED result
         ELSE /\ stage' = "recording" /\ job' = j
              /\ result' = IF result = "error" THEN result
                           ELSE IF j.ok THEN "delivered" ELSE "failed"

(* The request for the next text returns.  ok: as Discord sees it; told:   *)
(* the program learns of it.  A direct send ends at the first failure.     *)
Edits(i) == ~direct /\ i <= Len(placed)        \* else a new post is made

Unrecorded(id) == sentIds                          \* mutant: the new post is not noted
Recorded(id)   == Append(sentIds, id)

DiscordAnswers(ok, told) ==
    LET i    == Head(job.todo)
        new  == Append(posts, job.texts[i])
        id   == Len(new)
        left == IF direct /\ ~told THEN <<>> ELSE Tail(job.todo)
        j    == [job EXCEPT !.todo = left, !.ok = @ /\ told]
    IN
    /\ stage \in {"push", "final"} /\ job.todo # <<>>
    /\ told => ok
    /\ IF Edits(i)
         THEN /\ ok => posts[placed[i]] # Gone
              /\ posts' = IF ok THEN [posts EXCEPT ![placed[i]] = job.texts[i]] ELSE posts
              /\ UNCHANGED <<placed, sentIds, orphans>>
         ELSE /\ Len(posts) < MaxPosts
              /\ posts' = IF ok THEN new ELSE posts
              /\ placed' = IF told /\ ~direct THEN Append(placed, id) ELSE placed
              /\ sentIds' = IF told /\ ~direct THEN Recorded(id) ELSE sentIds
              /\ orphans' = IF ok /\ ~told THEN orphans \cup {id} ELSE orphans
    /\ IF left # <<>>
         THEN job' = j /\ UNCHANGED <<stage, shownChunks, result>>
         ELSE IF stage = "push" THEN PushEnds(j) ELSE FinalEnds(placed', j)
    /\ UNCHANGED <<buffer, closed, direct, removal, owned, breaks, swept, stuck>>

(* A stale preview is deleted; after the last, the lists are shortened.    *)
Trim(ok) ==
    LET id   == Head(job.todo)
        j    == [job EXCEPT !.todo = Tail(@), !.ok = @ /\ ok]
        kept == SubSeq(placed, 1, Len(job.texts))
    IN
    /\ stage = "trim"
    /\ ok => posts[id] # Gone
    /\ posts' = IF ok THEN [posts EXCEPT ![id] = Gone] ELSE posts
    /\ stuck' = IF ok THEN stuck ELSE stuck \cup {id}
    /\ job' = j
    /\ IF j.todo # <<>>
         THEN UNCHANGED <<stage, placed, sentIds, result, removal>>
         ELSE /\ stage' = "recording"
              /\ placed' = kept /\ sentIds' = kept
              /\ result' = IF result = "error" THEN result
                           ELSE IF j.ok THEN "delivered" ELSE "failed"
              /\ removal' = [who \in DOMAIN removal |->
                               IF removal[who].own THEN [removal[who] EXCEPT !.ids = sentIds, !.own = FALSE]
                               ELSE removal[who]]
    /\ UNCHANGED <<shownChunks, buffer, closed, direct, owned, breaks, swept, orphans>>

-----------------------------------------------------------------------------
(* The turn *)

(* The agent loop returns a text of k posts, or raises and the text says   *)
(* so.  An empty text, a reply tag only, shows nothing if nothing was      *)
(* shown before, else a warning.                                           *)
Shows(k) == IF k = 0 /\ placed # <<>> THEN Complete(1) ELSE Complete(k)

Reply(k, raised) ==
    LET texts == Shows(k) IN
    /\ stage \in {"generating", "late"}
    /\ direct => k > 0
    /\ raised => k = 1 /\ stage = "generating"
    /\ closed' = (closed \/ ~direct)
    /\ job' = [texts |-> texts, todo |-> [i \in DOMAIN texts |-> i], ok |-> TRUE]
    /\ IF (closed /\ ~direct) \/ texts = <<>>
         THEN stage' = "recording" /\ result' = IF raised THEN "error" ELSE "delivered"
         ELSE stage' = "final" /\ result' = IF raised THEN "error" ELSE result
    /\ UNCHANGED <<posts, placed, sentIds, shownChunks, buffer, direct, removal, owned, breaks,
                   histories>>

(* NO_REPLY and HEARTBEAT_OK *)
Suppress ==
    /\ stage = "generating"
    /\ result' = "suppressed"
    /\ IF direct
         THEN stage' = "recording" /\ UNCHANGED <<closed, removal>>
         ELSE /\ stage' = "suppress" /\ closed' = TRUE
              /\ removal' = [removal EXCEPT !["turn"] = [ids |-> <<>>, own |-> TRUE, i |-> 1]]
    /\ UNCHANGED <<posts, placed, sentIds, shownChunks, buffer, direct, job, owned, breaks,
                   histories>>

(* The events are written, and the message is no longer the turn's to      *)
(* clean up.  Whatever ends the turn from now on leaves the reply.         *)
Forget ==
    /\ stage = "recording"
    /\ stage' = "over" /\ owned' = FALSE
    /\ UNCHANGED <<posts, ownVars, direct, job, removal, result, breaks, histories>>

(* The task is cancelled in its await.  A request under way may still take *)
(* effect.  The finally of _handle_turn deletes what was shown.            *)
Break == breaks < MaxBreaks /\ breaks' = breaks + 1

CutShort(ok) ==
    \/ ~ok /\ UNCHANGED <<posts, orphans>>
    \/ /\ ok /\ stage \in {"push", "final"} /\ job.todo # <<>>
       /\ LET i == Head(job.todo) IN
          IF Edits(i)
            THEN /\ posts[placed[i]] # Gone
                 /\ posts' = [posts EXCEPT ![placed[i]] = job.texts[i]]
                 /\ UNCHANGED orphans
            ELSE /\ Len(posts) < MaxPosts
                 /\ posts' = Append(posts, job.texts[i])
                 /\ orphans' = orphans \cup {Len(posts')}
    \/ /\ ok /\ stage = "trim"
       /\ posts' = [posts EXCEPT ![Head(job.todo)] = Gone]
       /\ UNCHANGED orphans

KeepsPreview == stage' = "over" /\ UNCHANGED <<closed, owned, removal>>    \* mutant: no cleanup
CleanUp ==
    /\ owned' = FALSE
    /\ IF owned
         THEN /\ stage' = "cleanup" /\ closed' = TRUE
              /\ removal' = [removal EXCEPT !["turn"] = [ids |-> <<>>, own |-> TRUE, i |-> 1]]
         ELSE stage' = "over" /\ UNCHANGED closed /\ removal' = [removal EXCEPT !["turn"] = NoList]

CancelTurn(ok) ==
    /\ stage \notin {"cleanup", "over"}
    /\ Break /\ CutShort(ok)
    /\ result' = "cancelled" /\ job' = NoJob
    /\ CleanUp
    /\ UNCHANGED <<placed, sentIds, shownChunks, buffer, direct, swept, stuck>>

(* The cleanup is cancelled, too. *)
CancelCleanUp ==
    /\ stage = "cleanup"
    /\ Break
    /\ stage' = "over"
    /\ stuck' = stuck \cup Range(sentIds)
    /\ removal' = [removal EXCEPT !["turn"] = NoList]
    /\ UNCHANGED <<posts, ownVars, direct, job, owned, result, swept, orphans>>

(* The deadline of the turn ends the generation inside a push; the turn    *)
(* goes on to reply.                                                       *)
Deadline(ok) ==
    /\ stage = "push"
    /\ Break /\ CutShort(ok)
    /\ stage' = "late" /\ job' = NoJob
    /\ UNCHANGED <<ownVars, direct, removal, owned, result, swept, stuck>>

-----------------------------------------------------------------------------
(* delete(), by the turn or by shutdown() *)

ListOf(who) == IF removal[who].own THEN sentIds ELSE removal[who].ids

RemovePost(who, ok) ==
    LET id == ListOf(who)[removal[who].i] IN
    /\ removal[who].i \in DOMAIN ListOf(who)
    /\ ok => posts[id] # Gone
    /\ posts' = IF ok THEN [posts EXCEPT ![id] = Gone] ELSE posts
    /\ stuck' = IF ok THEN stuck ELSE stuck \cup {id}
    /\ removal' = [removal EXCEPT ![who].i = @ + 1]
    /\ UNCHANGED <<ownVars, direct, stage, job, owned, result, breaks, swept, orphans>>

Removed(who) ==
    /\ removal[who].i > Len(ListOf(who))
    /\ sentIds' = <<>>
    /\ removal' = [removal EXCEPT ![who] = NoList]
    /\ stage' = IF who = "shutdown" THEN stage ELSE IF stage = "suppress" THEN "recording" ELSE "over"
    /\ owned' = (owned /\ who = "turn")
    /\ UNCHANGED <<posts, placed, shownChunks, buffer, closed, direct, job, result, breaks,
                   histories>>

(* After the drain: the turn did not react to its cancellation. *)
ShutdownDeletes ==
    /\ owned /\ ~swept
    /\ Break
    /\ swept' = TRUE /\ closed' = TRUE
    /\ removal' = [removal EXCEPT !["shutdown"] = [ids |-> <<>>, own |-> TRUE, i |-> 1]]
    /\ UNCHANGED <<posts, placed, sentIds, shownChunks, buffer, direct, stage, job, owned, result,
                   orphans, stuck>>

StreamNext ==
    \/ \E b \in BOOLEAN : Append1(b) \/ Trim(b) \/ CancelTurn(b) \/ Deadline(b)
    \/ \E ok, told \in BOOLEAN : DiscordAnswers(ok, told)
    \/ \E k \in 0..MaxFinal, raised \in BOOLEAN : Reply(k, raised)
    \/ Suppress \/ Forget \/ CancelCleanUp \/ ShutdownDeletes
    \/ \E who \in {"turn", "shutdown"} : Removed(who) \/ \E ok \in BOOLEAN : RemovePost(who, ok)

StreamSpec == StreamInit /\ [][StreamNext]_streamVars

-----------------------------------------------------------------------------
(* Properties *)

Visible ==
    LET known == {id \in DOMAIN posts : posts[id] # Gone} \ (orphans \cup stuck)
        shown == Only([id \in DOMAIN posts |-> id], known)
    IN  [i \in DOMAIN shown |-> posts[shown[i]]]

(* When the turn is over, the channel shows exactly the complete reply, in *)
(* order, if the delivery says it was delivered, and nothing if it was     *)
(* suppressed or the turn was cancelled before: no preview, however long,  *)
(* is left of it.  Not promised: what happens to posts the program does    *)
(* not know of or could not delete, once shutdown() deletes, and to the    *)
(* first posts of a direct send that is cut off.                           *)
ShownIsReply ==
    stage = "over" /\ ~swept =>
        /\ result = "delivered" \/ (result = "error" /\ job.ok) => Visible = job.texts
        /\ result = "suppressed" \/ (result = "cancelled" /\ ~direct) => Visible = <<>>
=============================================================================
