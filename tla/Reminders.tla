------------------------------ MODULE Reminders -----------------------------
(***************************************************************************)
(* Reminders on disk and the loop that delivers them.                      *)
(*                                                                         *)
(*   norax/runtime/reminders.py   ReminderScheduler                        *)
(*                                                                         *)
(* A record keeps the ticks left to its next attempt.  The clock stands    *)
(* while the loop scans: what becomes due meanwhile is then at most zero   *)
(* ticks away when the loop computes how long to sleep, and the next scan  *)
(* finds it.  A send may be accepted by the channel without the scheduler  *)
(* learning of it: an error, a timeout, or the end of the task.            *)
(***************************************************************************)
EXTENDS Integers

CONSTANTS
    Ids,            \* the reminders
    MaxDelay,       \* bound: ticks to the time a reminder is asked for
    MaxBackoff,     \* the longest delay between attempts, 2 ** 8 seconds
    Rescan,         \* _EXTERNAL_RESCAN_SECONDS
    PollTicks,      \* poll_seconds
    MaxStops,       \* bound: stops and crashes
    Nobody, Never   \* not a reminder, not a time

ASSUME ReminderAssumption ==
    /\ Nobody \notin Ids /\ Never \notin Nat
    /\ MaxDelay \in Nat /\ MaxBackoff \in Nat \ {0}
    /\ Rescan \in Nat /\ PollTicks \in Nat /\ MaxStops \in Nat

VARIABLES
    exists,     \* the reminders that have a file
    left,       \* per file: ticks to next_attempt_at
    delay,      \* per file: 2 ** attempts, at most MaxBackoff
    delivered,  \* the files with delivered = true
    author,     \* per reminder: schedule() is "new", "written", "done" or "cut" short
    loop,       \* _loop: "down", "sleeping", "cleared" (its event) or "scanning"
    todo,       \* the scan: paths still to be read
    current,    \* the reminder that is being sent or written
    step,       \* "none", "send" or "write"
    ok,         \* the result of the send
    nextDue,    \* _next_due_at
    wake,       \* _wake
    sleep,      \* ticks left of the sleep
    stops,      \* stops and crashes so far (bound)
    calm,       \* from now on nothing fails
    accepted,   \* history: reminders the channel has accepted
    blamed,     \* history: those of them whose acceptance did not reach the file
    missed      \* reminders this scan could not read or write

fileVars   == <<exists, left, delay, delivered>>
scanVars   == <<todo, current, step, ok>>
clockVars  == <<nextDue, sleep>>
faultVars  == <<stops, calm>>
historyOf  == <<accepted, blamed>>
reminderVars == <<fileVars, author, loop, scanVars, clockVars, wake, faultVars, historyOf, missed>>

Due(r) == left[r] = 0

RemindersTypeOK ==
    /\ exists \subseteq Ids /\ delivered \subseteq exists
    /\ left \in [Ids -> Nat] /\ delay \in [Ids -> Nat]
    /\ author \in [Ids -> {"new", "written", "done", "cut"}]
    /\ loop \in {"down", "sleeping", "cleared", "scanning"}
    /\ todo \subseteq exists
    /\ current \in exists \cup {Nobody}
    /\ step \in {"none", "send", "write"} /\ (step = "none" <=> current = Nobody)
    /\ ok \in BOOLEAN
    /\ nextDue \in Nat \cup {Never} /\ sleep \in Nat
    /\ wake \in BOOLEAN
    /\ stops \in Nat /\ calm \in BOOLEAN
    /\ accepted \subseteq exists /\ blamed \subseteq accepted /\ missed \subseteq exists

RemindersInit ==
    /\ exists = {} /\ delivered = {}
    /\ left = [r \in Ids |-> 0] /\ delay = [r \in Ids |-> 1]
    /\ author = [r \in Ids |-> "new"]
    /\ loop = "down"
    /\ todo = {} /\ current = Nobody /\ step = "none" /\ ok = FALSE
    /\ nextDue = Never /\ sleep = 0 /\ wake = FALSE
    /\ stops = 0 /\ calm = FALSE
    /\ accepted = {} /\ blamed = {} /\ missed = {}

Lesser(a, b) == IF a <= b THEN a ELSE b
Sooner(t)    == IF nextDue = Never THEN t ELSE Lesser(nextDue, t)

-----------------------------------------------------------------------------
(* schedule *)

ScheduleWrites(r, ticks) ==
    /\ author[r] = "new"
    /\ author' = [author EXCEPT ![r] = "written"]
    /\ exists' = exists \cup {r}
    /\ left' = [left EXCEPT ![r] = ticks]
    /\ UNCHANGED <<delay, delivered, loop, scanVars, clockVars, wake, faultVars, historyOf,
                   missed>>

ScheduleWakes(r) ==
    /\ author[r] = "written"
    /\ author' = [author EXCEPT ![r] = "done"]
    /\ wake' = TRUE
    /\ UNCHANGED <<fileVars, loop, scanVars, clockVars, faultVars, historyOf, missed>>

(* The caller is cancelled while its thread writes the file. *)
ScheduleIsCut(r) ==
    /\ author[r] = "written"
    /\ author' = [author EXCEPT ![r] = "cut"]
    /\ UNCHANGED <<fileVars, loop, scanVars, clockVars, wake, faultVars, historyOf, missed>>

-----------------------------------------------------------------------------
(* _loop and _deliver_due_unlocked *)

StartLoop ==
    /\ loop = "down"
    /\ loop' = "sleeping" /\ sleep' = 0
    /\ UNCHANGED <<fileVars, author, scanVars, nextDue, wake, faultVars, historyOf, missed>>

(* The event is cleared before the scan, so that a reminder written during *)
(* the scan ends the sleep that follows.                                   *)
ClearWake ==
    /\ loop = "sleeping" /\ (wake \/ sleep = 0)
    /\ loop' = "cleared" /\ sleep' = 0
    /\ wake' = FALSE
    /\ nextDue' = Never
    /\ missed' = {}
    /\ UNCHANGED <<fileVars, author, scanVars, faultVars, historyOf>>

BeginScan ==
    /\ loop = "cleared"
    /\ loop' = "scanning"
    /\ todo' = exists
    /\ UNCHANGED <<fileVars, author, current, step, ok, clockVars, wake, faultVars, historyOf,
                   missed>>

(* The directory cannot be listed: nothing is found. *)
ListingFails ==
    /\ loop = "cleared" /\ ~calm
    /\ loop' = "scanning"
    /\ missed' = exists
    /\ UNCHANGED <<fileVars, author, scanVars, clockVars, wake, faultVars, historyOf>>

(* It is not a directory of the program: another tick after poll_seconds. *)
ScanFails ==
    /\ loop = "cleared" /\ ~calm
    /\ loop' = "sleeping" /\ sleep' = PollTicks
    /\ missed' = exists
    /\ UNCHANGED <<fileVars, author, scanVars, nextDue, wake, faultVars, historyOf>>

Scanned(r) == loop = "scanning" /\ step = "none" /\ r \in todo /\ todo' = todo \ {r}

SkipDelivered(r) ==
    /\ Scanned(r)
    /\ r \in delivered
    /\ UNCHANGED <<fileVars, author, loop, current, step, ok, clockVars, wake, faultVars,
                   historyOf, missed>>

Unreadable(r) ==
    /\ Scanned(r) /\ ~calm
    /\ missed' = missed \cup {r}
    /\ UNCHANGED <<fileVars, author, loop, current, step, ok, clockVars, wake, faultVars,
                   historyOf>>

LastDue(t)     == nextDue' = t             \* mutant: the last one, not the earliest
RememberDue(t) == nextDue' = Sooner(t)

NotYet(r) ==
    /\ Scanned(r)
    /\ r \notin delivered /\ ~Due(r)
    /\ RememberDue(left[r])
    /\ UNCHANGED <<fileVars, author, loop, current, step, ok, sleep, wake, faultVars,
                   historyOf, missed>>

StartSending(r) ==
    /\ Scanned(r)
    /\ r \notin delivered /\ Due(r)
    /\ current' = r /\ step' = "send"
    /\ UNCHANGED <<fileVars, author, loop, ok, clockVars, wake, faultVars, historyOf, missed>>

Sent ==
    /\ step = "send"
    /\ accepted' = accepted \cup {current}
    /\ ok' = TRUE /\ step' = "write"
    /\ UNCHANGED <<fileVars, author, loop, todo, current, clockVars, wake, faultVars, blamed,
                   missed>>

NextDelay(r) == Lesser(MaxBackoff, 2 * delay[r])

(* What a send that fails, or is cut off, may leave behind. *)
PerhapsAccepted ==
    \/ accepted' = accepted \cup {current} /\ blamed' = blamed \cup {current}
    \/ UNCHANGED historyOf

(* An error or the timeout: the channel may have accepted it all the same. *)
SendFailed ==
    /\ step = "send" /\ ~calm
    /\ PerhapsAccepted
    /\ ok' = FALSE /\ step' = "write"
    /\ nextDue' = Sooner(NextDelay(current))
    /\ UNCHANGED <<fileVars, author, loop, todo, current, sleep, wake, faultVars, missed>>

NotMarked  == delivered                    \* mutant: only the attempt is counted
Marked     == delivered \cup {current}

Recorded ==
    IF ok
      THEN /\ delivered' = Marked
           /\ UNCHANGED <<exists, left, delay>>
      ELSE /\ delay' = [delay EXCEPT ![current] = NextDelay(current)]
           /\ left' = [left EXCEPT ![current] = NextDelay(current)]
           /\ UNCHANGED <<exists, delivered>>

Unrecorded ==
    /\ blamed' = IF ok THEN blamed \cup {current} ELSE blamed
    /\ UNCHANGED <<fileVars, accepted>>

WriteResult ==
    /\ step = "write"
    /\ Recorded
    /\ current' = Nobody /\ step' = "none" /\ ok' = FALSE
    /\ UNCHANGED <<author, loop, todo, clockVars, wake, faultVars, historyOf, missed>>

WriteResultFails ==
    /\ step = "write" /\ ~calm
    /\ Unrecorded
    /\ missed' = missed \cup {current}
    /\ current' = Nobody /\ step' = "none" /\ ok' = FALSE
    /\ UNCHANGED <<author, loop, todo, clockVars, wake, faultVars>>

FallAsleep ==
    /\ loop = "scanning" /\ step = "none" /\ todo = {}
    /\ loop' = "sleeping"
    /\ sleep' = IF nextDue = Never THEN Rescan ELSE nextDue
    /\ nextDue' = Never                       \* not read again before the next scan
    /\ UNCHANGED <<fileVars, author, scanVars, wake, faultVars, historyOf, missed>>

-----------------------------------------------------------------------------
(* The clock, stop and crash *)

Less(n) == IF n = 0 THEN 0 ELSE n - 1

TimePasses ==
    /\ loop \in {"sleeping", "down"}
    /\ left' = [r \in Ids |-> Less(left[r])]
    /\ sleep' = Less(sleep)
    /\ UNCHANGED <<exists, delay, delivered, author, loop, scanVars, nextDue, wake, faultVars,
                   historyOf, missed>>

GoesDown ==
    /\ ~calm /\ stops < MaxStops
    /\ stops' = stops + 1
    /\ loop # "down" /\ loop' = "down"
    /\ todo' = {} /\ current' = Nobody /\ step' = "none" /\ ok' = FALSE
    /\ nextDue' = Never /\ sleep' = 0 /\ missed' = {}

CutOff == IF step = "send" THEN PerhapsAccepted ELSE UNCHANGED historyOf

(* stop() cancels the task; a file that is being written is still written. *)
StopLoop ==
    /\ GoesDown
    /\ IF step = "write" THEN Recorded /\ UNCHANGED historyOf
                         ELSE CutOff /\ UNCHANGED fileVars
    /\ UNCHANGED <<author, wake, calm>>

CrashLoop ==
    /\ GoesDown
    /\ IF step = "write" THEN Unrecorded ELSE CutOff /\ UNCHANGED fileVars
    /\ author' = [r \in Ids |-> IF author[r] = "written" THEN "cut" ELSE author[r]]
    /\ wake' = FALSE
    /\ UNCHANGED calm

FaultsEnd ==
    /\ ~calm /\ calm' = TRUE
    /\ UNCHANGED <<fileVars, author, loop, scanVars, clockVars, wake, stops, historyOf, missed>>

Scan ==
    \/ ClearWake \/ BeginScan \/ ListingFails \/ ScanFails
    \/ \E r \in Ids : SkipDelivered(r) \/ Unreadable(r) \/ NotYet(r) \/ StartSending(r)
    \/ Sent \/ SendFailed \/ WriteResult \/ WriteResultFails
    \/ FallAsleep

RemindersNext ==
    \/ \E r \in Ids :
         \/ \E ticks \in 0..MaxDelay : ScheduleWrites(r, ticks)
         \/ ScheduleWakes(r) \/ ScheduleIsCut(r)
    \/ Scan \/ StartLoop
    \/ TimePasses \/ StopLoop \/ CrashLoop \/ FaultsEnd

RemindersSpec == RemindersInit /\ [][RemindersNext]_reminderVars

-----------------------------------------------------------------------------
(* Properties *)

(* A reminder the channel has accepted is sent again only when that        *)
(* acceptance did not reach the file: the send failed, timed out or was    *)
(* cut off after it was accepted, the write failed, or the process died.   *)
OnceUnlessUnrecorded ==
    step = "send" /\ current \in accepted => current \in blamed

(* While the loop sleeps undisturbed it wakes no later than the next       *)
(* attempt of any reminder whose schedule() returned and that the last     *)
(* scan could read and write.                                              *)
NoSleepPastDue ==
    loop = "sleeping" /\ ~wake =>
        \A r \in exists \ (delivered \cup missed) :
            author[r] = "done" => sleep <= left[r]

(* Once nothing fails any more, every reminder on disk is delivered, those *)
(* whose schedule() was cut short too.                                     *)
EveryReminderArrives ==
    \A r \in Ids : (calm /\ r \in exists) ~> r \in delivered
=============================================================================
