---------------------------- MODULE RemoteRelay -----------------------------
(***************************************************************************)
(* The relay between callers of run_job and one remote node, which works   *)
(* over a websocket it opens and reopens or by long polling.               *)
(*                                                                         *)
(*   norax/remote/relay.py   RemoteRelay                                   *)
(*                                                                         *)
(* The bodies of "async with self.lock" never await, so the lock is never  *)
(* held across a switch of tasks and each body is one step.  A future is   *)
(* done before its waiter runs again: a caller or poller can time out, or  *)
(* be cancelled, in between.  What was sent may be lost on its way to the  *)
(* node.                                                                   *)
(***************************************************************************)
EXTENDS Integers, FiniteSets, SequencesExt, Filters

CONSTANTS
    Jobs,           \* calls of run_job, each with the job_id it is given
    Conns,          \* websocket connections of the node
    Polls,          \* calls of poll_job
    MaxPendingJobs, \* _MAX_PENDING_JOBS, also for one node
    MaxWaiters,     \* _MAX_POLL_WAITERS_PER_NODE
    NoConn, NoJob   \* not a connection, not a job

ASSUME RelayAssumption ==
    /\ IsFiniteSet(Jobs) /\ NoConn \notin Conns /\ NoJob \notin Jobs
    /\ MaxPendingJobs \in Nat /\ MaxWaiters \in Nat

VARIABLES
    node,       \* nodes: the node's current connection
    conn,       \* per connection: "new", "sending" its backlog, "reading" or "gone"
    open,       \* the connections whose transport is up
    backlog,    \* per connection: the jobs it has still to send
    pendingJobs,\* the keys of pending
    httpQueue,  \* http_queues
    waiters,    \* poll_waiters
    poll,       \* per poll: "new", "waiting", "given" (its future has a job), "expired", "done"
    given,      \* per poll: the job in its future
    call,       \* per call: "new", "sending", "resolved" (sending, its future is done),
                \*   "waiting", "answered" (waiting, its future is done), "returned"
    sock,       \* per call: the connection it is sending to
    handed,     \* history: how often the job was sent to the node
    lostJobs,   \* history: jobs that were given to a poll that had just expired
    carried,    \* history: jobs that were ever in a backlog or in the future of a poll
    tooLate,    \* history: jobs sent to the node after their call had returned
    orphans     \* history: jobs whose call was cancelled while it was sending

connVars == <<node, conn, open, backlog>>
pollVars == <<waiters, poll, given>>
callVars == <<call, sock>>
nodeVars == <<handed, lostJobs, carried, tooLate, orphans>>
relayVars == <<connVars, pendingJobs, httpQueue, pollVars, callVars, nodeVars>>

RelayTypeOK ==
    /\ node \in Conns \cup {NoConn}
    /\ conn \in [Conns -> {"new", "sending", "reading", "gone"}]
    /\ open \subseteq Conns
    /\ backlog \in [Conns -> Seq(Jobs)]
    /\ pendingJobs \subseteq Jobs
    /\ httpQueue \in Seq(Jobs)
    /\ waiters \in Seq(Polls)
    /\ poll \in [Polls -> {"new", "waiting", "given", "expired", "done"}]
    /\ given \in [Polls -> Jobs \cup {NoJob}]
    /\ call \in [Jobs -> {"new", "sending", "resolved", "waiting", "answered", "returned"}]
    /\ sock \in [Jobs -> Conns \cup {NoConn}]
    /\ handed \in [Jobs -> Nat]
    /\ lostJobs \subseteq Jobs
    /\ carried \subseteq Jobs /\ tooLate \subseteq Jobs
    /\ orphans \subseteq Jobs

RelayInit ==
    /\ node = NoConn
    /\ conn = [c \in Conns |-> "new"] /\ open = {}
    /\ backlog = [c \in Conns |-> <<>>]
    /\ pendingJobs = {} /\ httpQueue = <<>>
    /\ waiters = <<>> /\ poll = [p \in Polls |-> "new"]
    /\ given = [p \in Polls |-> NoJob]
    /\ call = [j \in Jobs |-> "new"]
    /\ sock = [j \in Jobs |-> NoConn]
    /\ handed = [j \in Jobs |-> 0]
    /\ lostJobs = {} /\ carried = {} /\ tooLate = {}
    /\ orphans = {}

-----------------------------------------------------------------------------
(* A job is sent to the node; one that is lost on the way is never         *)
(* reported.                                                               *)
HandOver(j) ==
    /\ handed' = [handed EXCEPT ![j] = @ + 1]
    /\ tooLate' = IF call[j] = "returned" THEN tooLate \cup {j} ELSE tooLate
    /\ UNCHANGED <<lostJobs, carried, orphans>>

(* The future of a pending job is resolved, if it is not done yet. *)
Settled(state) == CASE state = "sending" -> "resolved"
                     [] state = "waiting" -> "answered"
                     [] OTHER -> state

(* _fail_pending_for_node: every pending future is resolved with an error. *)
FailPending ==
    /\ pendingJobs' = {}
    /\ call' = [j \in Jobs |-> IF j \in pendingJobs THEN Settled(call[j]) ELSE call[j]]
    /\ UNCHANGED sock

-----------------------------------------------------------------------------
(* run_job *)

Return(j) ==
    /\ call' = [call EXCEPT ![j] = "returned"]
    /\ sock' = [sock EXCEPT ![j] = NoConn]

Full == Cardinality(pendingJobs) >= MaxPendingJobs

RefuseJob(j) ==
    /\ call[j] = "new" /\ Full
    /\ Return(j)
    /\ UNCHANGED <<connVars, pendingJobs, httpQueue, pollVars, nodeVars>>

(* No websocket, and the registry does not know the node as a poller. *)
NodeOffline(j) ==
    /\ call[j] = "new" /\ ~Full
    /\ node = NoConn
    /\ Return(j)
    /\ UNCHANGED <<connVars, pendingJobs, httpQueue, pollVars, nodeVars>>

StartSend(j) ==
    /\ call[j] = "new" /\ ~Full
    /\ node # NoConn
    /\ pendingJobs' = pendingJobs \cup {j}
    /\ call' = [call EXCEPT ![j] = "sending"]
    /\ sock' = [sock EXCEPT ![j] = node]
    /\ UNCHANGED <<connVars, httpQueue, pollVars, nodeVars>>

(* The waiters whose future is done are skipped. *)
Unskipped == waiters                       \* mutant: the first waiter may have expired
Skipped  == Only(waiters, {p \in Polls : poll[p] = "waiting"})

(* To a polling node: into the future of the first waiter, or the queue.   *)
GiveToPoll(j) ==
    LET w == Skipped IN
    /\ call[j] = "new" /\ ~Full
    /\ node = NoConn
    /\ pendingJobs' = pendingJobs \cup {j}
    /\ call' = [call EXCEPT ![j] = "waiting"]
    /\ IF w = <<>>
         THEN /\ httpQueue' = Append(httpQueue, j)
              /\ waiters' = <<>>
              /\ UNCHANGED <<poll, given, nodeVars>>
         ELSE /\ waiters' = Tail(w)
              /\ IF poll[Head(w)] = "waiting"
                   THEN /\ poll' = [poll EXCEPT ![Head(w)] = "given"]
                        /\ given' = [given EXCEPT ![Head(w)] = j]
                        /\ carried' = carried \cup {j}
                        /\ UNCHANGED <<handed, lostJobs, tooLate, orphans>>
                   ELSE UNCHANGED <<poll, given, nodeVars>>
              /\ UNCHANGED httpQueue
    /\ UNCHANGED <<connVars, sock>>

Sending(j) == call[j] \in {"sending", "resolved"}

(* send_json returned; the answer may already be there. *)
JobSent(j) ==
    /\ Sending(j)
    /\ sock[j] \in open
    /\ call' = [call EXCEPT ![j] = IF @ = "sending" THEN "waiting" ELSE "answered"]
    /\ sock' = [sock EXCEPT ![j] = NoConn]
    /\ HandOver(j)
    /\ UNCHANGED <<connVars, pendingJobs, httpQueue, pollVars>>

SendFails(j) ==
    /\ Sending(j)
    /\ sock[j] \notin open
    /\ pendingJobs' = pendingJobs \ {j}
    /\ Return(j)
    /\ UNCHANGED <<connVars, httpQueue, pollVars, nodeVars>>

CallReturns(j) ==
    /\ call[j] = "answered"
    /\ Return(j)
    /\ UNCHANGED <<connVars, pendingJobs, httpQueue, pollVars, nodeVars>>

StillQueued(j) == httpQueue                \* mutant: _remove_queued_job is not called
Unqueued(j)  == Only(httpQueue, Jobs \ {j})

(* The deadline, or a cancellation, also when the future has just been     *)
(* resolved.                                                               *)
StillListed(j) == pendingJobs              \* mutant: the entry is left behind
Unlisted(j)    == pendingJobs \ {j}

GiveUp(j) ==
    /\ call[j] \in {"waiting", "answered"}
    /\ pendingJobs' = Unlisted(j)
    /\ httpQueue' = Unqueued(j)
    /\ Return(j)
    /\ UNCHANGED <<connVars, pollVars, nodeVars>>

(* A cancellation inside send_json passes every handler of run_job. *)
CancelSend(j) ==
    /\ Sending(j)
    /\ Return(j)
    /\ orphans' = orphans \cup {j}
    /\ UNCHANGED <<connVars, pendingJobs, httpQueue, pollVars, handed, lostJobs,
                   carried, tooLate>>

-----------------------------------------------------------------------------
(* connect_node *)

KeptQueue  == httpQueue                    \* mutant: read, not popped
TakenQueue == <<>>

(* The connection replaces another one, closes it and takes the queue.     *)
Connect(c) ==
    /\ conn[c] = "new"
    /\ conn' = [conn EXCEPT ![c] = "sending"]
    /\ open' = (open \ {node}) \cup {c}
    /\ node' = c
    /\ backlog' = [backlog EXCEPT ![c] = httpQueue]
    /\ httpQueue' = TakenQueue
    /\ carried' = carried \cup Range(httpQueue)
    /\ IF node # NoConn
         THEN FailPending
         ELSE UNCHANGED <<pendingJobs, callVars>>
    /\ UNCHANGED <<pollVars, handed, lostJobs, tooLate, orphans>>

TransportFails(c) ==
    /\ c \in open
    /\ open' = open \ {c}
    /\ UNCHANGED <<node, conn, backlog, pendingJobs, httpQueue, pollVars, callVars, nodeVars>>

SendBacklog(c) ==
    /\ conn[c] = "sending" /\ c \in open
    /\ backlog[c] # <<>>
    /\ backlog' = [backlog EXCEPT ![c] = Tail(@)]
    /\ HandOver(Head(backlog[c]))
    /\ UNCHANGED <<node, conn, open, pendingJobs, httpQueue, pollVars, callVars>>

(* A send fails: the rest goes back to the head of the queue. *)
BacklogFails(c) ==
    /\ conn[c] = "sending" /\ c \notin open
    /\ backlog[c] # <<>>
    /\ httpQueue' = backlog[c] \o httpQueue
    /\ backlog' = [backlog EXCEPT ![c] = <<>>]
    /\ conn' = [conn EXCEPT ![c] = "reading"]
    /\ UNCHANGED <<node, open, pendingJobs, pollVars, callVars, nodeVars>>

BacklogSent(c) ==
    /\ conn[c] = "sending" /\ backlog[c] = <<>>
    /\ conn' = [conn EXCEPT ![c] = "reading"]
    /\ UNCHANGED <<node, open, backlog, pendingJobs, httpQueue, pollVars, callVars, nodeVars>>

(* receive_json raises: only the node's current connection takes the       *)
(* pending jobs with it.                                                   *)
Disconnect(c) ==
    /\ conn[c] = "reading" /\ c \notin open
    /\ conn' = [conn EXCEPT ![c] = "gone"]
    /\ IF node = c
         THEN node' = NoConn /\ FailPending
         ELSE UNCHANGED <<node, pendingJobs, callVars>>
    /\ UNCHANGED <<open, backlog, httpQueue, pollVars, nodeVars>>

(* A result of the node, by websocket or by POST, resolves the future of a *)
(* pending job; any other is ignored.                                      *)
Report(j) ==
    /\ handed[j] > 0
    /\ j \in pendingJobs
    /\ pendingJobs' = pendingJobs \ {j}
    /\ call' = [call EXCEPT ![j] = Settled(@)]
    /\ UNCHANGED <<connVars, httpQueue, pollVars, sock, nodeVars>>

-----------------------------------------------------------------------------
(* poll_job *)

PollStarts(p) ==
    /\ poll[p] = "new"
    /\ IF httpQueue # <<>>
         THEN /\ httpQueue' = Tail(httpQueue)
              /\ poll' = [poll EXCEPT ![p] = "done"]
              /\ HandOver(Head(httpQueue))
              /\ UNCHANGED waiters
         ELSE /\ IF Len(Skipped) < MaxWaiters
                   THEN /\ waiters' = Append(Skipped, p)
                        /\ poll' = [poll EXCEPT ![p] = "waiting"]
                   ELSE /\ poll' = [poll EXCEPT ![p] = "done"]
                        /\ UNCHANGED waiters
              /\ UNCHANGED <<httpQueue, nodeVars>>
    /\ UNCHANGED <<connVars, pendingJobs, given, callVars>>

PollReturns(p) ==
    /\ poll[p] = "given"
    /\ poll' = [poll EXCEPT ![p] = "done"]
    /\ given' = [given EXCEPT ![p] = NoJob]
    /\ HandOver(given[p])
    /\ UNCHANGED <<connVars, pendingJobs, httpQueue, waiters, callVars>>

(* The deadline cancels the future of the poll; it leaves the list when    *)
(* its task runs again.                                                    *)
PollExpires(p) ==
    /\ poll[p] = "waiting"
    /\ poll' = [poll EXCEPT ![p] = "expired"]
    /\ UNCHANGED <<connVars, pendingJobs, httpQueue, waiters, given, callVars, nodeVars>>

PollLeaves(p) ==
    /\ poll[p] = "expired"
    /\ poll' = [poll EXCEPT ![p] = "done"]
    /\ waiters' = Only(waiters, Polls \ {p})
    /\ UNCHANGED <<connVars, pendingJobs, httpQueue, given, callVars, nodeVars>>

(* The deadline comes when the future has just got a job: the poll says    *)
(* "noop" and the job is lost.                                             *)
PollDropsJob(p) ==
    /\ poll[p] = "given"
    /\ poll' = [poll EXCEPT ![p] = "done"]
    /\ given' = [given EXCEPT ![p] = NoJob]
    /\ lostJobs' = lostJobs \cup {given[p]}
    /\ UNCHANGED <<connVars, pendingJobs, httpQueue, waiters, callVars,
                   handed, carried, tooLate, orphans>>

RelayNext ==
    \/ \E j \in Jobs :
         \/ RefuseJob(j) \/ NodeOffline(j) \/ StartSend(j) \/ GiveToPoll(j)
         \/ JobSent(j) \/ SendFails(j) \/ CallReturns(j) \/ GiveUp(j) \/ CancelSend(j)
         \/ Report(j)
    \/ \E c \in Conns :
         \/ Connect(c) \/ TransportFails(c) \/ SendBacklog(c) \/ BacklogFails(c)
         \/ BacklogSent(c) \/ Disconnect(c)
    \/ \E p \in Polls :
         \/ PollStarts(p) \/ PollReturns(p) \/ PollExpires(p) \/ PollLeaves(p)
         \/ PollDropsJob(p)

RelaySpec == RelayInit /\ [][RelayNext]_relayVars

-----------------------------------------------------------------------------
(* Properties *)

(* Where the job of a call is: in the queue, in a backlog, in the future   *)
(* of a poll, at the node, or lost.                                        *)
Places(j) ==
    {<<"queue", i>> : i \in {k \in DOMAIN httpQueue : httpQueue[k] = j}}
    \cup (UNION {{<<c, i>> : i \in {k \in DOMAIN backlog[c] : backlog[c][k] = j}} : c \in Conns})
    \cup {<<p, 1>> : p \in {q \in Polls : given[q] = j}}
    \cup {<<"node", i>> : i \in 1..handed[j]}
    \cup {<<"lost", i>> : i \in {k \in {1} : j \in lostJobs}}

(* The table that limits the jobs of a node holds only jobs whose call is  *)
(* still there, and those whose call was cancelled while it was sending.   *)
PendingHasCaller ==
    \A j \in pendingJobs :
        call[j] \in {"sending", "waiting"} \/ j \in orphans

(* A job may be a shell command: whatever connections and polls come and   *)
(* go, it is sent to the node at most once; and not at all when nobody     *)
(* waits for it any more, unless it had already left the queue for a       *)
(* connection or a poll when it was given up.  While its call waits        *)
(* without an answer it is in exactly one place, and no poll sleeps beside *)
(* a job in the queue that did not come back from a failed connection.     *)
(* Nor does an entry that nobody waits for take up the limit of the node.  *)
JobsAccounted ==
    /\ \A j \in Jobs : handed[j] <= 1
    /\ tooLate \subseteq carried
    /\ \A j \in Jobs : call[j] = "waiting" => Cardinality(Places(j)) = 1
    /\ (\E p \in Polls : poll[p] = "waiting") => Range(httpQueue) \subseteq carried
    /\ PendingHasCaller
=============================================================================
