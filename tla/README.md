# A TLA+ verification of the Norax runtime

Norax is a long-running assistant: adapters (Discord, HTTP, cron) hand events to one asyncio
process, which queues them as *turns* per channel, runs an agent loop that calls a language model
and tools, delivers a reply, and keeps memory, an event log and a small commerce service beside it.

This directory models the parts where concurrency, failure or time decide whether the program is
right: who owns a turn, what one turn may do and claim, what it leaves in its window and its
checkpoint, what the event log promises, what the breakers and the approval gate let through, what
arrives through the ingress bus or a remote node, when reminders are sent, what of a conversation
reaches the memory files and their index, and what happens to prepaid credits. TLC checks the models on small instances; TLAPS proves the main results for every
value of the constants.

    tlc -config turnqueue.cfg MCTurns.tla           # a run; all of them are listed below
    tlapm TurnQueueProofs.tla                       # a proof module

## 1. The system

| Component | State | Operations | Talks to |
|---|---|---|---|
| Ingress bus `runtime/ingress_bus.py` | one bounded queue, a pump task per adapter | start, partial start, pump, fail, stop | adapters' queues; `Runtime.run()` reads its stream |
| Turn queue `runtime/lifecycle.py`, `session.py`, `core.py` | deque and worker task per channel, a global semaphore, a counter of pending work, stop flags | accept or refuse an envelope, run turns in order, release the slot early, `/stop`, drain, shutdown | called by `run()` and by the Discord client task; runs `_handle_turn` |
| Turn pipeline `runtime/turn_pipeline.py`, `delivery.py`, `checkpoint.py`, `context/window.py` | window of frames, checkpoint files, streamed message | build the prompt, run the agent loop, deliver, persist, checkpoint | runs inside a worker of the turn queue |
| Agent loop `brain/agent_loop.py`, `strong_model_scaffold.py`, `weak_model_boost.py`, `dispatch/loop_guard.py` | rounds, counters and results of a turn, its messages, its active model | call the model, fail over, run tools, evict, nudge, revise, judge the outcome | gateway client, tool circuits, approvals, dispatcher, event log |
| Tool circuits `runtime/circuit_breaker.py` | closed, open, half-open; counts; cooldown; probe slots | `can_execute`, record success or failure, abandon | concurrent tool calls of all turns |
| Gateway breaker and spend guard `observability/circuit.py`, `gateway_client/` | state, failure window, probe flag; stamps per minute and hour | begin a call, report how it ended | every model call of every turn |
| Approvals `runtime/interrupts.py` | table of requests, their decisions and ages | pause, consume, list, resolve | agent loop and owner commands |
| Dispatcher `dispatch/` | idempotency cache, in-flight requests | run a tool once per request id | agent loop, MCP |
| Event log `observability/log.py`, `verify_event_chain.py` | hash-chained files, anchor, cached tail | append, rotate, verify | everything; several processes at once |
| Paid sessions `commerce/payment_gate.py`, `api_endpoints.py` | session file shared by workers, cache per worker | redeem, charge, refund | HTTP requests of several worker processes |
| A2A server `a2a/` | table of tasks, slots, locks per context | send, cancel, get, close | calls `_handle_turn` outside the turn queue |
| Remote relay `remote/` | nodes, pending jobs, backlog | submit, poll, report, reconnect | tools and node processes |
| Providers `runtime/model_management.py`, `config/provider_store.py`, `GatewayRouter` | provider file and key file, routed and retired clients with their leases, default model | add, change, remove, undo; select a model and save it; close | owner commands and the dashboard edit; turns lease clients |
| Reminders, cron `runtime/reminders.py`, `adapter/cron_in.py` | reminder files, schedules | deliver what is due, fire | adapters |
| Memory `context/sleep_flush.py`, `memory/consolidator.py`, `vta_writer.py`, `process_lock.py`, `runtime/memory_coordinator.py` | spill and buffer files of `memory/sleep/`, canonical files, their archive, the index with its dirty flag, a lock between processes | drain the sleep files, add a note, report a change, rebuild the index | the idle loop, the offline worker `sleep.py`, turns |
| Others | routing and learning heuristics, configuration, dashboard, scripts | | `PROJECT.json` lists them with the reason each is left out |

What makes the system hard: asyncio interleaves turns, stops, done callbacks and shutdown at every
`await`; tasks and deques are compared by identity; a cancellation arrives at any suspension point,
and before the first step; several processes share the log and the session file, and die between
any two writes; breakers are asked before an `await` and told after it, when the state is another;
owners answer with ids that are no longer current. `PROJECT.json` lists these hazards one by one
with their lines and the property that covers each.

What makes each component correct:

* **Turn queue.** An accepted turn runs once, in order, or is dropped by a stop or the shutdown,
  never silently; a channel has one owner; slots and pending work are counted exactly; a stop hits
  its own turn only; shutdown ends and leaves no turn running uncancelled.
* **Ingress bus.** What an adapter accepted arrives once and in order; a fatal failure is reported,
  and after the accepted events; a stop ends the stream whatever the queue holds.
* **Breakers.** No slot leaks; an outage has one cooldown; counts belong to the present period; a
  window is never overrun; after the outage calls flow again.
* **Approvals.** An approval starts the exact call once, in time, and not against a later rejection.
* **Agent loop.** A change is made once and no read answers
  from before it; what was done is in the trace; an accepted reply claims no change that failed or was
  not looked at; every request pairs calls and results; a model that was replaced is not asked again.
* **Turn pipeline and window.** What was said is in the window, the file or the archive; a finished
  turn survives a restart; `/new` is final; a checkpoint calls only answered turns complete. A load or a
  checkpoint that failed is the named exception.
* **Streamed reply.** The channel ends up with the complete reply, in order, or with nothing of it; no
  preview stays.
* **Remote relay.** A job is sent once at most, and not when nobody wants it; none that somebody waits
  for is mislaid; the table of pending jobs does not leak.
* **Reminders.** Sent again only when the file cannot know of the first time; no sleep past a due one;
  all arrive when the faults end.
* **Event log.** One chain; what was acknowledged stays; damage is never papered over; the verifier
  accepts what the writers wrote.
* **Paid sessions.** A payment buys one session; credits are conserved; a request that failed is
  refunded unless a fault or the expiry prevents it.
* **Memory.** No file is archived unread, and nothing is copied twice word for word into one directory; a coordinator that
  calls itself clean has indexed every change reported to it.
* **Providers.** The router serves what the files describe, whatever step of an edit fails; no client is
  closed under a request, and none leaks; the selection made last is the one on disk.
* **A2A tasks.** Turns of one context never overlap; a task that runs is listed; verdicts stand; every
  task ends, whoever cancels, evicts or closes meanwhile.

## 2. Modules

An action is the code between two suspension points of its task (asyncio), or the code under one
lock (processes). Variables carry the source's names where they have one. History variables are
marked in the modules; nothing reads them but properties. Every module with theorems but one holds
those of several components, in one section each; the headings below name it behind the colon.

### TurnQueue, TurnContract: TurnQueueProofs

`lifecycle.py`, `session.py`, the consumer of `core.py`, the cleanup of `turn_pipeline.py`. Tasks and
deques are identities, because the code compares them with `is`: `activeTasks` is
`_active_turn_tasks`, `turnQueues` is `_turn_queues`, `items` what a deque object holds, `queue` and
`env` are locals of a worker, `workCount` is `_turn_work_count`, `stopChannels` is `_stop_channels`.

| Action | Code |
|---|---|
| `QueueTurn`, `RefuseTurn` | `_queue_turn`; a refusal removes an empty deque of the channel (line 82) |
| `StartWorker`, `AcquireSlot`, `FinishTurn` | `_run_channel_turns` from one `await` to the next; they end in `TakeTurn` or `ExitLoop`, the finally |
| `DeliverReply` | `_release_current_turn_slot`: the slot goes back when the reply is out |
| `CancelBeforeStart`, `CancelAcquire` | a task cancelled before its first step, or in `acquire()` |
| `TaskFinished` | the done callback of `_track_turn_task` |
| `StopTurn`, `EndStopTurn`, `SlashStop` | `/stop` handled by `run()` for a channel or for all, and the native slash command that runs beside it |
| `BeginShutdown` ... `FlushStores` | `shutdown()` and `_drain_active_turns` |

A turn itself is opaque: it may deliver, return, raise, ignore its cancellation. `TurnContract` is
what a sender may expect: bounded FIFO queues whose turns begin once and in order and end.
`ImplementsContract` is the refinement, with `waiting` taken from the mapped deques and `running`
from the workers' `env`.

### IngressBus: EdgeProofs

`ingress_bus.py` with the adapters reduced to what the bus relies on: a bounded queue and a task
that may end. `StartAdapter`, `StartDone`, `StartFails` are `start()`; `TakeEvent`, `PutEvent`,
`StreamEnds`, `PutFailure` are `_pump`; `GetItem`, `EventHandled` are `stream()` and the main loop;
`Stop`, `StopAdapter`, `CancelPumps`, `WakeStream` are `stop()`.

### ToolCircuit: CircuitProofs; GatewayBreaker: AgentProofs

Both breakers are pure functions of their record, written as operators (`HalfOpen`, `RecordFailure`,
`OnFailure`, ...), and the calls that use them as actions: a call is admitted in one step and reports
in another. ToolCircuit contains every way `_run_one_tool` reports, also for calls it refused and
could not log. GatewayBreaker contains the spend guard and the exits of `chat` and `stream`, among
them those that report nothing (`EndUnreported`). Time is what is left of a cooldown, or the age of
a stamp.

### Approvals: CallsProofs

`interrupts.py`, the gate in `_run_one_tool` and the owner's commands. From the gate to the start of
the tool nothing is awaited, so `Pause`, `RunApproved`, `RefuseApproved`, `RefuseRejected` are the
passage of a call; `ListApprovals`, `Resolve`, `ResolveMissing` are the owner, who uses ids read
earlier; `Restart` loses the table. Every entry point purges what expired first (`Unexpired`).

### EventLog: TurnProofs

`log.py` and the verifier. `BuildRecord`, `Rename`, `WriteAnchor`, `OpenForAppend`, `WriteRecord` are
`_append_locked` step by step; `FailAppend` and `WriterDies` interrupt it anywhere, with a fragment left
behind or a whole line that was never acknowledged. `VerifyAllGenerations` is the verifier's verdict.
SHA-256 is injective: a hash is a fresh number.

### PaidSessions: StoresProofs

`SessionStore` and `_paid_service`. `disk` is the file, `cache` each worker's copy, `fresh` the workers
whose signature of the file is current. `View` is what `_load` yields. An operation may fail to read,
fail before the replacement of the file, or after it (`Unsynced`: the directory sync of `atomic.py`).
A request is `Check`, `Charge`, then `Answer` or a failure and `Refund`, each a transaction of its own.

### A2ATasks: CallsProofs

`a2a/server.py`. `tasks` is `_tasks`, `pc` where each worker of `_task_futures` is suspended, `contextLocks`
is `_context_locks` and `lock` a worker's local reference to one; locks have identities, because the
server drops and remakes them. `waiting` holds all suspended waiters in order of arrival.

| Action | Code |
|---|---|
| `Send` with `StoreTask` | `send_message` for a new task: eviction, pruning of the lock, storing, creating the worker |
| `Begin`, `GotSlot`, `GotLock` | `_run_task` up to the turn; `EnterContext` is the part after the slot |
| `TurnReplied`, `TurnFailed`, `TurnCancelled` | the ways `_execute_task` ends |
| `CancelWait`, `CancelCreated` | a cancellation in `acquire()`, or before the first step |
| `CancelTask`, `Close`, `CloseDone` | `cancel_task` and `close` |

The task that is evicted is the one with the oldest wall-clock time; the model takes any terminal one.
A message to an existing task is always refused with "already running", since `RunningIsListed` shows
that a task without a verdict has a worker; the branch that would resume a task is dead code.

### TurnPipeline: TurnProofs

`turn_pipeline.py`, `delivery.py`, `context/window.py`, `checkpoint.py` and the window functions of
`session.py`: the turns of one channel, one after the other, and what they leave behind. A frame is a
turn and a kind; sizes are counted in frames. `place` is where the present turn awaits; `thread` is the
`to_thread` work of each turn, which goes on when the turn is cancelled; RollingWindow objects have
identities, because `/new` forgets one while a thread still holds it. Any load of the file may fail
(`Loadable`): the window is then empty, the next save overwrites the file, and `unread` keeps the frames
that this concerns. A checkpoint that cannot be saved is only logged and the turn ends as it would
(`CheckpointFails`); `unrecorded` keeps these turns.

| Action | Code |
|---|---|
| `StartTurn`, `AgentReplies`, `AgentFails`, `DeliveryEnds`, `TurnEnds` | `_handle_turn_inner` from one `await` to the next |
| `Plan`, `Compact`, `Replace`, `EvictFrames`, `SpillFails` | `compact_and_persist_window` and `evict_if_needed`, in the thread |
| `ReadWindow`, `WriteWindow`, `WriteFails`, `SaveCheckpoint`, `CheckpointFails` | `_persist_window`, `save_checkpoint`, in a thread, and the handler that logs a checkpoint's failure |
| `Cancel`, `Restart`, `Reset`, `Dump`, `Look` | `/stop`, a crash, `/new`, `/dump` (whose save may fail, too), a read of the history over HTTP; the load after them is that of `StartTurn` or `Look` |

### StreamReply: TurnProofs

The reply of one turn in Discord: `StreamingMessage` of `discord_in.py`, its use in `delivery.py` and
`turn_pipeline.py`, and the direct send when there is no such message. `posts` is the channel; `placed`,
`sentIds`, `shownChunks` and `buffer` are `_messages`, `_sent_ids`, `_pushed_chunks` and the length of `_buf`.
Texts are previews of a length, in half posts, or the posts of a complete text. Every request may fail,
or take effect without an answer; `removal` keeps the place of each task in the list it deletes, because
`finalize` replaces that list and `delete` takes no lock.

| Action | Code |
|---|---|
| `Append1`, `DiscordAnswers`, `PushEnds` | `append` and `_push`, one request at a time |
| `Reply`, `DiscordAnswers`, `Trim`, `FinalEnds` | `_deliver_turn_response` and `finalize`, or the loop of `send` |
| `Suppress`, `RemovePost`, `Removed` | a sentinel answer; `delete` |
| `Forget` | the turn gives the message up after the delivery |
| `CancelTurn`, `CancelCleanUp`, `Deadline`, `ShutdownDeletes` | a cancellation in any await and the `finally` of `_handle_turn`; one more in that cleanup; the deadline inside a push; the sweep of `shutdown()` |

### AgentLoop, Generation, AgentMessages: AgentProofs

Three views of `run_agent_loop`, whose states do not influence each other. What a model answers, how a
tool ends and what a gate finds is nondeterministic in all of them.

*AgentLoop* is control and evidence. A call is a change or a read that shows whether the last change
took effect; `log` is what was done in the order it was done, `trace` what the turn returns, in the order
the model asked. `at` is where the loop stands.

| Action | Code |
|---|---|
| `Top`, `AskTools`, `Say`, `OutOfTime`, `Raise` | the head of the loop, and the answer to a generation |
| `RunReads`, `RunChange`, `CutOff` | `_dispatch`: the reads of a response at once, then its changes one by one, with turn cache, duplicate check, loop guard and deadline |
| `Settle` | the part after the results: `note_tool`, the trace, and the limits in their order |
| `Summarize` | the last generation of a stalled or drifting turn |
| `Correct`, `Recorrect`, `Verify`, `Reverify`, `RevisionFails`, `GateOutOfTime`, `Candidate`, `Skip` | the fact check, the output verifier, and best-of-n |
| `Return` | `summarize_mutation_trace` and `accepted_outcome` |

*AgentMessages* is the conversation: prior turns, the prompt, rounds of calls and results, notes; `Evict`
is `_evict_middle_tool_traces` at the top of the loop, `Payload` the request after the gateway client has
repaired the pairing for a strict provider. *Generation* is `_chat_maybe_stream`: one stream or one plain
request, the failover models in order, the last resort, and the model that stays active.

### RemoteRelay: EdgeProofs

`remote/relay.py` for one node. No body under its lock awaits, so each is one step; `call`, `poll` and `conn`
say where `run_job`, `poll_job` and `connect_node` are suspended. A future is done before its waiter runs
again, and a deadline or a cancellation may come in between (`GiveUp`, `PollDropsJob`, `CancelSend`).
What is sent may be lost, reports come late, twice or from a node that was replaced.

### Reminders: CircuitProofs

`runtime/reminders.py`. `left` and `delay` are the next attempt and the backoff of a file, `loop` where `_loop` is
suspended, `todo` the paths a scan has still to read, `wake` its event. `ScheduleWrites`, `ScheduleWakes`,
`ScheduleIsCut` are `schedule()`; `Sent`, `SendFailed`, `WriteResult`, `WriteResultFails` a delivery and its record. A
send may be accepted without the scheduler learning of it, and `StopLoop` and `CrashLoop` cut it anywhere.

### Providers: StoresProofs

`model_management.py`, `provider_store.py` and the `GatewayRouter`. `metaFile` and `keyFile` are the two files
of the store, `modelFile` the default model in the runtime settings. A row carries the number of the edit
that wrote it, so two states of a provider differ; a client is the row and the key it was built from.

| Action | Code |
|---|---|
| `AskEdit`, `BeginEdit`, `Discover` | `_run_provider_mutation` (the lock), the checks of `_upsert_custom_provider` and `_remove_custom_provider`, the discovery of models |
| `WriteFile`, `WriteFails` | `upsert` and `remove` of the store, one file at a time, and putting the first file back |
| `Route`, with `Restore` | `upsert_provider` and `remove_provider` of the router, and the undo when the router is closed |
| `LeaseClient`, `ReleaseClient`, `Retire`, `CloseRetired` | `_lease_request`, `_release_client`, `_retire_client` |
| `SelectModel`, `StartWriter`, `WriteModel`, `WriterFinished` | `set_default_model`, the loop of `_persist_pending` and the callback of its task |
| `DrainProviders`, `CloseRouter`, `RestartProcess` | `shutdown()`, `aclose`, and `Runtime.from_config` after the end of the process |

### SleepMemory: StoresProofs

Spills are files of facts that the window gave up, the buffer is the file of notes of a day; both wait in
`memory/sleep/` until a drain has copied what they say into the canonical files. `place` and `says` are the
files, `copies` how often each of the three canonical directories has a line, `exact` the lines that a drain
wrote there word for word, `flash` the lines of the flashbulb file, `holder` the maintenance lock, `at`, `batch`, `left` and `hand` where a
drainer is; `dirty` and `moved` are the coordinator's `_dirty` and whether `_generation` has changed, `sync`
where a call of `sync_projections` is suspended.

The two stages of a drain extract with patterns of their own, so what each keeps and where it sends it are
constants: `Flushed`, `Intel` and `Workflows` of the flush (`FlushRoute`), `Distilled` and `Procedures` of the
consolidator (`DistillRoute`). A candidate is looked up as a whole line (`Searched`), by the flush in the
directory it would go to, by the consolidator in `semantic/` and `procedural/`, never in `intel/`. The flush adds a
tag to a line that has none, so only a line that carries one (`Marked`), or that the consolidator wrote, is
found again.

| Action | Code |
|---|---|
| `WriteSpill`, `Matures` | a spill of the window; `min_age_sec` |
| `StartFlush`, `StartConsolidate`, `AppendLine`, `Link`, `Unlink`, `RefuseLinked`, `AppendFails`, `Drained` | `SleepFlusher` and then `MemoryConsolidator` under the lock, one line and one name of a file at a time; by the idle runtime or by `sleep.py` |
| `ReportDrain` | `consolidate_sleep` back in the event loop |
| `WriteBuffer`, `WriteFlashbulb`, `ReportTurn`, `CutTurn` | the note of a turn, which takes no lock, and its report |
| `CallSync`, `TakeTarget`, `StartBuild`, `Build`, `BuildFails`, `Synced` | `sync_projections` and the build in a thread |
| `WorkerDies`, `RuntimeDies` | a crash of either process; the runtime starts again dirty |

### Filters, FilterProofs

`Filters` is the code's list comprehensions that keep some elements (`Only`); FilterProofs has what they
preserve, for the proofs about queues, windows, rounds, posts and the eviction from a conversation.

### How they relate

The modules share no variable: a turn is opaque in TurnQueue, and the components called from inside
it (circuits, approvals, relay, log) see calls from several turns in any order, which is what TurnQueue
allows. TurnPipeline has the turns of one channel follow one another, which is `OneOwner` and the order
of the contract. IngressBus delivers what TurnQueue calls arriving envelopes. So each is checked against
the most general environment of the others, and no composition is needed for the properties here.

*Hosting.* Several MC modules check two or more components in one run: they extend all of them, have a
variable `about` that chooses one at the start, and let only that one move; the others keep their first
state. The behaviours of a component in such a run are exactly those of its own specification, and the
states are added, not multiplied. An initial choice of another component (its number of turns in the
history, for example) is fixed when the behaviour is not about it. Fairness is stated in the MC module
over the actions of the component together with `about`. MCStores halves three components, and each
half is a run of its own within it: connections and polls of a node meet in its queue only, which one of
them at a time empties; edits and selections meet in the model in use, so an edit meets one selection and
three selections meet no edit; drains and index meet in the lock and the canonical files, so the index
meets the drain of a buffer. `SYMMETRY` permutes workers, payments and requests, which nothing compares, with
what bears the same names.
Its `VIEW` leaves out the copy of the session file of a worker that is not current, since such a
worker loads the file before it uses the copy. The halves bound what TLC visits and nothing else: the
theorems are about the whole component.

## 3. Runs

| Run | Shows | Bounds |
|---|---|---|
| `turnqueue` (MCTurns) | *queue*: `WorkAccounting`, `SlotConservation`, `OneOwner`, `DrainHolds`: counters exact, slots conserved, one owner, nothing starts while draining. *loop*: `WithinLimits`, `MadeOnceSeenFresh`, `ReportIsTrue` (what was done is told, and an accepted reply is sound). *messages*: `PayloadPaired`. *generation*: `FailoverSticks`. *pipeline*: `NothingForgotten`, `ResetIsFinal`, `RestartFindsTheEnded` (a finished turn is on disk, and the checkpoint tells the truth, but for failed loads and checkpoints). *stream*: `ShownIsReply`. *log*: `OneChain`: one chain that keeps what was acknowledged, stays closed after damage, and that the verifier accepts | 2 channels, 3 turns, 3 tasks, 1 slot, 2 pending; 1 change, 1 read, 4 calls of at most 3 per response, 3 rounds; 2 prior turns, 4 generations, 3 calls each, 6 messages; 3 models, 4 generations; 2 turns on a saved one, 2 troubles (cancel, crash, command, failure, failed load or checkpoint), budget 4, 1 turn protected; 3 previews, 2 final posts, 3 posts in all, 2 breaks; 2 processes, 5 records, 2 per file |
| `turnqueue_contract` | the queue implements its contract; accepted turns end and shutdown ends (`WorkEnds`), although turns ignore cancellation, while the global limit is not reached and no native slash stop is used | 2 channels, 3 turns, 2 tasks, 4 pending |
| `turnqueue_loss` | *violation*: a turn lost after a refusal | 4 turns |
| `turnqueue_poison` | *violation*: a native `/stop` stops the next turn | 2 turns |
| `agent_eviction` | *violation*: the prompt of the turn is evicted | as `turnqueue` |
| `toolcircuit` (MCToolCircuit) | *circuit*: no leaked slot, one cooldown per outage, counts of this period, recovery. *reminders*: `OnceUnlessUnrecorded`, `NoSleepPastDue`, `EveryReminderArrives` | 3 calls, thresholds 2, 1 probe; 2 reminders, 2 stops or crashes, delays up to 2 ticks |
| `gateway` (MCGatewayBreaker) | *gateway*: windows not overrun, recovery if nothing was lost. *ingress*: accepted events in order and delivered, a stop ends the stream | 2 calls, limits 3 per 2 and 4 per 4 ticks; 2 adapters, one required, queues of 1, 2 events each |
| `gateway_slot` | *violation*: the half-open slot lost | 2 calls, no spend limit |
| `stores` (MCStores) | *approvals*: `RunsWithinGrants`, `StartsOnStandingApproval`. *sockets*, *polls*: `JobsAccounted` of the relay. *payments*: `OneSessionPerPayment`, `CreditsConserved`. *providers*, *selection*: `FilesInStep`, `ClientsAccounted`. *drain*, *index*: `ConsumedOnce`, `IndexKeepsUp` of the memory | 3 calls, table of 2, 4 requests, lifetime 1; 3 jobs, a table of 2, 1 waiter, 2 connections or 2 polls; 2 workers, 2 payments, 2 requests, 2 credits, lifetime 1; 1 provider, 2 requests, 2 edits and 1 selection or 3 selections, 1 restart; 2 spills of one fact and 1 note, or a buffer, 2 notes and 2 callers; 3 facts, of which the flush keeps two, both tagged, and sends one to `intel/`, the consolidator keeps all and files two lines and the notes elsewhere; 1 fault |
| `a2a` | turns of a context serial, what runs is listed, verdicts stand, tasks end | 3 tasks, 2 contexts, a table of 2, 2 slots |
| `provider_crash` | *violation*: a crash between the two files of an edit | 1 provider, 3 edits, 1 restart |
| `sleep_dupes` | *violation*: a drain that was interrupted writes what it tagged once more | 2 spills, 2 facts, 1 fault |

*Why these bounds are enough.* A race in the turn queue needs a channel with an old and a new worker
and a second channel that holds the slot or the last pending place: two channels, three live tasks,
three deques, one slot. Four turns are needed for the loss. Tasks and deques are recycled, so
executions are not limited to three workers. `turnqueue_contract` has two live tasks at a time, the old
worker of a channel and its replacement, which is where the order and the end of turns are at risk.

One change and one read show every order of a change, its repetition, and reads before and behind it;
three calls per response put them in one round, in every order, and a fourth call lets the ceiling bind
before the rounds do. The counters of the loop keep the order
of the code's constants (`NudgeLimit + 1 = StreakLimit < StreakTotal`), and the rounds end on the limit of the
turn or one below the hard cap; `RepeatThreshold` is the code's, `PingPongCycles` is 2 instead of 3, since four
calls are made. The code's window of 12 observations is longer than any turn here. Four generations
with up to three calls, six messages and two protected results evict twice and cut a round in two.
Three models and four generations let a fallback fail after it had replaced the primary.

Two turns on a saved one are a thread of a cancelled turn and the turn that overtakes it; the third
kind of interference, a command, is one of the two troubles. The run counts failed turns, writes and
checkpoints among them, and that loads failed as one more (`Troubles` in MCTurns). A reply of up to three previews, cut to one or two final posts, has stale posts to
delete and posts to edit; with three posts in all, one may be unknown to the program. Three jobs and two connections let
one replace another while it sends a backlog, two polls let one expire while the other takes its job. Two reminders make the
earliest due time a choice; `MaxBackoff` is 1, which is enough for a retry to come due before or after
another reminder, while the proofs hold for any backoff.

Two edits of one provider are an edit and its undo, or a removal and what comes back under the name;
providers do not interact except through the model in use. Three selections are one that is being written,
one that waits, and one that comes while the task of the first ends.

Two spills are one that is drained and one that comes meanwhile, one fault is the crash between any two
steps, and the second process drains what the first left. Of the three facts, one is routed alike by both
stages, one differently, and one only the consolidator keeps. The first two carry a tag, so `ConsumedOnce`
says that they are once in each directory; the other way of a line, which gets its tag from the flush, is in
`sleep_dupes`. Two notes and two callers of the index let a change be
reported before, during and after a build that another call started.

The A2A table of two with three tasks evicts while others run; two slots let a context's turns meet,
and a third task waits for them. Circuits need one probe, one call from before the
outage and one more; the thresholds of 2 tell "in a row" from "the first". The ingress queues of one
place make every put wait. The log's five records pass through two rotations and leave room for
crashes between them. Two workers are enough for every stale copy; the second payment shows what one
session's write does to another's. The approval table of 2 with three calls evicts; four requests
let one call be asked again after each outcome.

*Counter bounds.* `MaxRecords`, `MaxEvents`, `MaxRequests`, `MaxTime`, `MaxTurns`, `MaxMoves`, `MaxStops`, `MaxDelay`,
`MaxSends`, `MaxGenerations`, `MaxEdits`, `MaxChoices`, `MaxRestarts`, `MaxFaults`, `MaxBuffer`, `MaxFinal`, `MaxPosts`, `MaxBreaks` stop TLC, not the program; they appear in one guard each. `Width` and `MaxWidth`
bound what a model asks in one response, which the code does not. Counts in ToolCircuit saturate at the
threshold they are compared with.

*Deadlock* is checked except where the system really stops: after shutdown, at the end of a turn or of
the stream, when every process refuses the log, when all jobs have returned.

### Fairness

* `turnqueue_contract`: `ResistantSpec` gives fairness to `shutdown()`, whose waits all have timeouts, and to
  the first step of a created task, which is the event loop's. That shutdown ends needs no more: turns may
  hang for ever. That turns end also assumes `TurnsRespond`: a running turn ends, because rounds, requests
  and UI cleanup are bounded in the code. No message and no stop is ever forced. Before the drain,
  `shutdown()` awaits the ingress bus, the A2A server and the reminders; the model takes these waits to
  return. For the A2A server this is an assumption, see "Other limits".
* `a2a`: the event loop runs what is ready and a turn ends, as in `TurnsRespond`. Nobody has to send,
  cancel or close.
* `toolcircuit`, `gateway`: the clock runs, somebody keeps calling, every call ends because its
  transport or tool has a timeout, and not every call is cancelled (strong fairness of success). The
  outage ending (`Heal`) is not forced: `Recovers` speaks of the time after it. The gateway's recovery
  also assumes that no probe was lost, which `gateway_slot` shows to be a real condition.
* Reminders in `toolcircuit`: the clock runs, the loop goes on and is started again after a stop, and
  `schedule()` ends, one way or another. That the faults end (`calm`) is a premise of
  `EveryReminderArrives`, not an assumption: before it every file, channel and write may fail.
* The ingress bus in `gateway`: tasks run, the main loop never blocks on one event, and the stop is bounded
  by its grace period. A pump is one task, so what it does next is one fairness condition. Nothing makes an
  adapter start, accept, fail or stop.

## 4. Where the code and its words disagree

1. **A turn can be lost** (`turnqueue_loss`, `lifecycle.py:82`). At the global limit `_queue_turn` removes
   the empty deque its channel's live worker is reading. The next accepted turn gets a new deque but no
   worker, and the old worker's done callback empties it. `ingress_bus.py:111` promises that an accepted
   event is not silently dropped.
2. **A native `/stop` can stop the next turn** (`turnqueue_poison`, `session.py:138`). `_slash_dispatch`
   raises the flag with no `_handle_turn` around it to clear it. A unit test is named
   "next turn is not poisoned"; it covers the message path only.
3. **The gateway's probe slot can be lost** (`gateway_slot`, `gateway_client/__init__.py`). A 4xx in an
   error envelope of a 200 answer, or a stream closed at its last delta, ends the call without a report;
   the half-open breaker then refuses everything with "half-open probe is already in flight".

4. **An eviction can remove the prompt of the turn** (`agent_eviction`, `agent_loop.py:959`).
   `_evict_middle_tool_traces` keeps what stands before the first assistant message with tool calls. If
   the history holds a tool call, the prompt of the present turn stands behind it, and is dropped with
   the old rounds once there are more than 80 messages. Line 916 says the original user prompt is
   preserved. A shortened goal survives in the task state that is folded into the marker.

5. **A crash can pair a provider with another key** (`provider_crash`, `provider_store.py:237`). An edit that
   changes or clears the key of an existing provider writes the key file first. If the process dies before
   the other file, the old row, with the old base URL, is served with the new key, or without one. A comment
   says that a crash can leave only an unreachable orphan secret. The orphan of a provider that was being
   added is reachable as well: it becomes the key of a provider of that name which is added without one.

6. **A drain that is interrupted repeats itself** (`sleep_dupes`, `sleep_flush.py:383`). The flush adds `|W3` or
   `|W4` to a line that has no tag, but looks whole lines up, so after a crash or a failed write between the
   append and the archive the next drain writes the line again. Line 31 says that running it twice is safe,
   "so re-running can't produce dupes". `ConsumedOnce` states what holds: nothing is archived unwritten, and
   what is copied word for word is at most once in each directory.

The passing runs of the same modules state what does hold: WorkAccounting counts a lost turn
correctly, `turnqueue_contract` excludes the two conditions above, and `Recovers` assumes `~lost`.

### What the breakers do not promise

A tool call that holds no slot (admitted while closed, or refused) may report while a probe runs and
give back the probe's slot, so more than `half_open_max_calls` probes can run at once; likewise a stale
gateway call's `on_abandoned` clears the probe flag, although `docs/improvement_reference.md:162` speaks of
one request. This errs on the side of letting calls through. `NoLeakedSlot` states the direction that
holds for the tools.

### Other limits that follow from the code

* *Ingress*: `stop()` during `start()` stops the adapters it finds; one that starts afterwards is not
  stopped by it (`ingress_bus.py:34-49`). The run contains this behaviour; the stream ends all the same.
* *Approvals*: an approval is spent although the call is refused further on; a granted approval can be
  evicted by later requests; the digest binds the tool and its arguments, not the sender or channel.
  All fail on the side of asking again, except the last, which is how the code defines "the same call".
* *Paid sessions*: a request cancelled while its charge is being written, or whose directory sync fails
  after the replacement, loses the credit; a session that expires while its handler runs is not
  refunded. Both are in the model (`lost`, `faulted`). A session file deleted by hand, seen by a fresh
  process, starts empty; that is outside the model.
* *A2A*: `close()` gathers its cancelled workers without a timeout (`server.py:819`), so `shutdown()`
  (`lifecycle.py:378`) waits for an A2A turn that ignores its cancellation, unlike for the turns of the
  queue. A canceled task whose unwinding fails is shown as failed. A task closed before its worker's
  first step stays submitted. A lock that is held when its task is evicted stays in `_context_locks` until
  another task of the context is evicted. The legacy `tasks/send` looks its task up again after the
  await and reports an internal error if it was evicted meanwhile.
* *Agent loop*: a change that failed or timed out does not clear the cache of the turn, although it may
  have had an effect; `MadeOnceSeenFresh` speaks of changes that succeeded. The revision the output
  verifier asks for is not fact-checked again. When asking for a revision fails, the rejected draft is
  returned, but not as accepted. A turn that raises loses its trace. `best_of_n` asks the primary model
  also after a failover. `MAX_NO_TOOL_ROUNDS_TOTAL` (6) is never reached: the fourth nudge ends the turn.
  `keep_recent_rounds` of the eviction counts results, not rounds, so a round with more calls than it
  keeps is cut in two; the repair of pairing mends the request (`PayloadPaired`). `summarize_mutation_trace`
  reads the trace in the order of the calls, not of their execution; that a read asked for behind a
  change, but run before it, does not pass for its verification is owed to the nudge from `TaskState`
  alone, which notes results in the order they were made (`AcceptedIsSound`).
* *Turn pipeline*: frames that a turn adds while the thread of a cancelled one is between computing the
  new body and assigning it are lost (`raced`); such a thread may also write an older window or an
  older checkpoint after a newer one, and bring a conversation back that `/new` has just removed
  (`lateWriters`). Frames of the file in whose place an empty window was loaded are lost at the next save
  (`unread`): `load()` answers a read error, invalid contents and a file over its limits with an empty
  window (`window.py:451-461`), and `save()` does not enforce these limits, so it writes files of more than
  10,000 frames, or with a frame of more than 1,048,576 characters, which the next start refuses to read,
  although `soul/SOUL.md:12` calls the conversation durable across restarts. And a turn whose checkpoint could not be saved ends normally, with an older turn in the
  newest checkpoint (`unrecorded`). The properties name these cases, and nothing else breaks them.
* *Streamed reply*: a comment of `finalize` (`discord_in.py:334`) says that Discord shows exactly the completed
  response. A post whose creation was cut off by the deadline or a cancellation, or whose answer was lost,
  is unknown to the program and stays beside the reply (`orphans`). A turn cancelled after its reply is out, before it
  has given the message up, deletes the reply. After the sweep of `shutdown()`, a resistant turn reports "delivered" with
  nothing shown; so does a reply that is only a tag. A direct send that is cut off leaves its first posts.
  `finalize` and `delete` never raise, so the direct send behind them in `delivery.py` and
  `suppression_cleanup_failed` are dead code with this adapter.
* *Remote relay*: a poll whose deadline comes when its future has just been given a job drops it
  (`lostJobs`): the call then waits until its own deadline. A caller cancelled inside `send_json` leaves
  its entry in the table until the node disconnects or reports (`orphans`). A backlog put back after a
  failed send is not given to a poll that already sleeps.
* *Providers*: the sync of the directory may fail after a file was replaced; the edit then reports an error
  and the new file stays (`spoiled`). Whether a provider's model is in use is asked before the files are
  written, and a selection takes no lock, so the model of a provider that is being removed can be selected.
  The model takes reads of the files to succeed. `list_runtime` and `runtime_settings` read a file that
  cannot be read as an empty document (`provider_store.py:307-313`): an edit then takes its provider for new, or
  for one without a key, and a start routes no custom provider; `FilesInStep` says nothing of this. The
  reads inside `upsert`, `remove` and `set_runtime_setting` are strict and raise before anything is written.
* *Memory*: the two stages of a drain do not see each other's directories. The flush looks a line up in
  the directory its own patterns choose (`sleep_flush.py:351`), the consolidator in `semantic/` and `procedural/`
  (`consolidator.py:458`), and their patterns differ. A line such as `RELEASE:v2 shipped on Friday |W4` goes to `intel/`
  from one spill and to `semantic/` from a second one that the consolidator takes, although lines 15-16 of
  `sleep_flush.py` say that exact duplicates are dropped against all three directories. The model
  contains this, and `ConsumedOnce` speaks of each directory. A file that a crash left with two names, between the link and the unlink of its archiving,
  stops every later drain that meets it. A note added to the buffer while it is
  consolidated is archived with it, unread (`late`). A line added to the flashbulb file during a build may
  get the file rejected, and then nothing of it is in the index until the next report. The offline worker
  reports to nobody, and a drain of the runtime that fails reports nothing of what it wrote, so the index is
  behind until something else is reported.
* *Event log*: the verifier takes no lock, so its verdict on a log that is being rotated is not specified.

## 5. Proofs

All theorems hold for any constants that satisfy the modules' ASSUMEs: finite sets of channels, tasks,
turns, calls and requests; bounds that are numbers; limits that the code clamps to be positive; one entry per adapter; marks such as
`None` that are no member of the sets they stand beside. The bounds of section 3 are constants too, so a
theorem is about any number of turns, events, edits or faults. `PROJECT.json` lists the theorems, with
the property each states.

* **TurnQueueProofs.** `TypeCorrect`, and `TaskInv` behind it: a task that exists has a channel, and one
  inside a turn has a deque and a turn. `SlotsConserved`: a second release could come from a worker that is
  `handling` without a slot, so `SlotInv` adds that every handling worker holds one. `SingleOwner`: a late
  done callback is harmless only if the map never points to a recycled task (`OwnerInv`).
  `CounterIsExact`: `WorkInv` is that the counter is the number of turns queued or active; it needs
  `HomeInv`, that each of them has exactly one place, a deque of the map or the hand of a worker.
  `NothingStartsInADrain`: `DownInv`, that a worker nobody cancelled is in the snapshot of the drain.
  `OnlyLossBreaksTheContract`: every step of the queue is a step of `TurnContract` or a stutter, with the
  mapping of the run (`RefInv`, and `MapInv`: two channels never share a deque). It is proved of the behaviours
  that lose no turn; `turnqueue_loss` shows that the others exist, and the run says what excludes them.
* **TurnProofs**, EventLog: `LogIsOneChain`. `LogInv` is that every generation continues the one before it,
  and that the anchor, if it is behind, is so between a rename and the anchor's own write, when nobody
  appends. **TurnPipeline**: `NoFrameIsForgotten`, `ResetStays`, `RestartIsTold`. The three need one invariant,
  of where a thread is whose turn has gone on: what it computed is the window but for frames that are
  archived, gone, raced or unread (`PlanInv`); what a save of a window that was forgotten may leave out
  (`WriteInv`); that nothing brings a removed frame back, unless a late writer went on (`ResetInv`);
  whose frames are durable, and which turns a checkpoint covers, of those whose own could be saved
  (`DurableInv`, `CheckInv`). **StreamReply**:
  `ChannelShowsTheReply`. What is known of the channel must be in the list that deletes: until `shutdown()`
  sweeps, `_sent_ids` has every post that is there and is neither orphaned nor undeletable, and it is in the
  order of the channel (`ListedInv`); while `finalize` or a direct send works, the posts up to the place it
  has reached show the final texts (`FinalInv`, `SentInv`); while it deletes the surplus, every post is one of
  the reply's or waits to be deleted (`TrimInv`); `DoneInv` carries this to the end of the turn. The posts
  that are visible are then those of `_messages`, because an increasing sequence with the right members is
  the filter (`EnumIs`).
* **AgentProofs**, AgentLoop: `LimitsHold`, `NothingTwiceNothingStale`, `TheReportIsTrue`, from `LoopInv`. Within a
  round the log behind `total` holds one result per call asked for, and one for every read (`RoundInv`), so
  the trace is a rearrangement of the log (`TraceInv`) and the ceiling cannot be passed inside a response;
  what is cached was read after the last change (`LogInv`); what `TaskState` has noted is what the log says of
  the last change (`NotedInv`), so a draft without an open point reports a change that was seen (`DraftInv`).
  **Generation**: `FailoversStick`, for any list of failover models, also one that names a model twice.
  **GatewayBreaker**: `SpendStaysBounded`. Pruning a window on the way in keeps the counts of every shorter
  window (`Follows`), so both windows agree with the calls really sent.
  **AgentMessages**: `RequestsPair`. The invariant is about the conversation, not the request: no two results
  have the same id, and the run of results behind a message that asks has all of its answers (`Whole`). The
  eviction keeps it for any bounds, because the protection of a call implies that of its results, and what
  is kept stays in order, so results that stood in one run still do (`ChosenWhole`); a new round keeps it
  because its ids are new (`Before`). A result whose call was evicted is allowed. The repair is a fold, with
  an invariant of its own: what is repaired pairs, but for the open calls of the last assistant message,
  and those are answered next (`Repairing`, `RepairedTo`).
* **EdgeProofs**, IngressBus: `NothingIsOvertaken`. `WayInv`: what was delivered, the bus, the hand of the pump
  and the inbox, read one after the other, are what the adapter accepted; `FailureInv` is that a failure
  on the bus is the last word of its adapter. **RemoteRelay**: `EveryJobIsSomewhere`. `PlacesInv` says that the
  places of a job exclude each other and which state of a call, connection or poll belongs to each; the
  table holds live calls because an entry leaves it in the step that resolves its future (`CallInv`).
  `TableStaysBounded` comes with it.
* **StoresProofs**, SleepMemory: `ArchivedIsKept`, `CleanIndexIsCurrent`. The lock has one holder and a drainer that
  holds it a batch (`LockInv`); what a file of the batch says is canonical or still to be written (`ReadInv`),
  a line to be written is not word for word where its stage has looked, and so not in the directory it goes
  to (`OnceInv`); a build whose generation did not move saw all
  that was reported (`BuildInv`). **Providers**: `NoClientLeaks`, `FilesTellTheRoutes`. Version numbers are the
  argument: a client that is known is older than any edit that waits, so the client of an edit is nobody
  else's (`ClientInv`); `StepInv` says, for each stage of an edit and of its undo, what the files hold.
  **PaidSessions**: `PaymentsRedeemedOnce`, because a worker that takes its copy for current has the sessions of
  the file (`StoreInv`); `CreditsNeverVanish`, an equation per payment between what was bought and what is left,
  charged, served and lost (`EntryInv`).
* **CallsProofs**, A2ATasks: `NothingHidden` needs that only a worker on which `cancel()` was called belongs to
  a task with a verdict (`ListedInv`); `TurnsOfContextSerial` needs that every turn, and every waiter not
  cancelled, uses the lock that is in the map (`LockInv`); `VerdictStands` is an action property. **Approvals**:
  `SingleUse`, `NoDuplicateRecord`, `OnlyStandingApprovals` from `ApprovalsBacked`: an approved record is backed
  by a grant not yet used and is its call's last word. `RecordsStayBounded`.
* **CircuitProofs**, ToolCircuit: `SlotsNeverLeak` reduces all reports to one lemma, `Released`;
  `CooldownNeverExtended` is an action property from the same lemmas. `OldReportsDoNotCount`, one more, needs
  that the counters are no more than the history: the failures of a closed circuit are at most the run of
  failures since it closed, the successes of a half-open one at most those of its period (`CountInv`). **Reminders**: `SentOnceIfRecorded`: an
  acceptance is in the file, about to be written, or known to have gone astray (`OnceInv`); `WakesInTime`:
  `WakeInv` carries the property of a sleeping loop through the scan and the retry that is being written.
* **FilterProofs.** What `Only` keeps: members, order, distinctness, length, and how it meets append and
  concatenation. Of a sequence of positions it keeps an increasing one (`NumbersKept`), and an increasing
  sequence is determined by its members (`EnumIs`).

*Induction.* The theorems about sequences of any length (filters, the flattening of the log's generations,
the folds by which `TaskState` notes results and the gateway client repairs a request) go by the least counterexample: the set of lengths at which
the claim fails is a set of naturals, and a non-empty one has a least element (`Inductive`). Its parameter is
the set where the claim holds, not an operator, so the provers can instantiate it.

*Only model-checked*: the liveness properties `WorkEnds`, `TasksEnd`, `Recovers`, `EveryReminderArrives` and
`AcceptedIsDelivered`: fairness and ENABLED are beyond the prover. Every invariant and every action property
of the runs is a theorem of its component.

## 6. Not modelled

`PROJECT.json` gives the reason for each component. In short: text, ranking and heuristics (prompt,
recall, auxiliary reasoning) are data without a protocol; tools and services are I/O; what a language
model answers is arbitrary. Inside the modelled parts: the boot of the runtime, service loops and their
capability evidence, redaction and size limits of log payloads, statistics of the breakers, retries and
profiles inside one provider of the gateway client, which rules pause a call, amounts other than multiples
of one price, and confirmation of payments on chain (external: every payment is confirmed). In the agent
loop: serial calls that change nothing, `deep_research` (which may repeat a change by design), receipts that
verify a change by themselves, escalation after failures, the counter of failing rounds (its message is
one of the notes of AgentMessages), progress callbacks, and what is learned from an outcome. In the turn
pipeline: one delivery is one step, whose inside is StreamReply; resuming from a checkpoint; the
selection of the history that is sent. In the relay: enrolment, tokens, the registry file and the node
program. Of the memory: what is extracted, scored and rejected, decay, recall, the archived sidecars and
the format of the index. In the reminders: old file versions and validation. Of the providers: validation, and the other settings, which are single values. `dispatch/Dispatcher` with its request
ids and the task ledger are used by tests only; nothing in the runtime calls them.

## 7. Plan

In order of what matters next:

1. The Discord adapter's side of a turn: the native commands, tasks of the client, reply buffers.
2. The MCP client: its cache of tools and its connections.
3. Two gateway clients that share a spend guard; cooldowns of providers.
