# Verification of gptme's concurrent core

TLA+ models of the concurrent core of gptme, the TLC configurations that check
them on small instances, and theorems that TLAPS checks for every instance. The
paths below are relative to the repository (`src/`); line numbers are in
`PROJECT.json`, which maps every definition to the code it stands for.

## 1. The system

gptme is an agent: a conversation is a log of messages; a *step* asks a language
model for an answer, stores it, and finds tool uses in it; a tool runs and its
output is stored; then the next step follows. In the terminal this is one loop,
to which other processes queue prompts through a file. `gptme/server` offers the
same to several HTTP clients at once, with a thread for every step and every
tool. A conversation may spawn subagents, conversations of their own that run in
a thread, in a process, or behind ACP, and are told of their outcomes.

| Component | State | Operations | What is hard |
|---|---|---|---|
| generation reservation (`server/session_models.py`, `session_step.py`, `api_v2_sessions.py`, parts of `api_v2.py`, `a2a_api.py`) | per session `generating`, `interrupted`, `step_seq`, `pending_tools`, `_executing_tools`; per conversation the active command | /step, tool/confirm (confirm, edit, auto, skip), rerun, interrupt, slash command, session create/delete/clean, A2A start, watch-wake; step threads and tool workers | interrupted threads that end late, hand-over from tool to continuation, roll-backs, failures of dispatch, two clients on one log |
| completion delivery (`session_models.py`, `tools/subagent/hooks.py`) | completion and progress queues, the owner of the conversation | notify, wake, drain before a step, retry on release, put back | a completion queued when everybody has looked; ends without a retry; a wake that fails after its append; a step that fails with what it took |
| SSE event stream (`session_models.py`, `api_v2_sessions.py`) | event list, offset, clients, flag | add, trim, connect, read, disconnect | trimming without a lock; the gap between snapshot and start index |
| conversation log (`logmanager/`) | file, in-memory managers, branches, views | load, append, rewrite, patch, edit, undo, sync | stale managers rewriting newer files; crash between write and barrier |
| circuit breaker (`circuit_breaker.py`) | state, failure count, opening time, probe flag | call, record, reset | calls that outlive the state they started in |
| MCP client (`mcp/client.py`) | a private event loop, its lock, closing and interrupt flags, a breaker | call_tool, other requests, close | close against calls in flight; a callback that outlives its call; Ctrl-C |
| confirmation and elicitation (`hooks/server_confirm.py`, `server_elicit.py`) | pending table, events | register, resolve, time out, remove | answer against time-out |
| chat loop (`chat.py`) | its list of prompts, the sentinel that closes the queue | take a prompt, turn, steps, hooks, wait, last drain, end | the last look at a queue others still write to; interrupts between taking and appending |
| prompt queue (`prompt_queue.py`) | a file under a lock | queue, drain, drain of steers | crash between read and rewrite; torn lines; limits |
| subagents (`tools/subagent/`) | registry, result cache by agent id, slot semaphore, watchdogs, child processes | spawn, complete, cancel, continue, reply, steer, end of the session | three writers of one result; runs that share an id, or a log; children that outlive their result |
| ACP sessions (`server/acp_session_runtime.py`, `session_step.py`) | subprocess, asyncio loop | the reservation protocol once more, from another thread kind | health checks against running steps |

The rest (providers, prompts, lessons, tools, evaluation, user interfaces) is
sequential text work or I/O; section 8 says why it is left out.

*Interaction.* HTTP handlers run concurrently and share `SessionManager`.
`conversation_lock(id)` (re-entrant) makes check-and-reserve atomic over all
sessions of a conversation; `session.step_lock` (not re-entrant) guards one
session's flags; `SessionManager._lock` guards the tables. A handler reserves
(`generating = True`, `step_seq += 1`) and starts a step thread; the thread
streams, registers tools, may start a tool worker, and releases by
compare-and-clear on the epoch it was given. A worker claims its tool, runs it,
chains to further auto-confirmed tools, and runs an *election*: under both locks
it decides whether the session is quiescent and the conversation free, and if so
reserves the next epoch and starts a step thread. An interrupt revokes: it clears
the flag, sets the mark and advances the epoch of every active session.

A tool may be one of an MCP server. Its client has a private event loop, which any
thread runs that has a request to make, one at a time under `_op_lock`. `call_tool`
asks the client's circuit breaker first, waits for the lock, and reports the outcome
to the breaker when it has let the lock go. `close()`, which the cancellation of an
ACP session and the shutdown of the agent may both run, flags the client, asks the
loop to cancel what it runs, and waits for the lock, but not for ever.

A subagent's worker thread waits for a slot, runs the child (a `chat()` of its own,
a process it polls, or an ACP session), reads the outcome back from the child's log,
and tries to be first in the result cache; so do a `max_time` timer and the parent's
cancel. Whoever is first calls `notify_completion`, which asks `SessionManager` for a
wake: if the conversation is free, the message is persisted and a step starts; if not,
the completion is queued. The STEP_PRE hook of a step drains the queue, and the finally
clause of a step and the end of a slash command look at it again; other ends do not. Every message a thread stores goes through a
`LogManager` of its own to one transcript file, and is then announced as an event that
connected clients read.

What makes each part correct:

- reservation: one generation per conversation; the current epoch has one holder;
  no thread clears another's reservation; none is forgotten; a tool runs once;
  one continuation per quiescence; commands exclude generations;
- subagents: a run has one outcome, its own, announced once; no two runs write one log;
  slots are given back; nobody waits for a run that has ended;
- delivery: each completion is stored exactly once, and eventually;
- event stream: a connected client misses no event after its index;
- log: an acknowledged message survives concurrent writers and crashes;
- breaker: it opens at the threshold and no later, its cooldown starts over for a
  failed probe only, and it refuses calls for a probe's sake only behind a probe;
- MCP client: one thread on the loop; a close() ends the calls it finds, and harms
  neither calls to come nor its own clean-up;
- registries: an answer acknowledged is an answer used;
- chat loop and prompt queue: no prompt doubled, overtaken or lost unaccounted, and none
  left behind by a loop that ends.

## 2. Modules

| Module | Role |
|---|---|
| `ConversationOwner` | what is promised: nobody or one owner (session, epoch); ownership is taken when free, passed on to the next epoch, yielded |
| `GenerationReservation` | the protocol as the code has it; its properties; the operators the mutants of `PROJECT.json` put in place of the code's |
| `GenerationReservationProofs` | theorems |
| `MCGenerationReservation` | symmetry sets for TLC |
| `CircuitBreaker` | the breaker and the threads that call through it |
| `McpClient` | one client with its breaker: extends `CircuitBreaker`, whose actions its own contain |
| `McpClientProofs` | theorems about the breaker; the client implements it; theorems about the client |
| `SubagentRuns` | the registry, workers, watchdogs and children of one parent, and the parent's operations |
| `CompletionDelivery` | `notify_completion`, the queue, the ends of steps, commands and tools, and who looks at the queue at each |
| `SubagentDelivery` | the two composed: announcing a result and entering the call are one step |
| `SubagentRunsProofs`, `SubagentDeliveryProofs` | theorems; the composition implements `SubagentRuns` |
| `ChatLoop` | the loop, the prompt queue and its writers |
| `ChatLoopProofs` | theorems; sequences of records, and what is selected, cut and joined of them |
| `ConversationLog` | the writers of one transcript, each with its manager; crashes |
| `EventStream` | the events of a session, trimming, and clients |
| `ServerConversation` | the two composed: who wrote a message announces it; a crash ends both |
| `ConversationLogProofs`, `EventStreamProofs`, `ServerConversationProofs` | theorems of the parts, carried over to the composition |
| `MCSubagentRuns`, `MCSubagentDelivery`, `MCServerConversation` | the modes of the agents, the notices and the symmetry sets of the runs |

### State

`generating`, `interrupted`, `stepSeq` are the fields of each session;
`status` is where the session stands in the manager's tables; `command` is the
conversation's membership in `_active_commands`; `tool` maps every tool id to the
dictionary that holds it (`pending_tools`, `_executing_tools`). `gen` is a pool of
generations: a record is a /step handler after its reservation, then the step
thread it dispatched, with the epoch it was given (`seq`) and the local variables
that matter. `wrk` is a pool of `execute_tool_thread`s. `wedged` names the session
whose handler waits for the `step_lock` it holds itself. `stranded` is the only
history variable: the reservations whose thread ended without a release.

In `CircuitBreaker`, `state`, `failureCount`, `openedAt` and `probing` are the
breaker's fields, and `call` is the local variable `current_state` of each thread.
`openedAt` is kept as the time since then, up to the cooldown, which is all the code
asks of it. `lost` is a history variable: a probe ended unrecorded while the flag
was set. `McpClient` adds the client's lock, loop and flags, where each thread is
(`pc`), whether the loop has a cancel callback queued, and whose task it cancelled.

In `SubagentRuns` a run is a `Subagent` object, numbered in the order of creation, which
is the order of the registry; `home` is the run whose log directory it uses. `result` is
the cache, keyed by agent id as in the code, which is what makes runs of one id get in
each other's way. `worker`, `process` and `watchdog` are the threads and the child of
each run, `ending` what its log would be read as, `cancelOp` the cancel requests in a
`control.jsonl`, or in a run's `cancel_event` when the file could not be written, `parent` the one thread that spawns, cancels and leaves, and
`told` what was announced. In `CompletionDelivery`, `call` is each `notify_completion`,
`owner` the reservation reduced to its holder, `interrupted` the mark of the session,
`pending` the number of tool uses that wait, and `thread` the pool of threads of steps,
commands and tool workers, with the completions each has in its hands (`taken`). The
history variables are `lost`, what a failed append or a raised wake dropped, `doubled`,
the wakes that answered False with the message in the log, and `late`, what was put or
left in the queue when nobody was going to look at it.

In `ChatLoop`, `file` is `prompt-queue.jsonl`, `prompts` the loop's list, `hand` what is
between the two and the conversation `log`, `loop` the control and the flags of `chat`,
`sentinel` the file `prompt-queue-closed`, `closed` the event of the same purpose, `steer`
each call of `subagent_steer`. In `ConversationLog`, `file`, `torn`, `durable` and
`shadows` are the transcript and what a crash may make of it; `manager` has each writer's
place, its messages, which of them it believes persisted, and the size it remembers. In
`EventStream`, `events` and `offset` are the session's fields, `adder` and `client` the
local variables of the threads that trim and read. The remaining history variables
(`acked`, `overwritten`, `raced`, and those grouped in `ChatLoop`) restrict no step.

### Actions

One action per critical section, and one per unlocked statement others can see.
The main correspondence (all lines are in `PROJECT.json`):

- `StepReserve`, `StepDispatch`, `StepRollback`: `api_conversation_step`;
- `DirectStart`: `_start_step_thread` without a reservation; `ReleaseFailed`: its
  handler for a thread that does not start, and the repeated release of its caller;
- `WatchWake`: `request_watch_wake`, also as called by `retry_deferred_watch_wakes`;
- `Begin`, `BeginRevoked`, `SetupRaises`, `EarlyExit`, `StreamDone`, `StreamBreak`,
  `RegisterTool`, `StartFirstTool`, `StartNoTool`, `Finally`: `step`;
- `Confirm`, `Skip`, `SkipFails`, `SkipWedges`: `api_conversation_tool_confirm`;
- `Rerun`, `RerunAuto`, `RerunWedges`: `api_conversation_rerun`;
- `Interrupt`: `api_conversation_interrupt`;
- `Claim`, `ClaimFails`, `Execute`, `Release`, `ElectContinue`, `ElectDecline`,
  `WorkerRaises`, `WorkerAborts`: `start_tool_execution`;
- `CreateSession`, `DeleteMark`, `DeleteRemove`, `CleanInactive`: the life of a
  session; `StartCommand`, `FinishCommand`: slash commands.

`CircuitBreaker`: `AdmitClosed` and `AdmitProbe` are the first critical section of
`call`; `Succeed`, `FailProbe`, `FailClosed`, `Ignore` and `Escape` are the five ways
it ends; `Reset`; `Tick` is the clock. `McpClient`: `CallTool`, `CallDirectly`,
`TakeLoop`, `RefusedByClose`, `RunCall`, `EndCall`, `InterruptWait`, `Record` follow a
request through `call_tool` and `_run_async`; `CloseMark` to `CloseFinish` are the
steps of `close`, and `RunCancel` is `_cancel_running_tasks` on the running loop.

`SubagentRuns`: `Spawn`, `Continue`, `Reply`, `ReplyFails`, `Cancel` (with `CancelWritesControl` and
`CancelTerminates`, the rest of it for a child process), `EndSession` and
`EndSessionVisits` are the parent; `SkipQueued`, `BeginWork`, `Launch`, `WorkRaises`,
`ChatReturns`, `AcpReturns`, `ThreadSeesCancel`, `MonitorKills`, `MonitorReturns`,
`ReadOutcome`, `ReadRaises` (the log cannot be read), `RecordOutcome`, `LoseRace`, `Rereads`
and `Rewrites` (a continuation of a process) and `ReleaseSlot` a worker; `ProcessExits` and
`ProcessSeesCancel` its child; `WatchdogChecks`, `WatchdogMarks`, `WatchdogTells` the
timer. `CompletionDelivery`: `Call`, `CallWakes`, `CallRefused`, `CallQueues` are
`notify_completion` with its wake; `WakeRefused` is everything that makes it answer False.
`UserStep`, `TaskStep` (A2A), `UserCommand`, `Confirm`, `Skip`, `Rerun`, `RerunStarts` and
`Interrupt` are the clients. `RollBack`, `Begin`, `BeginRevoked`, `SetupRaises`, `EarlyExit`,
`Drain`, `AppendsTaken`, `AppendFails` (the hook), `Answer`, `Registers` and `Release` are a
step, `Claim` to `WorkerRaises` a tool worker with its election. `Release` and `CommandEnds`
go on to `RetryTakes`, `RetryPutsRest`, `RetryWakes`, `RetryRefused`, `RetryRaises` and
`RetryPutsBack`, which are `retry_deferred_watch_wakes`; no other end does. `Disconnect` and
`Connect` are the session going away and coming back. In the composition the parent's tools
run only while a tool worker of its conversation has a tool, which does not end before they
do; the end of the session is in `SubagentRuns` only.

`ChatLoop`: `Spawn` to `CloseEvent` follow a run of `chat`: `Top` (the drain at the top
of the loop), `AppendPrompt` and `UserInput`, `StepPre` and `AppendSteers`, `StepEnds`,
`StepInterrupted`, `StepFails`, `HookMessages` and `HookCompletes` (LOOP_CONTINUE), `Wait`
to `WaitYields` (the hook that waits for background jobs), `CloseQueue`, `FinalDrain`,
`Reopen`, `Leave`, `CloseEvent`; `Strand` is the end of a subagent that discards its
steers. `QueuePrompt`, `SteerChecks`, `SteerWrites`, `SteerRechecks` are the other
processes, `Crash` and `CrashInRewrite` the end of this one.

`ConversationLog`: `StepLoads`, `StepAppends`, `StepSyncs`, `SyncFile`, `SyncDirectories`
are a step; `ToolAppends`, `ToolPatches`, `ToolEnds`, `Unlock` a thread that holds the
conversation lock; `Check`, `AppendLines`, `ReplaceFile`, `SyncName`, `Stat` are
`LogManager.write`. `EventStream`: `Adds`, `TrimChecks` to `TrimAssigns` and `AddEnds` are
`add_event`, one action per statement of `trim_events`; `Connects`, `TakesIndex`,
`ChecksCount`, `SendsEvents`, `Disconnects` the generator of the events endpoint.

`Failures` selects which failures a run contains: `"setup"` (an exception in
`step` before its `try`), `"thread"` (`Thread.start` raises), `"io"` (an exception
of a handler or worker outside its error handling).

### Abstractions

The log, the events, the skill records and the text of everything are left out.
The auto-confirm budget is a free choice per registered tool. Time is a free
choice: `CleanInactive` may remove any session at any moment, which contains the
hour of idleness and the ten minutes of generating. The order of `pending_tools`
is a free choice of the next auto-confirmed tool. One conversation is modelled:
conversations share no state of this protocol. A tool id is used once, as uuid4
ids are. Of an MCP server the model keeps that a request returns, raises or hangs;
the client is connected from the start, and Ctrl-C reaches the main thread only,
while it waits for the lock, is about to run the loop, or runs it.

A subagent's turns are one free choice of how its log ends. Completions of other
subagents are calls without a run. In `CompletionDelivery` the flags and the epoch of a
session are one variable, `owner`; which of the pending tools a worker comes for is left
open, so that `ClaimFails` may happen to any of them; a conversation has one session. A wake
that fails for any other reason than a busy conversation (auto-wake off, no model, a log
that cannot be written, before the append or after it) is a fault. A prompt
is its kind and its number in order of arrival; every access to the queue's file is under
a lock, so one action, except a rewrite the process does not survive. A message is a
number, its writer, and whether timings were attached, which changes the size of its line
once. A crash is one of the machine: it keeps what was synced and perhaps more, or brings
back an older file whose replacement was not synced. An event is its ordinal number, and
a client may look at any time.

## 3. Properties

Invariants: `TypeOK`; `OneGenerationPerConversation` (no two live sessions
generate); `SoleHolder` (the current epoch of a live session has at most one
holder, and one only while marked generating); `ReservationAccounted` (a marked
session has a thread that will release it); `ClaimsAccounted` and its inductive
form `ClaimsInv` (a claimed tool has exactly one worker); `EpochInv` (no two
threads can give back the same epoch).

Action properties: `ReservationNotStolen` (a holder loses its reservation by its
own doing or to an interrupt); `CommandBlocksGeneration` (no generation starts
while a command runs; the skip of a pending tool is the exception the code makes).

Refinement: `OwnerRefinement`, under `CurrentOwner`, the live generating session
with its epoch. Liveness: `ReservationEnds`.

Of the breaker: `BelowThreshold` (a closed breaker has counted fewer failures than
the threshold, so no opening was missed), `ProbeFlagHeld` (the flag that refuses calls
stands for a probe in flight, or one lost to a BaseException),
`ClockRestartsByProbe` (late failures do not push the cooldown back). Of the client:
`LoopOwned` (the loop is run by the lock's holder, and not closed under a call),
`CleanupCancelledByAnother` (the callback of a close() never strikes its own
clean-up), `StalledCallInterrupted` (a call that close() finds running ends).

Of the subagents: `OneCompletion` (worker, watchdog and cancel announce a run at most
once, and what the cache answers), `OwnOutcome` (what a worker announces is how its own
conversation ended, although it is read through registry and cache), `OneWriterPerLog`
(a continued log has no older writer), `FinishedHasResult` (whoever waits for the newest
run of an id is answered, but for a log that could not be read), `NoOpenRunAfterEnd` (the
session's end leaves no run without a result), `EveryRunEnds` (slots do not leak). The first
two speak of ids that were used once; section 7 says what happens to others. Of the delivery:
`ExactlyOnePlace` (a completion is stored, queued, in one thread's hands, or dropped by a
failed append or a raised wake, in one of them only, and stored once more for every wake that
answered False when it had appended it), `OnlyLateSleep` (when nobody is going to look at the
queue, all that is in it was put there when nobody was, or left there by an end that does not
look: an interrupt, a revoked step, a failed set-up, a roll-back, a skipped election; the
finally clause of a step, the end of a command and an election lost to others leave none),
`CompletionArrives` (a completion gets into the log, unless it was dropped, or sleeps as
above, or a tool waits for a confirmation that never comes); of both, `RunReportedOnce` (a run
that ended was announced once; not at all if it was cancelled, or its log could not be read
and nobody recorded a result). `DeliveryTypeOK` and `RunsTypeOK` are one property, `TypeOK`,
whose one content beyond types is the semaphore's bound. The order of the queue's completions
is not a property: the code does not keep it (section 7).

Of the chat loop: `ChatTypeOK` (with the limit of the loop's list), `PromptsInOrder`,
`RecordInOnePlace`, `NothingLeftBehind` (a loop that ends has taken all that was queued
before it closed the queue), `SteerMissedNoCheckpoint` (no STEP_PRE overlooks a steer).

Of a conversation of the server: `NoDuplicateLine` (no message twice in the transcript,
though managers append and rewrite it in any order), `AckedSurvives` (a message that
`generation_complete` acknowledged survives a crash), `LockedWritersKeepEachOther` (only
a step's stale manager loses a tool's output), `StreamHasNoGap`. The second and the third
name their exception, the messages in `overwritten`, because the code does lose those.

## 4. Runs

| Run | Instance | Shows |
|---|---|---|
| `sessions` | 2 sessions, 2 generations, 1 worker, 1 tool, `MaxSeq` 1, no failures; 527k states | one owner over two clients, command exclusion, refinement |
| `tools` | 1 session, 2 generations, 2 workers, 1 tool, `MaxSeq` 2, `setup`, `io`; 693k | late threads, roll-backs and hand-overs of one session |
| `faults` | 1 session, 2 generations, 1 worker, 2 tools, `MaxSeq` 1, `thread`, `io`; 213k | nothing forgotten when threads do not start; chains of tools |
| `liveness` | 1 session, 2 generations, 1 worker, 1 tool, `MaxSeq` 1, `setup`, `io`; 57k | reservations end |
| `stranded` | violation of `ReservationReleased` | section 7 |
| `fasttool` | violation of `FastToolContinues` | section 7 |
| `subagents` | 2 ids, one that runs in a thread or behind ACP, one in a process, `MaxRuns` 2, 1 slot; 675k | the race for a result, reuse and continuation of an id, slots, the session's end |
| `delivery` | 1 subagent in a thread and another completion, 2 threads, 2 requests, 2 faults; 396k | one place for every completion; ends with and without a retry; arrival |
| `chat` | 2 prompts, 2 runs of `chat`, 1 steer, 2 hook messages, `MaxQueue` 2, `MaxSteps` 2, 1 fault; 657k | order and whereabouts of prompts, the closing of the queue |
| `conversation` | 1 step, 2 tools, 2 messages, 1 patch, 1 crash, 1 client, `MaxEvents` = `KeepEvents` = 1, `MaxAdded` 2; 722k | writers of one transcript, crashes, and the stream of their events |
| `client` | 2 callers, one of them the main thread, 2 closers, threshold 2, cooldown 1; 118k | breaker and client together, with queues, Ctrl-C and two close() at once |
| `probe` | violation of `RefusedBehindProbe`; no closer | section 7 |

*Bounds.* `MaxSeq` bounds the epochs that requests claim; continuations add one
per tool, so epochs go to `MaxSeq + Cardinality(Tool)`. Every race in the code's
comments has two parties: an outdated thread and its successor, or two workers, or
two clients. Two generations and two workers, or two sessions, are what that
takes; epoch 2 is the first at which an outdated thread, an interrupt's epoch and a
new reservation can be three different numbers. Two tools are needed for a chain.
A pool bounds how many threads run at once, not how many ever run: an ended
generation's slot is used again.

Two callers are what the races of the breaker take: a call let through while it was
closed, and the probe it overtakes, or that overtakes it; the pair is used again and
again, so that two probes in flight at once occur. With threshold 2 a failure short
of it and one that reaches it differ, and with a cooldown of 1 a breaker that has
cooled down and one that has not. `failureCount` needs no bound: only calls in flight
add to it once the breaker is open.

Two runs are what a reused id or log takes, one slot makes a run wait for another. Two
threads are what the retry at a release takes, whose wake may run beside it, and what a tool
worker and the step that started it are. Two requests let a step come between refusal and
queueing, make a step use a tool, and let an interrupt or a skip meet what another request
started; the spawn of the subagent counts as one, so the subagent meets a tool worker with
its completion, while the other completion, which needs no request, meets every pair of
requests. Two faults are a wake that fails and an end that fails after it. In `chat` two prompts with a list of two
reach the limit, since hook messages share it; two runs let what one leaves be found by
the next. In `conversation` two tools and a step are the three kinds of pairs of writers;
a list of one event is trimmed at the second. `MaxAdded` 2 leaves out trims that overlap a
third event; the same instance with `MaxAdded` 3 (5.8 million states) and one with two
steps and one tool were checked as well, and are too long to keep as runs.

*Deadlock* is checked except in `faults`, where the server really stops (see the
wedges in section 7), in `client` and `probe`, where a closed client takes no
further request, and in `subagents`, `delivery`, `chat` and `conversation`, whose runs,
requests, prompts and messages are bounded and come to an end. `Idle` is the server waiting for a request; it is enabled only
when nothing is under way, so a stuck thread is a deadlock.

*Symmetry.* Generations, workers, tools and (in `sessions`) sessions are
interchangeable; in `conversation`, the tools. Runs with liveness properties use none.

*Fairness* (`FairSpec`). Weak fairness for every step of a generation and of a
worker, and for the end of a command: threads are scheduled by the operating
system, and a model's answer and a tool are taken to end (streams have time-outs;
a tool that never ends holds no epoch of its own except after rerun). Requests are
not fair: no client owes the server one. Locks need no fairness of their own,
because every critical section is one action that does not block inside.

In `McpClient` the thread of close() runs on, the running loop comes to the callback
it was given, and a cancelled coroutine unwinds. Nothing else is fair: `call_tool` has
no time-out, so no call need end by itself.

In `SubagentRuns` (`FairRunsSpec`) the workers run on; an in-process child's turns are
taken to end, a child process need not, since its monitor has a time-out and kills it. In
`SubagentDelivery` (`FairSpec`) also the threads of the conversation, its tools, the calls
and the rest of a cancel. Weak fairness of the disjunction is enough, because requests, runs
and faults are bounded and no thread goes in a circle by itself; a user who never stops
asking could keep a completion waiting. Faults, requests, the confirmation of a tool, a
client's return and the exits of a child are not fair.

*Mutants.* Every property has an operator beside the code's, commented as
"Mutant", that a plausible bug would leave there (a release without compare, a
roll-back without check, a forgotten guard), and under which TLC finds the property
violated. They take no part in the specification.

## 5. Proofs

`GenerationReservationProofs` proves, for every set of sessions, generations,
workers and tools, every `MaxSeq` and every choice of `Failures`, from
`PoolAssumption` alone (the sentinels `NoSession` and `NoTool` are no members of
the sets they stand beside, `MaxSeq` is a natural number); the last group adds the
hypothesis `"thread" \notin Failures`:

- `TypeCorrect`: `Spec => []TypeOK`. Not quite shallow: `StepRollback` subtracts one
  from an epoch, so the type needs the invariant `TypeInv`, that a generation that
  may roll back holds an epoch of at least 1 and knows its session.
- `ToolsInOneHand`: `Spec => []ClaimsInv`, and `ToolClaims`: `Spec => []ClaimsAccounted`. The strengthening
  says of each step thread that the tool uses it has yet to register are in nobody
  else's hands; without it `RegisterTool` could put a running tool back.
- `EpochOrder`: `Spec => []EpochInv`. The invariant relates pairs of threads: two
  /step handlers with the same epoch to give back would let the second roll back
  the first's successor; a reserved worker's epoch is never the target of a
  roll-back that restores an interrupt mark. Its lemma `EpochAdvance` covers all the
  actions that claim a new epoch.
- `NoReservationForgotten`: `Spec => []ReservationAccounted`. By cases on every action:
  whoever clears or ends is the holder, whoever claims becomes one. It needs
  `EpochInv`: when a roll-back lowers the epoch, or a handler releases, no other
  holder of the restored epoch may be left marked without a thread. The frame
  lemma `AccountedFrame` disposes of the actions that touch no reservation.
- `SingleHolder` (`SoleHolder`), `OneGeneration` (`OneGenerationPerConversation`),
  `HolderUndisturbed` (`ReservationNotStolen`), `CommandKept`
  (`CommandBlocksGeneration`) and `Ownership` (`OwnerRefinement`), as long as every
  thread starts. The argument has three parts. `BornInv`: no process or tool belongs
  to a session before it exists. `StepKind`: every step is `Calm` (processes stay or
  end; what happens to a live session is nothing, a release by its holder, a roll-back,
  or a revocation), or one session `Takes` the idle conversation, or a worker
  `HandsOver` to its successor. `OwnerInv`: the processes at a live session stand under
  *different* epochs, none ahead of `step_seq`, the one under the current epoch only
  while `generating`, and none under the epoch a /step handler may roll back to.
  `SoleHolder` alone is not inductive: it says nothing of the older epochs, to which a
  roll-back returns. Each kind keeps `OwnerInv` by a lemma of its own (`KeptOwned`,
  `RolledBackOwned`, `RevokedOwned`, `OthersOwned`, `TakenOwned`, `HandedOverOwned`),
  and the action properties and the refinement step are read off the kinds: `Takes`
  is `Take`, `HandsOver` is `PassOn`, a calm step that ends the generation is `Yield`.

`McpClientProofs`, of the breaker, from `BreakerAssumption` (the threshold is positive, the
cooldown a natural number, `NoTime` is not one), for every set of callers:

- `BelowThresholdTheorem`, `ProbeFlagTheorem`, `ClockTheorem`: the three properties of the
  breaker. The inductive invariant has two halves that do not need each other:
  `Counts` (counter and clock; an open breaker knows since when) and `Control` (state,
  flag and probes).

Of the client, from `ThreadAssumption` (callers, closers and `NoThread` are different), for
every set of callers and closers:

- `ClientImplementsBreaker`: `Spec => BreakerSpec`. Every step of the client is one of
  the breaker's or leaves it alone; so the breaker's three theorems hold of the client
  (`ClientBelowThreshold`, `ClientProbeFlag`, `ClientClock`).
- `LoopTheorem`: `Spec => []LoopOwned`. The strengthening `Locked` says who holds the lock
  while the loop runs, and that a close() before its clean-up holds it.
- `CleanupTheorem`: `Spec => []CleanupCancelledByAnother`, through `Interrupts`: once a
  close() has the lock, the interrupt flag is set only if another has begun.
- `TypeTheorem`: `Spec => []TypeOK`.

`EventStreamProofs`, from `StreamAssumption`, and `ConversationLogProofs`, from
`LogAssumption`, for any number of writers, clients, messages and crashes, and any limits:

- `StreamMissesNothing`: `Spec => []StreamHasNoGap`. The strengthening `StreamInv` says
  that while a client that took its index outside a trim is connected no trim is under
  way, because `trim_events` looks at the clients; so its index is never ahead.
- `TranscriptHasNoDuplicate`, `TranscriptKeepsLocked`, `TranscriptKeepsAcked`. `LogBasics`
  relates a manager's place in `write` to what it believes persisted; on it stand
  `NoDupInv`, `LockedInv` (what a locked writer knows of the file) and `AckedInv` (what
  was acknowledged is in the synced prefix, and in every file a crash may bring back).
- `ServerConversationProofs` shows that every step of the composition is one of each part
  or leaves it alone, and carries the four properties over.
- `ConversationTypeCorrect`: `Spec => []TypeOK`. Two conjuncts of the type are no matter of
  types: a manager's `size` counts entries of its log, and a client is sent no event more
  than twice (`SentAtMostTwice`). The second needs `SentInv`: the index of an event does not
  move while a client follows the list; what was added before the client's start lies behind
  its index; an event ahead of its index was sent once at most, and not at all if it is also
  ahead of the index that the client is about to take. It holds of clients that took their
  index outside a trim. One that took it during a trim may be sent an event more often, which
  TLC shows with three adders; the type invariant claimed two for every client until the
  proof failed.

`SubagentRunsProofs`, from `RunAssumption`, for every set of ids, their modes, and any
number of runs and slots: `RunsTypeCorrect` (the semaphore is never overfull), `ToldOnce`,
`ToldTheTruth`, `LogHasOneWriter`, `WaitersAreAnswered`, `NoOrphanAfterEnd`. Every step
creates a run, moves one run, or leaves them; the first two kinds have laws (what a step
may do to the run, the cache and the registry), so that each invariant is proved against
the laws and not action by action. `SubagentDeliveryProofs`, with `DeliveryAssumption` and
`NoticeAssumption`:

- `RunsImplemented`: the composition implements `RunsSpec`, so the six theorems hold there.
  `WaitersAreAnswered` has the exception of its property: the log that could not be read.
- `DeliveryTypeCorrect`, `CompletionInOnePlace`, `NoOtherSleeps`, through `DeliveryInv`,
  whatever fails. `Shape`: what a thread may hold at each place. `PlaceInv`: a completion is
  somewhere just when its call is done, two places never share one, and it is in the log as
  often as a wake failed after the append (`Level`) or once more (`Ahead`), and then nowhere
  else. `OwnerInv`: the reservation is a step's, a rerun worker's, or a dead thread's; from
  it follows that whoever reserves will look at the queue, and that a lost election leaves
  somebody who will. `OnlyLateSleep` is inductive with these: each end either leaves somebody
  to look or is one of those that mark what is queued as late.
- `ReportedOnce`: `Spec => []RunReportedOnce`. It joins the two halves: every result is a
  cancellation, or announced, or about to be by its watchdog (`Reported`; what is announced
  without a result is nothing, by `ToldOnce`), and a call is made just when something is
  announced (`Calls`).

`ChatLoopProofs`, from `ChatAssumption` (the steers are finitely many, `MaxQueue` and
`MaxSteps` are positive, the other bounds are natural numbers), for any number of prompts,
steers, runs, hook messages and faults and every limit of the loop's queue:

- `ChatTypeCorrect` (`ChatTypeOK`, with the limit of the loop's queue), `OrderOfPrompts`
  (`PromptsInOrder`), `OnePlaceForRecords` (`RecordInOnePlace`), `NoPromptLeftBehind`
  (`NothingLeftBehind`), `NoSteerOverlooked` (`SteerMissedNoCheckpoint`).
- Below them are lemmas about sequences: what `Select`, `Of`, `FirstOf`, `Rest`, `Recorded`
  and `Appended` return and keep. A sequence is `Fine` if no prompt is in it twice and its
  queued prompts are in order; `Before` says this of two sets, `Cut` of what a drain takes
  and what it leaves.
- The inductive invariant `ChatInv` has six parts. `LineInv`: conversation, hand, loop's
  queue and file are each fine, and each before the next. `PromptsInOrder` is not inductive
  without it, since a drain joins a part of the file to the queue, and needs that what it
  leaves is behind what it takes. `PlaceInv`: these four, `lost` and `stranded` share no
  prompt and are together what was written. `HoldingInv`: where hand and queue are empty; a
  run that began with prompts in either would lose them, and the wait hook fills the hand
  from the file, which is in line only if the queue before it is empty. `SteerInv`: a steer gets a number that no other has, from the
  count of those that have one, which is why `Steer` has to be finite. `SettledInv` and
  `ChatTypeOK`.
- Every action that moves records has a lemma of its own (`TopRecords`,
  `CrashInRewriteRecords`, ...), which reduces it to one of a few moves: nothing leaves the
  line (`NothingGone`), the loop loses what it has and a part of the file (`LoopLoses`), the
  file fills an empty hand (`FileToHand`), a new record comes last (`NewInLine`).
- The last look at the file finds everything because the loop's queue is empty then and
  `MaxQueue` is positive: `FinalDrain` is where `NoPromptLeftBehind` uses that assumption.

Layout: one lemma per invariant's step with one proof step per action, frame
lemmas for the actions that leave the relevant variables alone, and a closing
temporal step.

Model-checked only: the liveness properties `ReservationEnds`, `StalledCallInterrupted`,
`EveryRunEnds` and `CompletionArrives`, as liveness under fairness and ENABLED are out of
the prover's reach. Every safety property of a passing run has its theorem. Induction over
data: the library's induction theorems take an operator as a parameter, which the provers
cannot instantiate. `SetInduction` (`ChatLoopProofs`) says the same of a set of numbers (one
that has 0 and every successor is `Nat`), from the well-foundedness of `<`, and carries the
one induction the project needs, over the recursive function in `Select`. The modules have no
RECURSIVE operators.

The properties of the reservation hold of *live* sessions, and, except for those listed under
`faults`, only without `"thread"` failures. The hypothesis is needed: a failed dispatch
is released twice (`failedTwice`), and TLC finds `SoleHolder` violated between the two
releases; the second can meet an A2A start under the same epoch.

## 6. Plan

Done: the reservation; completion delivery and subagents; the conversation log; the event
stream; circuit breaker and MCP client; chat loop and prompt queue; a theorem for every
safety property. In order, what is left:

1. `CompletionDelivery` on top of `GenerationReservation`, in place of its `owner`.
2. `ConversationLog`: undo and edit, branches, and the recovery event log with its
   checkpoints and compaction.
3. `ConfirmRegistry`: answer against time-out; the ACP variant of a step, whose
   reservation is released from an asyncio thread; the adapter's retry around `McpClient`.

## 7. Where the code and its words differ

- *A reservation stranded by the interrupt mark* (run `stranded`). `step` returns
  without a release when `session.interrupted` is set (`session_step.py:739`). The
  comment on the field (`session_models.py:116`) says the mark is cleared when a
  user's new chain is dispatched, but an A2A start and a skip do not clear it. Such
  a start after an interrupt leaves the session marked generating until the
  ten-minute clean-up removes it.
- *A fast tool's continuation is lost* (run `fasttool`). The comment in `step`'s
  finally block (`session_step.py:1055`) describes a tool that ends first and takes
  the reservation on. The election refuses a worker without a reservation while
  `generating` is set, which it is until that finally block: the worker declines, the
  step releases, nobody continues.

- *A lost probe refuses the server for good* (run `probe`). `call` records every outcome
  but a BaseException. Ctrl-C inside the client's run becomes an ordinary exception; one
  that arrives while the probe still waits for `_op_lock` does not, and leaves the
  breaker half open behind a probe that is not there. The comment at
  `circuit_breaker.py:146` promises "until it resolves".

Seen while modelling, contained in the model, without a property of their own:

- *More than one probe.* A probe that is overtaken by a late success and a new opening is
  still in flight when the next one is let through, though
  `test_circuit_breaker.py:199` expects refusals "until the probe resolves". The end of
  either clears the flag. A late success also closes an open breaker before its cooldown
  is over.
- *A second close() cancels the first one's clean-up*: it sets the interrupt flag again
  while the loop runs the clean-up. The comment at `mcp/client.py:72` speaks of the
  callback of the same close(), which is what `CleanupCancelledByAnother` confirms.
- *close() may leave the client open*: its docstring says "After the in-flight call
  unwinds (or a timeout), close the stack and loop", but on a time-out it returns. That
  happens to a call that was past the check of `_closing` and not yet running when
  close() looked: nothing cancels it.

Of the reservation:

- *Wedges.* `skip` and `rerun` hold `step_lock` while they start a thread; if it does
  not start, the callee's release takes the same non-reentrant lock.
- `skip` does not ask whether a slash command is active (`api_v2_sessions.py:715`).
- Workers without a reservation do not compare epochs, though the comment at
  `session_models.py:134` says tool workers do.
- Tool uses are registered, and the first started, after an interrupt that falls
  between the token loop and the registration.
- `step_seq` is called monotonically increasing and runs backwards in a roll-back;
  `EpochInv` says why that is harmless.
- `clean_inactive_sessions` and the deletion of a session are not atomic with /step; a
  thread may then generate on a session that is no longer registered, beside a new
  one. The properties therefore speak of live sessions.
- A worker whose next chained tool was taken by another returns without an election.

Of the subagents:

- *An agent id used twice.* Registry look-ups return the first entry, the cache has one
  result per id. A second run under an id reads its outcome through the first, its
  `max_time` never applies, and the timer of the first can mark the second `timeout`
  although `expected_run` is said to prevent "a stale timer from timing out a later run"
  (`api.py:1164`): it compares entries, and the first entry is still the old run.
- A continuation overwrites the result of a cancelled or timed-out run and announces a
  second outcome. A cancel request left in `control.jsonl` ends the continuation.
- *A run nobody hears of.* When `chat()` is back, `_read_log` is called outside the handler of
  `run_subagent` (`api.py:1056`; `1581` for a continuation): if it raises, the thread ends by its
  finally clause, records nothing and announces nothing. The model has it (`ReadRaises`), and
  `FinishedHasResult` and `RunReportedOnce` name it as their exception.
- A continuation's process is installed on, and monitored through, the first registry entry
  with its id (`api.py:1530-1539`); the model installs it on the continuation itself. The two
  differ only if a reply replaced the continuation before its child was launched, which takes
  three runs of one id. The limit on clarifications is not modelled.
- A subprocess that is cancelled between the worker's look at the cache and its `Popen` is
  not terminated by the cancel. One that has exited but is not recorded counts as not
  running: it cannot be cancelled, may be continued, and its outcome lands on the new run.

Of the delivery:

- *A late completion sleeps* (`late`). It is refused while a step runs and queued after that
  step has looked at the queue for the last time. The comment in `finish_command`
  (`session_models.py:270`) has the retry on release keep an idle chat from that.
- *Ends without a retry.* A step that is revoked before it begins, that finds no workspace or
  no messages (`session_step.py:739`, `755`, `845`), or that fails in its set-up, a start that
  is rolled back, a tool worker that fails or is not elected because of an interrupt, and the
  interrupt itself leave the queue alone: what is in it sleeps until the next step.
- *A completion stored twice.* `request_watch_wake` appends the message and then syncs; if
  that fails it answers False, and the completion is queued (`doubled`). The comment at
  `session_models.py:431` gives just this as what must not happen, for the failures after it.
- *A completion lost.* A wake that raises (`ChatConfig.load_or_create`,
  `session_models.py:368`) inside the retry loses the completion the retry had taken; a step
  that fails to append loses what its hook took.
- A completion whose wake is refused again goes behind later ones.

Of the chat loop:

- *An accepted steer may be thrown away.* `subagent_steer` says "Delivery is **guaranteed"
  (`api.py:1322`), and the comment at `chat.py:391` that a steer which came before the
  sentinel "is caught by the drain below". That drain takes queued prompts and leaves
  steer records in the file, which the end of the subagent discards.
- A steer that was rejected may still be delivered, if the loop finds a prompt and reopens
  the queue. One taken by the wait hook becomes an ordinary prompt and may be overtaken.
- A line torn by a crash swallows the next record; the rewrite in place is not atomic.
- A cancelled subagent goes on with the next of its chained prompts. A loop that ends by
  LOOP_CONTINUE's SessionComplete, or by a failure, makes no last drain.
- Hook messages beyond the limit of the loop's list are dropped, also those that were
  prompts another hook had taken from the file (in the model, one hook speaks at a time).
  The server's handler of a failed command discards all prompts that are queued (not
  modelled).

Of a conversation of the server:

- *A stale step loses a tool's output* (`overwritten`). A step loads its manager when it
  begins; a tool that appends meanwhile makes the step's next write replace the file by
  its own memory, also when that write has nothing to add. A tool may lose such a message
  once more after another step brought it back.
- *Trimming.* `trim_events` "only trims when no clients are connected", but a client may
  connect between that check and the last statement, and take an index that is too high
  (`raced`). Two overlapping trims count twice: the list may become empty, and a third
  then moves the offset back. An event appended during a trim may be lost.
- What happens between a client's snapshot and its index is in neither. An event may be
  sent twice to a client (more often if it took its index in a trim), and `event_flag` is shared: a client whose wake-up another
  consumed waits up to 15 seconds (not modelled).

Read, and not modelled:

- `server_confirm.py:185`: an answer may come between the end of the wait and the removal
  of the entry; the client is told it was resolved, and the tool is skipped.
- Pending elicitations are not in a new client's snapshot.
- The recovery event log: a checkpoint written by a stale manager, and the compaction that
  follows, drop events; a malformed last line resets the sequence numbers.

## 8. Not modelled

Providers (network I/O; an answer is a free choice here), parsing and running of
tools, prompts, lessons and context selection (text), evaluation suites, web and
desktop clients, the command line and the terminal (I/O), request-response handlers over
files (no protocol between requests).

Of the modelled parts: branches, views, undo and edit of the log, and the recovery event
log; progress updates, and ACP steps, several sessions and a deletion during a generation in
`CompletionDelivery`; planner and batch mode, worktrees and the disk copy of the
subagents' registry; the background jobs themselves, of which `ChatLoop` has the hook that
waits for them; connecting an MCP client, and the adapter's retry (`_restart_mcp_client`),
which runs and closes a client's loop without `_op_lock`, while `LoopOwned` is about the
client's own methods. The registry of named breakers is not used by the program.
ACP-backed steps follow the compare-and-clear of `step` from an asyncio thread; the
subprocess, its health monitor and the update stream are left out. The registries of
confirmation and elicitation have one event per entry and one race (section 7).

Most of the repository is text processing and I/O without state that outlives a call:
the map covers what keeps state between threads, processes or crashes, which is a small
share of its lines. `PROJECT.json` lists every part with the reason.
