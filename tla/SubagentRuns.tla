---------------------------- MODULE SubagentRuns ----------------------------
(***************************************************************************)
(* The subagents of one parent conversation                                *)
(* (src/gptme/tools/subagent): the registry of runs, the worker thread of  *)
(* each run and the semaphore that limits them, the first-writer-wins      *)
(* result cache, the max_time watchdog, and the parent's operations spawn, *)
(* cancel, continue, reply and the clean-up at the end of the session.     *)
(*                                                                         *)
(* A run is a Subagent object with its worker thread; runs are numbered in *)
(* the order of their creation, which is their order in the registry.  The *)
(* result cache is keyed by agent id, not by run, and several runs can     *)
(* have one id: a continuation or a reply makes a new run, and the parent  *)
(* can spawn under an id in use.                                           *)
(* The parent is one thread, so its operations do not overlap; workers,    *)
(* watchdogs and child processes interleave with each of their steps.      *)
(*                                                                         *)
(* Abstractions.  A conversation log is how its last message reads; the    *)
(* child's turns are one free choice of that ending, and a log that cannot *)
(* be read is a failure of whoever reads it.  Prompts, profiles,           *)
(* worktrees, token counts, progress updates, the planner mode, the limit  *)
(* on clarifications and the registry's disk copy are left out.            *)
(* The code installs a continuation's process on the first registry entry  *)
(* with its id; here it is the continuation's own.  The two differ only    *)
(* when a reply has replaced the continuation before its child is          *)
(* launched, which takes three runs of one id.                             *)
(***************************************************************************)
EXTENDS Naturals, Sequences, FiniteSets, FiniteSetsExt

CONSTANTS
    Agent,          \* agent ids
    MaxRuns,        \* the parent creates no more runs than this
    MaxConcurrent,  \* slots of the concurrency semaphore
    Modes           \* the execution modes every id is spawned with

ExecutionMode == {"thread", "subprocess", "acp"}

ASSUME RunAssumption ==
    /\ MaxRuns \in Nat
    /\ MaxConcurrent \in Nat \ {0}
    /\ Modes \in [Agent -> SUBSET ExecutionMode]

Run == 1 .. MaxRuns

VARIABLES
    run,       \* the runs created so far, as their Subagent objects
    registry,  \* _subagents
    result,    \* _subagent_results
    worker,    \* every run's worker thread: where it is, what it found
    slots,     \* free slots of the semaphore
    process,   \* every run's child process
    ending,    \* how the conversation log of every home reads
    cancelOp,  \* cancellations a child can see: <<its home, "file">> in
               \* control.jsonl, <<run, "event">> in its run's cancel_event
    watchdog,  \* every run's max_time timer
    parent,    \* the parent thread
    told       \* completions the runs have announced

runVars == <<run, registry, result, worker, slots, process, ending, cancelOp,
             watchdog, parent, told>>

-----------------------------------------------------------------------------
(* Types.                                                                  *)

Outcome == {"success", "failure", "clarification_needed"}
Status == Outcome \cup {"timeout", "cancelled"}

NoResult == [status |-> "none", by |-> 0]
Result == [status: Status, by: Run] \cup {NoResult}

\* A run lives in the log directory of the run that first used it.
RunRecord == [agent: Agent, mode: ExecutionMode, home: Run, resumed: BOOLEAN]

\* queued: waiting for a slot; launching: before Popen; returned: chat() is
\* back, its outcome not yet read; read: about to record the outcome; reread,
\* rewrite: a continuation of a process records it once more; leaving: it
\* announces what it recorded, if anything, and releases the slot.
WorkerPc == {"none", "queued", "launching", "working", "returned", "read",
             "reread", "rewrite", "leaving", "ended"}
\* unread: its log could not be read.
WorkerRecord == [pc: WorkerPc, outcome: Status \cup {"none", "unread"}]

\* zero, nonzero: it exited, the monitor has not seen it; gone: it has.
ProcessState == {"none", "alive", "zero", "nonzero", "gone"}
\* checked: it found its run running; marked: it recorded the timeout.
WatchdogState == {"off", "armed", "checked", "marked"}

Announcer == {"worker", "watchdog"}
Completion == [run: Run, by: Announcer, status: Status]

\* control, terminate: what is left of a subagent_cancel of run.  todo: what is
\* left of the registry snapshot of the session-end hook, once it has begun.
ParentRecord ==
    [pc: {"idle", "control", "terminate"}, run: Run \cup {0},
     left: BOOLEAN, todo: SUBSET Run]
IdleParent == [pc |-> "idle", run |-> 0, left |-> FALSE, todo |-> {}]

Created == 1 .. Len(run)

RunsTypeOK ==
    /\ run \in Seq(RunRecord) /\ Len(run) <= MaxRuns
    /\ registry \subseteq Created
    /\ result \in [Agent -> Result]
    /\ worker \in [Run -> WorkerRecord]
    /\ slots \in 0 .. MaxConcurrent
    /\ process \in [Run -> ProcessState]
    /\ ending \in [Run -> Outcome \cup {"empty"}]
    /\ cancelOp \subseteq Run \X {"file", "event"}
    /\ watchdog \in [Run -> WatchdogState]
    /\ parent \in ParentRecord
    /\ told \subseteq Completion

-----------------------------------------------------------------------------
(* Reading the state.                                                      *)

Pc(r) == worker[r].pc
AgentOf(r) == run[r].agent
ModeOf(r) == run[r].mode
Home(r) == run[r].home
Cached(a) == result[a] # NoResult

\* The registry entries of agent id a.
Entries(a) == {r \in registry : AgentOf(r) = a}
\* next(s for s in _subagents if s.agent_id == a).
First(a) == Min(Entries(a))
\* _find_subagent(a): the newest entry.
Newest(a) == Max(Entries(a))

ThreadAlive(r) == Pc(r) \notin {"none", "ended"}
\* Subagent.is_running.
IsRunning(r) ==
    IF ModeOf(r) = "subprocess" /\ process[r] # "none"
    THEN process[r] = "alive"
    ELSE ThreadAlive(r)

\* Mutant: a clarification is misread.
MisreadLog(r) ==
    IF Cached(AgentOf(r)) THEN result[AgentOf(r)].status
    ELSE IF ending[Home(r)] = "success" THEN "success" ELSE "failure"

\* Subagent._read_log.
ReadLog(r) ==
    IF Cached(AgentOf(r)) THEN result[AgentOf(r)].status
    ELSE IF ending[Home(r)] = "empty" THEN "failure" ELSE ending[Home(r)]

\* Subagent.status.
StatusOf(r) ==
    IF Cached(AgentOf(r)) THEN result[AgentOf(r)].status
    ELSE IF IsRunning(r) THEN "running" ELSE ReadLog(r)

At(r, pc) == r \in Created /\ Pc(r) = pc
Goes(r, pc) == worker' = [worker EXCEPT ![r].pc = pc]
GoesWith(r, pc, outcome) == worker' = [worker EXCEPT ![r] = [pc |-> pc, outcome |-> outcome]]

\* Mutant: a later writer replaces the result.
PutResult(r, status) ==
    result' = [result EXCEPT ![AgentOf(r)] = [status |-> status, by |-> r]]
\* set_subagent_result_if_absent, when it returns True.
SetResultIfAbsent(r, status) == ~Cached(AgentOf(r)) /\ PutResult(r, status)

RunsInit ==
    /\ run = <<>>
    /\ registry = {}
    /\ result = [a \in Agent |-> NoResult]
    /\ worker = [r \in Run |-> [pc |-> "none", outcome |-> "none"]]
    /\ slots = MaxConcurrent
    /\ process = [r \in Run |-> "none"]
    /\ ending = [r \in Run |-> "empty"]
    /\ cancelOp = {}
    /\ watchdog = [r \in Run |-> "off"]
    /\ parent = IdleParent
    /\ told = {}

-----------------------------------------------------------------------------
(* The parent's operations.                                                *)

ParentIdle == parent.pc = "idle" /\ ~parent.left

\* The new run's record is stored, its thread started, its timer armed (one
\* that never fires stands for a run without max_time), and the result cached
\* under its id is dropped.  entries: the registry without the new run.
Create(record, entries) ==
    /\ Len(run) < MaxRuns
    /\ LET r == Len(run) + 1 IN
       /\ run' = Append(run, record)
       /\ registry' = entries \cup {r}
       /\ result' = [result EXCEPT ![record.agent] = NoResult]
       /\ worker' = [worker EXCEPT ![r].pc = "queued"]
       /\ watchdog' = [watchdog EXCEPT ![r] = "armed"]
    /\ UNCHANGED <<slots, process, ending, cancelOp, parent, told>>

NewRun(a, m) == [agent |-> a, mode |-> m, home |-> Len(run) + 1, resumed |-> FALSE]

\* subagent(); the id may be in the registry already.
Spawn(a, m) ==
    /\ ParentIdle
    /\ m \in Modes[a]
    /\ Create(NewRun(a, m), registry)

\* Mutant: a cached result stands for a finished run.
HasFinished(r) == StatusOf(r) # "running"

\* What subagent_continue asks of a run: nobody works in its conversation, and
\* there is one to continue (ACP: a session id was saved).
MayContinue(r) == ~IsRunning(r) /\ ending[Home(r)] # "empty"

\* subagent_continue().
Continue(a) ==
    /\ ParentIdle
    /\ Entries(a) # {}
    /\ MayContinue(Newest(a))
    /\ First(a) = Newest(a)
    /\ Create([run[Newest(a)] EXCEPT !.resumed = TRUE], registry \ Entries(a))

\* What subagent_reply asks of a run.
MayReply(a) ==
    /\ ParentIdle
    /\ Entries(a) # {}
    /\ StatusOf(Newest(a)) = "clarification_needed"

\* subagent_reply().
Reply(a) ==
    /\ MayReply(a)
    /\ Create(NewRun(a, ModeOf(Newest(a))), registry \ Entries(a))

\* Its spawn raises: the newest run goes back to the registry and its result
\* to the cache, the others with the id are gone.
ReplyFails(a) ==
    /\ MayReply(a)
    /\ registry' = (registry \ Entries(a)) \cup {Newest(a)}
    /\ UNCHANGED <<run, result, worker, slots, process, ending, cancelOp,
                   watchdog, parent, told>>

\* The child can be stopped: it reads control.jsonl, or it is a process.
Cooperative(r) ==
    \/ ModeOf(r) = "thread"
    \/ ModeOf(r) = "subprocess" /\ process[r] # "none"

\* The cache part of subagent_cancel, for a run that is running: nothing
\* changes when a result is there first.
CancelMarks(r) ==
    /\ SetResultIfAbsent(r, "cancelled")
    /\ parent' = IF Cooperative(r)
                 THEN [parent EXCEPT !.pc = "control", !.run = r]
                 ELSE parent

\* subagent_cancel() begins.
Cancel(a) ==
    /\ ParentIdle
    /\ Entries(a) # {}
    /\ IsRunning(Newest(a))
    /\ CancelMarks(Newest(a))
    /\ UNCHANGED <<run, registry, worker, slots, process, ending, cancelOp,
                   watchdog, told>>

\* append_control_op.  If it cannot write, a thread is told in memory and a
\* process only by its termination.
CancelWritesControl ==
    /\ parent.pc = "control"
    /\ \/ cancelOp' = cancelOp \cup {<<Home(parent.run), "file">>}
       \/ cancelOp' = cancelOp \cup
              IF ModeOf(parent.run) = "thread" THEN {<<parent.run, "event">>} ELSE {}
    /\ parent' = IF ModeOf(parent.run) = "subprocess"
                 THEN [parent EXCEPT !.pc = "terminate"]
                 ELSE [parent EXCEPT !.pc = "idle", !.run = 0]
    /\ UNCHANGED <<run, registry, result, worker, slots, process, ending,
                   watchdog, told>>

Killed(r) == IF process[r] = "alive"
             THEN [process EXCEPT ![r] = "nonzero"] ELSE process

\* terminate(), kill() after five seconds, wait().
CancelTerminates ==
    /\ parent.pc = "terminate"
    /\ process' = Killed(parent.run)
    /\ parent' = [parent EXCEPT !.pc = "idle", !.run = 0]
    /\ UNCHANGED <<run, registry, result, worker, slots, ending, cancelOp,
                   watchdog, told>>

\* _session_end_subagent_cleanup takes its snapshot of the registry.
EndSession ==
    /\ ParentIdle
    /\ parent' = [parent EXCEPT !.left = TRUE, !.todo = registry]
    /\ UNCHANGED <<run, registry, result, worker, slots, process, ending,
                   cancelOp, watchdog, told>>

\* Mutant: only processes are looked for.
HasProcess(r) == process[r] = "alive"

\* The test of the hook on a run of its snapshot.
NeedsCancel(r) == ~Cached(AgentOf(r)) /\ IsRunning(r)

\* It cancels the next run of the snapshot, or passes it by.
EndSessionVisits ==
    /\ parent.left /\ parent.pc = "idle" /\ parent.todo # {}
    /\ LET r == Min(parent.todo)
           sa == Newest(AgentOf(r))
           rest == [parent EXCEPT !.todo = @ \ {r}]
       IN  IF NeedsCancel(r) /\ IsRunning(sa)
           THEN /\ PutResult(sa, "cancelled")
                /\ parent' = IF Cooperative(sa)
                             THEN [rest EXCEPT !.pc = "control", !.run = sa]
                             ELSE rest
           ELSE parent' = rest /\ UNCHANGED result
    /\ UNCHANGED <<run, registry, worker, slots, process, ending, cancelOp,
                   watchdog, told>>

-----------------------------------------------------------------------------
(* The worker thread of a run.                                             *)

\* sem.acquire().  What a worker does next, a look at the cache under its lock,
\* is part of the same step: no other thread sees a slot that is taken.
TakeSlot(r) == At(r, "queued") /\ slots > 0 /\ slots' = slots - 1

\* The child has a log, and until its end it reads as one that failed.
OpenLog(r) == ending' = [ending EXCEPT ![Home(r)] = "failure"]

\* Mutant: the return leaves the slot taken.
SkipKeepsSlot(r) ==
    /\ TakeSlot(r)
    /\ ~run[r].resumed /\ Cached(AgentOf(r))
    /\ Goes(r, "ended")
    /\ UNCHANGED <<run, registry, result, process, ending, cancelOp, watchdog,
                   parent, told>>

\* Mutant: it looks before it takes a slot, and releases one all the same.
SkipReleases(r) ==
    /\ At(r, "queued") /\ slots > 0
    /\ ~run[r].resumed /\ Cached(AgentOf(r))
    /\ Goes(r, "leaving")
    /\ UNCHANGED <<run, registry, result, slots, process, ending, cancelOp,
                   watchdog, parent, told>>

\* A result is there already: the run was cancelled, or timed out, while it
\* queued.  A continuation does not look.
SkipQueued(r) ==
    /\ TakeSlot(r)
    /\ ~run[r].resumed /\ Cached(AgentOf(r))
    /\ Goes(r, "leaving")
    /\ UNCHANGED <<run, registry, result, process, ending, cancelOp, watchdog,
                   parent, told>>

BeginWork(r) ==
    /\ TakeSlot(r)
    /\ run[r].resumed \/ ~Cached(AgentOf(r))
    /\ IF ModeOf(r) = "subprocess"
       THEN Goes(r, "launching") /\ UNCHANGED ending
       ELSE Goes(r, "working") /\ OpenLog(r)
    /\ UNCHANGED <<run, registry, result, process, cancelOp, watchdog, parent, told>>

\* Popen returns and the process is installed on the run.
Launch(r) ==
    /\ At(r, "launching")
    /\ process' = [process EXCEPT ![r] = "alive"]
    /\ Goes(r, "working")
    /\ OpenLog(r)
    /\ UNCHANGED <<run, registry, result, slots, cancelOp, watchdog, parent, told>>

\* Popen raises, chat() raises or the ACP client raises.
WorkRaises(r) ==
    /\ At(r, "launching") \/ (At(r, "working") /\ ModeOf(r) # "subprocess")
    /\ GoesWith(r, "read", "failure")
    /\ UNCHANGED <<run, registry, result, slots, process, ending, cancelOp,
                   watchdog, parent, told>>

\* chat() returns on a log that ends in any way.
ChatReturns(r, e) ==
    /\ At(r, "working") /\ ModeOf(r) = "thread"
    /\ ending' = [ending EXCEPT ![Home(r)] = e]
    /\ Goes(r, "returned")
    /\ UNCHANGED <<run, registry, result, slots, process, cancelOp, watchdog,
                   parent, told>>

\* The hook knows the run of its thread as the first entry with its log.
Occupants(h) == {q \in registry : Home(q) = h}
SeesEvent(r) ==
    Occupants(Home(r)) # {} /\ <<Min(Occupants(Home(r))), "event">> \in cancelOp

\* drain_control_ops; a file that cannot be drained stays, and counts as well.
DrainsCancel(h) ==
    /\ <<h, "file">> \in cancelOp
    /\ cancelOp' \in {cancelOp, cancelOp \ {<<h, "file">>}}

\* _subagent_control_hook of a thread at STEP_PRE: it sees the event or drains
\* the file, records the cancellation if nothing is there, and ends the chat.
ThreadSeesCancel(r) ==
    /\ At(r, "working") /\ ModeOf(r) = "thread"
    /\ IF SeesEvent(r) THEN UNCHANGED cancelOp ELSE DrainsCancel(Home(r))
    /\ IF Cached(AgentOf(r)) THEN UNCHANGED result ELSE PutResult(r, "cancelled")
    /\ ending' = [ending EXCEPT ![Home(r)] = "failure"]
    /\ Goes(r, "returned")
    /\ UNCHANGED <<run, registry, slots, process, watchdog, parent, told>>

\* The ACP client returns; the log stands for the saved session.
AcpReturns(r, e) ==
    /\ At(r, "working") /\ ModeOf(r) = "acp"
    /\ ending' = [ending EXCEPT ![Home(r)] = e]
    /\ GoesWith(r, "read", e)
    /\ UNCHANGED <<run, registry, result, slots, process, cancelOp, watchdog,
                   parent, told>>

\* The child process leaves its log and exits.
ProcessExits(r, code, e) ==
    /\ r \in Created /\ process[r] = "alive"
    /\ process' = [process EXCEPT ![r] = code]
    /\ ending' = [ending EXCEPT ![Home(r)] = e]
    /\ UNCHANGED <<run, registry, result, worker, slots, cancelOp, watchdog,
                   parent, told>>

\* The hook in the child: the child's own cache is of no interest here.
ProcessSeesCancel(r) ==
    /\ r \in Created /\ process[r] = "alive"
    /\ DrainsCancel(Home(r))
    /\ process' = [process EXCEPT ![r] = "zero"]
    /\ ending' = [ending EXCEPT ![Home(r)] = "failure"]
    /\ UNCHANGED <<run, registry, result, worker, slots, watchdog, parent, told>>

\* _monitor_subprocess: the wait times out and the child is killed.
MonitorKills(r) ==
    /\ At(r, "working") /\ process[r] = "alive"
    /\ process' = Killed(r)
    /\ UNCHANGED <<run, registry, result, worker, slots, ending, cancelOp,
                   watchdog, parent, told>>

\* Mutant: a killed child leaves no result.
MonitorGivesUp(r) ==
    /\ At(r, "working") /\ process[r] \in {"zero", "nonzero"}
    /\ process' = [process EXCEPT ![r] = "gone"]
    /\ IF process[r] = "zero" THEN GoesWith(r, "read", "success") ELSE Goes(r, "leaving")
    /\ UNCHANGED <<run, registry, result, slots, ending, cancelOp, watchdog,
                   parent, told>>

\* A child that exits with zero has succeeded, whatever its log says, unless it
\* asks for a clarification and the log can be read.
ExitOutcomes(r) ==
    IF process[r] = "nonzero" THEN {"failure"}
    ELSE {"success"} \cup ({ReadLog(r)} \cap {"clarification_needed"})

\* It sees the exit.
MonitorReturns(r) ==
    /\ At(r, "working") /\ process[r] \in {"zero", "nonzero"}
    /\ \E outcome \in ExitOutcomes(r) : GoesWith(r, "read", outcome)
    /\ process' = [process EXCEPT ![r] = "gone"]
    /\ UNCHANGED <<run, registry, result, slots, ending, cancelOp, watchdog,
                   parent, told>>

\* A thread reads its outcome through the first registry entry with its id.
ReadOutcome(r) ==
    /\ At(r, "returned")
    /\ GoesWith(r, "read", ReadLog(First(AgentOf(r))))
    /\ UNCHANGED <<run, registry, result, slots, process, ending, cancelOp,
                   watchdog, parent, told>>

\* It cannot be read, and no result is cached: the thread ends by its finally
\* clause, records nothing and tells nobody.
ReadRaises(r) ==
    /\ At(r, "returned")
    /\ ~Cached(AgentOf(r))
    /\ GoesWith(r, "leaving", "unread")
    /\ UNCHANGED <<run, registry, result, slots, process, ending, cancelOp,
                   watchdog, parent, told>>

\* The outcome of a process that was launched is recorded by its monitor.
Monitored(r) == ModeOf(r) = "subprocess" /\ process[r] # "none"
\* A continuation overwrites what is cached, but its monitor does not.
Overwrites(r) == run[r].resumed /\ ~Monitored(r)
\* Where a worker goes when the race for the result is over.
AfterRace(r) == IF run[r].resumed /\ Monitored(r) THEN "reread" ELSE "leaving"

\* The worker records its outcome and calls notify_completion.
RecordOutcome(r) ==
    /\ At(r, "read")
    /\ \/ Overwrites(r) /\ PutResult(r, worker[r].outcome)
       \/ ~Overwrites(r) /\ SetResultIfAbsent(r, worker[r].outcome)
    /\ told' = told \cup {[run |-> r, by |-> "worker", status |-> worker[r].outcome]}
    /\ GoesWith(r, AfterRace(r), "none")
    /\ UNCHANGED <<run, registry, slots, process, ending, cancelOp, watchdog, parent>>

\* A timeout or a cancellation was first.
LoseRace(r) ==
    /\ At(r, "read")
    /\ ~Overwrites(r) /\ Cached(AgentOf(r))
    /\ GoesWith(r, AfterRace(r), "none")
    /\ UNCHANGED <<run, registry, result, slots, process, ending, cancelOp,
                   watchdog, parent, told>>

\* When the monitor is back, the continuation reads the cached result ...
Rereads(r) ==
    /\ At(r, "reread")
    /\ GoesWith(r, "rewrite",
                IF Cached(AgentOf(r)) THEN result[AgentOf(r)].status ELSE "failure")
    /\ UNCHANGED <<run, registry, result, slots, process, ending, cancelOp,
                   watchdog, parent, told>>

\* ... and writes it, whatever is cached by then.
Rewrites(r) ==
    /\ At(r, "rewrite")
    /\ PutResult(r, worker[r].outcome)
    /\ GoesWith(r, "leaving", "none")
    /\ UNCHANGED <<run, registry, slots, process, ending, cancelOp, watchdog,
                   parent, told>>

\* The finally clause.
ReleaseSlot(r) ==
    /\ At(r, "leaving")
    /\ slots' = slots + 1
    /\ Goes(r, "ended")
    /\ UNCHANGED <<run, registry, result, process, ending, cancelOp, watchdog,
                   parent, told>>

-----------------------------------------------------------------------------
(* The max_time watchdog, _timeout_subagent.                               *)

\* The id has to stand for its run, and the run has to be running.
WatchdogApplies(r) == Entries(AgentOf(r)) # {} /\ First(AgentOf(r)) = r /\ IsRunning(r)

\* Otherwise the timer changes nothing, now or later.
WatchdogChecks(r) ==
    /\ r \in Created /\ watchdog[r] = "armed"
    /\ WatchdogApplies(r)
    /\ watchdog' = [watchdog EXCEPT ![r] = "checked"]
    /\ UNCHANGED <<run, registry, result, worker, slots, process, ending,
                   cancelOp, parent, told>>

\* Mutant: the watchdog goes on when a result is there.
WatchdogGoesOn(r) ==
    /\ watchdog[r] = "checked"
    /\ IF Cached(AgentOf(r)) THEN UNCHANGED result ELSE PutResult(r, "timeout")
    /\ watchdog' = [watchdog EXCEPT ![r] = "marked"]
    /\ UNCHANGED <<run, registry, worker, slots, process, ending, cancelOp,
                   parent, told>>

WatchdogMarks(r) ==
    /\ watchdog[r] = "checked"
    /\ \/ /\ SetResultIfAbsent(r, "timeout")
          /\ watchdog' = [watchdog EXCEPT ![r] = "marked"]
       \/ /\ Cached(AgentOf(r)) /\ UNCHANGED result
          /\ watchdog' = [watchdog EXCEPT ![r] = "off"]
    /\ UNCHANGED <<run, registry, worker, slots, process, ending, cancelOp,
                   parent, told>>

\* It kills the process and announces the timeout.
WatchdogTells(r) ==
    /\ watchdog[r] = "marked"
    /\ watchdog' = [watchdog EXCEPT ![r] = "off"]
    /\ process' = Killed(r)
    /\ told' = told \cup {[run |-> r, by |-> "watchdog", status |-> "timeout"]}
    /\ UNCHANGED <<run, registry, result, worker, slots, ending, cancelOp, parent>>

-----------------------------------------------------------------------------
(* The specification.                                                      *)

\* What the parent's tools do, and the hook at the end of its session.
ToolNext ==
    \/ \E a \in Agent, m \in ExecutionMode : Spawn(a, m)
    \/ \E a \in Agent : Continue(a) \/ Reply(a) \/ ReplyFails(a) \/ Cancel(a)
    \/ CancelWritesControl \/ CancelTerminates

SessionEndNext == EndSession \/ EndSessionVisits

\* The worker's own steps.
WorkNext(r) ==
    \/ SkipQueued(r) \/ BeginWork(r)
    \/ Launch(r) \/ WorkRaises(r)
    \/ \E e \in Outcome : ChatReturns(r, e) \/ AcpReturns(r, e)
    \/ ThreadSeesCancel(r)
    \/ MonitorKills(r) \/ MonitorReturns(r)
    \/ ReadOutcome(r) \/ ReadRaises(r) \/ LoseRace(r) \/ Rewrites(r)

ChildNext(r) ==
    \/ \E code \in {"zero", "nonzero"}, e \in Outcome : ProcessExits(r, code, e)
    \/ ProcessSeesCancel(r)

\* What a worker does when its announcement is over, if it made one.
AfterNotice(r) == Rereads(r) \/ ReleaseSlot(r)

\* Everything a run does without its parent, but for announcing and what comes
\* after it.
RunNext(r) == WorkNext(r) \/ ChildNext(r) \/ WatchdogChecks(r) \/ WatchdogMarks(r)

RunsNext ==
    \/ ToolNext \/ SessionEndNext
    \/ \E r \in Run :
        RunNext(r) \/ RecordOutcome(r) \/ WatchdogTells(r) \/ AfterNotice(r)

RunsSpec == RunsInit /\ [][RunsNext]_runVars

WorkerSteps(r) == WorkNext(r) \/ RecordOutcome(r) \/ AfterNotice(r)

FairRunsSpec == RunsSpec /\ WF_runVars(\E r \in Run : WorkerSteps(r))

-----------------------------------------------------------------------------
(* Properties.                                                             *)

\* The only run of its id so far, and not a continuation.
Sole(r) == \A q \in Created : q # r => AgentOf(q) # AgentOf(r)

Completions(r) == {c \in told : c.run = r}

\* Worker, watchdog and cancellation race for the outcome of a run.  Whoever
\* wins, the parent is told at most once, and what it is told is what
\* subagent_status and subagent_wait answer (set_subagent_result_if_absent).
OneCompletion ==
    \A r \in Created : Sole(r) =>
        /\ Cardinality(Completions(r)) <= 1
        /\ \A c \in Completions(r) : result[AgentOf(r)].status = c.status

\* The outcome the worker of a thread or an ACP run announces is how its own
\* conversation ended, although it is read through the registry and the cache
\* (_read_log).
OwnOutcome ==
    \A r \in Created : Sole(r) /\ ModeOf(r) # "subprocess" =>
        \A c \in Completions(r) : c.by = "worker" => c.status = ending[Home(r)]

\* The run may still write to its conversation: its child works, or will.
MayWrite(r) == Pc(r) \in {"queued", "launching"} \/
               IF ModeOf(r) = "subprocess" THEN process[r] = "alive" ELSE Pc(r) = "working"

\* When a conversation is continued, no older run can write to its log, although
\* a cancelled or timed-out run has its result long before its child is gone
\* ("launch concurrent writers against one conversation log",
\* subagent_continue).
OneWriterPerLog ==
    \A q, r \in Created : q < r /\ Home(q) = Home(r) => ~MayWrite(q)

\* The worker of the newest run of an id has not given its slot back without a
\* result in the cache, whatever was killed, cancelled or raised on the way: who
\* waits for the run gets its outcome.  The one exception is a log that could
\* not be read when chat() was back (_read_log, api.py:1056).
FinishedHasResult ==
    \A r \in Created : Pc(r) = "ended" /\ r = Newest(AgentOf(r)) =>
        Cached(AgentOf(r)) \/ worker[r].outcome = "unread"

\* After the clean-up at the end of the session, no run that still goes on is
\* without a result: nobody waits for an orphan
\* (_session_end_subagent_cleanup).
NoOpenRunAfterEnd ==
    parent.left /\ parent.todo = {} =>
        \A r \in Created : IsRunning(Newest(AgentOf(r))) => Cached(AgentOf(r))

\* Every run gets a slot and gives it back: skipped, failed, timed out and
\* cancelled runs do not leak the semaphore.
EveryRunEnds == []<>(\A r \in Created : Pc(r) = "ended")
=============================================================================
