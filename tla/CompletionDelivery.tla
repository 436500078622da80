-------------------------- MODULE CompletionDelivery --------------------------
(***************************************************************************)
(* How the completion of a subagent reaches its parent conversation in the *)
(* gptme server (src/gptme/tools/subagent/hooks.py, notify_completion, and *)
(* SessionManager.request_watch_wake and retry_deferred_watch_wakes in     *)
(* src/gptme/server/session_models.py).                                    *)
(*                                                                         *)
(* notify_completion asks for a wake: if the conversation is idle, the     *)
(* message is persisted and a step is started.  If not, the completion     *)
(* goes to a process-wide queue.  The STEP_PRE hook of a step drains it,   *)
(* and the ends of a step and of a command look at it again.  Other ways   *)
(* to give the reservation up do not: a step that is revoked or fails in   *)
(* its set-up, a start that is rolled back, a tool worker that is not      *)
(* elected, an interrupt.                                                  *)
(*                                                                         *)
(* Abstractions.  The queue holds this conversation's completions only,    *)
(* and the conversation has one session; it goes away only while no step   *)
(* and no tool is under way.  The reservation is one variable, its owner   *)
(* (GenerationReservation models its flags and epochs), and pending tools  *)
(* are counted.  ACP steps, which have no check at their start and no      *)
(* tools, progress updates, branches and the messages' text are left out.  *)
(* MaxFaults bounds the faults (whatever raises, a missing workspace, a    *)
(* wake that fails although the conversation is idle) and disconnections,  *)
(* MaxRequests what the clients and the model's tool uses ask for.         *)
(***************************************************************************)
EXTENDS Naturals, Sequences, FiniteSets

CONSTANTS
    Notice,      \* the calls of notify_completion
    Thread,      \* pool of threads of steps, commands and tool workers
    Nobody,      \* nobody owns the reservation
    MaxRequests, \* requests and tool uses to come
    MaxFaults    \* faults and disconnections to come

ASSUME DeliveryAssumption ==
    /\ Nobody \notin Thread
    /\ MaxRequests \in Nat
    /\ MaxFaults \in Nat

VARIABLES
    call,        \* every notify_completion call
    queue,       \* _completion_queue
    delivered,   \* how often every completion is in the conversation log
    owner,       \* who has the reservation: the thread of a step or a worker
    interrupted, \* the interrupt mark of the session
    thread,      \* where every thread is, and what it holds
    pending,     \* tool uses that wait for their execution
    connected,   \* does the conversation have a session?
    requests,    \* what can still be asked for
    faults,      \* faults that can still happen
    lost,        \* history: completions that were dropped
    doubled,     \* history: wakes refused when the message was in the log
    late         \* history: put or left in the queue when nobody was going to
                 \* look at it

deliveryVars == <<call, queue, delivered, owner, interrupted, thread, pending,
                  connected, requests, faults, lost, doubled, late>>

-----------------------------------------------------------------------------
CallState == {"none", "calling", "refused", "done"}

\* A step: reserved (its thread not started, or before its check for a
\* revocation), begun, drained (the hook took the queue, nothing is appended
\* yet), hooked (after STEP_PRE), answered (it will register a tool use),
\* registered.
StepPc == {"reserved", "begun", "drained", "hooked", "answered", "registered"}
\* retry: a step or a command is over, the queue not yet looked at; rest: the
\* thread holds what it took; back: its wake was refused.
RetryPc == {"retry", "rest", "back"}
\* A tool worker: before its claim, with its tool, before the election.
ToolPc == {"claim", "tool", "elect"}
ThreadPc == {"idle", "command"} \cup StepPc \cup RetryPc \cup ToolPc

\* reserved: a worker that got the reservation from a rerun.  found: the
\* interrupt mark a start found, which its roll-back restores.
ThreadRecord == [pc: ThreadPc, taken: Seq(Notice), reserved: BOOLEAN, found: BOOLEAN]
IdleThread == [pc |-> "idle", taken |-> <<>>, reserved |-> FALSE, found |-> FALSE]

DeliveryTypeOK ==
    /\ call \in [Notice -> CallState]
    /\ queue \in Seq(Notice)
    /\ delivered \in [Notice -> Nat]
    /\ owner \in Thread \cup {Nobody}
    /\ interrupted \in BOOLEAN
    /\ thread \in [Thread -> ThreadRecord]
    /\ pending \in Nat
    /\ connected \in BOOLEAN
    /\ requests \in 0 .. MaxRequests
    /\ faults \in 0 .. MaxFaults
    /\ lost \subseteq Notice
    /\ doubled \in [Notice -> Nat]
    /\ late \subseteq Notice

DeliveryInit ==
    /\ call = [n \in Notice |-> "none"]
    /\ queue = <<>>
    /\ delivered = [n \in Notice |-> 0]
    /\ owner = Nobody
    /\ interrupted = FALSE
    /\ thread = [t \in Thread |-> IdleThread]
    /\ pending = 0
    /\ connected = TRUE
    /\ requests = MaxRequests
    /\ faults = MaxFaults
    /\ lost = {}
    /\ doubled = [n \in Notice |-> 0]
    /\ late = {}

-----------------------------------------------------------------------------
(* Threads and the reservation.                                            *)

InSeq(n, s) == \E i \in DOMAIN s : s[i] = n
Queued == {n \in Notice : InSeq(n, queue)}

Stands(t, pc) == thread[t].pc = pc
Moves(t, pc) == thread' = [thread EXCEPT ![t].pc = pc]
MovesWith(t, pc, taken) == thread' = [thread EXCEPT ![t].pc = pc, ![t].taken = taken]
Ends(t) == thread' = [thread EXCEPT ![t] = IdleThread]

\* Threads to start; an owner that is not one of them has died.
Idle == {t \in Thread : thread[t].pc = "idle" /\ owner # t}
\* The owner has died with the reservation.
Stranded == owner # Nobody /\ thread[owner].pc = "idle"

NoCommand == \A t \in Thread : thread[t].pc # "command"
NoToolExecutes == \A t \in Thread : thread[t].pc # "tool"

\* Neither a generation nor a command is under way.
Unreserved == owner = Nobody /\ NoCommand
\* A step or a rerun can reserve.
CanReserve == connected /\ Unreserved
\* request_watch_wake would persist and reserve.
CanWake == CanReserve /\ pending = 0 /\ NoToolExecutes

\* A thread in state record takes the reservation.
Reserves(t, record) ==
    /\ t \in Idle
    /\ owner' = t
    /\ thread' = [thread EXCEPT ![t] = record]
Step(pc, mark) == [IdleThread EXCEPT !.pc = pc, !.found = mark]

\* It gives the reservation up, if it still has it.
GivesUp(t) == owner' = IF owner = t THEN Nobody ELSE owner

\* t is going to look at the queue, to reserve a step that does, or to put back
\* what it took.
WillLook(t) ==
    \/ thread[t].pc \in {"command"} \cup RetryPc \cup ToolPc
    \/ owner = t /\ thread[t].pc # "idle"
\* Somebody is going to look at the queue: a thread, or the worker of a tool
\* that waits.  With a stranded reservation nobody ever looks.
Awake == ~Stranded /\ (pending > 0 \/ \E t \in Thread : WillLook(t))

Fault == faults > 0 /\ faults' = faults - 1
Asks == requests > 0 /\ requests' = requests - 1

-----------------------------------------------------------------------------
(* The queue and the log.                                                  *)

\* The messages of the completions of s are appended to the log.
Deliver(s) ==
    delivered' = [n \in Notice |-> delivered[n] + (IF InSeq(n, s) THEN 1 ELSE 0)]

\* Whoever ends here does not look at the queue.
LeavesQueue == late' = IF Awake' THEN late ELSE late \cup Queued'

\* The queue grows by n.
Put(n) == queue' = Append(queue, n) /\ LeavesQueue

\* Somebody takes the whole queue.
TakeAll == queue' = <<>> /\ late' = {}

-----------------------------------------------------------------------------
(* notify_completion.                                                      *)

StartCall(n) == call[n] = "none" /\ call' = [call EXCEPT ![n] = "calling"]

Call(n) ==
    /\ StartCall(n)
    /\ UNCHANGED <<queue, delivered, owner, interrupted, thread, pending,
                   connected, requests, faults, lost, doubled, late>>

\* One critical section: the message is persisted and a step reserved.
CallWakes(n, t) ==
    /\ call[n] = "calling"
    /\ CanWake
    /\ Deliver(<<n>>)
    /\ Reserves(t, Step("reserved", FALSE))
    /\ interrupted' = FALSE
    /\ call' = [call EXCEPT ![n] = "done"]
    /\ UNCHANGED <<queue, pending, connected, requests, faults, lost, doubled, late>>

\* The wake of n answers False, or its caller takes it for that: the
\* conversation is busy, or a fault comes before the append of the message, or
\* after it.
WakeRefused(n) ==
    \/ ~CanWake /\ UNCHANGED <<faults, delivered, doubled>>
    \/ Fault /\ UNCHANGED <<delivered, doubled>>
    \/ /\ CanWake /\ Fault
       /\ Deliver(<<n>>)
       /\ doubled' = [doubled EXCEPT ![n] = @ + 1]

CallRefused(n) ==
    /\ call[n] = "calling"
    /\ WakeRefused(n)
    /\ call' = [call EXCEPT ![n] = "refused"]
    /\ UNCHANGED <<queue, owner, interrupted, thread, pending, connected,
                   requests, lost, late>>

CallQueues(n) ==
    /\ call[n] = "refused"
    /\ call' = [call EXCEPT ![n] = "done"]
    /\ UNCHANGED <<delivered, owner, interrupted, thread, pending, connected,
                   requests, faults, lost, doubled>>
    /\ Put(n)

-----------------------------------------------------------------------------
(* Steps and commands.                                                     *)

\* /step, which clears the interrupt mark.
UserStep(t) ==
    /\ CanReserve /\ Asks
    /\ Reserves(t, Step("reserved", interrupted))
    /\ interrupted' = FALSE
    /\ UNCHANGED <<call, queue, delivered, pending, connected, faults, lost,
                   doubled, late>>

\* The step of an A2A task, which does not.
TaskStep(t) ==
    /\ CanReserve /\ Asks
    /\ Reserves(t, Step("reserved", interrupted))
    /\ UNCHANGED <<call, queue, delivered, interrupted, pending, connected,
                   faults, lost, doubled, late>>

\* The thread of the step does not start: whoever reserved rolls back.
RollBack(t) ==
    /\ Stands(t, "reserved")
    /\ Fault
    /\ GivesUp(t)
    /\ interrupted' = IF owner = t THEN thread[t].found ELSE interrupted
    /\ Ends(t)
    /\ UNCHANGED <<call, queue, delivered, pending, connected, requests, lost,
                   doubled>>
    /\ LeavesQueue

\* The check at the start of a step.
MayBegin(t) == owner = t /\ ~interrupted

Begin(t) ==
    /\ Stands(t, "reserved")
    /\ MayBegin(t)
    /\ Moves(t, "begun")
    /\ UNCHANGED <<call, queue, delivered, owner, interrupted, pending, connected,
                   requests, faults, lost, doubled, late>>

\* It returns, and nothing else.
BeginRevoked(t) ==
    /\ Stands(t, "reserved")
    /\ ~MayBegin(t)
    /\ Ends(t)
    /\ UNCHANGED <<call, queue, delivered, owner, interrupted, pending, connected,
                   requests, faults, lost, doubled>>
    /\ LeavesQueue

\* Something raises outside the try of the step: its reservation is stranded.
SetupRaises(t) ==
    /\ thread[t].pc \in {"reserved", "begun", "hooked"}
    /\ Fault
    /\ Ends(t)
    /\ UNCHANGED <<call, queue, delivered, owner, interrupted, pending, connected,
                   requests, lost, doubled>>
    /\ LeavesQueue

\* The workspace is missing, or there are no messages: it releases and returns.
EarlyExit(t) ==
    /\ thread[t].pc \in {"begun", "hooked"}
    /\ Fault
    /\ GivesUp(t)
    /\ Ends(t)
    /\ UNCHANGED <<call, queue, delivered, interrupted, pending, connected,
                   requests, lost, doubled>>
    /\ LeavesQueue

\* The STEP_PRE hook takes the whole queue.
Drain(t) ==
    /\ Stands(t, "begun")
    /\ MovesWith(t, "drained", queue)
    /\ TakeAll
    /\ UNCHANGED <<call, delivered, owner, interrupted, pending, connected,
                   requests, faults, lost, doubled>>

\* _append_and_notify of what the hook yields.
AppendsTaken(t) ==
    /\ Stands(t, "drained")
    /\ Deliver(thread[t].taken)
    /\ MovesWith(t, "hooked", <<>>)
    /\ UNCHANGED <<call, queue, owner, interrupted, pending, connected, requests,
                   faults, lost, doubled, late>>

\* An append or the write raises: what the hook took and did not append is
\* gone, and the reservation is stranded.
AppendFails(t) ==
    /\ Stands(t, "drained")
    /\ Fault
    /\ LET taken == thread[t].taken IN
       \E i \in 1 .. Len(taken) + 1 :
          /\ Deliver(SubSeq(taken, 1, i - 1))
          /\ lost' = lost \cup {taken[j] : j \in i .. Len(taken)}
    /\ Ends(t)
    /\ UNCHANGED <<call, queue, owner, interrupted, pending, connected, requests,
                   doubled>>
    /\ LeavesQueue

\* The model uses a tool; a step without the reservation breaks off before.
Answer(t) ==
    /\ Stands(t, "hooked")
    /\ owner = t
    /\ Asks
    /\ Moves(t, "answered")
    /\ UNCHANGED <<call, queue, delivered, owner, interrupted, pending, connected,
                   faults, lost, doubled, late>>

\* The tool use is registered, whatever happened to the step by then.
Registers(t) ==
    /\ Stands(t, "answered")
    /\ pending' = pending + 1
    /\ Moves(t, "registered")
    /\ UNCHANGED <<call, queue, delivered, owner, interrupted, connected, requests,
                   faults, lost, doubled, late>>

\* The generation ends when there is no tool use, or no other, or by an exception.
Generates(t) == thread[t].pc \in {"hooked", "answered", "registered"}

\* Mutant: nobody looks at the queue again.
ReleaseOnly(t) ==
    /\ Generates(t)
    /\ GivesUp(t)
    /\ Ends(t)
    /\ UNCHANGED <<call, queue, delivered, interrupted, pending, connected,
                   requests, faults, lost, doubled, late>>

\* The finally clause of a step; only who releases looks at the queue again.
Release(t) ==
    /\ Generates(t)
    /\ GivesUp(t)
    /\ IF owner = t THEN Moves(t, "retry") ELSE Ends(t)
    /\ UNCHANGED <<call, queue, delivered, interrupted, pending, connected,
                   requests, faults, lost, doubled, late>>

\* A slash command; it does not run the STEP_PRE hook, and needs no session.
UserCommand(t) ==
    /\ Unreserved /\ Asks
    /\ t \in Idle
    /\ Moves(t, "command")
    /\ UNCHANGED <<call, queue, delivered, owner, interrupted, pending, connected,
                   faults, lost, doubled, late>>

\* finish_command.
CommandEnds(t) ==
    /\ Stands(t, "command")
    /\ Moves(t, "retry")
    /\ UNCHANGED <<call, queue, delivered, owner, interrupted, pending, connected,
                   requests, faults, lost, doubled, late>>

-----------------------------------------------------------------------------
(* Tools.                                                                  *)

\* A pending tool is confirmed, by a client or at its registration; its worker
\* claims it.  (A worker that finds it gone changes nothing.)
Confirm(t) ==
    /\ pending > 0 /\ pending' = pending - 1
    /\ t \in Idle
    /\ Moves(t, "tool")
    /\ UNCHANGED <<call, queue, delivered, owner, interrupted, connected, requests,
                   faults, lost, doubled, late>>

\* The worker goes on with the next tool that needs no confirmation.
Chain(t) ==
    /\ Stands(t, "tool")
    /\ pending > 0
    /\ Moves(t, "claim")
    /\ UNCHANGED <<call, queue, delivered, owner, interrupted, pending, connected,
                   requests, faults, lost, doubled, late>>

Claim(t) ==
    /\ Stands(t, "claim")
    /\ pending > 0 /\ pending' = pending - 1
    /\ Moves(t, "tool")
    /\ UNCHANGED <<call, queue, delivered, owner, interrupted, connected, requests,
                   faults, lost, doubled, late>>

\* A worker that got the reservation from a rerun gives it up, if it has it.
WorkerGivesUp(t) == IF thread[t].reserved THEN GivesUp(t) ELSE UNCHANGED owner

\* The tool it came for is gone (which of the pending tools that is, is not
\* modelled), or its thread does not start.
ClaimFails(t) ==
    /\ Stands(t, "claim")
    /\ WorkerGivesUp(t)
    /\ Ends(t)
    /\ UNCHANGED <<call, queue, delivered, interrupted, pending, connected,
                   requests, faults, lost, doubled>>
    /\ LeavesQueue

ToolEnds(t) ==
    /\ Stands(t, "tool")
    /\ Moves(t, "elect")
    /\ UNCHANGED <<call, queue, delivered, owner, interrupted, pending, connected,
                   requests, faults, lost, doubled, late>>

\* An interrupt has stopped the worker, or taken what a rerun gave it.
Superseded(t) == interrupted \/ (thread[t].reserved /\ owner # t)

\* Its tools were the last and the reservation is its own, or free.
MayContinueAfter(t) ==
    /\ ~Superseded(t)
    /\ pending = 0 /\ NoToolExecutes
    /\ thread[t].reserved \/ Unreserved

\* The election of the thread that continues with a step.
ElectWins(t) ==
    /\ Stands(t, "elect")
    /\ MayContinueAfter(t)
    /\ owner' = t
    /\ thread' = [thread EXCEPT ![t] = Step("reserved", interrupted)]
    /\ UNCHANGED <<call, queue, delivered, interrupted, pending, connected,
                   requests, faults, lost, doubled, late>>

ElectSkips(t) ==
    /\ Stands(t, "elect")
    /\ Superseded(t)
    /\ Ends(t)
    /\ UNCHANGED <<call, queue, delivered, owner, interrupted, pending, connected,
                   requests, faults, lost, doubled>>
    /\ LeavesQueue

\* There are other tools, or somebody else has the conversation.
ElectLoses(t) ==
    /\ Stands(t, "elect")
    /\ ~Superseded(t) /\ ~MayContinueAfter(t)
    /\ WorkerGivesUp(t)
    /\ Ends(t)
    /\ UNCHANGED <<call, queue, delivered, interrupted, pending, connected,
                   requests, faults, lost, doubled, late>>

WorkerRaises(t) ==
    /\ thread[t].pc \in ToolPc
    /\ Fault
    /\ WorkerGivesUp(t)
    /\ Ends(t)
    /\ UNCHANGED <<call, queue, delivered, interrupted, pending, connected,
                   requests, lost, doubled>>
    /\ LeavesQueue

\* A pending tool is skipped and a step reserved; commands are not looked for.
Skip(t) ==
    /\ pending > 0 /\ pending' = pending - 1
    /\ owner = Nobody
    /\ Asks
    /\ Reserves(t, Step("reserved", interrupted))
    /\ UNCHANGED <<call, queue, delivered, interrupted, connected, faults, lost,
                   doubled, late>>

\* A rerun makes a tool use pending again ...
Rerun ==
    /\ CanReserve /\ Asks
    /\ pending' = pending + 1
    /\ UNCHANGED <<call, queue, delivered, owner, interrupted, thread, connected,
                   faults, lost, doubled, late>>

\* ... and starts its worker with the reservation, if it needs no confirmation.
RerunStarts(t) ==
    /\ CanReserve /\ Asks
    /\ pending' = pending + 1
    /\ Reserves(t, [Step("claim", FALSE) EXCEPT !.reserved = TRUE])
    /\ interrupted' = FALSE
    /\ UNCHANGED <<call, queue, delivered, connected, faults, lost, doubled, late>>

\* /interrupt, of a generation or of tools.
Interrupt ==
    /\ owner # Nobody \/ pending > 0 \/ ~NoToolExecutes
    /\ Asks
    /\ owner' = Nobody
    /\ pending' = 0
    /\ interrupted' = TRUE
    /\ UNCHANGED <<call, queue, delivered, thread, connected, faults, lost,
                   doubled>>
    /\ LeavesQueue

-----------------------------------------------------------------------------
(* retry_deferred_watch_wakes, by the thread that released.                *)

RetryTakes(t) ==
    /\ Stands(t, "retry")
    /\ IF queue = <<>> THEN Ends(t) ELSE MovesWith(t, "rest", queue)
    /\ TakeAll
    /\ UNCHANGED <<call, delivered, owner, interrupted, pending, connected,
                   requests, faults, lost, doubled>>

\* All but the first go back, one by one.
RetryPutsRest(t) ==
    /\ Stands(t, "rest") /\ Len(thread[t].taken) > 1
    /\ MovesWith(t, "rest", <<Head(thread[t].taken)>> \o Tail(Tail(thread[t].taken)))
    /\ UNCHANGED <<call, delivered, owner, interrupted, pending, connected,
                   requests, faults, lost, doubled>>
    /\ Put(thread[t].taken[2])

HoldsOne(t) == Stands(t, "rest") /\ Len(thread[t].taken) = 1
Held(t) == Head(thread[t].taken)

\* Mutant: it goes back to the queue although its wake succeeded.
RetryWakesAndKeeps(t, u) ==
    /\ HoldsOne(t)
    /\ CanWake /\ u \in Idle \cup {t}
    /\ Deliver(thread[t].taken)
    /\ queue' = Append(queue, Held(t))
    /\ owner' = u
    /\ thread' = [thread EXCEPT ![t] = IdleThread, ![u] = Step("reserved", FALSE)]
    /\ interrupted' = FALSE
    /\ UNCHANGED <<call, pending, connected, requests, faults, lost, doubled, late>>

\* The first is persisted and a step u reserved (t is free to stand for it).
RetryWakes(t, u) ==
    /\ HoldsOne(t)
    /\ CanWake /\ u \in Idle \cup {t}
    /\ Deliver(thread[t].taken)
    /\ owner' = u
    /\ thread' = [thread EXCEPT ![t] = IdleThread, ![u] = Step("reserved", FALSE)]
    /\ interrupted' = FALSE
    /\ UNCHANGED <<call, queue, pending, connected, requests, faults, lost,
                   doubled, late>>

\* Mutant: a refused completion is forgotten.
RetryForgets(t) ==
    /\ HoldsOne(t)
    /\ WakeRefused(Held(t))
    /\ Ends(t)
    /\ UNCHANGED <<call, queue, owner, interrupted, pending, connected, requests,
                   lost, late>>

RetryRefused(t) ==
    /\ HoldsOne(t)
    /\ WakeRefused(Held(t))
    /\ Moves(t, "back")
    /\ UNCHANGED <<call, queue, owner, interrupted, pending, connected, requests,
                   lost, late>>

\* The wake raises: what was taken is gone.
RetryRaises(t) ==
    /\ HoldsOne(t)
    /\ CanWake /\ Fault
    /\ lost' = lost \cup {Held(t)}
    /\ Ends(t)
    /\ UNCHANGED <<call, queue, delivered, owner, interrupted, pending, connected,
                   requests, doubled>>
    /\ LeavesQueue

\* It goes back behind the others.
RetryPutsBack(t) ==
    /\ Stands(t, "back")
    /\ Ends(t)
    /\ UNCHANGED <<call, delivered, owner, interrupted, pending, connected,
                   requests, faults, lost, doubled>>
    /\ Put(Held(t))

-----------------------------------------------------------------------------
(* The last session goes away; a client comes back.                        *)

Disconnect ==
    /\ connected /\ owner = Nobody
    /\ \A t \in Thread : thread[t].pc \in {"idle", "command"} \cup RetryPc
    /\ Fault
    /\ connected' = FALSE
    /\ pending' = 0
    /\ UNCHANGED <<call, queue, delivered, owner, interrupted, thread, requests,
                   lost, doubled>>
    /\ LeavesQueue

\* A new session has no interrupt mark.
Connect ==
    /\ ~connected
    /\ connected' = TRUE
    /\ interrupted' = FALSE
    /\ UNCHANGED <<call, queue, delivered, owner, thread, pending, requests,
                   faults, lost, doubled, late>>

-----------------------------------------------------------------------------
CallNext(n) == (\E t \in Thread : CallWakes(n, t)) \/ CallRefused(n) \/ CallQueues(n)

\* What the threads of steps and commands do of themselves.
StepNext(t) ==
    \/ Begin(t) \/ BeginRevoked(t)
    \/ Drain(t) \/ AppendsTaken(t)
    \/ Answer(t) \/ Registers(t)
    \/ Release(t) \/ CommandEnds(t)

\* What tool workers do.
WorkerNext(t) ==
    \/ Claim(t) \/ ClaimFails(t)
    \/ ElectWins(t) \/ ElectSkips(t) \/ ElectLoses(t)

RetryNext(t) ==
    \/ RetryTakes(t) \/ RetryPutsRest(t)
    \/ \E u \in Thread : RetryWakes(t, u)
    \/ RetryRefused(t) \/ RetryPutsBack(t)

ThreadNext(t) == StepNext(t) \/ WorkerNext(t) \/ RetryNext(t)

\* A tool worker is through with its tool.
ToolDone(t) == Chain(t) \/ ToolEnds(t)

FaultNext(t) ==
    \/ RollBack(t) \/ SetupRaises(t) \/ EarlyExit(t) \/ AppendFails(t)
    \/ RetryRaises(t)

\* What clients ask for.
UserNext ==
    \/ \E t \in Thread :
        \/ UserStep(t) \/ TaskStep(t) \/ UserCommand(t)
        \/ Confirm(t) \/ Skip(t) \/ RerunStarts(t)
    \/ Rerun \/ Interrupt

-----------------------------------------------------------------------------
(* Properties.                                                             *)

Places(n) ==
    delivered[n]
    + Cardinality({i \in DOMAIN queue : queue[i] = n})
    + Cardinality({t \in Thread : InSeq(n, thread[t].taken)})
    + (IF n \in lost THEN 1 ELSE 0)

\* A completion is neither lost nor doubled unaccounted on its way through the
\* wake, the queue and the hands of the threads that take it from there: after
\* its call it is in exactly one place, and in the log once more for every wake
\* that answered False when it had appended the message ("Returning False would
\* queue the same completion for STEP_PRE and duplicate it in the log",
\* request_watch_wake).
ExactlyOnePlace ==
    \A n \in Notice : Places(n) = doubled[n] + IF call[n] = "done" THEN 1 ELSE 0

\* A completion sleeps in the queue of a conversation where nobody is going to
\* look only if it was put there when nobody was, or if the last who was going
\* to was stopped before: an interrupt, a failure of its set-up, a roll-back, a
\* revoked election.  The finally clause of a step, the end of a command and an
\* election that is lost to others leave none (retry_deferred_watch_wakes).
OnlyLateSleep == ~Awake => Queued \subseteq late
=============================================================================
