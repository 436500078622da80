-------------------------- MODULE SubagentDelivery --------------------------
(***************************************************************************)
(* The subagents of a server conversation together with the delivery of    *)
(* their completions: the worker or the watchdog that won the race for the *)
(* result calls notify_completion and is inside the call until the         *)
(* completion is persisted or queued; a worker gives its slot back after   *)
(* that.                                                                   *)
(***************************************************************************)
EXTENDS SubagentRuns, CompletionDelivery

ASSUME NoticeAssumption == Run \X Announcer \subseteq Notice

vars == <<runVars, deliveryVars>>

TypeOK == RunsTypeOK /\ DeliveryTypeOK

Init == RunsInit /\ DeliveryInit

-----------------------------------------------------------------------------
\* What one component does while the other stands still.
RunsStep(A) == A /\ UNCHANGED deliveryVars
DeliveryStep(A) == A /\ UNCHANGED runVars

\* The worker recorded its outcome and is in notify_completion.
WorkerNotifies(r) == RecordOutcome(r) /\ Call(<<r, "worker">>)

\* So is the watchdog.
WatchdogNotifies(r) == WatchdogTells(r) /\ Call(<<r, "watchdog">>)

\* What the worker does next waits for the end of the call.
WorkerLeaves(r) ==
    /\ call[<<r, "worker">>] \in {"none", "done"}
    /\ RunsStep(AfterNotice(r))

\* The parent's tools run in a tool worker of the parent conversation, which is
\* not through with its tool before they are.
InTool == ~NoToolExecutes
ToolsIdle == parent.pc = "idle"

\* A tool of the parent; to ask for another subagent counts as a request.
ParentStep ==
    /\ InTool
    /\ ToolNext
    /\ IF run' # run THEN Asks ELSE UNCHANGED requests
    /\ UNCHANGED <<call, queue, delivered, owner, interrupted, thread, pending,
                   connected, faults, lost, doubled, late>>

ToolStops(t) == ToolsIdle /\ DeliveryStep(ToolDone(t))

\* The worker of a tool raises only out of a tool that is over.
Faulty(t) == (Stands(t, "tool") => ToolsIdle) /\ DeliveryStep(FaultNext(t) \/ WorkerRaises(t))

\* Completions of other subagents of the conversation.
OtherNotice == Notice \ (Run \X Announcer)

WorkerProgress(r) == RunsStep(WorkNext(r)) \/ WorkerNotifies(r) \/ WorkerLeaves(r)

Next ==
    \/ ParentStep
    \/ \E r \in Run :
        \/ RunsStep(RunNext(r))
        \/ WorkerNotifies(r) \/ WatchdogNotifies(r) \/ WorkerLeaves(r)
    \/ \E n \in OtherNotice : DeliveryStep(Call(n))
    \/ \E n \in Notice : DeliveryStep(CallNext(n))
    \/ \E t \in Thread : DeliveryStep(ThreadNext(t)) \/ ToolStops(t) \/ Faulty(t)
    \/ DeliveryStep(UserNext) \/ DeliveryStep(Disconnect) \/ DeliveryStep(Connect)

Spec == Init /\ [][Next]_vars

\* What the threads do of themselves: neither faults nor requests, nor the exits
\* of a child or the return of a client.
Progress ==
    \/ \E r \in Run : WorkerProgress(r)
    \/ \E n \in Notice : DeliveryStep(CallNext(n))
    \/ \E t \in Thread : DeliveryStep(ThreadNext(t)) \/ ToolStops(t)
    \/ RunsStep(CancelWritesControl \/ CancelTerminates)

FairSpec == Spec /\ WF_vars(Progress)

-----------------------------------------------------------------------------
(* Properties.                                                             *)

Announced(r) == {by \in Announcer : call[<<r, by>>] # "none"}

\* When a run has ended, its completion was announced exactly once, by its
\* worker or by its watchdog, and never if it was cancelled, or if its log could
\* not be read and nobody else recorded a result.
RunReportedOnce ==
    \A r \in Created : Sole(r) /\ Pc(r) = "ended" /\ watchdog[r] # "marked" =>
        Cardinality(Announced(r)) =
            IF ~Cached(AgentOf(r)) \/ result[AgentOf(r)].status = "cancelled"
            THEN 0 ELSE 1

\* A completion ends in the log of its conversation without another request of
\* the user, but for those that a fault drops, those that OnlyLateSleep lets
\* sleep, and as long as a tool waits for its confirmation.
CompletionArrives ==
    \A n \in Notice :
        <>[](\/ call[n] = "none" \/ delivered[n] > 0 \/ n \in lost \cup late \/ pending > 0)
=============================================================================
