----------------------------- MODULE McpClient -----------------------------
(***************************************************************************)
(* One connected MCPClient (src/gptme/mcp/client.py) and the threads that  *)
(* share it: calls, which pass its CircuitBreaker and then queue for its   *)
(* private event loop, and close(), which a cancelled ACP session and the  *)
(* shutdown of the agent run in threads of their own.                      *)
(*                                                                         *)
(* Abstractions.  Arguments, results and the server are left out: a call   *)
(* returns or raises, if it ever ends.  list_resources and its like are    *)
(* one kind of call, which passes no breaker.  connect() has returned.     *)
(***************************************************************************)
EXTENDS CircuitBreaker

CONSTANTS
    Main,    \* the thread that Ctrl-C reaches, if it is a caller
    Closer,  \* threads that call close(), once each
    NoThread \* nobody

ASSUME ThreadAssumption ==
    /\ Caller \cap Closer = {}
    /\ NoThread \notin Caller \cup Closer

VARIABLES
    pc,           \* where each thread is
    opLock,       \* the thread that holds MCPClient._op_lock
    loop,         \* MCPClient.loop: idle, run by opLock's holder, or closed
    connected,    \* MCPClient.session and .stack are set
    closing,      \* MCPClient._closing
    interruptOps, \* MCPClient._interrupt_ops
    cancelQueued, \* _cancel_running_tasks waits in the loop's queue
    cancelled     \* threads whose task on the loop was cancelled

clientVars == <<pc, opLock, loop, connected, closing, interruptOps, cancelQueued, cancelled>>
vars == <<breakerVars, clientVars>>

\* A call that has left the loop has yet to tell the breaker its outcome.
CallerPc ==
    {"idle", "queued", "ready", "running", "returned", "raised", "interrupted", "escaped"}

CloserPc == {"idle", "check", "request", "wait", "unwind", "cleanup", "done"}

TypeOK ==
    /\ BreakerTypeOK
    /\ pc \in [Caller \cup Closer -> CallerPc \cup CloserPc]
    /\ \A c \in Caller : pc[c] \in CallerPc
    /\ \A k \in Closer : pc[k] \in CloserPc
    /\ opLock \in Caller \cup Closer \cup {NoThread}
    /\ loop \in {"idle", "running", "closed"}
    /\ {connected, closing, interruptOps, cancelQueued} \subseteq BOOLEAN
    /\ cancelled \subseteq Caller \cup Closer

Init ==
    /\ BreakerInit
    /\ pc = [t \in Caller \cup Closer |-> "idle"]
    /\ opLock = NoThread
    /\ loop = "idle"
    /\ connected = TRUE
    /\ closing = FALSE /\ interruptOps = FALSE
    /\ cancelQueued = FALSE /\ cancelled = {}

Goto(t, here, there) == pc[t] = here /\ pc' = [pc EXCEPT ![t] = there]

\* A call that passed no breaker has no outcome to record.
Leave(c, outcome) ==
    pc' = [pc EXCEPT ![c] = IF call[c] = "none" THEN "idle" ELSE outcome]

-----------------------------------------------------------------------------
(* Calls.                                                                  *)

\* call_tool: the breaker lets the call through before it queues for the loop.
CallTool(c) ==
    /\ connected
    /\ Goto(c, "idle", "queued")
    /\ Admit(c)
    /\ UNCHANGED <<opLock, loop, connected, closing, interruptOps, cancelQueued, cancelled>>

\* list_resources and the others call _run_async directly.
CallDirectly(c) ==
    /\ connected
    /\ Goto(c, "idle", "queued")
    /\ UNCHANGED <<breakerVars, opLock, loop, connected, closing, interruptOps,
                   cancelQueued, cancelled>>

\* _run_async has the lock, and finds the client closed.
RefusedByClose(c) ==
    /\ pc[c] = "queued"
    /\ opLock = NoThread
    /\ closing \/ loop = "closed"
    /\ Leave(c, "raised")
    /\ UNCHANGED <<breakerVars, opLock, loop, connected, closing, interruptOps,
                   cancelQueued, cancelled>>

\* It is to run the loop.
TakeLoop(c) ==
    /\ opLock = NoThread
    /\ ~closing /\ loop # "closed"
    /\ Goto(c, "queued", "ready")
    /\ opLock' = c
    /\ UNCHANGED <<breakerVars, loop, connected, closing, interruptOps, cancelQueued,
                   cancelled>>

\* run_until_complete starts.
RunCall(c) ==
    /\ Goto(c, "ready", "running")
    /\ loop' = "running"
    /\ UNCHANGED <<breakerVars, opLock, connected, closing, interruptOps, cancelQueued,
                   cancelled>>

\* It ends: with the result, an exception (CancelledError becomes one), or a
\* Ctrl-C, which becomes an MCPInterruptedError.
EndCall(c) ==
    /\ pc[c] = "running"
    /\ \/ Leave(c, "returned")
       \/ Leave(c, "raised")
       \/ c = Main /\ Leave(c, "interrupted")
    /\ loop' = "idle"
    /\ opLock' = NoThread
    /\ cancelled' = cancelled \ {c}
    /\ UNCHANGED <<breakerVars, connected, closing, interruptOps, cancelQueued>>

\* A Ctrl-C before the loop runs is handled nowhere; the lock is released.
InterruptWait(c) ==
    /\ c = Main
    /\ pc[c] \in {"queued", "ready"}
    /\ Leave(c, "escaped")
    /\ opLock' = IF opLock = c THEN NoThread ELSE opLock
    /\ UNCHANGED <<breakerVars, loop, connected, closing, interruptOps, cancelQueued,
                   cancelled>>

\* call(): the breaker records the outcome, after the client's lock is released.
Record(c) ==
    /\ \/ pc[c] = "returned" /\ Succeed(c)
       \/ pc[c] = "raised" /\ Fail(c)
       \/ pc[c] = "interrupted" /\ Ignore(c)
       \/ pc[c] = "escaped" /\ Escape(c)
    /\ pc' = [pc EXCEPT ![c] = "idle"]
    /\ UNCHANGED <<opLock, loop, connected, closing, interruptOps, cancelQueued, cancelled>>

-----------------------------------------------------------------------------
(* close() and the callback it queues.                                     *)

\* Both flags are set.
CloseMark(k) ==
    /\ Goto(k, "idle", "check")
    /\ closing' = TRUE
    /\ interruptOps' = TRUE
    /\ UNCHANGED <<breakerVars, opLock, loop, connected, cancelQueued, cancelled>>

\* close looks whether the loop runs.
CloseCheck(k) ==
    /\ Goto(k, "check", IF loop = "running" THEN "request" ELSE "wait")
    /\ UNCHANGED <<breakerVars, opLock, loop, connected, closing, interruptOps,
                   cancelQueued, cancelled>>

\* Mutant: the interrupt is taken back before the lock is had.
CloseRequestTakenBack(k) ==
    /\ Goto(k, "request", "wait")
    /\ cancelQueued' = (cancelQueued \/ loop # "closed")
    /\ interruptOps' = FALSE
    /\ UNCHANGED <<breakerVars, opLock, loop, connected, closing, cancelled>>

\* The callback is queued, though the loop may have stopped by now; on a closed
\* one the RuntimeError is dropped.
CloseRequest(k) ==
    /\ Goto(k, "request", "wait")
    /\ cancelQueued' = (cancelQueued \/ loop # "closed")
    /\ UNCHANGED <<breakerVars, opLock, loop, connected, closing, interruptOps, cancelled>>

\* The wait for the lock times out: close gives up.
CloseTimeout(k) ==
    /\ opLock # NoThread
    /\ Goto(k, "wait", "done")
    /\ UNCHANGED <<breakerVars, opLock, loop, connected, closing, interruptOps,
                   cancelQueued, cancelled>>

\* Mutant: the flag stays set through the clean-up.
CloseLockFlagKept(k) ==
    /\ opLock = NoThread
    /\ Goto(k, "wait", "unwind")
    /\ opLock' = k
    /\ UNCHANGED <<breakerVars, loop, connected, closing, interruptOps, cancelQueued,
                   cancelled>>

\* Mutant: close does not wait for the lock's holder.
CloseLockTaken(k) ==
    /\ Goto(k, "wait", "unwind")
    /\ opLock' = k
    /\ interruptOps' = FALSE
    /\ UNCHANGED <<breakerVars, loop, connected, closing, cancelQueued, cancelled>>

\* close has the lock, and takes the interrupt back.
CloseLock(k) ==
    /\ opLock = NoThread
    /\ Goto(k, "wait", "unwind")
    /\ opLock' = k
    /\ interruptOps' = FALSE
    /\ UNCHANGED <<breakerVars, loop, connected, closing, cancelQueued, cancelled>>

\* The stack's __aexit__ starts on the loop, unless it has been run.
CloseUnwind(k) ==
    /\ connected /\ loop # "closed"
    /\ Goto(k, "unwind", "cleanup")
    /\ loop' = "running"
    /\ UNCHANGED <<breakerVars, opLock, connected, closing, interruptOps, cancelQueued,
                   cancelled>>

\* It ends or raises; or there was none.  The loop is closed, and the lock
\* released.
CloseFinish(k) ==
    /\ pc[k] = "cleanup" \/ (pc[k] = "unwind" /\ ~(connected /\ loop # "closed"))
    /\ pc' = [pc EXCEPT ![k] = "done"]
    /\ connected' = FALSE
    /\ loop' = "closed"
    /\ opLock' = NoThread
    /\ cancelQueued' = FALSE
    /\ UNCHANGED <<breakerVars, closing, interruptOps, cancelled>>

\* Mutant: the callback does not need the loop to run.
RunCancelStopped ==
    /\ cancelQueued
    /\ cancelQueued' = FALSE
    /\ cancelled' = IF interruptOps THEN cancelled \cup {opLock} ELSE cancelled
    /\ UNCHANGED <<breakerVars, pc, opLock, loop, connected, closing, interruptOps>>

\* The running loop comes to the callback, which cancels what runs if the flag
\* is still set.
RunCancel ==
    /\ loop = "running"
    /\ cancelQueued
    /\ cancelQueued' = FALSE
    /\ cancelled' = IF interruptOps THEN cancelled \cup {opLock} ELSE cancelled
    /\ UNCHANGED <<breakerVars, pc, opLock, loop, connected, closing, interruptOps>>

-----------------------------------------------------------------------------
Next ==
    \/ \E c \in Caller :
         \/ CallTool(c) \/ CallDirectly(c) \/ RefusedByClose(c) \/ TakeLoop(c)
         \/ RunCall(c) \/ EndCall(c) \/ InterruptWait(c) \/ Record(c)
    \/ \E k \in Closer :
         \/ CloseMark(k) \/ CloseCheck(k) \/ CloseRequest(k) \/ CloseTimeout(k)
         \/ CloseLock(k) \/ CloseUnwind(k) \/ CloseFinish(k)
    \/ RunCancel
    \/ Tick /\ UNCHANGED clientVars

\* The thread of close() runs on, the running loop comes to what it has queued, and
\* a cancelled coroutine unwinds.  No call ends by itself: call_tool has no timeout.
Fairness ==
    /\ \A k \in Closer : WF_vars(CloseRequest(k))
    /\ WF_vars(RunCancel)
    /\ \A c \in Caller : WF_vars(c \in cancelled /\ EndCall(c))

Spec == Init /\ [][Next]_vars /\ Fairness

-----------------------------------------------------------------------------
(* Properties.                                                             *)

\* The private loop is run by the thread that holds _op_lock and no other, and
\* is not closed under a call that is about to run it, though close() gives up
\* its wait and callbacks outlive the run they were queued in.
LoopOwned ==
    /\ \A t \in Caller \cup Closer : pc[t] \in {"running", "cleanup"} =>
         loop = "running" /\ opLock = t
    /\ \A c \in Caller : pc[c] = "ready" => loop = "idle" /\ opLock = c

\* The callback of a close() never cancels the clean-up of the same close(), even if
\* the call it was meant for ended before the callback ran ("a queued cancel callback
\* cannot cancel cleanup"): only a further close() can.
CleanupCancelledByAnother ==
    \A k \in cancelled \cap Closer : \E j \in Closer \ {k} : pc[j] # "idle"

\* A call that close() finds running, however it is stalled, ends.
StalledCallInterrupted ==
    \A c \in Caller, k \in Closer :
        pc[c] = "running" /\ pc[k] = "request" ~> pc[c] # "running"
=============================================================================
