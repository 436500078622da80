----------------------- MODULE GenerationReservation -----------------------
(***************************************************************************)
(* The generation reservation of one conversation of the gptme server      *)
(* (src/gptme/server): who may drive the language model and write to the   *)
(* conversation's log.                                                     *)
(*                                                                         *)
(* The state is the part of ConversationSession and SessionManager that    *)
(* carries the protocol: the generating flag, the interrupted flag and the *)
(* epoch step_seq of every session, the pending and executing tools, the   *)
(* slash-command reservation.  The processes are the /step handlers and    *)
(* the step threads they dispatch (Gen), the tool workers (Worker), and    *)
(* the remaining HTTP handlers, each a single critical section under the   *)
(* conversation lock.  A statement outside the locks is a step of its own. *)
(*                                                                         *)
(* Abstractions.  Events, prompts, timings, skill records and the content  *)
(* of messages, and so the log, are left out.  The auto-confirm budget      *)
(* becomes a free choice for each registered tool.                         *)
(***************************************************************************)
EXTENDS Naturals, FiniteSets

CONSTANTS
    Session,    \* ConversationSession objects of the conversation
    Gen,        \* pool of generations: a /step handler, then its step thread
    Worker,     \* pool of execute_tool_thread threads
    Tool,       \* pool of tool ids (each id is used once, as uuid4 ids are)
    NoSession,  \* no session
    NoTool,     \* no tool
    MaxSeq,     \* clients claim or revoke no epoch beyond this one
    Failures    \* which operations may fail, see FailureKind

(***************************************************************************)
(* "setup":  step() raises before its try statement.                       *)
(* "thread": threading.Thread.start raises.                                *)
(* "io":     a handler or a worker raises outside its error handling.      *)
(***************************************************************************)
FailureKind == {"setup", "thread", "io"}

ASSUME PoolAssumption ==
    /\ NoSession \notin Session
    /\ NoTool \notin Tool
    /\ MaxSeq \in Nat
    /\ Failures \subseteq FailureKind

VARIABLES
    status,      \* where each session stands in SessionManager
    generating,  \* ConversationSession.generating
    interrupted, \* ConversationSession.interrupted
    stepSeq,     \* ConversationSession.step_seq
    command,     \* the conversation's entry in SessionManager._active_commands
    tool,        \* every tool id: its state, session and auto-confirm mark
    gen,         \* the generations
    wrk,         \* the tool workers
    wedged,      \* the session whose handler waits for a lock it holds itself
    stranded     \* history: reservations whose thread ended without a release

flags == <<generating, interrupted, stepSeq>>
marks == <<wedged, stranded>>
vars == <<status, flags, command, tool, gen, wrk, marks>>

-----------------------------------------------------------------------------
(* Types.                                                                  *)

SessionStatus == {"unborn", "live", "deleting", "removed"}

\* What a tool id stands for: not issued, parsed from a response but not yet
\* registered, in pending_tools, in _executing_tools, or finished with.
ToolState == {"fresh", "parsed", "pending", "executing", "done"}

\* setup: the /step handler after its reservation; spawn: the thread has not
\* passed its epoch check; stream: reading the model's answer; register:
\* storing its tool uses; finally: before the compare-and-clear.  failed: the
\* thread did not start and one release is left to do, failedTwice: two, the
\* caller repeats it; stepFailed: the caller is a /step handler; undo: that
\* handler before its own rollback.
GenPc == {"idle", "setup", "spawn", "stream", "register", "finally",
          "failed", "failedTwice", "stepFailed", "undo"}

\* claim: about to take its tool from pending_tools; exec: running it; release:
\* the next tool is chosen, the claim still held; elect: before the
\* continuation election; abort: an exception is on its way to the outermost
\* handler.
WorkerPc == {"idle", "claim", "exec", "release", "elect", "abort"}

ToolRecord == [st: ToolState, sess: Session \cup {NoSession}, auto: BOOLEAN]
GenRecord ==
    [pc: GenPc, sess: Session \cup {NoSession}, seq: Nat,
     prev: BOOLEAN, todo: SUBSET Tool, first: Tool \cup {NoTool}]
WorkerRecord ==
    [pc: WorkerPc, sess: Session \cup {NoSession}, seq: Nat, reserved: BOOLEAN,
     tool: Tool \cup {NoTool}, next: Tool \cup {NoTool}]

\* Every variable has its type.
TypeOK ==
    /\ status \in [Session -> SessionStatus]
    /\ generating \in [Session -> BOOLEAN]
    /\ interrupted \in [Session -> BOOLEAN]
    /\ stepSeq \in [Session -> Nat]
    /\ command \in BOOLEAN
    /\ tool \in [Tool -> ToolRecord]
    /\ gen \in [Gen -> GenRecord]
    /\ wrk \in [Worker -> WorkerRecord]
    /\ wedged \in Session \cup {NoSession}
    /\ stranded \subseteq Session \X Nat

-----------------------------------------------------------------------------
(* Reading the state.                                                      *)

\* The sessions SessionManager lists for the conversation.
Registered == {s \in Session : status[s] \in {"live", "deleting"}}

\* Mutant: all() for any().
AllGenerating == \A s \in Registered : generating[s]

\* SessionManager.conversation_generating: it sees registered sessions only.
ConversationGenerating == \E s \in Registered : generating[s]

\* SessionManager.command_is_active.
CommandIsActive == command

\* Nobody sits on the conversation lock, or on the step_lock of s, for ever.
ConversationLockFree == wedged = NoSession
StepLockFree(s) == wedged # s

Pending(s) == {t \in Tool : tool[t].st = "pending" /\ tool[t].sess = s}
Executing(s) == {t \in Tool : tool[t].st = "executing" /\ tool[t].sess = s}
\* No tool of the session is waiting or running.
Quiescent(s) == Pending(s) = {} /\ Executing(s) = {}

Fresh == {t \in Tool : tool[t].st = "fresh"}

IdleGen == [pc |-> "idle", sess |-> NoSession, seq |-> 0,
            prev |-> FALSE, todo |-> {}, first |-> NoTool]
IdleWorker == [pc |-> "idle", sess |-> NoSession, seq |-> 0, reserved |-> FALSE,
               tool |-> NoTool, next |-> NoTool]

\* A step thread of session s under epoch e, and a worker started on tool t.
StepThread(s, e, pc) == [IdleGen EXCEPT !.pc = pc, !.sess = s, !.seq = e]
ToolThread(s, e, t, reserved) ==
    [IdleWorker EXCEPT !.pc = "claim", !.sess = s, !.seq = e, !.tool = t,
                       !.reserved = reserved]

\* What _start_step_thread may leave behind; some callers repeat its release.
Dispatched == IF "thread" \in Failures THEN {"spawn", "failed"} ELSE {"spawn"}
DispatchedByOwner ==
    IF "thread" \in Failures THEN {"spawn", "failedTwice"} ELSE {"spawn"}

\* The tools of T leave the session's dictionaries.
DropTools(T) ==
    [t \in Tool |-> IF t \in T THEN [st |-> "done", sess |-> NoSession, auto |-> FALSE]
                               ELSE tool[t]]

\* Mutant: no compare, as before the epochs were introduced.
ReleaseAlways(s, e) ==
    generating' = [generating EXCEPT ![s] = FALSE]

\* The compare-and-clear every thread ends with: an epoch that has moved on is
\* left alone.
ReleaseIfOwned(s, e) ==
    generating' = [generating EXCEPT ![s] = @ /\ stepSeq[s] # e]

Init ==
    /\ status = [s \in Session |-> "unborn"]
    /\ generating = [s \in Session |-> FALSE]
    /\ interrupted = [s \in Session |-> FALSE]
    /\ stepSeq = [s \in Session |-> 0]
    /\ command = FALSE
    /\ tool = [t \in Tool |-> [st |-> "fresh", sess |-> NoSession, auto |-> FALSE]]
    /\ gen = [g \in Gen |-> IdleGen]
    /\ wrk = [w \in Worker |-> IdleWorker]
    /\ wedged = NoSession
    /\ stranded = {}

-----------------------------------------------------------------------------
(* Sessions come and go.                                                   *)

\* create_session.
CreateSession(s) ==
    /\ status[s] = "unborn"
    /\ status' = [status EXCEPT ![s] = "live"]
    /\ UNCHANGED <<flags, command, tool, gen, wrk, marks>>

\* DELETE of a session: the flag and the pending tools are cleared without any
\* lock, the epoch is left alone, ...
DeleteMark(s) ==
    /\ status[s] = "live"
    /\ status' = [status EXCEPT ![s] = "deleting"]
    /\ generating' = [generating EXCEPT ![s] = FALSE]
    /\ tool' = DropTools(Pending(s))
    /\ UNCHANGED <<interrupted, stepSeq, command, gen, wrk, marks>>

\* ... and the session is then unregistered; handlers and threads that hold
\* the object go on with it.
DeleteRemove(s) ==
    /\ status[s] = "deleting"
    /\ status' = [status EXCEPT ![s] = "removed"]
    /\ UNCHANGED <<flags, command, tool, gen, wrk, marks>>

\* clean_inactive_sessions, for a session idle for an hour (not generating) or
\* stuck for ten minutes (generating: the flag is cleared).  Time is abstracted
\* to a free choice.
CleanInactive(s) ==
    /\ s \in Registered
    /\ status' = [status EXCEPT ![s] = "removed"]
    /\ generating' = [generating EXCEPT ![s] = FALSE]
    /\ UNCHANGED <<interrupted, stepSeq, command, tool, gen, wrk, marks>>

-----------------------------------------------------------------------------
(* The reservation sites.                                                  *)

\* Mutant: the epoch is not advanced.
StepReserveSameEpoch(s, g) ==
    /\ ConversationLockFree
    /\ status[s] # "unborn"
    /\ gen[g].pc = "idle"
    /\ ~ConversationGenerating /\ ~CommandIsActive
    /\ generating' = [generating EXCEPT ![s] = TRUE]
    /\ interrupted' = [interrupted EXCEPT ![s] = FALSE]
    /\ gen' = [gen EXCEPT ![g] = StepThread(s, stepSeq[s], "setup")]
    /\ UNCHANGED <<status, stepSeq, command, tool, wrk, marks>>

\* The /step handler reserves the conversation and claims the next epoch.  It
\* resolved the session earlier, which may have been removed since.
StepReserve(s, g) ==
    /\ ConversationLockFree
    /\ status[s] # "unborn"
    /\ gen[g].pc = "idle"
    /\ ~ConversationGenerating /\ ~CommandIsActive
    /\ stepSeq[s] < MaxSeq
    /\ generating' = [generating EXCEPT ![s] = TRUE]
    /\ interrupted' = [interrupted EXCEPT ![s] = FALSE]
    /\ stepSeq' = [stepSeq EXCEPT ![s] = @ + 1]
    /\ gen' = [gen EXCEPT ![g] = [StepThread(s, stepSeq[s] + 1, "setup")
                                   EXCEPT !.prev = interrupted[s]]]
    /\ UNCHANGED <<status, command, tool, wrk, marks>>

\* The handler's set-up succeeds: the step thread is dispatched.
StepDispatch(g) ==
    /\ gen[g].pc = "setup"
    /\ \/ gen' = [gen EXCEPT ![g].pc = "spawn", ![g].prev = FALSE]
       \/ "thread" \in Failures /\ gen' = [gen EXCEPT ![g].pc = "stepFailed"]
    /\ UNCHANGED <<status, flags, command, tool, wrk, marks>>

\* Mutant: the epoch is given back whether or not it is the current one.
StepRollbackAlways(g) ==
    LET s == gen[g].sess IN
    /\ gen[g].pc \in {"setup", "undo"}
    /\ ConversationLockFree
    /\ gen' = [gen EXCEPT ![g] = IdleGen]
    /\ stepSeq' = [stepSeq EXCEPT ![s] = @ - 1]
    /\ interrupted' = [interrupted EXCEPT ![s] = gen[g].prev]
    /\ generating' = [generating EXCEPT ![s] = FALSE]
    /\ UNCHANGED <<status, command, tool, wrk, marks>>

\* It fails (no model, bad branch, an exception, no thread): the finally block
\* gives the epoch back if it is still the current one.
StepRollback(g) ==
    LET s == gen[g].sess IN
    /\ gen[g].pc \in {"setup", "undo"}
    /\ ConversationLockFree
    /\ gen' = [gen EXCEPT ![g] = IdleGen]
    /\ IF stepSeq[s] = gen[g].seq
       THEN /\ stepSeq' = [stepSeq EXCEPT ![s] = @ - 1]
            /\ interrupted' = [interrupted EXCEPT ![s] = gen[g].prev]
            /\ generating' = [generating EXCEPT ![s] = FALSE]
       ELSE UNCHANGED <<flags>>
    /\ UNCHANGED <<status, command, tool, wrk, marks>>

\* _start_step_thread without a reservation of the caller's (the A2A endpoint):
\* it reserves under the current epoch and leaves the interrupt mark.
DirectStart(s, g) ==
    /\ ConversationLockFree
    /\ s \in Registered
    /\ gen[g].pc = "idle"
    /\ ~ConversationGenerating /\ ~CommandIsActive
    /\ generating' = [generating EXCEPT ![s] = TRUE]
    /\ \E pc \in Dispatched : gen' = [gen EXCEPT ![g] = StepThread(s, stepSeq[s], pc)]
    /\ UNCHANGED <<status, interrupted, stepSeq, command, tool, wrk, marks>>

\* request_watch_wake takes the conversation when it is idle altogether.  A
\* subagent's completion asks for it at any time; step() and finish_command ask
\* again, for the requests refused meanwhile, once they have let go of the
\* locks (retry_deferred_watch_wakes).  Which requests there are is not state
\* of this module, so a call that finds none is no step of it.
WatchWake(s, g) ==
    /\ ConversationLockFree
    /\ s \in Registered
    /\ gen[g].pc = "idle"
    /\ ~ConversationGenerating /\ ~CommandIsActive
    /\ \A r \in Registered : Quiescent(r)
    /\ stepSeq[s] < MaxSeq
    /\ generating' = [generating EXCEPT ![s] = TRUE]
    /\ interrupted' = [interrupted EXCEPT ![s] = FALSE]
    /\ stepSeq' = [stepSeq EXCEPT ![s] = @ + 1]
    /\ \E pc \in DispatchedByOwner :
         gen' = [gen EXCEPT ![g] = StepThread(s, stepSeq[s] + 1, pc)]
    /\ UNCHANGED <<status, command, tool, wrk, marks>>

\* POST of a message that is a slash command: the command owns the
\* conversation while it runs outside the lock.
StartCommand ==
    /\ ConversationLockFree
    /\ ~ConversationGenerating /\ ~CommandIsActive
    /\ command' = TRUE
    /\ UNCHANGED <<status, flags, tool, gen, wrk, marks>>

FinishCommand ==
    /\ CommandIsActive
    /\ command' = FALSE
    /\ UNCHANGED <<status, flags, tool, gen, wrk, marks>>

-----------------------------------------------------------------------------
(* The step thread.                                                        *)

\* Mutant: the failed dispatch is not released.
ReleaseFailedForgets(g) ==
    /\ gen[g].pc \in {"failed", "failedTwice", "stepFailed"}
    /\ gen' = [gen EXCEPT ![g] = IdleGen]
    /\ UNCHANGED <<status, flags, command, tool, wrk, marks>>

\* The thread did not start: _start_step_thread releases what it was given and
\* raises.  A tool worker and request_watch_wake then release once more, a
\* /step handler has its own rollback to do.
ReleaseFailed(g) ==
    /\ gen[g].pc \in {"failed", "failedTwice", "stepFailed"}
    /\ StepLockFree(gen[g].sess)
    /\ gen' = [gen EXCEPT ![g] =
                 CASE gen[g].pc = "stepFailed" -> [@ EXCEPT !.pc = "undo"]
                   [] gen[g].pc = "failedTwice" -> [@ EXCEPT !.pc = "failed"]
                   [] OTHER -> IdleGen]
    /\ ReleaseIfOwned(gen[g].sess, gen[g].seq)
    /\ UNCHANGED <<status, interrupted, stepSeq, command, tool, wrk, marks>>

\* A thread that ends here holds the reservation if its epoch is the current one.
StrandIfOwned(g) ==
    LET s == gen[g].sess IN
    stranded' = IF generating[s] /\ stepSeq[s] = gen[g].seq
                THEN stranded \cup {<<s, gen[g].seq>>}
                ELSE stranded

\* step() finds its epoch current and the session not interrupted, and goes on.
Begin(g) ==
    LET s == gen[g].sess IN
    /\ gen[g].pc = "spawn"
    /\ StepLockFree(s)
    /\ stepSeq[s] = gen[g].seq /\ ~interrupted[s]
    /\ gen' = [gen EXCEPT ![g].pc = "stream"]
    /\ UNCHANGED <<status, flags, command, tool, wrk, marks>>

\* It does not, and returns, before the try statement whose finally releases.
BeginRevoked(g) ==
    LET s == gen[g].sess IN
    /\ gen[g].pc = "spawn"
    /\ StepLockFree(s)
    /\ stepSeq[s] # gen[g].seq \/ interrupted[s]
    /\ gen' = [gen EXCEPT ![g] = IdleGen]
    /\ StrandIfOwned(g)
    /\ UNCHANGED <<status, flags, command, tool, wrk, wedged>>

\* An exception before that try statement ends the thread (loading the
\* configuration or the log, preparing the environment or the messages).
SetupRaises(g) ==
    /\ "setup" \in Failures
    /\ gen[g].pc \in {"spawn", "stream"}
    /\ gen' = [gen EXCEPT ![g] = IdleGen]
    /\ StrandIfOwned(g)
    /\ UNCHANGED <<status, flags, command, tool, wrk, wedged>>

\* Mutant: the early return leaves the flag set.
EarlyExitStuck(g) ==
    /\ gen[g].pc = "stream"
    /\ gen' = [gen EXCEPT ![g] = IdleGen]
    /\ UNCHANGED <<status, flags, command, tool, wrk, marks>>

\* The workspace is missing, or there is nothing to send.
EarlyExit(g) ==
    /\ gen[g].pc = "stream"
    /\ StepLockFree(gen[g].sess)
    /\ gen' = [gen EXCEPT ![g] = IdleGen]
    /\ ReleaseIfOwned(gen[g].sess, gen[g].seq)
    /\ UNCHANGED <<status, interrupted, stepSeq, command, tool, wrk, marks>>

\* The token loop tests, before each token, whether the generation is revoked.
Revoked(g) ==
    LET s == gen[g].sess IN
    ~generating[s] \/ interrupted[s] \/ stepSeq[s] # gen[g].seq

\* The loop ends with a response and its tool uses, if the last test passed.
StreamDone(g, T) ==
    /\ gen[g].pc = "stream"
    /\ ~Revoked(g)
    /\ T \subseteq Fresh
    /\ gen' = [gen EXCEPT ![g].pc = "register", ![g].todo = T]
    /\ tool' = [t \in Tool |-> IF t \in T
                               THEN [st |-> "parsed", sess |-> NoSession, auto |-> FALSE]
                               ELSE tool[t]]
    /\ UNCHANGED <<status, flags, command, wrk, marks>>

\* It breaks off, or an exception reaches step()'s handler: no tool use, or no
\* further one, is registered.
StreamBreak(g) ==
    /\ gen[g].pc = "stream" \/ (gen[g].pc = "register" /\ "io" \in Failures)
    /\ gen' = [gen EXCEPT ![g].pc = "finally", ![g].todo = {}, ![g].first = NoTool]
    /\ tool' = DropTools(gen[g].todo)
    /\ UNCHANGED <<status, flags, command, wrk, marks>>

\* A tool use is stored in pending_tools: no lock, and no second look at the
\* epoch.
RegisterTool(g, t, auto) ==
    /\ gen[g].pc = "register"
    /\ t \in gen[g].todo
    /\ tool' = [tool EXCEPT ![t] = [st |-> "pending", sess |-> gen[g].sess, auto |-> auto]]
    /\ gen' = [gen EXCEPT ![g].todo = @ \ {t},
                          ![g].first = IF auto /\ @ = NoTool THEN t ELSE @]
    /\ UNCHANGED <<status, flags, command, wrk, marks>>

\* The first auto-confirmed tool gets a worker, under the epoch of this moment
\* and without the reservation; it chains to the others.
StartFirstTool(g, w) ==
    LET s == gen[g].sess IN
    /\ gen[g].pc = "register" /\ gen[g].todo = {} /\ gen[g].first # NoTool
    /\ wrk[w].pc = "idle"
    /\ wrk' = [wrk EXCEPT ![w] = ToolThread(s, stepSeq[s], gen[g].first, FALSE)]
    /\ gen' = [gen EXCEPT ![g].pc = "finally", ![g].first = NoTool]
    /\ UNCHANGED <<status, flags, command, tool, marks>>

\* There is none, or its thread does not start.
StartNoTool(g) ==
    /\ gen[g].pc = "register" /\ gen[g].todo = {}
    /\ gen[g].first = NoTool \/ "thread" \in Failures
    /\ gen' = [gen EXCEPT ![g].pc = "finally", ![g].first = NoTool]
    /\ UNCHANGED <<status, flags, command, tool, wrk, marks>>

\* The finally block of step().
Finally(g) ==
    /\ gen[g].pc = "finally"
    /\ StepLockFree(gen[g].sess)
    /\ gen' = [gen EXCEPT ![g] = IdleGen]
    /\ ReleaseIfOwned(gen[g].sess, gen[g].seq)
    /\ UNCHANGED <<status, interrupted, stepSeq, command, tool, wrk, marks>>

-----------------------------------------------------------------------------
(* The handlers that act on tools.                                         *)

\* tool/confirm with confirm, edit or auto: a worker starts on a tool that was
\* seen pending, without lock or reservation.
Confirm(t, w) ==
    LET s == tool[t].sess IN
    /\ tool[t].st = "pending"
    /\ wrk[w].pc = "idle"
    /\ wrk' = [wrk EXCEPT ![w] = ToolThread(s, stepSeq[s], t, FALSE)]
    /\ UNCHANGED <<status, flags, command, tool, gen, marks>>

\* Mutant: a generation of the conversation is not asked for.
SkipToolUnguarded(t) ==
    LET s == tool[t].sess IN
    /\ ConversationLockFree
    /\ tool[t].st = "pending"
    /\ stepSeq[s] < MaxSeq
    /\ stepSeq' = [stepSeq EXCEPT ![s] = @ + 1]
    /\ tool' = DropTools({t})
    /\ UNCHANGED <<status, interrupted, command, wrk, stranded>>

\* What tool/confirm with skip does in every outcome: no other generation runs
\* (an active slash command is not asked for), the epoch advances and the tool
\* is consumed.
SkipTool(t) ==
    LET s == tool[t].sess IN
    /\ ConversationLockFree
    /\ tool[t].st = "pending"
    /\ ~ConversationGenerating
    /\ stepSeq[s] < MaxSeq
    /\ stepSeq' = [stepSeq EXCEPT ![s] = @ + 1]
    /\ tool' = DropTools({t})
    /\ UNCHANGED <<status, interrupted, command, wrk, stranded>>

\* The skip is written to the log and the continuation dispatched.
Skip(t, g) ==
    LET s == tool[t].sess IN
    /\ SkipTool(t)
    /\ gen[g].pc = "idle"
    /\ generating' = [generating EXCEPT ![s] = TRUE]
    /\ gen' = [gen EXCEPT ![g] = StepThread(s, stepSeq[s] + 1, "spawn")]
    /\ UNCHANGED wedged

\* Writing the log fails: the handler releases what it reserved.
SkipFails(t) ==
    /\ "io" \in Failures
    /\ SkipTool(t)
    /\ generating' = [generating EXCEPT ![tool[t].sess] = FALSE]
    /\ UNCHANGED <<gen, wedged>>

\* The thread does not start: _start_step_thread's own release waits for the
\* step_lock its caller holds.
SkipWedges(t) ==
    /\ "thread" \in Failures
    /\ SkipTool(t)
    /\ generating' = [generating EXCEPT ![tool[t].sess] = TRUE]
    /\ wedged' = tool[t].sess
    /\ UNCHANGED gen

\* What rerun does in every outcome: nothing else may run; the tool uses T of
\* the last assistant message become pending, those of A auto-confirmed.
Reregister(s, T, A) ==
    /\ ConversationLockFree
    /\ status[s] # "unborn"
    /\ ~ConversationGenerating /\ ~CommandIsActive
    /\ T # {} /\ T \subseteq Fresh /\ A \subseteq T
    /\ tool' = [t \in Tool |-> IF t \in T
                               THEN [st |-> "pending", sess |-> s, auto |-> t \in A]
                               ELSE tool[t]]
    /\ UNCHANGED <<status, command, gen, stranded>>

\* An auto-confirmed tool makes rerun a new generation chain.
RerunClaim(s, A) ==
    /\ A # {}
    /\ stepSeq[s] < MaxSeq
    /\ generating' = [generating EXCEPT ![s] = TRUE]
    /\ interrupted' = [interrupted EXCEPT ![s] = FALSE]
    /\ stepSeq' = [stepSeq EXCEPT ![s] = @ + 1]

\* No tool is auto-confirmed: they wait for the client.
Rerun(s, T) ==
    /\ Reregister(s, T, {})
    /\ UNCHANGED <<flags, wrk, wedged>>

\* A worker starts with the reservation.
RerunAuto(s, T, A, w) ==
    /\ Reregister(s, T, A)
    /\ RerunClaim(s, A)
    /\ wrk[w].pc = "idle"
    /\ \E t \in A :
         wrk' = [wrk EXCEPT ![w] = ToolThread(s, stepSeq[s] + 1, t, TRUE)]
    /\ UNCHANGED wedged

\* Its thread does not start: as for skip, the release waits for a lock the
\* handler holds.
RerunWedges(s, T, A) ==
    /\ "thread" \in Failures
    /\ Reregister(s, T, A)
    /\ RerunClaim(s, A)
    /\ wedged' = s
    /\ UNCHANGED wrk

\* interrupt: every registered session with a generation or a tool is revoked.
Interrupt ==
    LET active == {s \in Registered :
                     generating[s] \/ ~Quiescent(s)} IN
    /\ ConversationLockFree
    /\ active # {}
    /\ \A s \in active : stepSeq[s] < MaxSeq
    /\ generating' = [s \in Session |-> generating[s] /\ s \notin active]
    /\ interrupted' = [s \in Session |-> interrupted[s] \/ s \in active]
    /\ stepSeq' = [s \in Session |-> IF s \in active THEN stepSeq[s] + 1
                                                     ELSE stepSeq[s]]
    /\ tool' = DropTools(UNION {Pending(s) : s \in active})
    /\ UNCHANGED <<status, command, gen, wrk, marks>>

-----------------------------------------------------------------------------
(* The tool worker.                                                        *)

\* Mutant: the tool is looked up where it should be popped.
ClaimUnchecked(w) ==
    /\ wrk[w].pc = "claim"
    /\ ConversationLockFree
    /\ tool' = [tool EXCEPT ![wrk[w].tool].st = "executing"]
    /\ wrk' = [wrk EXCEPT ![w].pc = "exec"]
    /\ UNCHANGED <<status, flags, command, gen, marks>>

\* It pops its tool from pending_tools into _executing_tools.
Claim(w) ==
    LET t == wrk[w].tool IN
    /\ wrk[w].pc = "claim"
    /\ ConversationLockFree
    /\ tool[t].st = "pending"
    /\ tool' = [tool EXCEPT ![t].st = "executing", ![t].auto = FALSE]
    /\ wrk' = [wrk EXCEPT ![w].pc = "exec"]
    /\ UNCHANGED <<status, flags, command, gen, marks>>

\* Mutant: the worker returns with its reservation.
ClaimFailsKeeps(w) ==
    /\ wrk[w].pc = "claim"
    /\ tool[wrk[w].tool].st # "pending"
    /\ wrk' = [wrk EXCEPT ![w] = IdleWorker]
    /\ UNCHANGED <<status, flags, command, tool, gen, marks>>

\* Another worker, a skip or an interrupt took it: a reservation still owned is
\* released, and the worker ends without an election.
ClaimFails(w) ==
    /\ wrk[w].pc = "claim"
    /\ ConversationLockFree
    /\ tool[wrk[w].tool].st # "pending"
    /\ IF wrk[w].reserved THEN ReleaseIfOwned(wrk[w].sess, wrk[w].seq)
                          ELSE UNCHANGED generating
    /\ wrk' = [wrk EXCEPT ![w] = IdleWorker]
    /\ UNCHANGED <<status, interrupted, stepSeq, command, tool, gen, marks>>

\* The tool runs and its output, or its error, is appended to the log under the
\* conversation lock.  Then the next auto-confirmed tool is read without a lock;
\* the order of pending_tools is abstracted.
Execute(w) ==
    LET auto == {t \in Pending(wrk[w].sess) : tool[t].auto} IN
    /\ wrk[w].pc = "exec"
    /\ ConversationLockFree
    /\ \E t \in (IF auto = {} THEN {NoTool} ELSE auto) :
         wrk' = [wrk EXCEPT ![w].pc = "release", ![w].next = t]
    /\ UNCHANGED <<status, flags, command, tool, gen, marks>>

\* The claim leaves _executing_tools; the worker chains, or turns to the
\* election.
Release(w) ==
    /\ wrk[w].pc = "release"
    /\ ConversationLockFree
    /\ tool' = DropTools({wrk[w].tool})
    /\ wrk' = [wrk EXCEPT
                 ![w].pc = IF wrk[w].next = NoTool THEN "elect" ELSE "claim",
                 ![w].tool = wrk[w].next,
                 ![w].next = NoTool]
    /\ UNCHANGED <<status, flags, command, gen, marks>>

\* Only a worker that came with a reservation compares its epoch.
OwnsReservation(w) ==
    ~wrk[w].reserved \/ stepSeq[wrk[w].sess] = wrk[w].seq

\* Mutant: an active slash command is not asked for.
MayContinueDuringCommand(w) ==
    LET s == wrk[w].sess IN
    /\ ~interrupted[s] /\ OwnsReservation(w)
    /\ Quiescent(s)
    /\ wrk[w].reserved \/ ~ConversationGenerating

\* May the worker start the continuation?
MayContinue(w) ==
    LET s == wrk[w].sess IN
    /\ ~interrupted[s] /\ OwnsReservation(w)
    /\ Quiescent(s)
    /\ wrk[w].reserved \/ (~ConversationGenerating /\ ~CommandIsActive)

\* The election won: the reservation passes to a new step thread under the next
\* epoch.
ElectContinue(w, g) ==
    LET s == wrk[w].sess IN
    /\ wrk[w].pc = "elect"
    /\ ConversationLockFree
    /\ MayContinue(w)
    /\ gen[g].pc = "idle"
    /\ stepSeq' = [stepSeq EXCEPT ![s] = @ + 1]
    /\ generating' = [generating EXCEPT ![s] = TRUE]
    /\ \E pc \in DispatchedByOwner :
         gen' = [gen EXCEPT ![g] = StepThread(s, stepSeq[s] + 1, pc)]
    /\ wrk' = [wrk EXCEPT ![w] = IdleWorker]
    /\ UNCHANGED <<status, interrupted, command, tool, marks>>

\* The election declined; a reservation is given back if tools remain.
ElectDecline(w) ==
    LET s == wrk[w].sess IN
    /\ wrk[w].pc = "elect"
    /\ ConversationLockFree
    /\ ~MayContinue(w)
    /\ generating' =
         IF wrk[w].reserved /\ ~interrupted[s] /\ OwnsReservation(w)
         THEN [generating EXCEPT ![s] = FALSE]
         ELSE generating
    /\ wrk' = [wrk EXCEPT ![w] = IdleWorker]
    /\ UNCHANGED <<status, interrupted, stepSeq, command, tool, gen, marks>>

\* Mutant: no finally block discards the claim.
WorkerRaisesKeepsClaim(w) ==
    /\ "io" \in Failures
    /\ wrk[w].pc \in {"claim", "exec", "release"}
    /\ wrk' = [wrk EXCEPT ![w].pc = "abort", ![w].tool = NoTool, ![w].next = NoTool]
    /\ UNCHANGED <<status, flags, command, tool, gen, marks>>

\* An exception outside the tool's own error handling: the claim, if held, is
\* dropped, ...
WorkerRaises(w) ==
    /\ "io" \in Failures
    /\ wrk[w].pc \in {"claim", "exec", "release"}
    /\ wrk[w].pc # "claim" => ConversationLockFree
    /\ tool' = IF wrk[w].pc = "claim" THEN tool
                                      ELSE DropTools({wrk[w].tool})
    /\ wrk' = [wrk EXCEPT ![w].pc = "abort", ![w].tool = NoTool, ![w].next = NoTool]
    /\ UNCHANGED <<status, flags, command, gen, marks>>

\* ... and the outermost handler releases a reservation still owned.
WorkerAborts(w) ==
    /\ wrk[w].pc = "abort"
    /\ StepLockFree(wrk[w].sess)
    /\ IF wrk[w].reserved THEN ReleaseIfOwned(wrk[w].sess, wrk[w].seq)
                          ELSE UNCHANGED generating
    /\ wrk' = [wrk EXCEPT ![w] = IdleWorker]
    /\ UNCHANGED <<status, interrupted, stepSeq, command, tool, gen, marks>>

-----------------------------------------------------------------------------
(* The specification.                                                      *)

\* Nothing is under way: the server waits for a request.
Idle ==
    /\ \A g \in Gen : gen[g].pc = "idle"
    /\ \A w \in Worker : wrk[w].pc = "idle"
    /\ ~CommandIsActive /\ ConversationLockFree
    /\ UNCHANGED vars

\* What clients, the health monitor and completing subagents do.
Request ==
    \/ \E s \in Session :
         CreateSession(s) \/ DeleteMark(s) \/ DeleteRemove(s) \/ CleanInactive(s)
    \/ \E s \in Session, g \in Gen :
         StepReserve(s, g) \/ DirectStart(s, g) \/ WatchWake(s, g)
    \/ StartCommand
    \/ \E t \in Tool, w \in Worker : Confirm(t, w)
    \/ \E t \in Tool, g \in Gen : Skip(t, g)
    \/ \E t \in Tool : SkipFails(t) \/ SkipWedges(t)
    \/ \E s \in Session, T \in SUBSET Tool : Rerun(s, T)
    \/ \E s \in Session, T \in SUBSET Tool, A \in SUBSET Tool, w \in Worker :
         RerunAuto(s, T, A, w)
    \/ \E s \in Session, T \in SUBSET Tool, A \in SUBSET Tool :
         RerunWedges(s, T, A)
    \/ Interrupt

\* A step of a /step handler after its reservation, or of a step thread.
GenStep(g) ==
    \/ StepDispatch(g) \/ StepRollback(g) \/ ReleaseFailed(g)
    \/ Begin(g) \/ BeginRevoked(g) \/ EarlyExit(g)
    \/ \E T \in SUBSET Tool : StreamDone(g, T)
    \/ StreamBreak(g)
    \/ \E t \in Tool, auto \in BOOLEAN : RegisterTool(g, t, auto)
    \/ \E w \in Worker : StartFirstTool(g, w)
    \/ StartNoTool(g) \/ Finally(g)

\* A step of a tool worker.
WorkerStep(w) ==
    \/ Claim(w) \/ ClaimFails(w) \/ Execute(w) \/ Release(w)
    \/ \E g \in Gen : ElectContinue(w, g)
    \/ ElectDecline(w) \/ WorkerAborts(w)

Failure ==
    \/ \E g \in Gen : SetupRaises(g)
    \/ \E w \in Worker : WorkerRaises(w)

Next ==
    \/ Request
    \/ FinishCommand
    \/ \E g \in Gen : GenStep(g)
    \/ \E w \in Worker : WorkerStep(w)
    \/ Failure
    \/ Idle

Spec == Init /\ [][Next]_vars

\* Threads are scheduled, a model's answer and a tool's run come to an end.
\* No request is owed to the server.
Fairness ==
    /\ \A g \in Gen : WF_vars(GenStep(g))
    /\ \A w \in Worker : WF_vars(WorkerStep(w))
    /\ WF_vars(FinishCommand)

FairSpec == Spec /\ Fairness

-----------------------------------------------------------------------------
(* Properties.                                                             *)

\* Generation g, or a worker started with the reservation, is at work under
\* the session's current epoch.
GenHolds(g, s) ==
    /\ gen[g].pc \notin {"idle", "undo"}
    /\ gen[g].sess = s /\ gen[g].seq = stepSeq[s]
WorkerHolds(w, s) ==
    /\ wrk[w].pc # "idle" /\ wrk[w].reserved
    /\ wrk[w].sess = s /\ wrk[w].seq = stepSeq[s]

Held(s) == (\E g \in Gen : GenHolds(g, s)) \/ (\E w \in Worker : WorkerHolds(w, s))

\* A reservation is never forgotten: while a session is marked generating, some
\* handler, step thread or reserved worker that will release it is at work under
\* its epoch, or its thread is known to have ended without a release, or its
\* handler is wedged.
ReservationAccounted ==
    \A s \in Session : generating[s] =>
        Held(s) \/ <<s, stepSeq[s]>> \in stranded \/ wedged = s

\* At most one live session of the conversation is generating: two clients
\* never stream into the same log.
OneGenerationPerConversation ==
    \A s, r \in Session :
        /\ status[s] = "live" /\ generating[s]
        /\ status[r] = "live" /\ generating[r]
        => s = r

\* On a live session the current epoch has at most one holder, and has one only
\* while the session is marked generating: no second thread, of an older or the
\* same epoch, can believe it owns the log.
SoleHolder ==
    \A s \in Session : status[s] = "live" =>
        /\ Held(s) => generating[s]
        /\ \A g, h \in Gen : GenHolds(g, s) /\ GenHolds(h, s) => g = h
        /\ \A w, v \in Worker : WorkerHolds(w, s) /\ WorkerHolds(v, s) => w = v
        /\ \A g \in Gen, w \in Worker : ~(GenHolds(g, s) /\ WorkerHolds(w, s))

\* A worker that has taken its tool.
HasClaim(w) == wrk[w].pc \in {"exec", "release"}

\* Every tool in _executing_tools is run by exactly one worker: no claim
\* outlives its worker (the continuation gate would stay shut for ever), and no
\* tool is run by two, however often it was confirmed.
ClaimsAccounted ==
    /\ \A w \in Worker : HasClaim(w) => tool[wrk[w].tool].st = "executing"
    /\ \A w, v \in Worker :
         HasClaim(w) /\ HasClaim(v) /\ wrk[w].tool = wrk[v].tool => w = v
    /\ \A t \in Tool : tool[t].st = "executing" =>
         \E w \in Worker : HasClaim(w) /\ wrk[w].tool = t

\* What makes the claims accounted for inductive: the tool uses a step thread has
\* still to register are its own, and nobody else's yet.
ClaimsInv ==
    /\ ClaimsAccounted
    /\ \A g \in Gen : \A t \in gen[g].todo : tool[t].st = "parsed"
    /\ \A g, h \in Gen : g # h => gen[g].todo \cap gen[h].todo = {}

\* A /step handler that may still roll its epoch back, and a worker started with
\* the reservation.
Reserving(g) == gen[g].pc \in {"setup", "stepFailed", "undo"}
Reserved(w) == wrk[w].pc # "idle" /\ wrk[w].reserved

\* Epochs run backwards only in a rollback.  No two handlers hold the same epoch
\* to give back, nor a handler that of a worker; so no rollback returns to an
\* epoch that an interrupt has revoked.
EpochInv ==
    /\ \A g \in Gen : Reserving(g) => gen[g].seq <= stepSeq[gen[g].sess]
    /\ \A g, h \in Gen :
         /\ Reserving(g) /\ Reserving(h)
         /\ gen[g].sess = gen[h].sess /\ gen[g].seq = gen[h].seq
         => g = h
    /\ \A w \in Worker : Reserved(w) =>
         /\ wrk[w].seq <= stepSeq[wrk[w].sess]
         /\ wrk[w].seq = stepSeq[wrk[w].sess] => ~interrupted[wrk[w].sess]
    /\ \A w \in Worker, g \in Gen :
         Reserved(w) /\ Reserving(g) /\ gen[g].sess = wrk[w].sess =>
           /\ gen[g].seq # wrk[w].seq
           /\ gen[g].seq = wrk[w].seq + 1 => ~gen[g].prev

\* The step that revokes session s: an interrupt.
InterruptOf(s) == interrupted'[s] /\ ~generating'[s] /\ stepSeq'[s] = stepSeq[s] + 1

\* A holder on a live session loses its reservation by its own doing or to an
\* interrupt, never to a thread of another epoch that cleans up late, nor to a
\* /step that rolls back (Race 5 of the source).
ReservationNotStolen ==
    [][\A s \in Session : status[s] = "live" /\ status'[s] = "live" =>
         /\ \A g \in Gen : GenHolds(g, s) /\ generating[s] =>
              \/ GenHolds(g, s)' /\ generating'[s]
              \/ gen'[g].pc \in {"idle", "undo"}
              \/ InterruptOf(s)
         /\ \A w \in Worker : WorkerHolds(w, s) /\ generating[s] =>
              \/ WorkerHolds(w, s)' /\ generating'[s]
              \/ wrk'[w].pc = "idle"
              \/ InterruptOf(s)]_vars

\* While a slash command owns the conversation, no live session starts to
\* generate, except through the skip of a pending tool, which does not ask.
CommandBlocksGeneration ==
    [][\A s \in Session :
         /\ CommandIsActive /\ status[s] = "live"
         /\ ~generating[s] /\ generating'[s]
         => \E t \in Pending(s) : tool'[t].st = "done"]_vars

\* The abstract owner of the conversation.
Nobody == NoSession
CurrentOwner ==
    IF \E s \in Session : status[s] = "live" /\ generating[s]
    THEN LET s == CHOOSE s \in Session : status[s] = "live" /\ generating[s]
         IN <<s, stepSeq[s]>>
    ELSE Nobody
Abstract == INSTANCE ConversationOwner WITH owner <- CurrentOwner

\* The reservation implements the ownership the server promises.
OwnerRefinement == Abstract!Spec

\* Under the fairness of the threads a reservation ends: it is released or
\* superseded, unless its thread ended without a release.
ReservationEnds ==
    \A s \in Session, e \in 0 .. MaxSeq + Cardinality(Tool) :
        (generating[s] /\ stepSeq[s] = e)
            ~> (~generating[s] \/ stepSeq[s] # e \/ <<s, e>> \in stranded)

-----------------------------------------------------------------------------
(* What comments and tests of the source say, and its steps contradict.    *)

\* A generation chain a user asks for clears the interrupt mark, so a marked
\* session always has a thread that will release it (comment on
\* ConversationSession.interrupted).
ReservationReleased ==
    \A s \in Session : status[s] = "live" /\ generating[s] => Held(s)

\* A fast tool, one that ends before the finally block of the step() that
\* started it, takes the reservation on to the continuation (comment in that
\* block).
FastToolContinues ==
    [][\A w \in Worker : LET s == wrk[w].sess IN
         /\ wrk[w].pc = "elect" /\ wrk'[w].pc = "idle"
         /\ status[s] = "live" /\ ~interrupted[s] /\ Quiescent(s)
         /\ wrk[w].seq = stepSeq[s]
         /\ \E g \in Gen : gen[g].pc = "finally" /\ GenHolds(g, s)
         => stepSeq'[s] = stepSeq[s] + 1]_vars
=============================================================================
