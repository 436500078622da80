------------------------------- MODULE ChatLoop -------------------------------
(***************************************************************************)
(* The chat loop of one conversation (src/gptme/chat.py) and the durable   *)
(* prompt queue that other processes write to (src/gptme/prompt_queue.py). *)
(*                                                                         *)
(* Commands, skills and `gptme-util chats send` queue prompts; the loop    *)
(* moves them from the file to its own list and from there to the          *)
(* conversation.  subagent_steer queues prompts of another kind, which the *)
(* STEP_PRE hook takes in the middle of a turn, and must know whether the  *)
(* loop will look again: that is what the sentinel file and the event are  *)
(* for.  A process may die at any moment, also while it rewrites the file. *)
(*                                                                         *)
(* Abstractions.  A record is its kind and its number in order of arrival; *)
(* the conversation is the records that reached it.  Every access to the   *)
(* file is under a lock and so one action; only a rewrite that the process *)
(* does not survive is not atomic.  What the model answers, and which      *)
(* tools run, is how many steps a turn has and how it ends.                *)
(***************************************************************************)
EXTENDS Naturals, Sequences, SequencesExt, FiniteSets

CONSTANTS
    Steer,       \* calls of subagent_steer
    MaxQueue,    \* MAX_PROMPT_QUEUE_SIZE
    MaxSteps,    \* GPTME_MAX_STEPS
    MaxPrompts,  \* prompts that are queued
    MaxRuns,     \* calls of chat() with this log directory
    MaxHooks,    \* messages that LOOP_CONTINUE hooks have
    MaxFaults    \* interrupts, failures and crashes that happen

ASSUME ChatAssumption ==
    /\ IsFiniteSet(Steer)
    /\ MaxQueue \in Nat \ {0}
    /\ MaxSteps \in Nat \ {0}
    /\ {MaxPrompts, MaxRuns, MaxHooks, MaxFaults} \subseteq Nat

VARIABLES
    file,       \* prompt-queue.jsonl
    prompts,    \* the loop's own queue
    hand,       \* records between the queue and the conversation
    log,        \* the records that reached the conversation, in order
    loop,       \* where the loop is, and its local variables
    sentinel,   \* the run that last touched prompt-queue-closed, 0: no file
    closed,     \* prompt_queue_closed of the current run
    steer,      \* every call of subagent_steer
    arrivals,   \* prompts queued so far
    run,        \* calls of chat() so far
    hooks,      \* messages of hooks still to come
    faults,     \* faults still to come
    lost,       \* history: records lost to an interrupt, a failure, a crash
    stranded,   \* history: steer records thrown away when the run ended
    waited,     \* history: steers that a STEP_PRE hook left in the file
    touchedAt,  \* history: arrivals when the sentinel was last touched
    settled     \* history: touchedAt of the last loop that ran out of prompts

historyVars == <<lost, stranded, waited, touchedAt, settled>>
vars == <<file, prompts, hand, log, loop, sentinel, closed, steer, arrivals,
          run, hooks, faults, historyVars>>

-----------------------------------------------------------------------------
\* torn: a line without an end; malformed: a line that is no record.
Record == [kind : {"queued", "steer", "own", "torn", "malformed"}, n : Nat]
Queued(n) == [kind |-> "queued", n |-> n]
SteerRecord(n) == [kind |-> "steer", n |-> n]
Own == [kind |-> "own", n |-> 0]
Torn == [kind |-> "torn", n |-> 0]
Malformed == [kind |-> "malformed", n |-> 0]

\* starting: registered, chat() has not removed the sentinel; exhausted: about
\* to touch it; final: before the last drain; reopen: that drain found prompts;
\* leaving: on the way to chat()'s finally; closing: chat() has returned.
Pc == {"off", "starting", "top", "popped", "input", "step", "steered",
       "working", "turnEnd", "waiting", "waited", "exhausted", "final",
       "reopen", "leaving", "closing", "stranding"}

Loop == [pc : Pc, interactive : BOOLEAN, chained : BOOLEAN,
         steps : 0..MaxSteps, interruptible : BOOLEAN]
NoLoop == [pc |-> "off", interactive |-> FALSE, chained |-> FALSE,
           steps |-> 0, interruptible |-> FALSE]

SteerCall == [pc : {"none", "checked", "written", "accepted", "refused",
                    "rejected", "dead"},
              run : 0..MaxRuns, n : 0..Cardinality(Steer)]

\* The type invariant, and the bound on the loop's queue: one prompt comes
\* with chat() itself, the others respect MAX_PROMPT_QUEUE_SIZE.
ChatTypeOK ==
    /\ {file, prompts, hand, log} \subseteq Seq(Record)
    /\ Len(prompts) <= MaxQueue
    /\ loop \in Loop
    /\ sentinel \in 0..MaxRuns
    /\ closed \in BOOLEAN
    /\ steer \in [Steer -> SteerCall]
    /\ arrivals \in 0..MaxPrompts
    /\ run \in 0..MaxRuns
    /\ hooks \in 0..MaxHooks
    /\ faults \in 0..MaxFaults
    /\ {lost, stranded} \subseteq SUBSET Record
    /\ waited \subseteq 1..Cardinality(Steer)
    /\ {touchedAt, settled} \subseteq 0..MaxPrompts

Init ==
    /\ file = <<>> /\ prompts = <<>> /\ hand = <<>> /\ log = <<>>
    /\ loop = NoLoop
    /\ sentinel = 0 /\ closed = TRUE
    /\ steer = [s \in Steer |-> [pc |-> "none", run |-> 0, n |-> 0]]
    /\ arrivals = 0 /\ run = 0
    /\ hooks = MaxHooks /\ faults = MaxFaults
    /\ lost = {} /\ stranded = {} /\ waited = {}
    /\ touchedAt = 0 /\ settled = 0

-----------------------------------------------------------------------------
\* The elements of q that are in S, in their order.
Select(q, S) ==
    LET chosen[i \in 0..Len(q)] ==
            IF i = 0 THEN <<>>
            ELSE IF q[i] \in S THEN Append(chosen[i - 1], q[i]) ELSE chosen[i - 1]
    IN  chosen[Len(q)]

Of(q, kind) == Select(q, {r \in ToSet(q) : r.kind = kind})
FirstOf(q, n) == SubSeq(q, 1, IF n < Len(q) THEN n ELSE Len(q))
Steers(q) == {r.n : r \in ToSet(Of(q, "steer"))}

\* What a drain leaves, every line with an end.
Rest(q, taken) ==
    LET left == Select(q, ToSet(q) \ ToSet(taken))
    IN  [i \in DOMAIN left |-> IF left[i] = Torn THEN Malformed ELSE left[i]]

\* queue_prompt: a record written behind a line without an end becomes part of
\* that line, and is lost with it.
Appended(q, r) ==
    IF q # <<>> /\ Last(q) = Torn THEN Append(Front(q), Malformed)
                                  ELSE Append(q, r)
Swallowed(q, r) == IF q # <<>> /\ Last(q) = Torn THEN {r} ELSE {}

Room == IF Len(prompts) < MaxQueue THEN MaxQueue - Len(prompts) ELSE 0

\* _drain_external_prompt_queue.
Taken == FirstOf(Of(file, "queued"), Room)
\* Mutant: what is in the file goes first.
DrainedFirst == Taken \o prompts

Drained == prompts \o Taken
\* Mutant: the file is removed, whatever was left in it.
KeptNothing == IF Room = 0 THEN file ELSE <<>>

Kept == IF Room = 0 THEN file ELSE Rest(file, Taken)

\* _background_wait_input takes records of both kinds.
WaitTaken ==
    LET regular == FirstOf(Of(file, "queued"), MaxQueue)
    IN  regular \o FirstOf(Of(file, "steer"), MaxQueue - Len(regular))

Closed(r) == \/ r < run
             \/ closed
             \/ sentinel >= r

Goto(pc) == loop' = [loop EXCEPT !.pc = pc]
Fault == faults > 0 /\ faults' = faults - 1
Recorded(q) == Select(q, ToSet(q) \ {Own})

-----------------------------------------------------------------------------
(* chat() *)

\* A subagent is registered, or a user calls gptme with prompts or without.
Spawn(interactive, given) ==
    /\ loop.pc = "off" /\ run < MaxRuns
    /\ given \in 0..1 /\ (interactive \/ given = 1)
    /\ loop' = [NoLoop EXCEPT !.pc = "starting", !.interactive = interactive,
                              !.interruptible = TRUE]
    /\ prompts' = [i \in 1..given |-> Own]
    /\ run' = run + 1
    /\ closed' = FALSE
    /\ UNCHANGED <<file, hand, log, sentinel, steer, arrivals, hooks, faults,
                   historyVars>>

\* The sentinel of an earlier run is removed.
Enter ==
    /\ loop.pc = "starting"
    /\ sentinel' = 0
    /\ Goto("top")
    /\ UNCHANGED <<file, prompts, hand, log, closed, steer, arrivals, run,
                   hooks, faults, historyVars>>

Top ==
    /\ loop.pc = "top"
    /\ file' = Kept
    /\ IF Drained # <<>>
       THEN /\ hand' = <<Head(Drained)>> /\ prompts' = Tail(Drained)
            /\ Goto("popped")
       ELSE /\ Goto(IF loop.interactive THEN "input" ELSE "exhausted")
            /\ UNCHANGED <<hand, prompts>>
    /\ UNCHANGED <<log, sentinel, closed, steer, arrivals, run, hooks, faults,
                   historyVars>>

\* The prompt reaches the conversation: a command is over with that.
AppendPrompt(command) ==
    /\ loop.pc = "popped"
    /\ log' = log \o Recorded(hand)
    /\ hand' = <<>>
    /\ loop' = IF command THEN [loop EXCEPT !.pc = "top"]
               ELSE [loop EXCEPT !.pc = "step", !.chained = TRUE, !.steps = 0,
                                 !.interruptible = TRUE]
    /\ UNCHANGED <<file, prompts, sentinel, closed, steer, arrivals, run,
                   hooks, faults, historyVars>>

\* The user types a prompt or a command, or leaves; or the log ends with a
\* message that wants an answer.
UserInput(what) ==
    /\ loop.pc = "input"
    /\ loop' = CASE what = "exit"    -> [loop EXCEPT !.pc = "leaving"]
                 [] what = "command" -> [loop EXCEPT !.pc = "top",
                                                     !.interruptible = FALSE]
                 [] what = "prompt"  -> [loop EXCEPT !.pc = "step",
                                                     !.chained = FALSE,
                                                     !.steps = 0,
                                                     !.interruptible = TRUE]
    /\ UNCHANGED <<file, prompts, hand, log, sentinel, closed, steer, arrivals,
                   run, hooks, faults, historyVars>>

-----------------------------------------------------------------------------
(* One turn *)

\* Mutant: only the first step of a turn looks for steers.
StepPreOfTurn ==
    /\ loop.pc = "step"
    /\ hand' = IF loop.steps = 0 THEN Of(file, "steer") ELSE <<>>
    /\ file' = IF file = <<>> THEN file ELSE Rest(file, hand')
    /\ waited' = waited \cup Steers(file')
    /\ Goto("steered")
    /\ UNCHANGED <<prompts, log, sentinel, closed, steer, arrivals, run, hooks,
                   faults, lost, stranded, touchedAt, settled>>

\* The STEP_PRE hook takes the steers from the file ...
StepPre ==
    /\ loop.pc = "step"
    /\ hand' = Of(file, "steer")
    /\ file' = IF file = <<>> THEN file ELSE Rest(file, hand')
    /\ waited' = waited \cup Steers(file')
    /\ Goto("steered")
    /\ UNCHANGED <<prompts, log, sentinel, closed, steer, arrivals, run, hooks,
                   faults, lost, stranded, touchedAt, settled>>

\* ... and they are appended to the conversation.
AppendSteers ==
    /\ loop.pc = "steered"
    /\ log' = log \o hand
    /\ hand' = <<>>
    /\ Goto("working")
    /\ UNCHANGED <<file, prompts, sentinel, closed, steer, arrivals, run,
                   hooks, faults, historyVars>>

\* Tools that can run mean another step.
StepEnds(runnable) ==
    /\ loop.pc = "working"
    /\ loop' = IF runnable /\ loop.steps + 1 < MaxSteps
               THEN [loop EXCEPT !.pc = "step", !.steps = @ + 1]
               ELSE [loop EXCEPT !.pc = "turnEnd", !.interruptible = FALSE]
    /\ UNCHANGED <<file, prompts, hand, log, sentinel, closed, steer, arrivals,
                   run, hooks, faults, historyVars>>

\* SessionCompleteException: a cancel found by STEP_PRE, or the complete tool.
\* Only a prompt from the queue makes the loop look for more of them.
Complete ==
    /\ loop.pc \in {"step", "working"}
    /\ loop' = [loop EXCEPT !.pc = IF loop.chained THEN "exhausted"
                                                   ELSE "leaving",
                            !.interruptible = FALSE]
    /\ UNCHANGED <<file, prompts, hand, log, sentinel, closed, steer, arrivals,
                   run, hooks, faults, historyVars>>

\* Ctrl-C in a step ends the turn.
StepInterrupted ==
    /\ loop.pc \in {"step", "steered", "working"}
    /\ Fault
    /\ lost' = lost \cup ToSet(hand)
    /\ hand' = <<>>
    /\ loop' = [loop EXCEPT !.pc = "turnEnd", !.interruptible = FALSE]
    /\ UNCHANGED <<file, prompts, log, sentinel, closed, steer, arrivals, run,
                   hooks, stranded, waited, touchedAt, settled>>

\* The step raises: an interactive session survives a provider's error, but
\* drops the prompts it has; every other error ends the loop.
StepFails(provider) ==
    /\ loop.pc = "working"
    /\ Fault
    /\ lost' = lost \cup ToSet(Recorded(prompts))
    /\ prompts' = <<>>
    /\ loop' = [loop EXCEPT !.pc = IF loop.interactive /\ provider
                                   THEN "top" ELSE "leaving",
                            !.interruptible = FALSE]
    /\ UNCHANGED <<file, hand, log, sentinel, closed, steer, arrivals, run,
                   hooks, stranded, waited, touchedAt, settled>>

-----------------------------------------------------------------------------
(* After a turn: the LOOP_CONTINUE hooks *)

\* Mutant: the limit is not looked at.
HookMessagesUnlimited(n) ==
    /\ loop.pc \in {"turnEnd", "waiting"}
    /\ n <= hooks
    /\ hooks' = hooks - n
    /\ prompts' = prompts \o [i \in 1..n |-> Own]
    /\ loop' = [loop EXCEPT !.pc = "top", !.interruptible = FALSE]
    /\ UNCHANGED <<file, hand, log, sentinel, closed, steer, arrivals, run,
                   faults, historyVars>>

\* The messages of hooks join the queue as far as there is room.
HookMessages(n) ==
    /\ loop.pc \in {"turnEnd", "waiting"}
    /\ n <= hooks
    /\ hooks' = hooks - n
    /\ prompts' = prompts \o [i \in 1..(IF n < Room THEN n ELSE Room) |-> Own]
    /\ loop' = [loop EXCEPT !.pc = "top", !.interruptible = FALSE]
    /\ UNCHANGED <<file, hand, log, sentinel, closed, steer, arrivals, run,
                   faults, historyVars>>

\* auto_reply or stuck_detect gives up on a run nobody watches.
HookCompletes ==
    /\ loop.pc \in {"turnEnd", "waiting"}
    /\ ~loop.interactive /\ prompts = <<>>
    /\ loop' = [loop EXCEPT !.pc = "leaving", !.interruptible = FALSE]
    /\ UNCHANGED <<file, prompts, hand, log, sentinel, closed, steer, arrivals,
                   run, hooks, faults, historyVars>>

\* background_job_wait_hook waits for shell jobs ...
Wait ==
    /\ loop.pc = "turnEnd"
    /\ ~loop.interactive /\ prompts = <<>>
    /\ loop' = [loop EXCEPT !.pc = "waiting", !.interruptible = TRUE]
    /\ UNCHANGED <<file, prompts, hand, log, sentinel, closed, steer, arrivals,
                   run, hooks, faults, historyVars>>

\* ... and for records of both kinds, which become prompts of the loop.
WaitTakes ==
    /\ loop.pc = "waiting"
    /\ hand' = WaitTaken
    /\ file' = Rest(file, WaitTaken)
    /\ Goto(IF hand' = <<>> THEN "waiting" ELSE "waited")
    /\ UNCHANGED <<prompts, log, sentinel, closed, steer, arrivals, run, hooks,
                   faults, historyVars>>

WaitYields ==
    /\ loop.pc = "waited"
    /\ prompts' = prompts \o hand
    /\ hand' = <<>>
    /\ loop' = [loop EXCEPT !.pc = "top", !.interruptible = FALSE]
    /\ UNCHANGED <<file, log, sentinel, closed, steer, arrivals, run, hooks,
                   faults, historyVars>>

\* Ctrl-C outside a step: the loop clears its queue and goes on.
LoopInterrupted ==
    /\ loop.pc \in {"popped", "waiting", "waited"} /\ loop.interruptible
    /\ Fault
    /\ lost' = lost \cup ToSet(Recorded(hand \o prompts))
    /\ hand' = <<>> /\ prompts' = <<>>
    /\ loop' = [loop EXCEPT !.pc = "top", !.interruptible = FALSE]
    /\ UNCHANGED <<file, log, sentinel, closed, steer, arrivals, run, hooks,
                   stranded, waited, touchedAt, settled>>

-----------------------------------------------------------------------------
(* The end of a run *)

\* No prompts are left, or the session is complete: the sentinel first ...
CloseQueue ==
    /\ loop.pc = "exhausted"
    /\ sentinel' = run
    /\ touchedAt' = arrivals
    /\ Goto("final")
    /\ UNCHANGED <<file, prompts, hand, log, closed, steer, arrivals, run,
                   hooks, faults, lost, stranded, waited, settled>>

\* Mutant: the queue is closed without another look at the file.
FinalDrainMissing ==
    /\ loop.pc = "final"
    /\ Goto(IF prompts = <<>> THEN "leaving" ELSE "reopen")
    /\ settled' = IF prompts = <<>> THEN touchedAt ELSE settled
    /\ UNCHANGED <<file, prompts, hand, log, sentinel, closed, steer, arrivals,
                   run, hooks, faults, lost, stranded, waited, touchedAt>>

\* ... then the last look at the file.
FinalDrain ==
    /\ loop.pc = "final"
    /\ file' = Kept
    /\ prompts' = Drained
    /\ Goto(IF prompts' = <<>> THEN "leaving" ELSE "reopen")
    /\ settled' = IF prompts' = <<>> THEN touchedAt ELSE settled
    /\ UNCHANGED <<hand, log, sentinel, closed, steer, arrivals, run, hooks,
                   faults, lost, stranded, waited, touchedAt>>

Reopen ==
    /\ loop.pc = "reopen"
    /\ sentinel' = 0
    /\ Goto("top")
    /\ UNCHANGED <<file, prompts, hand, log, closed, steer, arrivals, run,
                   hooks, faults, historyVars>>

\* chat()'s finally: the sentinel again, whatever the way out was.
Leave ==
    /\ loop.pc = "leaving"
    /\ sentinel' = run
    /\ Goto(IF loop.interactive THEN "off" ELSE "closing")
    /\ UNCHANGED <<file, prompts, hand, log, closed, steer, arrivals, run,
                   hooks, faults, historyVars>>

\* The subagent's thread, or the launcher of its process, sets the event ...
CloseEvent ==
    /\ loop.pc = "closing"
    /\ closed' = TRUE
    /\ Goto("stranding")
    /\ UNCHANGED <<file, prompts, hand, log, sentinel, steer, arrivals, run,
                   hooks, faults, historyVars>>

\* ... and throws the steers away that nobody took.
Strand ==
    /\ loop.pc = "stranding"
    /\ stranded' = stranded \cup ToSet(Of(file, "steer"))
    /\ file' = IF file = <<>> THEN file ELSE Rest(file, Of(file, "steer"))
    /\ loop' = NoLoop
    /\ UNCHANGED <<prompts, hand, log, sentinel, closed, steer, arrivals, run,
                   hooks, faults, lost, waited, touchedAt, settled>>

-----------------------------------------------------------------------------
(* Crashes *)

\* The process ends.  If it is a subagent's own, its launcher goes on; if it is
\* the one that steers, its calls end too.
Dies(launcherLives) ==
    /\ Fault
    /\ IF launcherLives
       THEN /\ loop' = [NoLoop EXCEPT !.pc = "closing"]
            /\ UNCHANGED steer
       ELSE /\ loop' = NoLoop
            /\ steer' = [s \in Steer |->
                           IF steer[s].pc \in {"checked", "written"}
                           THEN [steer[s] EXCEPT !.pc = "dead"]
                           ELSE steer[s]]
    /\ prompts' = <<>> /\ hand' = <<>>
    /\ UNCHANGED <<log, sentinel, closed, arrivals, run, hooks, stranded,
                   waited, touchedAt, settled>>

MayDie(launcherLives) ==
    IF launcherLives THEN loop.pc \notin {"off", "closing", "stranding"}
                          /\ ~loop.interactive
                     ELSE loop.pc # "off"

Crash(launcherLives) ==
    /\ MayDie(launcherLives)
    /\ Dies(launcherLives)
    /\ lost' = lost \cup ToSet(Recorded(hand \o prompts))
    /\ UNCHANGED file

\* While it rewrites the file: what it took is gone, and of the rest the file
\* has the first k lines, perhaps with a part of the next one.
CrashInRewrite(launcherLives, k, part) ==
    LET taken == CASE loop.pc \in {"top", "final"} -> Taken
                   [] loop.pc = "step" -> Of(file, "steer")
                   [] loop.pc = "waiting" -> WaitTaken
                   [] OTHER -> <<>>
        rest  == Rest(file, taken)
    IN  /\ loop.pc \in {"top", "final", "step", "waiting"}
        /\ loop.pc \in {"top", "final"} => Room > 0
        /\ MayDie(launcherLives)
        /\ k < Len(rest)
        /\ Dies(launcherLives)
        /\ file' = SubSeq(rest, 1, k) \o (IF part THEN <<Torn>> ELSE <<>>)
        /\ lost' = lost \cup ToSet(Recorded(hand \o prompts \o taken))
                        \cup (ToSet(SubSeq(rest, k + 1, Len(rest)))
                                \ {Malformed})

-----------------------------------------------------------------------------
(* The writers of the queue *)

QueuePrompt ==
    /\ arrivals < MaxPrompts
    /\ arrivals' = arrivals + 1
    /\ file' = Appended(file, Queued(arrivals'))
    /\ lost' = lost \cup Swallowed(file, Queued(arrivals'))
    /\ UNCHANGED <<prompts, hand, log, loop, sentinel, closed, steer, run,
                   hooks, faults, stranded, waited, touchedAt, settled>>

\* subagent_steer asks whether the queue is closed and the subagent runs; a
\* subagent that was cancelled may have its result while its loop goes on ...
SteerChecks(s, result) ==
    /\ steer[s].pc = "none"
    /\ run > 0 /\ ~loop.interactive
    /\ steer' = [steer EXCEPT ![s].run = run,
                              ![s].pc = IF Closed(run) \/ loop.pc = "off" \/ result
                                        THEN "refused" ELSE "checked"]
    /\ UNCHANGED <<file, prompts, hand, log, loop, sentinel, closed, arrivals,
                   run, hooks, faults, historyVars>>

\* ... queues the message ...
SteerWrites(s) ==
    LET n == 1 + Cardinality({t \in Steer : steer[t].n > 0})
    IN  /\ steer[s].pc = "checked"
        /\ steer' = [steer EXCEPT ![s].pc = "written", ![s].n = n]
        /\ file' = Appended(file, SteerRecord(n))
        /\ lost' = lost \cup Swallowed(file, SteerRecord(n))
        /\ UNCHANGED <<prompts, hand, log, loop, sentinel, closed, arrivals,
                       run, hooks, faults, stranded, waited, touchedAt,
                       settled>>

\* ... and asks again.
SteerRechecks(s, result) ==
    /\ steer[s].pc = "written"
    /\ steer' = [steer EXCEPT ![s].pc =
                   IF Closed(steer[s].run) \/ loop.pc = "off" \/ result
                   THEN "rejected" ELSE "accepted"]
    /\ UNCHANGED <<file, prompts, hand, log, loop, sentinel, closed, arrivals,
                   run, hooks, faults, historyVars>>

-----------------------------------------------------------------------------
Next ==
    \/ \E i \in BOOLEAN, given \in 0..1 : Spawn(i, given)
    \/ Enter
    \/ Top
    \/ \E command \in BOOLEAN : AppendPrompt(command)
    \/ \E what \in {"exit", "command", "prompt"} : UserInput(what)
    \/ StepPre
    \/ AppendSteers
    \/ \E runnable \in BOOLEAN : StepEnds(runnable)
    \/ Complete
    \/ StepInterrupted
    \/ \E provider \in BOOLEAN : StepFails(provider)
    \/ \E n \in 0..MaxHooks : HookMessages(n)
    \/ HookCompletes
    \/ Wait
    \/ WaitTakes
    \/ WaitYields
    \/ LoopInterrupted
    \/ CloseQueue
    \/ FinalDrain
    \/ Reopen
    \/ Leave
    \/ CloseEvent
    \/ Strand
    \/ \E l \in BOOLEAN : Crash(l)
    \/ \E l, part \in BOOLEAN, k \in 0..MaxPrompts : CrashInRewrite(l, k, part)
    \/ QueuePrompt
    \/ \E s \in Steer : SteerWrites(s)
    \/ \E s \in Steer, result \in BOOLEAN :
        SteerChecks(s, result) \/ SteerRechecks(s, result)

Spec == Init /\ [][Next]_vars

-----------------------------------------------------------------------------
(* Properties *)

Everywhere == log \o hand \o prompts \o file
Written == {Queued(n) : n \in 1..arrivals}
             \cup {SteerRecord(steer[s].n) : s \in {t \in Steer : steer[t].n > 0}}

\* Prompts reach the conversation in the order they were queued: whatever is
\* put back into the file because the loop's queue is full, and whatever is
\* dropped by an interrupt or a crash, none overtakes another.
PromptsInOrder ==
    LET q == Of(Everywhere, "queued")
    IN  \A i, j \in DOMAIN q : i < j => q[i].n < q[j].n

\* Every record is in one place, and once: in the file, in the loop's hands,
\* in the conversation, or among those that an interrupt, a failed step, a
\* crash or the end of the subagent took.
RecordInOnePlace ==
    \A r \in Written :
        Cardinality({i \in DOMAIN Everywhere : Everywhere[i] = r})
          + (IF r \in lost THEN 1 ELSE 0) + (IF r \in stranded THEN 1 ELSE 0)
        = 1

\* A loop that runs out of prompts, or is told that the session is complete,
\* leaves none behind that was queued before it closed the queue.
NothingLeftBehind ==
    \A r \in ToSet(Of(file, "queued")) : r.n > settled

\* A steer that is still in the file, or was thrown away with the run, came
\* after the last STEP_PRE: no checkpoint overlooks one.  That is all
\* subagent_steer can promise: it may accept a steer that is thrown away.
SteerMissedNoCheckpoint ==
    (Steers(file) \cup {r.n : r \in stranded}) \cap waited = {}

=============================================================================
