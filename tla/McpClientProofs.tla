-------------------------- MODULE McpClientProofs --------------------------
(***************************************************************************)
(* Proofs about McpClient, for every set of callers and of closers:        *)
(*   - the breaker inside the client is a CircuitBreaker, so what holds of *)
(*     every breaker holds of it;                                          *)
(*   - the private loop belongs to the holder of _op_lock;                 *)
(*   - close() cancels no clean-up of its own.                             *)
(***************************************************************************)
EXTENDS McpClient, TLAPS

-----------------------------------------------------------------------------
(* Every circuit breaker, for every threshold and every cooldown.          *)

\* The counter and the clock of the breaker.  An open breaker knows since when: the
\* fallback of `_opened_at or 0.0` is never used.
Counts ==
    /\ failureCount \in Nat
    /\ openedAt \in 0..Cooldown \cup {NoTime}
    /\ state = "open" => openedAt \in Nat
    /\ BelowThreshold

\* Its state and the probes.
Control ==
    /\ state \in {"closed", "open", "half_open"}
    /\ probing \in BOOLEAN
    /\ lost \in BOOLEAN
    /\ call \in [Caller -> {"none", "closed", "half_open"}]
    /\ ProbeFlagHeld

\* The inductive invariant.
BreakerInv == Counts /\ Control

LEMMA BreakerInvImplies == BreakerInv => BreakerTypeOK /\ BelowThreshold /\ ProbeFlagHeld
  BY DEF BreakerInv, Counts, Control, BreakerTypeOK

LEMMA BreakerInitInv == BreakerInit => BreakerInv
<1> SUFFICES ASSUME BreakerInit
             PROVE  BreakerInv
  OBVIOUS
<1>1. Counts
  BY BreakerAssumption DEF BreakerInit, Counts, BelowThreshold
<1>2. Control
  BY DEF BreakerInit, Control, ProbeFlagHeld
<1> QED
  BY <1>1, <1>2 DEF BreakerInv

\* Every step of the breaker keeps the counter and the clock.
LEMMA CountsStep ==
    ASSUME Counts, [BreakerNext]_breakerVars
    PROVE  Counts'
<1> USE BreakerAssumption DEF Counts, BelowThreshold
<1>1. ASSUME NEW c \in Caller, AdmitClosed(c)
      PROVE  Counts'
  BY <1>1 DEF AdmitClosed, breaker
<1>2. ASSUME NEW c \in Caller, AdmitProbe(c)
      PROVE  Counts'
  BY <1>2 DEF AdmitProbe, CooledDown
<1>3. ASSUME NEW c \in Caller, Succeed(c)
      PROVE  Counts'
  BY <1>3 DEF Succeed, ToClosed
<1>4. ASSUME NEW c \in Caller, FailProbe(c)
      PROVE  Counts'
  BY <1>4 DEF FailProbe
<1>5. ASSUME NEW c \in Caller, FailClosed(c)
      PROVE  Counts'
  BY <1>5 DEF FailClosed
<1>6. ASSUME NEW c \in Caller, Ignore(c)
      PROVE  Counts'
  BY <1>6 DEF Ignore
<1>7. ASSUME NEW c \in Caller, Escape(c)
      PROVE  Counts'
  BY <1>7 DEF Escape
<1>8. CASE Reset
  BY <1>8 DEF Reset, ToClosed
<1>9. CASE Tick
  BY <1>9 DEF Tick
<1>10. CASE UNCHANGED breakerVars
  BY <1>10 DEF breakerVars, breaker
<1> HIDE BreakerAssumption DEF Counts, BelowThreshold
<1> QED
  BY <1>1, <1>2, <1>3, <1>4, <1>5, <1>6, <1>7, <1>8, <1>9, <1>10
  DEF BreakerNext, Admit, Fail

\* Every step of the breaker keeps the probes in order.
LEMMA ControlStep ==
    ASSUME Control, [BreakerNext]_breakerVars
    PROVE  Control'
<1> USE DEF Control, ProbeFlagHeld, Probe, Returned
<1>1. ASSUME NEW c \in Caller, AdmitClosed(c)
      PROVE  Control'
  BY <1>1 DEF AdmitClosed, breaker
<1>2. ASSUME NEW c \in Caller, AdmitProbe(c)
      PROVE  Control'
  BY <1>2 DEF AdmitProbe, CooledDown
<1>3. ASSUME NEW c \in Caller, Succeed(c)
      PROVE  Control'
  BY <1>3 DEF Succeed, ToClosed
<1>4. ASSUME NEW c \in Caller, FailProbe(c)
      PROVE  Control'
  BY <1>4 DEF FailProbe
<1>5. ASSUME NEW c \in Caller, FailClosed(c)
      PROVE  Control'
  BY <1>5 DEF FailClosed
<1>6. ASSUME NEW c \in Caller, Ignore(c)
      PROVE  Control'
  BY <1>6 DEF Ignore
<1>7. ASSUME NEW c \in Caller, Escape(c)
      PROVE  Control'
  BY <1>7 DEF Escape
<1>8. CASE Reset
  BY <1>8 DEF Reset, ToClosed
<1>9. CASE Tick
  BY <1>9 DEF Tick
<1>10. CASE UNCHANGED breakerVars
  BY <1>10 DEF breakerVars, breaker
<1> HIDE DEF Control, ProbeFlagHeld, Probe, Returned
<1> QED
  BY <1>1, <1>2, <1>3, <1>4, <1>5, <1>6, <1>7, <1>8, <1>9, <1>10
  DEF BreakerNext, Admit, Fail

\* No step but the end of a probe sets back the clock of an open breaker.
LEMMA ClockStep ==
    ASSUME BreakerInv, [BreakerNext]_breakerVars, state = "open", state' = "open",
           openedAt' # openedAt
    PROVE  \/ openedAt' = openedAt + 1
           \/ \E c \in Caller : Probe(c) /\ call'[c] = "none"
<1>1. ASSUME NEW c \in Caller, FailProbe(c)
      PROVE  Probe(c) /\ call'[c] = "none"
  BY <1>1 DEF FailProbe, Returned, BreakerInv, Control
<1>2. ASSUME NEW c \in Caller, FailClosed(c)
      PROVE  FALSE
  BY <1>2 DEF FailClosed
<1>3. ASSUME NEW c \in Caller, Admit(c) \/ Succeed(c) \/ Ignore(c) \/ Escape(c)
      PROVE  FALSE
  BY <1>3
  DEF Admit, AdmitClosed, AdmitProbe, Succeed, Ignore, Escape, ToClosed, breaker
<1>4. ~Reset
  BY DEF Reset, ToClosed
<1>5. CASE Tick
  BY <1>5 DEF Tick
<1>6. CASE UNCHANGED breakerVars
  BY <1>6 DEF breakerVars, breaker
<1> QED
  BY <1>1, <1>2, <1>3, <1>4, <1>5, <1>6 DEF BreakerNext, Fail

\* The invariant holds always.
LEMMA BreakerInvariant == BreakerSpec => []BreakerInv
<1>1. BreakerInv /\ [BreakerNext]_breakerVars => BreakerInv'
  BY CountsStep, ControlStep DEF BreakerInv
<1> QED
  BY BreakerInitInv, <1>1, PTL DEF BreakerSpec

\* A closed breaker has counted fewer failures than the threshold, whatever the
\* order in which overlapping calls end (_record_failure, _record_success).
THEOREM BelowThresholdTheorem == BreakerSpec => []BelowThreshold
  BY BreakerInvariant, BreakerInvImplies, PTL

\* Every recorded end of a probe clears _probing, so only a probe in flight or a
\* probe lost to a BaseException makes call() refuse.
THEOREM ProbeFlagTheorem == BreakerSpec => []ProbeFlagHeld
  BY BreakerInvariant, BreakerInvImplies, PTL

\* Failures of calls let through before the breaker opened never push its cooldown
\* back; the failure of a probe does (_record_failure).
THEOREM ClockTheorem == BreakerSpec => ClockRestartsByProbe
<1>1. BreakerInv /\ [BreakerNext]_breakerVars =>
        [state = "open" /\ state' = "open" =>
           \/ openedAt' >= openedAt
           \/ \E c \in Caller : Probe(c) /\ call'[c] = "none"]_breakerVars
  <2> SUFFICES ASSUME BreakerInv, [BreakerNext]_breakerVars,
                      state = "open", state' = "open"
               PROVE  \/ openedAt' >= openedAt
                      \/ \E c \in Caller : Probe(c) /\ call'[c] = "none"
    OBVIOUS
  <2>1. openedAt \in Nat
    BY DEF BreakerInv, Counts
  <2>2. CASE openedAt' = openedAt
    BY <2>1, <2>2
  <2>3. CASE openedAt' # openedAt
    BY <2>1, <2>3, ClockStep
  <2> QED
    BY <2>2, <2>3
<1> QED
  BY BreakerInvariant, <1>1, PTL DEF BreakerSpec, ClockRestartsByProbe

-----------------------------------------------------------------------------
(* The breaker of the client.                                              *)

\* A step of the client is a step of its breaker, or leaves it alone.
LEMMA ClientStepsBreaker ==
    ASSUME [Next]_vars
    PROVE  [BreakerNext]_breakerVars
<1>1. ASSUME NEW c \in Caller, CallTool(c)
      PROVE  BreakerNext
  BY <1>1 DEF CallTool, BreakerNext
<1>2. ASSUME NEW c \in Caller, Record(c)
      PROVE  BreakerNext
  BY <1>2 DEF Record, BreakerNext
<1>3. ASSUME NEW c \in Caller,
             CallDirectly(c) \/ RefusedByClose(c) \/ TakeLoop(c) \/ RunCall(c)
               \/ EndCall(c) \/ InterruptWait(c)
      PROVE  UNCHANGED breakerVars
  BY <1>3
  DEF CallDirectly, RefusedByClose, TakeLoop, RunCall, EndCall, InterruptWait
<1>4. ASSUME NEW k \in Closer,
             CloseMark(k) \/ CloseCheck(k) \/ CloseRequest(k) \/ CloseTimeout(k)
               \/ CloseLock(k) \/ CloseUnwind(k) \/ CloseFinish(k)
      PROVE  UNCHANGED breakerVars
  BY <1>4
  DEF CloseMark, CloseCheck, CloseRequest, CloseTimeout, CloseLock, CloseUnwind,
      CloseFinish
<1>5. CASE RunCancel
  BY <1>5 DEF RunCancel
<1>6. CASE Tick
  BY <1>6 DEF BreakerNext
<1>7. CASE UNCHANGED vars
  BY <1>7 DEF vars
<1> QED
  BY <1>1, <1>2, <1>3, <1>4, <1>5, <1>6, <1>7 DEF Next

\* The client drives its breaker as any group of threads may drive one: call_tool
\* adds a queue between the admission and the outcome, and no shortcut past either.
THEOREM ClientImplementsBreaker == Spec => BreakerSpec
<1>1. Init => BreakerInit
  BY DEF Init
<1>2. [Next]_vars => [BreakerNext]_breakerVars
  BY ClientStepsBreaker
<1> QED
  BY <1>1, <1>2, PTL DEF Spec, BreakerSpec

\* However calls queue for the loop, end, are interrupted or refused by close(), a
\* closed breaker has counted fewer failures than its threshold.
THEOREM ClientBelowThreshold == Spec => []BelowThreshold
  BY ClientImplementsBreaker, BelowThresholdTheorem, PTL

\* call_tool is refused for a probe's sake only while a probe is under way in the
\* client, or after Ctrl-C has taken one from the queue.
THEOREM ClientProbeFlag == Spec => []ProbeFlagHeld
  BY ClientImplementsBreaker, ProbeFlagTheorem, PTL

\* A call that was let through before the breaker opened, and queued, does not push
\* the cooldown back when it fails.
THEOREM ClientClock == Spec => ClockRestartsByProbe
  BY ClientImplementsBreaker, ClockTheorem, PTL
-----------------------------------------------------------------------------
(* The private loop.                                                       *)

Thread == Caller \cup Closer

\* The threads and the loop have their types.
Places ==
    /\ pc \in [Thread -> CallerPc \cup CloserPc]
    /\ \A c \in Caller : pc[c] \in CallerPc
    /\ \A k \in Closer : pc[k] \in CloserPc
    /\ opLock \in Thread \cup {NoThread}
    /\ loop \in {"idle", "running", "closed"}
    /\ cancelled \subseteq Thread

\* The lock is held from the moment a call or a close() has it until the loop has
\* stopped, and the loop runs only in between.
Locked ==
    /\ LoopOwned
    /\ \A k \in Closer : pc[k] = "unwind" => loop # "running" /\ opLock = k
    /\ loop = "running" => opLock \in Thread /\ pc[opLock] \in {"running", "cleanup"}

\* Every step of the client keeps these types.
LEMMA PlacesStep ==
    ASSUME Places, Locked, [Next]_vars
    PROVE  Places'
<1> USE ThreadAssumption DEF Places, Thread, CallerPc, CloserPc
<1>1. ASSUME NEW c \in Caller, CallTool(c)
      PROVE  Places'
  BY <1>1 DEF CallTool, Goto
<1>2. ASSUME NEW c \in Caller, CallDirectly(c)
      PROVE  Places'
  BY <1>2 DEF CallDirectly, Goto
<1>3. ASSUME NEW c \in Caller, RefusedByClose(c)
      PROVE  Places'
  BY <1>3 DEF RefusedByClose, Leave
<1>4. ASSUME NEW c \in Caller, TakeLoop(c)
      PROVE  Places'
  BY <1>4 DEF TakeLoop, Goto
<1>5. ASSUME NEW c \in Caller, RunCall(c)
      PROVE  Places'
  BY <1>5 DEF RunCall, Goto
<1>6. ASSUME NEW c \in Caller, EndCall(c)
      PROVE  Places'
  BY <1>6 DEF EndCall, Leave
<1>7. ASSUME NEW c \in Caller, InterruptWait(c)
      PROVE  Places'
  BY <1>7 DEF InterruptWait, Leave
<1>8. ASSUME NEW c \in Caller, Record(c)
      PROVE  Places'
  BY <1>8 DEF Record
<1>9. ASSUME NEW k \in Closer, CloseMark(k)
      PROVE  Places'
  BY <1>9 DEF CloseMark, Goto
<1>10. ASSUME NEW k \in Closer, CloseCheck(k)
      PROVE  Places'
  BY <1>10 DEF CloseCheck, Goto
<1>11. ASSUME NEW k \in Closer, CloseRequest(k)
      PROVE  Places'
  BY <1>11 DEF CloseRequest, Goto
<1>12. ASSUME NEW k \in Closer, CloseTimeout(k)
      PROVE  Places'
  BY <1>12 DEF CloseTimeout, Goto
<1>13. ASSUME NEW k \in Closer, CloseLock(k)
      PROVE  Places'
  BY <1>13 DEF CloseLock, Goto
<1>14. ASSUME NEW k \in Closer, CloseUnwind(k)
      PROVE  Places'
  BY <1>14 DEF CloseUnwind, Goto
<1>15. ASSUME NEW k \in Closer, CloseFinish(k)
      PROVE  Places'
  BY <1>15 DEF CloseFinish
<1>16. CASE RunCancel
  BY <1>16 DEF RunCancel, Locked
<1>17. CASE Tick /\ UNCHANGED clientVars
  BY <1>17 DEF clientVars
<1>18. CASE UNCHANGED vars
  BY <1>18 DEF vars, clientVars
<1> HIDE ThreadAssumption DEF Places, Thread, CallerPc, CloserPc
<1> QED
  BY <1>1, <1>2, <1>3, <1>4, <1>5, <1>6, <1>7, <1>8, <1>9, <1>10, <1>11, <1>12,
     <1>13, <1>14, <1>15, <1>16, <1>17, <1>18
  DEF Next

\* No step takes the loop from the holder of the lock.
LEMMA LockedStep ==
    ASSUME Places, Locked, [Next]_vars
    PROVE  Locked'
<1> USE ThreadAssumption DEF Places, Thread, CallerPc, CloserPc, Locked, LoopOwned
<1>1. ASSUME NEW c \in Caller, CallTool(c)
      PROVE  Locked'
  BY <1>1 DEF CallTool, Goto
<1>2. ASSUME NEW c \in Caller, CallDirectly(c)
      PROVE  Locked'
  BY <1>2 DEF CallDirectly, Goto
<1>3. ASSUME NEW c \in Caller, RefusedByClose(c)
      PROVE  Locked'
  BY <1>3 DEF RefusedByClose, Leave
<1>4. ASSUME NEW c \in Caller, TakeLoop(c)
      PROVE  Locked'
  BY <1>4 DEF TakeLoop, Goto
<1>5. ASSUME NEW c \in Caller, RunCall(c)
      PROVE  Locked'
  BY <1>5 DEF RunCall, Goto
<1>6. ASSUME NEW c \in Caller, EndCall(c)
      PROVE  Locked'
  BY <1>6 DEF EndCall, Leave
<1>7. ASSUME NEW c \in Caller, InterruptWait(c)
      PROVE  Locked'
  BY <1>7 DEF InterruptWait, Leave
<1>8. ASSUME NEW c \in Caller, Record(c)
      PROVE  Locked'
  BY <1>8 DEF Record
<1>9. ASSUME NEW k \in Closer, CloseMark(k)
      PROVE  Locked'
  BY <1>9 DEF CloseMark, Goto
<1>10. ASSUME NEW k \in Closer, CloseCheck(k)
      PROVE  Locked'
  BY <1>10 DEF CloseCheck, Goto
<1>11. ASSUME NEW k \in Closer, CloseRequest(k)
      PROVE  Locked'
  BY <1>11 DEF CloseRequest, Goto
<1>12. ASSUME NEW k \in Closer, CloseTimeout(k)
      PROVE  Locked'
  BY <1>12 DEF CloseTimeout, Goto
<1>13. ASSUME NEW k \in Closer, CloseLock(k)
      PROVE  Locked'
  BY <1>13 DEF CloseLock, Goto
<1>14. ASSUME NEW k \in Closer, CloseUnwind(k)
      PROVE  Locked'
  BY <1>14 DEF CloseUnwind, Goto
<1>15. ASSUME NEW k \in Closer, CloseFinish(k)
      PROVE  Locked'
  BY <1>15 DEF CloseFinish
<1>16. CASE RunCancel
  BY <1>16 DEF RunCancel
<1>17. CASE Tick /\ UNCHANGED clientVars
  BY <1>17 DEF clientVars
<1>18. CASE UNCHANGED vars
  BY <1>18 DEF vars, clientVars
<1> HIDE ThreadAssumption DEF Places, Thread, CallerPc, CloserPc, Locked, LoopOwned
<1> QED
  BY <1>1, <1>2, <1>3, <1>4, <1>5, <1>6, <1>7, <1>8, <1>9, <1>10, <1>11, <1>12,
     <1>13, <1>14, <1>15, <1>16, <1>17, <1>18
  DEF Next

-----------------------------------------------------------------------------
(* The clean-up.                                                           *)

\* Once a close() has the lock, only a later one sets the interrupt again, and only
\* this interrupt can strike its clean-up.
Interrupts ==
    /\ CleanupCancelledByAnother
    /\ \A k \in Closer : pc[k] \in {"unwind", "cleanup"} /\ interruptOps =>
         \E j \in Closer \ {k} : pc[j] # "idle"

\* No close() returns to where it has not begun.
CloserStays == \A j \in Closer : pc[j] # "idle" => pc'[j] # "idle"

LEMMA CloserStaysStep ==
    ASSUME Places, [Next]_vars
    PROVE  CloserStays
<1> USE ThreadAssumption DEF Places, Thread, CloserStays
<1>1. ASSUME NEW c \in Caller, CallTool(c)
      PROVE  CloserStays
  BY <1>1 DEF CallTool, Goto
<1>2. ASSUME NEW c \in Caller, CallDirectly(c)
      PROVE  CloserStays
  BY <1>2 DEF CallDirectly, Goto
<1>3. ASSUME NEW c \in Caller, RefusedByClose(c)
      PROVE  CloserStays
  BY <1>3 DEF RefusedByClose, Leave
<1>4. ASSUME NEW c \in Caller, TakeLoop(c)
      PROVE  CloserStays
  BY <1>4 DEF TakeLoop, Goto
<1>5. ASSUME NEW c \in Caller, RunCall(c)
      PROVE  CloserStays
  BY <1>5 DEF RunCall, Goto
<1>6. ASSUME NEW c \in Caller, EndCall(c)
      PROVE  CloserStays
  BY <1>6 DEF EndCall, Leave
<1>7. ASSUME NEW c \in Caller, InterruptWait(c)
      PROVE  CloserStays
  BY <1>7 DEF InterruptWait, Leave
<1>8. ASSUME NEW c \in Caller, Record(c)
      PROVE  CloserStays
  BY <1>8 DEF Record
<1>9. ASSUME NEW k \in Closer, CloseMark(k)
      PROVE  CloserStays
  BY <1>9 DEF CloseMark, Goto
<1>10. ASSUME NEW k \in Closer, CloseCheck(k)
      PROVE  CloserStays
  BY <1>10 DEF CloseCheck, Goto
<1>11. ASSUME NEW k \in Closer, CloseRequest(k)
      PROVE  CloserStays
  BY <1>11 DEF CloseRequest, Goto
<1>12. ASSUME NEW k \in Closer, CloseTimeout(k)
      PROVE  CloserStays
  BY <1>12 DEF CloseTimeout, Goto
<1>13. ASSUME NEW k \in Closer, CloseLock(k)
      PROVE  CloserStays
  BY <1>13 DEF CloseLock, Goto
<1>14. ASSUME NEW k \in Closer, CloseUnwind(k)
      PROVE  CloserStays
  BY <1>14 DEF CloseUnwind, Goto
<1>15. ASSUME NEW k \in Closer, CloseFinish(k)
      PROVE  CloserStays
  BY <1>15 DEF CloseFinish
<1>16. CASE RunCancel
  BY <1>16 DEF RunCancel
<1>17. CASE Tick /\ UNCHANGED clientVars
  BY <1>17 DEF clientVars
<1>18. CASE UNCHANGED vars
  BY <1>18 DEF vars, clientVars
<1> HIDE ThreadAssumption DEF Places, Thread, CloserStays
<1> QED
  BY <1>1, <1>2, <1>3, <1>4, <1>5, <1>6, <1>7, <1>8, <1>9, <1>10, <1>11, <1>12,
     <1>13, <1>14, <1>15, <1>16, <1>17, <1>18
  DEF Next

\* No step lets a close() strike its own clean-up.
LEMMA InterruptsStep ==
    ASSUME Places, Locked, Interrupts, [Next]_vars
    PROVE  Interrupts'
<1>0. CloserStays
  BY CloserStaysStep
<1>1. ASSUME NEW k \in Closer, CloseMark(k)
      PROVE  Interrupts'
  <2>1. pc'[k] # "idle" /\ \A j \in Closer : j # k => pc'[j] = pc[j]
    BY <1>1 DEF CloseMark, Goto, Places, Thread
  <2>2. pc'[k] = "check" /\ cancelled' = cancelled
    BY <1>1 DEF CloseMark, Goto, Places, Thread
  <2> QED
    BY <1>0, <2>1, <2>2
    DEF Interrupts, CleanupCancelledByAnother, CloserStays
<1>2. ASSUME NEW k \in Closer, CloseLock(k)
      PROVE  Interrupts'
  <2>1. ~interruptOps' /\ cancelled' = cancelled
    BY <1>2 DEF CloseLock
  <2> QED
    BY <1>0, <2>1 DEF Interrupts, CleanupCancelledByAnother, CloserStays
<1>3. ASSUME NEW k \in Closer, CloseUnwind(k)
      PROVE  Interrupts'
  <2>1. pc[k] = "unwind" /\ \A j \in Closer : j # k => pc'[j] = pc[j]
    BY <1>3 DEF CloseUnwind, Goto, Places, Thread
  <2>2. cancelled' = cancelled /\ interruptOps' = interruptOps
    BY <1>3 DEF CloseUnwind
  <2> QED
    BY <1>0, <2>1, <2>2
    DEF Interrupts, CleanupCancelledByAnother, CloserStays
<1>4. CASE RunCancel
  <2>1. CASE ~interruptOps
    BY <1>0, <1>4, <2>1
    DEF RunCancel, Interrupts, CleanupCancelledByAnother, CloserStays
  <2>2. CASE interruptOps
    <3>1. cancelled' = cancelled \cup {opLock} /\ pc' = pc /\ interruptOps' = interruptOps
      BY <1>4, <2>2 DEF RunCancel
    <3>2. opLock \in Closer => pc[opLock] = "cleanup"
      BY <1>4 DEF RunCancel, Locked, Places, CloserPc
    <3> QED
      BY <2>2, <3>1, <3>2 DEF Interrupts, CleanupCancelledByAnother
  <2> QED
    BY <2>1, <2>2
<1>5. ASSUME cancelled' \subseteq cancelled, interruptOps' = interruptOps,
             \A k \in Closer : pc'[k] \in {"unwind", "cleanup"} =>
               pc[k] \in {"unwind", "cleanup"}
      PROVE  Interrupts'
  BY <1>0, <1>5 DEF Interrupts, CleanupCancelledByAnother, CloserStays
<1>6. ASSUME NEW c \in Caller,
             CallTool(c) \/ CallDirectly(c) \/ TakeLoop(c) \/ RunCall(c)
      PROVE  Interrupts'
  BY <1>5, <1>6, ThreadAssumption
  DEF CallTool, CallDirectly, TakeLoop, RunCall, Goto, Places, Thread
<1>7. ASSUME NEW c \in Caller,
             RefusedByClose(c) \/ EndCall(c) \/ InterruptWait(c) \/ Record(c)
      PROVE  Interrupts'
  BY <1>5, <1>7, ThreadAssumption
  DEF RefusedByClose, EndCall, InterruptWait, Record, Leave, Places, Thread
<1>8. ASSUME NEW k \in Closer,
             CloseCheck(k) \/ CloseRequest(k) \/ CloseTimeout(k) \/ CloseFinish(k)
      PROVE  Interrupts'
  BY <1>5, <1>8
  DEF CloseCheck, CloseRequest, CloseTimeout, CloseFinish, Goto, Places, Thread
<1>9. CASE (Tick /\ UNCHANGED clientVars) \/ UNCHANGED vars
  BY <1>5, <1>9 DEF vars, clientVars
<1> QED
  BY <1>1, <1>2, <1>3, <1>4, <1>6, <1>7, <1>8, <1>9 DEF Next

-----------------------------------------------------------------------------
\* The inductive invariant of the client.
ClientInv == Places /\ Locked /\ Interrupts

LEMMA ClientInvariant == Spec => []ClientInv
<1>1. Init => ClientInv
  BY ThreadAssumption
  DEF Init, ClientInv, Places, Locked, LoopOwned, Interrupts,
      CleanupCancelledByAnother, Thread, CallerPc, CloserPc
<1>2. ClientInv /\ [Next]_vars => ClientInv'
  BY PlacesStep, LockedStep, InterruptsStep DEF ClientInv
<1> QED
  BY <1>1, <1>2, PTL DEF Spec

\* The flags are Boolean.
Flags == {connected, closing, interruptOps, cancelQueued} \subseteq BOOLEAN

LEMMA FlagsStep ==
    ASSUME Flags, [Next]_vars
    PROVE  Flags'
<1>1. CASE UNCHANGED <<connected, closing, interruptOps, cancelQueued>>
  BY <1>1 DEF Flags
<1>2. ASSUME NEW c \in Caller,
             CallTool(c) \/ CallDirectly(c) \/ RefusedByClose(c) \/ TakeLoop(c)
               \/ RunCall(c) \/ EndCall(c) \/ InterruptWait(c) \/ Record(c)
      PROVE  Flags'
  BY <1>1, <1>2
  DEF CallTool, CallDirectly, RefusedByClose, TakeLoop, RunCall, EndCall, InterruptWait,
      Record
<1>3. ASSUME NEW k \in Closer, CloseCheck(k) \/ CloseTimeout(k) \/ CloseUnwind(k)
      PROVE  Flags'
  BY <1>1, <1>3 DEF CloseCheck, CloseTimeout, CloseUnwind
<1>4. ASSUME NEW k \in Closer,
             CloseMark(k) \/ CloseRequest(k) \/ CloseLock(k) \/ CloseFinish(k)
      PROVE  Flags'
  BY <1>4 DEF CloseMark, CloseRequest, CloseLock, CloseFinish, Flags
<1>5. CASE RunCancel
  BY <1>5 DEF RunCancel, Flags
<1>6. CASE (Tick /\ UNCHANGED clientVars) \/ UNCHANGED vars
  BY <1>1, <1>6 DEF vars, clientVars
<1> QED
  BY <1>2, <1>3, <1>4, <1>5, <1>6 DEF Next

\* Every variable of the client and its breaker has its type.
THEOREM TypeTheorem == Spec => []TypeOK
<1>1. Init => Flags
  BY DEF Init, Flags
<1>2. Flags /\ [Next]_vars => Flags'
  BY FlagsStep
<1>3. ClientInv /\ Flags /\ BreakerTypeOK => TypeOK
  BY DEF ClientInv, Places, Thread, Flags, TypeOK
<1>4. Spec => []BreakerTypeOK
  BY ClientImplementsBreaker, BreakerInvariant, BreakerInvImplies, PTL
<1> QED
  BY ClientInvariant, <1>1, <1>2, <1>3, <1>4, PTL DEF Spec

\* _op_lock serialises _run_async with close(): the loop is run by the lock's holder
\* only, and close() does not close it under a call.
THEOREM LoopTheorem == Spec => []LoopOwned
<1>1. ClientInv => LoopOwned
  BY DEF ClientInv, Locked
<1> QED
  BY ClientInvariant, <1>1, PTL

\* The callback that close() queues cannot cancel its own clean-up, since the flag is
\* taken back before; a second close() can.
THEOREM CleanupTheorem == Spec => []CleanupCancelledByAnother
<1>1. ClientInv => CleanupCancelledByAnother
  BY DEF ClientInv, Interrupts
<1> QED
  BY ClientInvariant, <1>1, PTL
=============================================================================
