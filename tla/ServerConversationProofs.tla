---------------------- MODULE ServerConversationProofs ----------------------
(***************************************************************************)
(* The invariants of the transcript and of the event stream hold in a      *)
(* conversation of the server, for any steps, tools, clients and limits:   *)
(* every step of ServerConversation is one of the log's or leaves the log  *)
(* alone, and is one of the stream's or leaves the stream alone.           *)
(***************************************************************************)
EXTENDS ServerConversation, ConversationLogProofs, EventStreamProofs

LEMMA NextIsLogStep == Next => LogStep
<1> SUFFICES ASSUME Next PROVE LogStep
  OBVIOUS
<1> USE DEF LogStep
<1>1. ASSUME NEW s \in StepWriter, StepNext(s) PROVE LogStep
  BY <1>1
<1>2. ASSUME NEW t \in ToolWriter, ToolNext(t) PROVE LogStep
  BY <1>2
<1>3. ASSUME NEW w \in Writer, WriteNext(w) PROVE LogStep
  BY <1>3
<1>4. ASSUME NEW w \in Writer, AddsEvent(w) \/ EndsEvent(w) PROVE LogStep
  BY <1>4 DEF AddsEvent, EndsEvent
<1>5. ASSUME NEW left \in AfterCrash, NEW part \in BOOLEAN, ServerCrash(left, part)
      PROVE  LogStep
  BY <1>5 DEF ServerCrash
<1> QED
  BY <1>1, <1>2, <1>3, <1>4, <1>5 DEF Next

LEMMA NextIsStreamStep == Next => StreamStep
<1> SUFFICES ASSUME Next PROVE StreamStep
  OBVIOUS
<1>1. ASSUME NEW w \in Writer, AddsEvent(w) \/ EndsEvent(w) PROVE StreamStep
  BY <1>1, AdderAssumption DEF AddsEvent, EndsEvent, StreamStep
<1>2. ASSUME NEW w \in Writer, AdderNext(w) PROVE StreamStep
  BY <1>2, AdderAssumption DEF StreamStep
<1>3. ASSUME NEW c \in Client, ClientNext(c) PROVE StreamStep
  BY <1>3 DEF StreamStep
<1>4. ASSUME NEW left \in AfterCrash, NEW part \in BOOLEAN, ServerCrash(left, part)
      PROVE  StreamStep
  BY <1>4 DEF ServerCrash, Restarts, StreamStep
<1>5. UNCHANGED streamVars => StreamStep
  BY DEF StreamStep
<1> QED
  BY <1>1, <1>2, <1>3, <1>4, <1>5 DEF Next

LEMMA StepOrStutter == [Next]_vars => LogStep /\ StreamStep
<1>1. UNCHANGED vars => LogStep /\ StreamStep
  BY DEF vars, LogStep, StreamStep
<1> QED
  BY <1>1, NextIsLogStep, NextIsStreamStep

\* Logs hold messages of their writers, only tools have the lock (conversation_lock),
\* and no event reaches a client of the stream a third time, unless it took its index
\* while trim_events ran.
THEOREM ConversationTypeCorrect == Spec => []TypeOK
<1>1. Init => LogBasics /\ LogRest /\ SentInv
  BY LogInitBasics, LogRestInit, SentInitInv DEF Init
<1>2. LogBasics /\ LogRest /\ SentInv /\ [Next]_vars =>
        (LogBasics /\ LogRest /\ SentInv)'
  BY BasicsStep, LogRestStep, SentInvStep, StepOrStutter
<1>3. LogBasics /\ LogRest /\ SentInv => TypeOK
  BY LogTypesTypeOK, SentInvTypeOK DEF TypeOK
<1> QED
  BY <1>1, <1>2, <1>3, PTL DEF Spec

\* No message is in the transcript twice (Log._can_append, write_jsonl): what a
\* manager has yet to write is in no file and in no other manager.
THEOREM TranscriptHasNoDuplicate == Spec => []NoDuplicateLine
<1>1. Init => NoDupInv
  BY NoDupInit DEF Init
<1>2. NoDupInv /\ [Next]_vars => NoDupInv'
  BY NoDupStep, StepOrStutter
<1>3. NoDupInv => NoDuplicateLine
  BY NoDupInvNoDuplicateLine
<1> QED
  BY <1>1, <1>2, <1>3, PTL DEF Spec

\* What generation_complete acknowledged (write(sync=True) in step()) is in the
\* transcript whatever crash follows, unless a manager that did not know it replaced
\* the file.
THEOREM TranscriptKeepsAcked == Spec => []AckedSurvives
<1>1. Init => AckedInv
  BY AckedInit DEF Init
<1>2. AckedInv /\ [Next]_vars => AckedInv'
  BY AckedStep, StepOrStutter
<1>3. AckedInv => AckedSurvives
  BY AckedInvAckedSurvives
<1> QED
  BY <1>1, <1>2, <1>3, PTL DEF Spec

\* The writers that hold conversation_lock and load under it (execute_tool_thread)
\* lose a message of theirs only to a step that had loaded before.
THEOREM TranscriptKeepsLocked == Spec => []LockedWritersKeepEachOther
<1>1. Init => LockedInv
  BY LockedInit DEF Init
<1>2. LockedInv /\ [Next]_vars => LockedInv'
  BY LockedStep, StepOrStutter
<1>3. LockedInv => LockedWritersKeepEachOther
  BY DEF LockedInv
<1> QED
  BY <1>1, <1>2, <1>3, PTL DEF Spec

\* A client of the event stream (generate_events) is sent every event that was added
\* after it took its index, or has it behind its index, whatever trim_events does,
\* unless it took the index during a trim.
THEOREM StreamMissesNothing == Spec => []StreamHasNoGap
<1>1. Init => StreamInv
  BY StreamInitInv DEF Init
<1>2. StreamInv /\ [Next]_vars => StreamInv'
  BY StreamInvStep, StepOrStutter
<1>3. StreamInv => StreamHasNoGap
  BY StreamInvNoGap
<1> QED
  BY <1>1, <1>2, <1>3, PTL DEF Spec

=============================================================================
