----------------------- MODULE ConversationLogProofs -----------------------
(***************************************************************************)
(* Proofs that the transcript of ConversationLog has no line twice, keeps  *)
(* what was acknowledged, and keeps what the writers with the lock wrote,  *)
(* for any number of steps, tools, messages, patches and crashes.  The     *)
(* specification it is part of is ServerConversation.                      *)
(***************************************************************************)
EXTENDS ConversationLog, SequenceTheorems, FiniteSetTheorems, TLAPS

LogStep ==
    \/ \E s \in StepWriter : StepNext(s)
    \/ \E t \in ToolWriter : ToolNext(t)
    \/ \E w \in Writer : WriteNext(w) \/ Announces(w) \/ Announced(w)
    \/ \E left \in AfterCrash, part \in BOOLEAN : Crash(left, part)
    \/ UNCHANGED logVars

-----------------------------------------------------------------------------
(* Types.                                                                  *)

ManagerRecord == [pc : WriterPc, then : WriterPc, log : Seq(Message),
                  persisted : Seq(Message), size : Nat]

LogTypes ==
    /\ file \in Seq(Message)
    /\ torn \in BOOLEAN
    /\ durable \in 0..Len(file)
    /\ shadows \subseteq Seq(Message)
    /\ manager \in [Writer -> ManagerRecord]
    /\ messages \in 0..MaxMessages

\* Every action leaves all managers but one alone, and gives that one a place,
\* a log and a persisted log.
Becomes(w, pc, then, log, persisted) ==
    /\ \A v \in Writer \ {w} : manager'[v] = manager[v]
    /\ manager' \in [Writer -> ManagerRecord]
    /\ manager'[w].pc = pc
    /\ manager'[w].then = then
    /\ manager'[w].log = log
    /\ manager'[w].persisted = persisted

LEMMA PcField ==
    ASSUME NEW r \in ManagerRecord, NEW pc \in WriterPc
    PROVE  [r EXCEPT !.pc = pc] \in ManagerRecord
  BY DEF ManagerRecord

LEMMA ThenField ==
    ASSUME NEW r \in ManagerRecord, NEW then \in WriterPc
    PROVE  [r EXCEPT !.then = then] \in ManagerRecord
  BY DEF ManagerRecord

LEMMA LogField ==
    ASSUME NEW r \in ManagerRecord, NEW log \in Seq(Message)
    PROVE  [r EXCEPT !.log = log] \in ManagerRecord
  BY DEF ManagerRecord

LEMMA PersistedField ==
    ASSUME NEW r \in ManagerRecord, NEW log \in Seq(Message)
    PROVE  [r EXCEPT !.persisted = log] \in ManagerRecord
  BY DEF ManagerRecord

LEMMA SizeField ==
    ASSUME NEW r \in ManagerRecord, NEW size \in Nat
    PROVE  [r EXCEPT !.size = size] \in ManagerRecord
  BY DEF ManagerRecord

LEMMA NoManagerType == NoManager \in ManagerRecord
<1>1. <<>> \in Seq(Message) /\ "idle" \in WriterPc
  BY DEF WriterPc
<1> QED
  BY <1>1 DEF NoManager, ManagerRecord

\* The size of a file is a number, whatever its lines are.
LEMMA SizeType ==
    ASSUME NEW log \in Seq(Message), NEW t \in BOOLEAN
    PROVE  Size(log, t) \in Nat
<1> DEFINE T == {i \in DOMAIN log : log[i].timed}
<1>1. T \subseteq 1 .. Len(log) /\ Len(log) \in Nat
  OBVIOUS
<1>2. IsFiniteSet(1 .. Len(log))
  BY <1>1, FS_Interval
<1>3. IsFiniteSet(T)
  BY <1>1, <1>2, FS_Subset
<1>4. Cardinality(T) \in Nat
  BY <1>3, FS_CardinalityType
<1> HIDE DEF T
<1>5. 2 * Len(log) + Cardinality(T) + (IF t THEN 1 ELSE 0) \in Nat
  BY <1>1, <1>4
<1> QED
  BY <1>5 DEF Size, T

LEMMA LoadedType ==
    ASSUME LogTypes, NEW pc \in WriterPc
    PROVE  Loaded(pc) \in ManagerRecord
<1>1. Size(file, torn) \in Nat
  BY SizeType DEF LogTypes
<1> HIDE DEF Size
<1> QED
  BY <1>1 DEF Loaded, ManagerRecord, LogTypes

LEMMA GotoEffect ==
    ASSUME LogTypes, NEW w \in Writer, NEW pc \in WriterPc, Goto(w, pc)
    PROVE  Becomes(w, pc, manager[w].then, manager[w].log, manager[w].persisted)
<1> DEFINE r == [manager[w] EXCEPT !.pc = pc]
<1>1. r \in ManagerRecord
  BY PcField DEF LogTypes
<1>2. manager' = [manager EXCEPT ![w] = r]
  BY DEF Goto, LogTypes
<1>3. /\ r.pc = pc /\ r.then = manager[w].then /\ r.log = manager[w].log
      /\ r.persisted = manager[w].persisted
  BY DEF LogTypes, ManagerRecord
<1> HIDE DEF r
<1> QED
  BY <1>1, <1>2, <1>3 DEF Becomes, LogTypes

LEMMA LeaveEffect ==
    ASSUME LogTypes, NEW w \in Writer, NEW pc \in WriterPc, Leave(w, pc)
    PROVE  Becomes(w, pc, "idle", <<>>, <<>>)
<1> DEFINE r == [NoManager EXCEPT !.pc = pc]
<1>1. r \in ManagerRecord
  BY NoManagerType, PcField
<1>2. manager' = [manager EXCEPT ![w] = r]
  BY DEF Leave
<1>3. r.pc = pc /\ r.then = "idle" /\ r.log = <<>> /\ r.persisted = <<>>
  BY DEF NoManager
<1> HIDE DEF r
<1> QED
  BY <1>1, <1>2, <1>3 DEF Becomes, LogTypes

LEMMA StepLoadsEffect ==
    ASSUME LogTypes, NEW s \in StepWriter, StepLoads(s)
    PROVE  Becomes(s, "ready", "ready", file, file)
<1>1. s \in Writer /\ "ready" \in WriterPc
  BY DEF Writer, WriterPc
<1>2. Loaded("ready") \in ManagerRecord
  BY <1>1, LoadedType
<1>3. manager' = [manager EXCEPT ![s] = Loaded("ready")]
  BY DEF StepLoads
<1>4. /\ Loaded("ready").pc = "ready" /\ Loaded("ready").then = "ready"
      /\ Loaded("ready").log = file /\ Loaded("ready").persisted = file
  BY DEF Loaded
<1> QED
  BY <1>1, <1>2, <1>3, <1>4 DEF Becomes, LogTypes

LEMMA NewMessageType ==
    ASSUME LogTypes, NEW w \in Writer, messages < MaxMessages
    PROVE  NewMessage(w) \in Message
  BY LogAssumption DEF NewMessage, Message, LogTypes

LEMMA StepAppendsEffect ==
    ASSUME LogTypes, NEW s \in StepWriter, StepAppends(s)
    PROVE  Becomes(s, "check", "announce", Append(manager[s].log, NewMessage(s)),
                   manager[s].persisted)
<1> DEFINE log == Append(manager[s].log, NewMessage(s))
           r == [manager[s] EXCEPT !.log = log, !.pc = "check", !.then = "announce"]
<1>1. s \in Writer /\ {"check", "announce"} \subseteq WriterPc
  BY DEF Writer, WriterPc
<1>2. NewMessage(s) \in Message
  BY <1>1, NewMessageType DEF StepAppends
<1>3. manager[s].log \in Seq(Message) /\ manager[s] \in ManagerRecord
  BY <1>1 DEF LogTypes, ManagerRecord
<1>4. log \in Seq(Message)
  BY <1>2, <1>3, AppendProperties
<1>5. manager' = [manager EXCEPT ![s] = r]
  BY DEF StepAppends
<1> HIDE DEF log
<1>6. r \in ManagerRecord
  <2>1. [manager[s] EXCEPT !.log = log] \in ManagerRecord
    BY <1>3, <1>4, LogField
  <2>2. [manager[s] EXCEPT !.log = log, !.pc = "check"] \in ManagerRecord
    BY <1>1, <2>1, PcField
  <2> QED
    BY <1>1, <2>2, ThenField
<1>7. /\ r.pc = "check" /\ r.then = "announce" /\ r.log = log
      /\ r.persisted = manager[s].persisted
  BY <1>3 DEF ManagerRecord
<1> HIDE DEF r
<1> QED
  BY <1>1, <1>5, <1>6, <1>7 DEF Becomes, LogTypes, log

LEMMA StepSyncsEffect ==
    ASSUME LogTypes, NEW s \in StepWriter, StepSyncs(s)
    PROVE  Becomes(s, "check", "fsync", manager[s].log, manager[s].persisted)
<1> DEFINE r == [manager[s] EXCEPT !.pc = "check", !.then = "fsync"]
<1>1. s \in Writer /\ {"check", "fsync"} \subseteq WriterPc
  BY DEF Writer, WriterPc
<1>2. manager[s] \in ManagerRecord
  BY <1>1 DEF LogTypes
<1>3. manager' = [manager EXCEPT ![s] = r]
  BY DEF StepSyncs
<1>4. r \in ManagerRecord
  <2>1. [manager[s] EXCEPT !.pc = "check"] \in ManagerRecord
    BY <1>1, <1>2, PcField
  <2> QED
    BY <1>1, <2>1, ThenField
<1>5. /\ r.pc = "check" /\ r.then = "fsync" /\ r.log = manager[s].log
      /\ r.persisted = manager[s].persisted
  BY <1>2 DEF ManagerRecord
<1> HIDE DEF r
<1> QED
  BY <1>1, <1>3, <1>4, <1>5 DEF Becomes, LogTypes

LEMMA ToolAppendsEffect ==
    ASSUME LogTypes, NEW t \in ToolWriter, ToolAppends(t)
    PROVE  Becomes(t, "check", "announce", Append(file, NewMessage(t)), file)
<1> DEFINE log == Append(file, NewMessage(t))
           r == [Loaded("check") EXCEPT !.log = Append(@, NewMessage(t)),
                                        !.then = "announce"]
<1>1. t \in Writer /\ {"check", "announce"} \subseteq WriterPc
  BY DEF Writer, WriterPc
<1>2. log \in Seq(Message)
  BY <1>1, NewMessageType, AppendProperties DEF ToolAppends, LogTypes
<1>3. Loaded("check") \in ManagerRecord
  BY <1>1, LoadedType
<1>4. /\ Loaded("check").pc = "check" /\ Loaded("check").log = file
      /\ Loaded("check").persisted = file
  BY DEF Loaded
<1>5. r = [Loaded("check") EXCEPT !.log = log, !.then = "announce"]
  BY <1>4
<1>6. manager' = [manager EXCEPT ![t] = r]
  BY DEF ToolAppends
<1> HIDE DEF log, r
<1>7. r \in ManagerRecord
  <2>1. [Loaded("check") EXCEPT !.log = log] \in ManagerRecord
    BY <1>2, <1>3, LogField
  <2> QED
    BY <1>1, <1>5, <2>1, ThenField
<1>8. r.pc = "check" /\ r.then = "announce" /\ r.log = log /\ r.persisted = file
  BY <1>3, <1>4, <1>5 DEF ManagerRecord
<1> QED
  BY <1>1, <1>6, <1>7, <1>8 DEF Becomes, LogTypes, log

\* The log with timings at i.
Timed(log, i) == [log EXCEPT ![i] = [log[i] EXCEPT !.timed = TRUE]]

LEMMA TimedType ==
    ASSUME NEW log \in Seq(Message), NEW i \in 1 .. Len(log)
    PROVE  /\ Timed(log, i) \in Seq(Message)
           /\ Len(Timed(log, i)) = Len(log)
           /\ \A j \in 1 .. Len(log) : /\ Timed(log, i)[j].id = log[j].id
                                       /\ Timed(log, i)[j].by = log[j].by
<1> DEFINE e == [log[i] EXCEPT !.timed = TRUE]
<1>1. log[i] \in Message
  OBVIOUS
<1>2. e \in Message /\ e.id = log[i].id /\ e.by = log[i].by
  BY <1>1 DEF Message
<1> HIDE DEF e
<1>3. /\ [log EXCEPT ![i] = e] \in Seq(Message)
      /\ Len([log EXCEPT ![i] = e]) = Len(log)
      /\ \A j \in 1 .. Len(log) : [log EXCEPT ![i] = e][j] = IF j = i THEN e ELSE log[j]
  BY <1>2, ExceptSeq
<1> QED
  BY <1>2, <1>3 DEF Timed, e

LEMMA ToolPatchesEffect ==
    ASSUME LogTypes, NEW t \in ToolWriter, NEW i, ToolPatches(t, i)
    PROVE  /\ i \in 1 .. Len(file)
           /\ Becomes(t, "check", "unlock", Timed(file, i), file)
<1> DEFINE r == [Loaded("check") EXCEPT !.log[i].timed = TRUE, !.then = "unlock"]
<1>1. t \in Writer /\ {"check", "unlock"} \subseteq WriterPc
  BY DEF Writer, WriterPc
<1>2. i \in 1 .. Len(file)
  BY DEF ToolPatches, LogTypes
<1>3. Timed(file, i) \in Seq(Message)
  BY <1>2, TimedType DEF LogTypes
<1>4. Loaded("check") \in ManagerRecord
  BY <1>1, LoadedType
<1>5. /\ Loaded("check").pc = "check" /\ Loaded("check").log = file
      /\ Loaded("check").persisted = file
  BY DEF Loaded
<1>6. r = [Loaded("check") EXCEPT !.log = Timed(file, i), !.then = "unlock"]
  BY <1>5 DEF Timed
<1>7. manager' = [manager EXCEPT ![t] = r]
  BY DEF ToolPatches
<1> HIDE DEF r
<1>8. r \in ManagerRecord
  <2>1. [Loaded("check") EXCEPT !.log = Timed(file, i)] \in ManagerRecord
    BY <1>3, <1>4, LogField
  <2> QED
    BY <1>1, <1>6, <2>1, ThenField
<1>9. /\ r.pc = "check" /\ r.then = "unlock" /\ r.log = Timed(file, i)
      /\ r.persisted = file
  BY <1>4, <1>5, <1>6 DEF ManagerRecord
<1> QED
  BY <1>1, <1>2, <1>7, <1>8, <1>9 DEF Becomes, LogTypes

LEMMA StatEffect ==
    ASSUME LogTypes, NEW w \in Writer, Stat(w)
    PROVE  Becomes(w, manager[w].then, manager[w].then, manager[w].log, manager[w].log)
<1> DEFINE then == manager[w].then
           size == Size(file, torn)
           r == [manager[w] EXCEPT !.persisted = manager[w].log, !.size = size,
                                   !.pc = then]
<1>1. size \in Nat
  BY SizeType DEF LogTypes
<1>2. /\ manager[w] \in ManagerRecord /\ then \in WriterPc
      /\ manager[w].log \in Seq(Message)
  BY DEF LogTypes, ManagerRecord
<1>3. manager' = [manager EXCEPT ![w] = r]
  BY DEF Stat
<1> HIDE DEF size
<1>4. r \in ManagerRecord
  <2>1. [manager[w] EXCEPT !.persisted = manager[w].log] \in ManagerRecord
    BY <1>2, PersistedField
  <2>2. [manager[w] EXCEPT !.persisted = manager[w].log, !.size = size]
          \in ManagerRecord
    BY <1>1, <2>1, SizeField
  <2> QED
    BY <1>2, <2>2, PcField
<1>5. /\ r.pc = then /\ r.then = then /\ r.log = manager[w].log
      /\ r.persisted = manager[w].log
  BY <1>2 DEF ManagerRecord
<1> HIDE DEF r
<1> QED
  BY <1>3, <1>4, <1>5 DEF Becomes, LogTypes

-----------------------------------------------------------------------------
(* Sequences of messages. *)

LEMMA IdsOf ==
    ASSUME NEW log \in Seq(Message)
    PROVE  /\ \A i \in 1 .. Len(log) : log[i].id \in Ids(log)
           /\ \A n \in Ids(log) : \E i \in 1 .. Len(log) : log[i].id = n
  BY DEF Ids, ToSet

LEMMA KeysOf ==
    ASSUME NEW log \in Seq(Message)
    PROVE  /\ \A i \in 1 .. Len(log) : [id |-> log[i].id, by |-> log[i].by] \in Keys(log)
           /\ \A k \in Keys(log) : \E i \in 1 .. Len(log) :
                 k = [id |-> log[i].id, by |-> log[i].by]
  BY DEF Keys, ToSet

\* No message is in log twice.
NoDup(log) == \A i, j \in 1 .. Len(log) : i # j => log[i].id # log[j].id

LEMMA AppendFacts ==
    ASSUME NEW log \in Seq(Message), NEW m \in Message
    PROVE  /\ Append(log, m) \in Seq(Message)
           /\ Ids(Append(log, m)) = Ids(log) \cup {m.id}
           /\ Keys(Append(log, m)) = Keys(log) \cup {[id |-> m.id, by |-> m.by]}
           /\ NoDup(log) /\ m.id \notin Ids(log) => NoDup(Append(log, m))
<1> DEFINE longer == Append(log, m)
<1>1. /\ longer \in Seq(Message) /\ Len(longer) = Len(log) + 1
      /\ \A i \in 1 .. Len(log) : longer[i] = log[i]
      /\ longer[Len(log) + 1] = m
  BY AppendProperties
<1> HIDE DEF longer
<1>2. Ids(longer) = Ids(log) \cup {m.id}
  <2>1. /\ \A k \in 1 .. Len(longer) : k \in 1 .. Len(log) \/ k = Len(log) + 1
        /\ \A k \in 1 .. Len(log) : k \in 1 .. Len(longer)
        /\ Len(log) + 1 \in 1 .. Len(longer)
    BY <1>1
  <2>2. \A n \in Ids(longer) : n \in Ids(log) \/ n = m.id
    BY <1>1, <2>1, IdsOf
  <2>3. \A n \in Ids(log) : n \in Ids(longer)
    BY <1>1, <2>1, IdsOf
  <2>4. m.id \in Ids(longer)
    BY <1>1, <2>1, IdsOf
  <2> QED
    BY <2>2, <2>3, <2>4
<1>3. Keys(longer) = Keys(log) \cup {[id |-> m.id, by |-> m.by]}
  BY <1>1, KeysOf
<1>4. NoDup(log) /\ m.id \notin Ids(log) => NoDup(longer)
  <2> SUFFICES ASSUME NoDup(log), m.id \notin Ids(log),
                      NEW i \in 1 .. Len(longer), NEW j \in 1 .. Len(longer), i # j
               PROVE  longer[i].id # longer[j].id
    BY DEF NoDup
  <2>1. \A k \in 1 .. Len(longer) : k \in 1 .. Len(log) \/ k = Len(log) + 1
    BY <1>1
  <2>2. \A k \in 1 .. Len(log) : longer[k].id # m.id
    BY <1>1, IdsOf
  <2>3. CASE i \in 1 .. Len(log) /\ j \in 1 .. Len(log)
    BY <1>1, <2>3 DEF NoDup
  <2> QED
    BY <1>1, <2>1, <2>2, <2>3
<1> QED
  BY <1>1, <1>2, <1>3, <1>4 DEF longer

LEMMA TimedFacts ==
    ASSUME NEW log \in Seq(Message), NEW i \in 1 .. Len(log)
    PROVE  /\ Ids(Timed(log, i)) = Ids(log)
           /\ Keys(Timed(log, i)) = Keys(log)
           /\ NoDup(log) => NoDup(Timed(log, i))
<1> DEFINE timed == Timed(log, i)
<1>1. /\ timed \in Seq(Message) /\ Len(timed) = Len(log)
      /\ \A j \in 1 .. Len(log) : timed[j].id = log[j].id /\ timed[j].by = log[j].by
  BY TimedType
<1> HIDE DEF timed
<1>2. Ids(timed) = Ids(log)
  <2>1. ASSUME NEW n \in Ids(timed) PROVE n \in Ids(log)
    <3>1. PICK j \in 1 .. Len(timed) : timed[j].id = n
      BY <1>1, IdsOf
    <3> QED
      BY <1>1, <3>1, IdsOf
  <2>2. ASSUME NEW n \in Ids(log) PROVE n \in Ids(timed)
    <3>1. PICK j \in 1 .. Len(log) : log[j].id = n
      BY IdsOf
    <3> QED
      BY <1>1, <3>1, IdsOf
  <2> QED
    BY <2>1, <2>2
<1>3. Keys(timed) = Keys(log)
  <2>1. ASSUME NEW k \in Keys(timed) PROVE k \in Keys(log)
    <3>1. PICK j \in 1 .. Len(timed) : k = [id |-> timed[j].id, by |-> timed[j].by]
      BY <1>1, KeysOf
    <3> QED
      BY <1>1, <3>1, KeysOf
  <2>2. ASSUME NEW k \in Keys(log) PROVE k \in Keys(timed)
    <3>1. PICK j \in 1 .. Len(log) : k = [id |-> log[j].id, by |-> log[j].by]
      BY KeysOf
    <3> QED
      BY <1>1, <3>1, KeysOf
  <2> QED
    BY <2>1, <2>2
<1>4. NoDup(log) => NoDup(timed)
  BY <1>1 DEF NoDup
<1> QED
  BY <1>2, <1>3, <1>4 DEF timed

LEMMA PrefixFacts ==
    ASSUME NEW log \in Seq(Message), NEW k \in 0 .. Len(log)
    PROVE  /\ SubSeq(log, 1, k) \in Seq(Message)
           /\ Len(SubSeq(log, 1, k)) = k
           /\ \A i \in 1 .. k : SubSeq(log, 1, k)[i] = log[i]
           /\ Ids(SubSeq(log, 1, k)) = {log[i].id : i \in 1 .. k}
           /\ Keys(SubSeq(log, 1, k)) \subseteq Keys(log)
           /\ NoDup(log) => NoDup(SubSeq(log, 1, k))
<1> DEFINE part == SubSeq(log, 1, k)
<1>1. /\ part \in Seq(Message) /\ Len(part) = k
      /\ \A i \in 1 .. k : part[i] = log[i]
  BY SubSeqProperties
<1> HIDE DEF part
<1>2. Ids(part) = {log[i].id : i \in 1 .. k}
  BY <1>1, IdsOf
<1>3. Keys(part) \subseteq Keys(log)
  BY <1>1, KeysOf
<1>4. NoDup(log) => NoDup(part)
  BY <1>1 DEF NoDup
<1> QED
  BY <1>1, <1>2, <1>3, <1>4 DEF part

-----------------------------------------------------------------------------
(* Where a writer can be, and what its logs look like there.               *)

Writing == {"check", "append", "replace"}
Written == {"namesync", "stat"}

\* A tool that writes, or tells of it, has the lock.
Place(w) ==
    /\ w \in StepWriter =>
          /\ manager[w].pc \in WriterPc \ {"unlock", "patch"}
          /\ manager[w].pc \in Writing \cup Written =>
                manager[w].then \in {"announce", "fsync"}
    /\ w \in ToolWriter =>
          /\ manager[w].pc \in WriterPc \ {"ready", "fsync", "dirsync", "complete",
                                          "completing"}
          /\ manager[w].pc \in Writing \cup Written =>
                manager[w].then \in {"announce", "unlock"}
          /\ manager[w].pc \notin {"idle", "patch"} => lock = w

\* A writer has at most one message that is not in the file yet, its own.
Shape(w) ==
    /\ manager[w].pc \in {"ready", "announce", "announcing"} =>
          manager[w].persisted = manager[w].log
    /\ manager[w].pc \in Writing =>
          \/ Len(manager[w].log) = Len(manager[w].persisted)
          \/ /\ Len(manager[w].log) = Len(manager[w].persisted) + 1
             /\ manager[w].log[Len(manager[w].log)].by = w
    /\ manager[w].pc = "append" => IsPrefix(manager[w].persisted, manager[w].log)

LogBasics ==
    /\ LogTypes
    /\ \A w \in Writer : Place(w) /\ Shape(w)

LEMMA LogInitBasics == LogInit => LogBasics
<1> SUFFICES ASSUME LogInit PROVE LogBasics
  OBVIOUS
<1>1. LogTypes
  <2>1. <<>> \in Seq(Message) /\ Len(<<>>) = 0
    OBVIOUS
  <2>2. manager \in [Writer -> ManagerRecord]
    BY NoManagerType DEF LogInit
  <2>3. torn \in BOOLEAN /\ shadows \subseteq Seq(Message)
    BY DEF LogInit
  <2>4. durable \in 0..Len(file) /\ messages \in 0..MaxMessages
    BY <2>1, LogAssumption DEF LogInit
  <2>5. file \in Seq(Message)
    BY <2>1 DEF LogInit
  <2> QED
    BY <2>2, <2>3, <2>4, <2>5 DEF LogTypes
<1>2. \A w \in Writer : manager[w].pc = "idle"
  BY DEF LogInit, NoManager
<1>3. \A w \in Writer : Place(w) /\ Shape(w)
  BY <1>2 DEF Place, Shape, WriterPc, Writing, Written
<1> QED
  BY <1>1, <1>3 DEF LogBasics

\* What is left of the logs of a writer that may append.
LEMMA UnwrittenFacts ==
    ASSUME NEW m \in ManagerRecord,
           \/ Len(m.log) = Len(m.persisted)
           \/ Len(m.log) = Len(m.persisted) + 1
    PROVE  /\ Unwritten(m) \in Seq(Message)
           /\ Len(m.log) = Len(m.persisted) => Unwritten(m) = <<>>
           /\ Len(m.log) = Len(m.persisted) + 1 =>
                 Unwritten(m) = <<m.log[Len(m.log)]>>
<1> DEFINE n == Len(m.persisted)
           rest == SubSeq(m.log, n + 1, Len(m.log))
<1>1. m.log \in Seq(Message) /\ n \in Nat
  BY DEF ManagerRecord
<1>2. /\ rest \in Seq(Message)
      /\ Len(rest) = IF n + 1 <= Len(m.log) THEN Len(m.log) - n ELSE 0
      /\ \A i \in 1 .. Len(m.log) - n : rest[i] = m.log[n + i]
  <2>1. \A i \in n + 1 .. Len(m.log) : m.log[i] \in Message
    BY <1>1
  <2>2. n + 1 \in Int /\ Len(m.log) \in Int
    BY <1>1
  <2> HIDE DEF n
  <2>3. /\ rest \in Seq(Message)
        /\ Len(rest) = IF n + 1 <= Len(m.log) THEN Len(m.log) - (n + 1) + 1 ELSE 0
        /\ \A i \in 1 .. Len(m.log) - (n + 1) + 1 : rest[i] = m.log[n + 1 + i - 1]
    BY <2>1, <2>2, SubSeqProperties
  <2> QED
    BY <1>1, <2>3
<1>3. Len(m.log) = n => rest = <<>>
  BY <1>1, SubSeqEmpty
<1>4. ASSUME Len(m.log) = n + 1 PROVE rest = <<m.log[Len(m.log)]>>
  <2>1. Len(rest) = 1 /\ rest[1] = m.log[Len(m.log)]
    BY <1>1, <1>2, <1>4
  <2>2. m.log[Len(m.log)] \in Message
    BY <1>1, <1>4
  <2>3. /\ <<m.log[Len(m.log)]>> \in Seq(Message)
        /\ Len(<<m.log[Len(m.log)]>>) = 1
        /\ <<m.log[Len(m.log)]>>[1] = m.log[Len(m.log)]
    BY <2>2
  <2> HIDE DEF rest
  <2> QED
    BY <1>2, <2>1, <2>3, SeqEqual
<1> QED
  BY <1>2, <1>3, <1>4 DEF Unwritten

LEMMA LogTypesStep ==
    ASSUME LogBasics, LogStep
    PROVE  LogTypes'
<1> USE DEF LogBasics
<1> DEFINE Rest == /\ UNCHANGED <<file, torn, durable, shadows>>
                   /\ messages' \in 0..MaxMessages
<1>0. ASSUME Rest, manager' \in [Writer -> ManagerRecord]
      PROVE  LogTypes'
  BY <1>0 DEF LogTypes
<1>1. ASSUME NEW s \in StepWriter, StepNext(s)
      PROVE  LogTypes'
  <2>0. s \in Writer /\ {"dirsync", "complete"} \subseteq WriterPc
    BY DEF Writer, WriterPc
  <2>1. CASE StepLoads(s)
    BY <2>1, <1>0, StepLoadsEffect DEF StepLoads, Becomes, LogTypes
  <2>2. CASE StepAppends(s)
    <3>1. manager' \in [Writer -> ManagerRecord]
      BY <2>2, StepAppendsEffect DEF Becomes
    <3>2. messages' \in 0..MaxMessages
      BY <2>2, LogAssumption DEF StepAppends, LogTypes
    <3> QED
      BY <1>0, <2>2, <3>1, <3>2 DEF StepAppends
  <2>3. CASE StepSyncs(s)
    BY <2>3, <1>0, StepSyncsEffect DEF StepSyncs, Becomes, LogTypes
  <2>4. CASE SyncFile(s)
    <3>1. manager' \in [Writer -> ManagerRecord]
      BY <2>0, <2>4, GotoEffect DEF SyncFile, Becomes
    <3> QED
      BY <2>4, <3>1 DEF SyncFile, LogTypes
  <2>5. CASE SyncDirectories(s)
    <3>1. manager' \in [Writer -> ManagerRecord]
      BY <2>0, <2>5, LeaveEffect DEF SyncDirectories, Becomes
    <3> QED
      BY <2>5, <3>1 DEF SyncDirectories, LogTypes
  <2> QED
    BY <1>1, <2>1, <2>2, <2>3, <2>4, <2>5 DEF StepNext
<1>2. ASSUME NEW t \in ToolWriter, ToolNext(t)
      PROVE  LogTypes'
  <2>0. t \in Writer /\ {"idle", "patch"} \subseteq WriterPc
    BY DEF Writer, WriterPc
  <2>1. CASE ToolAppends(t)
    <3>1. manager' \in [Writer -> ManagerRecord]
      BY <2>1, ToolAppendsEffect DEF Becomes
    <3>2. messages' \in 0..MaxMessages
      BY <2>1, LogAssumption DEF ToolAppends, LogTypes
    <3> QED
      BY <1>0, <2>1, <3>1, <3>2 DEF ToolAppends
  <2>2. ASSUME NEW i, ToolPatches(t, i)
        PROVE  LogTypes'
    BY <2>2, <1>0, ToolPatchesEffect DEF ToolPatches, Becomes, LogTypes
  <2>3. CASE ToolEnds(t)
    BY <2>0, <2>3, <1>0, LeaveEffect DEF ToolEnds, Becomes, LogTypes
  <2>4. CASE Unlock(t)
    <3>1. manager' \in [Writer -> ManagerRecord]
      BY <2>0, <2>4, LeaveEffect DEF Unlock, Becomes
    <3> QED
      BY <1>0, <2>4, <3>1 DEF Unlock, LogTypes
  <2> QED
    BY <1>2, <2>1, <2>2, <2>3, <2>4 DEF ToolNext
<1>3. ASSUME NEW w \in Writer, WriteNext(w)
      PROVE  LogTypes'
  <2>0. {"append", "replace", "stat", "namesync"} \subseteq WriterPc
    BY DEF WriterPc
  <2>1. CASE Check(w)
    <3>1. manager' \in [Writer -> ManagerRecord]
      BY <2>0, <2>1, GotoEffect DEF Check, Becomes
    <3> QED
      BY <1>0, <2>1, <3>1 DEF Check, LogTypes
  <2>2. CASE AppendLines(w)
    <3>1. manager' \in [Writer -> ManagerRecord]
      BY <2>0, <2>2, GotoEffect DEF AppendLines, Becomes
    <3>2. Unwritten(manager[w]) \in Seq(Message)
      BY <2>2, UnwrittenFacts DEF Shape, AppendLines, LogTypes, Writing
    <3>3. file' \in Seq(Message) /\ Len(file') >= Len(file)
      BY <2>2, <3>2, ConcatProperties DEF AppendLines, LogTypes
    <3> QED
      BY <2>2, <3>1, <3>3 DEF AppendLines, LogTypes
  <2>3. CASE ReplaceFile(w)
    <3>1. manager' \in [Writer -> ManagerRecord]
      BY <2>0, <2>3, GotoEffect DEF ReplaceFile, Becomes
    <3>2. file' \in Seq(Message) /\ durable' \in 0 .. Len(file')
      BY <2>3 DEF ReplaceFile, LogTypes, ManagerRecord
    <3>3. SubSeq(file, 1, durable) \in Seq(Message)
      BY PrefixFacts DEF LogTypes
    <3> QED
      BY <2>3, <3>1, <3>2, <3>3 DEF ReplaceFile, LogTypes
  <2>4. CASE SyncName(w)
    <3>1. manager' \in [Writer -> ManagerRecord]
      BY <2>0, <2>4, GotoEffect DEF SyncName, Becomes
    <3> QED
      BY <2>4, <3>1 DEF SyncName, LogTypes
  <2>5. CASE Stat(w)
    BY <2>5, <1>0, StatEffect DEF Stat, Becomes, LogTypes
  <2> QED
    BY <1>3, <2>1, <2>2, <2>3, <2>4, <2>5 DEF WriteNext
<1>4. ASSUME NEW w \in Writer, Announces(w) \/ Announced(w)
      PROVE  LogTypes'
  <2>0. {"announcing", "completing", "idle", "ready", "unlock"} \subseteq WriterPc
    BY DEF WriterPc
  <2>1. PICK pc \in WriterPc : Goto(w, pc)
    BY <1>4, <2>0 DEF Announces, Announced
  <2>2. manager' \in [Writer -> ManagerRecord]
    BY <2>1, GotoEffect DEF Becomes
  <2> QED
    BY <1>0, <1>4, <2>2 DEF Announces, Announced, LogTypes
<1>5. ASSUME NEW left \in AfterCrash, NEW part \in BOOLEAN, Crash(left, part)
      PROVE  LogTypes'
  <2>1. left \in Seq(Message)
    BY PrefixFacts DEF AfterCrash, LogTypes
  <2>2. manager' \in [Writer -> ManagerRecord]
    BY <1>5, NoManagerType DEF Crash
  <2>3. torn' \in BOOLEAN
    BY <1>5 DEF Crash
  <2>4. file' = left /\ durable' = Len(left) /\ shadows' = {} /\ messages' = messages
    BY <1>5 DEF Crash
  <2> QED
    BY <2>1, <2>2, <2>3, <2>4 DEF LogTypes
<1>6. CASE UNCHANGED logVars
  BY <1>6 DEF logVars, LogTypes
<1> QED
  BY <1>1, <1>2, <1>3, <1>4, <1>5, <1>6 DEF LogStep

\* A writer that does not act is where it was: the lock goes to another one only
\* when nobody has it.
LEMMA OthersStay ==
    ASSUME LogBasics, NEW w \in Writer, NEW pc, NEW then, NEW log, NEW persisted,
           Becomes(w, pc, then, log, persisted),
           lock' = lock \/ lock = Free \/ lock = w
    PROVE  \A v \in Writer \ {w} : Place(v)' /\ Shape(v)'
<1> SUFFICES ASSUME NEW v \in Writer \ {w}
             PROVE  Place(v)' /\ Shape(v)'
  OBVIOUS
<1>1. manager'[v] = manager[v]
  BY DEF Becomes
<1>2. Shape(v)'
  BY <1>1 DEF Shape, LogBasics
<1>3. Place(v)'
  BY <1>1, LogAssumption DEF Place, LogBasics
<1> QED
  BY <1>2, <1>3

LEMMA PlaceStep ==
    ASSUME LogBasics, LogStep
    PROVE  \A w \in Writer : Place(w)' /\ Shape(w)'
<1> USE DEF LogBasics, Writing, Written
<1> DEFINE Goal == \A w \in Writer : Place(w)' /\ Shape(w)'
<1>0. /\ StepWriter \subseteq Writer /\ ToolWriter \subseteq Writer
      /\ \A s \in StepWriter : s \notin ToolWriter
  BY LogAssumption DEF Writer
<1>1. ASSUME NEW s \in StepWriter, StepNext(s)
      PROVE  Goal
  <2>0. s \in Writer /\ s \notin ToolWriter /\ Place(s) /\ Shape(s)
    BY <1>0
  <2>1. CASE StepLoads(s)
    <3>1. Becomes(s, "ready", "ready", file, file) /\ lock' = lock
      BY <2>1, StepLoadsEffect DEF StepLoads
    <3>2. Place(s)' /\ Shape(s)'
      BY <2>0, <3>1 DEF Becomes, Place, Shape, WriterPc
    <3> QED
      BY <2>0, <3>1, <3>2, OthersStay
  <2>2. CASE StepAppends(s)
    <3> DEFINE log == Append(manager[s].log, NewMessage(s))
    <3>1. Becomes(s, "check", "announce", log, manager[s].persisted) /\ lock' = lock
      BY <2>2, StepAppendsEffect DEF StepAppends
    <3>2. NewMessage(s) \in Message /\ manager[s].log \in Seq(Message)
      BY <2>0, <2>2, NewMessageType DEF StepAppends, LogTypes, ManagerRecord
    <3>3. /\ Len(log) = Len(manager[s].log) + 1
          /\ log[Len(manager[s].log) + 1] = NewMessage(s)
      BY <3>2, AppendProperties
    <3>4. manager[s].persisted = manager[s].log /\ NewMessage(s).by = s
      BY <2>0, <2>2 DEF StepAppends, Shape, NewMessage
    <3> HIDE DEF log
    <3>5. Place(s)' /\ Shape(s)'
      BY <2>0, <3>1, <3>3, <3>4 DEF Becomes, Place, Shape, WriterPc
    <3> QED
      BY <2>0, <3>1, <3>5, OthersStay
  <2>3. CASE StepSyncs(s)
    <3>1. Becomes(s, "check", "fsync", manager[s].log, manager[s].persisted)
      BY <2>3, StepSyncsEffect
    <3>2. lock' = lock /\ manager[s].persisted = manager[s].log
      BY <2>0, <2>3 DEF StepSyncs, Shape
    <3>3. Place(s)' /\ Shape(s)'
      BY <2>0, <3>1, <3>2 DEF Becomes, Place, Shape, WriterPc
    <3> QED
      BY <2>0, <3>1, <3>2, <3>3, OthersStay
  <2>4. CASE SyncFile(s)
    <3>1. /\ Becomes(s, "dirsync", manager[s].then, manager[s].log, manager[s].persisted)
          /\ lock' = lock
      BY <2>0, <2>4, GotoEffect DEF SyncFile, WriterPc
    <3>2. Place(s)' /\ Shape(s)'
      BY <2>0, <3>1 DEF Becomes, Place, Shape, WriterPc
    <3> QED
      BY <2>0, <3>1, <3>2, OthersStay
  <2>5. CASE SyncDirectories(s)
    <3>1. Becomes(s, "complete", "idle", <<>>, <<>>) /\ lock' = lock
      BY <2>0, <2>5, LeaveEffect DEF SyncDirectories, WriterPc
    <3>2. Place(s)' /\ Shape(s)'
      BY <2>0, <3>1 DEF Becomes, Place, Shape, WriterPc
    <3> QED
      BY <2>0, <3>1, <3>2, OthersStay
  <2> QED
    BY <1>1, <2>1, <2>2, <2>3, <2>4, <2>5 DEF StepNext
<1>2. ASSUME NEW t \in ToolWriter, ToolNext(t)
      PROVE  Goal
  <2>0. t \in Writer /\ t \notin StepWriter /\ Place(t) /\ Shape(t)
    BY <1>0
  <2>1. CASE ToolAppends(t)
    <3> DEFINE log == Append(file, NewMessage(t))
    <3>1. /\ Becomes(t, "check", "announce", log, file)
          /\ lock = Free /\ lock' = t
      BY <2>1, ToolAppendsEffect DEF ToolAppends
    <3>2. NewMessage(t) \in Message /\ file \in Seq(Message)
      BY <2>0, <2>1, NewMessageType DEF ToolAppends, LogTypes
    <3>3. Len(log) = Len(file) + 1 /\ log[Len(file) + 1] = NewMessage(t)
      BY <3>2, AppendProperties
    <3>4. NewMessage(t).by = t
      BY DEF NewMessage
    <3> HIDE DEF log
    <3>5. Place(t)' /\ Shape(t)'
      BY <2>0, <3>1, <3>3, <3>4 DEF Becomes, Place, Shape, WriterPc
    <3> QED
      BY <2>0, <3>1, <3>5, OthersStay
  <2>2. ASSUME NEW i, ToolPatches(t, i)
        PROVE  Goal
    <3>1. /\ i \in 1 .. Len(file)
          /\ Becomes(t, "check", "unlock", Timed(file, i), file)
          /\ lock = Free /\ lock' = t
      BY <2>2, ToolPatchesEffect DEF ToolPatches
    <3>2. Len(Timed(file, i)) = Len(file)
      BY <3>1, TimedType DEF LogTypes
    <3>3. Place(t)' /\ Shape(t)'
      BY <2>0, <3>1, <3>2 DEF Becomes, Place, Shape, WriterPc
    <3> QED
      BY <2>0, <3>1, <3>3, OthersStay
  <2>3. CASE ToolEnds(t)
    <3>1. Becomes(t, "idle", "idle", <<>>, <<>>) /\ lock' = lock
      BY <2>0, <2>3, LeaveEffect DEF ToolEnds, WriterPc
    <3>2. Place(t)' /\ Shape(t)'
      BY <2>0, <3>1 DEF Becomes, Place, Shape, WriterPc
    <3> QED
      BY <2>0, <3>1, <3>2, OthersStay
  <2>4. CASE Unlock(t)
    <3>1. PICK pc \in {"idle", "patch"} : Leave(t, pc)
      BY <2>4 DEF Unlock
    <3>2. Becomes(t, pc, "idle", <<>>, <<>>)
      BY <2>0, <3>1, LeaveEffect DEF WriterPc
    <3>3. lock = t
      BY <2>0, <2>4 DEF Unlock, Place
    <3>4. Place(t)' /\ Shape(t)'
      BY <2>0, <3>2 DEF Becomes, Place, Shape, WriterPc
    <3> QED
      BY <2>0, <3>2, <3>3, <3>4, OthersStay
  <2> QED
    BY <1>2, <2>1, <2>2, <2>3, <2>4 DEF ToolNext
<1>3. ASSUME NEW w \in Writer, WriteNext(w)
      PROVE  Goal
  <2>0. Place(w) /\ Shape(w) /\ (w \in StepWriter \/ w \in ToolWriter)
    BY DEF Writer
  <2>1. CASE Check(w)
    <3>1. PICK pc \in {"append", "replace"} :
             Goto(w, pc) /\ (pc = "append" => CanAppend(manager[w]))
      BY <2>1 DEF Check
    <3>2. Becomes(w, pc, manager[w].then, manager[w].log, manager[w].persisted)
      BY <3>1, GotoEffect DEF WriterPc
    <3>3. pc = "append" => IsPrefix(manager[w].persisted, manager[w].log)
      BY <3>1 DEF CanAppend
    <3>4. lock' = lock /\ manager[w].pc = "check"
      BY <2>1 DEF Check
    <3>5. Place(w)'
      BY <2>0, <3>2, <3>4 DEF Becomes, Place, WriterPc
    <3>6. Shape(w)'
      BY <2>0, <3>2, <3>3, <3>4 DEF Becomes, Shape
    <3> QED
      BY <3>2, <3>4, <3>5, <3>6, OthersStay
  <2>2. ASSUME AppendLines(w) \/ ReplaceFile(w) \/ SyncName(w)
        PROVE  Goal
    <3>1. PICK pc \in {"stat", "namesync"} : Goto(w, pc)
      BY <2>2 DEF AppendLines, ReplaceFile, SyncName
    <3>2. Becomes(w, pc, manager[w].then, manager[w].log, manager[w].persisted)
      BY <3>1, GotoEffect DEF WriterPc
    <3>3. lock' = lock /\ manager[w].pc \in {"append", "replace", "namesync"}
      BY <2>2 DEF AppendLines, ReplaceFile, SyncName
    <3>4. Place(w)'
      BY <2>0, <3>2, <3>3 DEF Becomes, Place, WriterPc
    <3>5. Shape(w)'
      BY <3>2 DEF Becomes, Shape
    <3> QED
      BY <3>2, <3>3, <3>4, <3>5, OthersStay
  <2>3. CASE Stat(w)
    <3>1. Becomes(w, manager[w].then, manager[w].then, manager[w].log, manager[w].log)
      BY <2>3, StatEffect
    <3>2. lock' = lock /\ manager[w].pc = "stat"
      BY <2>3 DEF Stat
    <3>3. Place(w)'
      BY <2>0, <3>1, <3>2 DEF Becomes, Place, WriterPc
    <3>4. Shape(w)'
      BY <2>0, <3>1, <3>2 DEF Becomes, Shape, Place
    <3> QED
      BY <3>1, <3>2, <3>3, <3>4, OthersStay
  <2> QED
    BY <1>3, <2>1, <2>2, <2>3 DEF WriteNext
<1>4. ASSUME NEW w \in Writer, Announces(w) \/ Announced(w)
      PROVE  Goal
  <2>0. Place(w) /\ Shape(w) /\ (w \in StepWriter \/ w \in ToolWriter)
    BY DEF Writer
  <2>1. PICK pc \in WriterPc :
           /\ Goto(w, pc)
           /\ \/ manager[w].pc = "announce" /\ pc = "announcing"
              \/ manager[w].pc = "complete" /\ pc = "completing"
              \/ manager[w].pc = "completing" /\ pc = "idle"
              \/ manager[w].pc = "announcing" /\ w \in StepWriter /\ pc = "ready"
              \/ manager[w].pc = "announcing" /\ w \notin StepWriter /\ pc = "unlock"
    <3>1. CASE Announces(w)
      BY <3>1 DEF Announces, WriterPc
    <3>2. CASE Announced(w)
      <4>1. CASE manager[w].pc = "completing"
        BY <3>2, <4>1 DEF Announced, WriterPc
      <4>2. CASE manager[w].pc = "announcing" /\ w \in StepWriter
        BY <3>2, <4>2 DEF Announced, WriterPc
      <4>3. CASE manager[w].pc = "announcing" /\ w \notin StepWriter
        BY <3>2, <4>3 DEF Announced, WriterPc
      <4> QED
        BY <3>2, <4>1, <4>2, <4>3 DEF Announced
    <3> QED
      BY <1>4, <3>1, <3>2
  <2>2. Becomes(w, pc, manager[w].then, manager[w].log, manager[w].persisted)
    BY <2>1, GotoEffect
  <2>3. lock' = lock
    BY <1>4 DEF Announces, Announced
  <2>4. Place(w)'
    BY <1>0, <2>0, <2>1, <2>2, <2>3 DEF Becomes, Place, WriterPc
  <2>5. Shape(w)'
    BY <2>0, <2>1, <2>2 DEF Becomes, Shape
  <2> QED
    BY <2>2, <2>3, <2>4, <2>5, OthersStay
<1>5. ASSUME NEW left \in AfterCrash, NEW part \in BOOLEAN, Crash(left, part)
      PROVE  Goal
  <2>1. \A w \in Writer : manager'[w].pc = "idle"
    BY <1>5 DEF Crash, NoManager
  <2> QED
    BY <2>1 DEF Place, Shape, WriterPc
<1>6. CASE UNCHANGED logVars
  BY <1>6 DEF logVars, Place, Shape
<1> QED
  BY <1>1, <1>2, <1>3, <1>4, <1>5, <1>6 DEF LogStep

LEMMA BasicsStep ==
    ASSUME LogBasics, LogStep
    PROVE  LogBasics'
  BY LogTypesStep, PlaceStep DEF LogBasics

\* The types of the rest: what is acknowledged or overwritten are messages.
LogRest ==
    /\ lock \in ToolWriter \cup {Free}
    /\ patches \in 0..MaxPatches
    /\ crashes \in 0..MaxCrashes
    /\ acked \subseteq 1..MaxMessages
    /\ overwritten \subseteq [id : 1..MaxMessages, by : Writer, from : Writer]

LEMMA LogRestStep ==
    ASSUME LogBasics, LogRest, LogStep
    PROVE  LogRest'
<1> USE DEF LogBasics, LogRest
<1>1. ASSUME NEW s \in StepWriter, StepNext(s)
      PROVE  LogRest'
  <2>1. CASE SyncDirectories(s)
    <3>1. manager[s].log \in Seq(Message)
      BY DEF LogTypes, ManagerRecord, Writer
    <3>2. \A i \in DOMAIN manager[s].log : manager[s].log[i] \in Message
      BY <3>1
    <3>3. Ids(manager[s].log) \subseteq 1..MaxMessages
      BY <3>2 DEF Ids, ToSet, Message
    <3> QED
      BY <2>1, <3>3 DEF SyncDirectories
  <2> QED
    BY <1>1, <2>1 DEF StepNext, StepLoads, StepAppends, StepSyncs, SyncFile
<1>2. ASSUME NEW t \in ToolWriter, ToolNext(t)
      PROVE  LogRest'
  <2>1. ASSUME NEW i, ToolPatches(t, i)
        PROVE  LogRest'
    BY <2>1, LogAssumption DEF ToolPatches
  <2> QED
    BY <1>2, <2>1 DEF ToolNext, ToolAppends, ToolEnds, Unlock
<1>3. ASSUME NEW w \in Writer, WriteNext(w)
      PROVE  LogRest'
  <2>1. CASE ReplaceFile(w)
    <3>0. \A i \in DOMAIN file : file[i] \in Message
      BY DEF LogTypes
    <3>1. Keys(file) \subseteq [id : 1..MaxMessages, by : Writer]
      BY <3>0 DEF Keys, ToSet, Message
    <3>2. Dropped(w) \subseteq [id : 1..MaxMessages, by : Writer, from : Writer]
      BY <3>1 DEF Dropped
    <3> QED
      BY <2>1, <3>2 DEF ReplaceFile
  <2> QED
    BY <1>3, <2>1 DEF WriteNext, Check, AppendLines, SyncName, Stat
<1>4. ASSUME NEW w \in Writer, Announces(w) \/ Announced(w)
      PROVE  LogRest'
  BY <1>4 DEF Announces, Announced
<1>5. ASSUME NEW left \in AfterCrash, NEW part \in BOOLEAN, Crash(left, part)
      PROVE  LogRest'
  BY <1>5, LogAssumption DEF Crash
<1>6. CASE UNCHANGED logVars
  BY <1>6 DEF logVars
<1> QED
  BY <1>1, <1>2, <1>3, <1>4, <1>5, <1>6 DEF LogStep

LEMMA LogRestInit == LogInit => LogRest
  BY LogAssumption DEF LogInit, LogRest

LEMMA LogTypesTypeOK == LogBasics /\ LogRest => LogTypeOK
  BY DEF LogBasics, LogTypes, LogRest, LogTypeOK, ManagerRecord, Manager

-----------------------------------------------------------------------------
(* No line twice.                                                          *)

\* A message that its writer has yet to write is nowhere else.
Fresh(w) ==
    manager[w].pc \in Writing /\ Len(manager[w].log) = Len(manager[w].persisted) + 1 =>
        LET n == manager[w].log[Len(manager[w].log)].id
        IN  /\ n \notin Ids(file)
            /\ \A v \in Writer \ {w} : n \notin Ids(manager[v].log)
            /\ \A old \in shadows : n \notin Ids(old)

\* Every log has no message twice, and none that is still to come.
Good(log) == NoDup(log) /\ \A n \in Ids(log) : n \in Nat /\ n <= messages

NoDupInv ==
    /\ LogBasics
    /\ Good(file)
    /\ \A w \in Writer : Good(manager[w].log) /\ Fresh(w)
    /\ \A old \in shadows : Good(old)

LEMMA EmptyGood == ASSUME LogTypes PROVE Good(<<>>) /\ Ids(<<>>) = {}
  BY DEF Good, NoDup, Ids, ToSet

LEMMA NoDupInit == LogInit => NoDupInv
<1> SUFFICES ASSUME LogInit PROVE NoDupInv
  OBVIOUS
<1>1. LogBasics
  BY LogInitBasics
<1>2. Good(<<>>)
  BY <1>1, EmptyGood DEF LogBasics
<1>3. /\ file = <<>> /\ shadows = {}
      /\ \A w \in Writer : manager[w].log = <<>> /\ manager[w].pc = "idle"
  BY DEF LogInit, NoManager
<1> QED
  BY <1>1, <1>2, <1>3 DEF NoDupInv, Fresh, Writing

\* Nothing is appended: every log that there is afterwards has the messages of one
\* that there was, or fewer, and who has still to write had so before.
LEMMA NothingNew ==
    ASSUME NoDupInv, LogBasics', messages' = messages, NEW w \in Writer,
           NEW pc, NEW then, NEW log, NEW persisted,
           Becomes(w, pc, then, log, persisted),
           log \in {file, manager[w].log, <<>>},
           pc \in Writing =>
              /\ file' = file
              /\ \/ Len(log) = Len(persisted)
                 \/ /\ manager[w].pc \in Writing
                    /\ log = manager[w].log /\ persisted = manager[w].persisted,
           file' \in {file, manager[w].log},
           shadows' \subseteq shadows \cup {SubSeq(file, 1, durable)}
    PROVE  NoDupInv'
<1> USE DEF NoDupInv
<1>1. /\ LogTypes /\ file \in Seq(Message) /\ durable \in 0..Len(file)
      /\ \A v \in Writer : manager[v].log \in Seq(Message)
  BY DEF LogBasics, LogTypes, ManagerRecord
<1>2. Good(SubSeq(file, 1, durable)) /\ Ids(SubSeq(file, 1, durable)) \subseteq Ids(file)
  <2>1. Ids(SubSeq(file, 1, durable)) \subseteq Ids(file)
    <3>1. Ids(SubSeq(file, 1, durable)) = {file[i].id : i \in 1 .. durable}
      BY <1>1, PrefixFacts
    <3>2. \A i \in 1 .. durable : file[i].id \in Ids(file)
      BY <1>1, IdsOf
    <3> QED
      BY <3>1, <3>2
  <2>2. NoDup(SubSeq(file, 1, durable))
    BY <1>1, PrefixFacts DEF Good
  <2> QED
    BY <2>1, <2>2 DEF Good
<1>3. Good(file') /\ \A old \in shadows' : Good(old)
  BY <1>2
<1>4. ASSUME NEW v \in Writer
      PROVE  Good(manager'[v].log)
  <2>1. manager'[v].log \in {file, manager[w].log, <<>>, manager[v].log}
    BY DEF Becomes
  <2> QED
    BY <1>1, <2>1, EmptyGood
<1>5. ASSUME NEW v \in Writer,
             manager'[v].pc \in Writing,
             Len(manager'[v].log) = Len(manager'[v].persisted) + 1,
             NEW n, n = manager'[v].log[Len(manager'[v].log)].id
      PROVE  /\ n \notin Ids(file')
             /\ \A u \in Writer \ {v} : n \notin Ids(manager'[u].log)
             /\ \A old \in shadows' : n \notin Ids(old)
  <2>1. /\ manager[v].pc \in Writing /\ manager'[v].log = manager[v].log
        /\ manager'[v].persisted = manager[v].persisted
        /\ v = w => file' = file
    <3>1. CASE v = w
      <4>1. Len(persisted) \in Nat
        BY <3>1 DEF Becomes, LogBasics, LogTypes, ManagerRecord
      <4> QED
        BY <1>5, <3>1, <4>1 DEF Becomes
    <3>2. CASE v # w
      BY <1>5, <3>2 DEF Becomes
    <3> QED
      BY <3>1, <3>2
  <2>2. /\ n \notin Ids(file)
        /\ \A u \in Writer \ {v} : n \notin Ids(manager[u].log)
        /\ \A old \in shadows : n \notin Ids(old)
    BY <1>5, <2>1 DEF Fresh
  <2>3. n \notin Ids(file')
    BY <2>1, <2>2
  <2>4. \A u \in Writer \ {v} : n \notin Ids(manager'[u].log)
    BY <1>1, <2>2, EmptyGood DEF Becomes
  <2>5. \A old \in shadows' : n \notin Ids(old)
    BY <1>2, <2>2
  <2> QED
    BY <2>3, <2>4, <2>5
<1> QED
  BY <1>3, <1>4, <1>5 DEF Good, Fresh

\* A message is appended in memory: its number is greater than any other.
LEMMA OneNew ==
    ASSUME NoDupInv, LogBasics', NEW w \in Writer, messages < MaxMessages,
           messages' = messages + 1, UNCHANGED <<file, shadows>>,
           NEW then, NEW base \in {file, manager[w].log}, NEW persisted,
           Becomes(w, "check", then, Append(base, NewMessage(w)), persisted)
    PROVE  NoDupInv'
<1> USE DEF NoDupInv
<1> DEFINE log == Append(base, NewMessage(w))
<1>1. /\ file \in Seq(Message) /\ messages \in Nat
      /\ shadows \subseteq Seq(Message)
      /\ \A v \in Writer : manager[v].log \in Seq(Message)
      /\ NewMessage(w) \in Message
  BY NewMessageType DEF LogBasics, LogTypes, ManagerRecord
<1>2. base \in Seq(Message) /\ Good(base) /\ NewMessage(w).id = messages + 1
  BY <1>1 DEF NewMessage
<1>3. /\ Ids(log) = Ids(base) \cup {messages + 1}
      /\ NoDup(base) /\ messages + 1 \notin Ids(base) => NoDup(log)
      /\ log[Len(log)] = NewMessage(w)
  BY <1>1, <1>2, AppendFacts, AppendProperties
<1>4. NoDup(log) /\ \A n \in Ids(log) : n \in Nat /\ n <= messages'
  BY <1>1, <1>2, <1>3 DEF Good
<1>5. ASSUME NEW old \in Seq(Message), Good(old)
      PROVE  Good(old)' /\ messages + 1 \notin Ids(old)
  BY <1>1, <1>5 DEF Good
<1>6. Good(file)' /\ \A old \in shadows' : Good(old)'
  BY <1>1, <1>5
<1> HIDE DEF log
<1>7. ASSUME NEW v \in Writer PROVE Good(manager[v].log)'
  <2>1. CASE v = w
    BY <1>4, <2>1 DEF Becomes, log, Good
  <2>2. CASE v # w
    <3>1. manager'[v] = manager[v]
      BY <2>2 DEF Becomes
    <3> QED
      BY <1>1, <1>5, <3>1 DEF Good
  <2> QED
    BY <2>1, <2>2
<1>8. Fresh(w)'
  <2>1. manager'[w].log = log
    BY DEF Becomes, log
  <2>2. manager'[w].log[Len(manager'[w].log)].id = messages + 1
    BY <1>2, <1>3, <2>1
  <2>3. messages + 1 \notin Ids(file) /\ \A old \in shadows : messages + 1 \notin Ids(old)
    BY <1>1, <1>5
  <2>4. \A v \in Writer \ {w} : messages + 1 \notin Ids(manager'[v].log)
    BY <1>1, <1>5 DEF Becomes
  <2> QED
    BY <2>2, <2>3, <2>4 DEF Fresh
<1>9. ASSUME NEW v \in Writer \ {w} PROVE Fresh(v)'
  <2> SUFFICES ASSUME manager[v].pc \in Writing,
                      Len(manager[v].log) = Len(manager[v].persisted) + 1,
                      NEW n, n = manager[v].log[Len(manager[v].log)].id
               PROVE  /\ n \notin Ids(file)
                      /\ \A u \in Writer \ {v} : n \notin Ids(manager'[u].log)
                      /\ \A old \in shadows : n \notin Ids(old)
    BY DEF Fresh, Becomes
  <2>1. /\ n \notin Ids(file)
        /\ \A u \in Writer \ {v} : n \notin Ids(manager[u].log)
        /\ \A old \in shadows : n \notin Ids(old)
    BY DEF Fresh
  <2>2. n # messages + 1
    <3>0. manager[v].log \in Seq(Message) /\ manager[v].persisted \in Seq(Message)
      BY DEF LogBasics, LogTypes, ManagerRecord
    <3>1. Len(manager[v].log) \in 1 .. Len(manager[v].log)
      BY <3>0, LenProperties
    <3>2. n \in Ids(manager[v].log)
      BY <1>1, <3>1, IdsOf
    <3> QED
      BY <1>1, <1>5, <3>2
  <2>3. ASSUME NEW u \in Writer \ {v} PROVE n \notin Ids(manager'[u].log)
    <3>1. CASE u = w
      <4>1. manager'[u].log = log
        BY <3>1 DEF Becomes, log
      <4> QED
        BY <1>3, <2>1, <2>2, <3>1, <4>1
    <3>2. CASE u # w
      BY <2>1, <3>2 DEF Becomes
    <3> QED
      BY <3>1, <3>2
  <2> QED
    BY <2>1, <2>3
<1> QED
  BY <1>6, <1>7, <1>8, <1>9

\* The lines that are appended are those of one message that is nowhere else.
LEMMA NoDupAppendLines ==
    ASSUME NoDupInv, LogBasics', NEW w \in Writer, AppendLines(w)
    PROVE  NoDupInv'
<1> USE DEF NoDupInv
<1>1. /\ file \in Seq(Message) /\ Shape(w) /\ manager[w].pc = "append"
      /\ manager[w].log \in Seq(Message) /\ manager[w].persisted \in Seq(Message)
      /\ file' = file \o Unwritten(manager[w])
      /\ messages' = messages /\ shadows' = shadows
  BY DEF LogBasics, LogTypes, ManagerRecord, AppendLines
<1>2. Becomes(w, "stat", manager[w].then, manager[w].log, manager[w].persisted)
  BY GotoEffect DEF LogBasics, AppendLines, WriterPc
<1>3. CASE Len(manager[w].log) = Len(manager[w].persisted)
  <2>1. file' = file
    <3>1. Unwritten(manager[w]) = <<>>
      BY <1>3, UnwrittenFacts DEF LogBasics, LogTypes
    <3> QED
      BY <1>1, <3>1, ConcatEmptySeq
  <2> QED
    BY <1>1, <1>2, <2>1, NothingNew DEF Writing
<1>4. CASE Len(manager[w].log) = Len(manager[w].persisted) + 1
  <2> DEFINE m == manager[w].log[Len(manager[w].log)]
  <2>1. Len(manager[w].log) \in 1 .. Len(manager[w].log) /\ m \in Message
    BY <1>1, <1>4
  <2>2. file' = Append(file, m)
    <3>1. Unwritten(manager[w]) = <<m>>
      BY <1>4, UnwrittenFacts DEF LogBasics, LogTypes
    <3> HIDE DEF m
    <3> QED
      BY <1>1, <2>1, <3>1, AppendIsConcat
  <2>3. m.id \in Ids(manager[w].log)
    BY <1>1, <2>1, IdsOf
  <2>4. /\ m.id \notin Ids(file)
        /\ \A v \in Writer \ {w} : m.id \notin Ids(manager[v].log)
        /\ \A old \in shadows : m.id \notin Ids(old)
    BY <1>1, <1>4 DEF Fresh, Writing
  <2> HIDE DEF m
  <2>5. Ids(file') = Ids(file) \cup {m.id} /\ NoDup(file')
    BY <1>1, <2>1, <2>2, <2>4, AppendFacts DEF Good
  <2>6. Good(file)' /\ \A old \in shadows' : Good(old)'
    BY <1>1, <2>3, <2>5 DEF Good
  <2>7. ASSUME NEW v \in Writer PROVE Good(manager[v].log)'
    <3>1. manager'[v].log = manager[v].log
      BY <1>2 DEF Becomes
    <3> QED
      BY <1>1, <3>1 DEF Good
  <2>8. Fresh(w)'
    BY <1>2 DEF Becomes, Fresh, Writing
  <2>9. ASSUME NEW v \in Writer \ {w} PROVE Fresh(v)'
    <3> SUFFICES ASSUME manager[v].pc \in Writing,
                        Len(manager[v].log) = Len(manager[v].persisted) + 1,
                        NEW n, n = manager[v].log[Len(manager[v].log)].id
                 PROVE  /\ n \notin Ids(file')
                        /\ \A u \in Writer \ {v} : n \notin Ids(manager'[u].log)
                        /\ \A old \in shadows' : n \notin Ids(old)
      BY <1>2 DEF Fresh, Becomes
    <3>1. /\ n \notin Ids(file)
          /\ \A u \in Writer \ {v} : n \notin Ids(manager[u].log)
          /\ \A old \in shadows : n \notin Ids(old)
      BY DEF Fresh
    <3>2. n # m.id
      BY <2>3, <3>1
    <3>3. \A u \in Writer : manager'[u].log = manager[u].log
      BY <1>2 DEF Becomes
    <3> QED
      BY <1>1, <2>5, <3>1, <3>2, <3>3
  <2> QED
    BY <2>6, <2>7, <2>8, <2>9
<1> QED
  BY <1>1, <1>3, <1>4 DEF Shape, Writing

\* A patch changes no number.
LEMMA NoDupPatches ==
    ASSUME NoDupInv, LogBasics', NEW t \in ToolWriter, t \in Writer, NEW i,
           ToolPatches(t, i)
    PROVE  NoDupInv'
<1> USE DEF NoDupInv
<1>1. /\ LogTypes /\ file \in Seq(Message) /\ UNCHANGED <<file, shadows, messages>>
  BY DEF LogBasics, LogTypes, ToolPatches
<1>2. /\ i \in 1 .. Len(file)
      /\ Becomes(t, "check", "unlock", Timed(file, i), file)
  BY <1>1, ToolPatchesEffect
<1>3. /\ Ids(Timed(file, i)) = Ids(file) /\ (NoDup(file) => NoDup(Timed(file, i)))
      /\ Len(Timed(file, i)) = Len(file)
  BY <1>1, <1>2, TimedFacts, TimedType
<1>4. Good(Timed(file, i))
  BY <1>3 DEF Good
<1>5. \A v \in Writer : Good(manager'[v].log)
  BY <1>2, <1>4 DEF Becomes
<1>6. Fresh(t)'
  BY <1>1, <1>2, <1>3 DEF Becomes, Fresh
<1>7. \A v \in Writer \ {t} : Fresh(v)'
  BY <1>1, <1>2, <1>3 DEF Becomes, Fresh
<1> QED
  BY <1>1, <1>5, <1>6, <1>7 DEF Good

LEMMA NoDupStep ==
    ASSUME NoDupInv, LogStep
    PROVE  NoDupInv'
<1>0. /\ LogBasics /\ LogBasics' /\ LogTypes /\ file \in Seq(Message)
      /\ StepWriter \subseteq Writer /\ ToolWriter \subseteq Writer
  BY BasicsStep DEF NoDupInv, LogBasics, LogTypes, Writer
<1>1. ASSUME NEW s \in StepWriter, StepNext(s)
      PROVE  NoDupInv'
  <2>0. s \in Writer /\ Shape(s)
    BY <1>0 DEF LogBasics
  <2>1. CASE StepLoads(s)
    <3>1. Becomes(s, "ready", "ready", file, file)
      BY <1>0, <2>1, StepLoadsEffect
    <3> QED
      BY <1>0, <2>0, <2>1, <3>1, NothingNew DEF StepLoads, Writing
  <2>2. CASE StepAppends(s)
    <3>1. Becomes(s, "check", "announce", Append(manager[s].log, NewMessage(s)),
                  manager[s].persisted)
      BY <1>0, <2>2, StepAppendsEffect
    <3> QED
      BY <1>0, <2>0, <2>2, <3>1, OneNew DEF StepAppends
  <2>3. CASE StepSyncs(s)
    <3>1. Becomes(s, "check", "fsync", manager[s].log, manager[s].persisted)
      BY <1>0, <2>3, StepSyncsEffect
    <3>2. Len(manager[s].log) = Len(manager[s].persisted)
      BY <2>0, <2>3 DEF StepSyncs, Shape
    <3> QED
      BY <1>0, <2>0, <2>3, <3>1, <3>2, NothingNew DEF StepSyncs
  <2>4. CASE SyncFile(s)
    <3>1. Becomes(s, "dirsync", manager[s].then, manager[s].log, manager[s].persisted)
      BY <1>0, <2>0, <2>4, GotoEffect DEF SyncFile, WriterPc
    <3> QED
      BY <1>0, <2>0, <2>4, <3>1, NothingNew DEF SyncFile, Writing
  <2>5. CASE SyncDirectories(s)
    <3>1. Becomes(s, "complete", "idle", <<>>, <<>>)
      BY <1>0, <2>0, <2>5, LeaveEffect DEF SyncDirectories, WriterPc
    <3> QED
      BY <1>0, <2>0, <2>5, <3>1, NothingNew DEF SyncDirectories, Writing
  <2> QED
    BY <1>1, <2>1, <2>2, <2>3, <2>4, <2>5 DEF StepNext
<1>2. ASSUME NEW t \in ToolWriter, ToolNext(t)
      PROVE  NoDupInv'
  <2>0. t \in Writer
    BY <1>0
  <2>1. CASE ToolAppends(t)
    <3>1. Becomes(t, "check", "announce", Append(file, NewMessage(t)), file)
      BY <1>0, <2>1, ToolAppendsEffect
    <3> QED
      BY <1>0, <2>0, <2>1, <3>1, OneNew DEF ToolAppends
  <2>2. ASSUME NEW i, ToolPatches(t, i)
        PROVE  NoDupInv'
    BY <1>0, <2>0, <2>2, NoDupPatches
  <2>3. CASE ToolEnds(t)
    <3>1. Becomes(t, "idle", "idle", <<>>, <<>>)
      BY <1>0, <2>0, <2>3, LeaveEffect DEF ToolEnds, WriterPc
    <3> QED
      BY <1>0, <2>0, <2>3, <3>1, NothingNew DEF ToolEnds, Writing
  <2>4. CASE Unlock(t)
    <3>1. PICK pc \in {"idle", "patch"} : Leave(t, pc)
      BY <2>4 DEF Unlock
    <3>2. Becomes(t, pc, "idle", <<>>, <<>>)
      BY <1>0, <2>0, <3>1, LeaveEffect DEF WriterPc
    <3> QED
      BY <1>0, <2>0, <2>4, <3>2, NothingNew DEF Unlock, Writing
  <2> QED
    BY <1>2, <2>1, <2>2, <2>3, <2>4 DEF ToolNext
<1>3. ASSUME NEW w \in Writer, WriteNext(w)
      PROVE  NoDupInv'
  <2>1. CASE Check(w)
    <3>1. PICK pc \in {"append", "replace"} : Goto(w, pc)
      BY <2>1 DEF Check
    <3>2. Becomes(w, pc, manager[w].then, manager[w].log, manager[w].persisted)
      BY <1>0, <3>1, GotoEffect DEF WriterPc
    <3> QED
      BY <1>0, <2>1, <3>2, NothingNew DEF Check, Writing
  <2>2. CASE AppendLines(w)
    BY <1>0, <2>2, NoDupAppendLines
  <2>3. CASE ReplaceFile(w)
    <3>1. Becomes(w, "namesync", manager[w].then, manager[w].log, manager[w].persisted)
      BY <1>0, <2>3, GotoEffect DEF ReplaceFile, WriterPc
    <3> QED
      BY <1>0, <2>3, <3>1, NothingNew DEF ReplaceFile, Writing
  <2>4. CASE SyncName(w)
    <3>1. Becomes(w, "stat", manager[w].then, manager[w].log, manager[w].persisted)
      BY <1>0, <2>4, GotoEffect DEF SyncName, WriterPc
    <3> QED
      BY <1>0, <2>4, <3>1, NothingNew DEF SyncName, Writing
  <2>5. CASE Stat(w)
    <3>1. Becomes(w, manager[w].then, manager[w].then, manager[w].log, manager[w].log)
      BY <1>0, <2>5, StatEffect
    <3>2. manager[w].then \notin Writing
      BY <1>0, <2>5 DEF LogBasics, Place, Stat, Written, Writing, Writer
    <3> QED
      BY <1>0, <2>5, <3>1, <3>2, NothingNew DEF Stat
  <2> QED
    BY <1>3, <2>1, <2>2, <2>3, <2>4, <2>5 DEF WriteNext
<1>4. ASSUME NEW w \in Writer, Announces(w) \/ Announced(w)
      PROVE  NoDupInv'
  <2>1. PICK pc \in WriterPc \ Writing : Goto(w, pc)
    BY <1>4 DEF Announces, Announced, WriterPc, Writing
  <2>2. Becomes(w, pc, manager[w].then, manager[w].log, manager[w].persisted)
    BY <1>0, <2>1, GotoEffect
  <2> QED
    BY <1>0, <1>4, <2>1, <2>2, NothingNew DEF Announces, Announced
<1>5. ASSUME NEW left \in AfterCrash, NEW part \in BOOLEAN, Crash(left, part)
      PROVE  NoDupInv'
  <2>1. Good(left)
    <3>1. CASE left \in shadows
      BY <3>1 DEF NoDupInv
    <3>2. CASE left \notin shadows
      <4>1. PICK k \in 0 .. Len(file) : left = SubSeq(file, 1, k)
        BY <1>0, <3>2 DEF AfterCrash, LogTypes
      <4>2. Ids(left) = {file[i].id : i \in 1 .. k} /\ (NoDup(file) => NoDup(left))
        BY <1>0, <4>1, PrefixFacts
      <4>3. \A i \in 1 .. k : file[i].id \in Ids(file)
        BY <1>0, IdsOf
      <4> QED
        BY <4>2, <4>3 DEF Good, NoDupInv
    <3> QED
      BY <3>1, <3>2
  <2>2. /\ file' = left /\ shadows' = {} /\ messages' = messages
        /\ \A w \in Writer : manager'[w].log = <<>> /\ manager'[w].pc = "idle"
    BY <1>5 DEF Crash, NoManager
  <2>3. Good(<<>>)
    BY <1>0, EmptyGood
  <2> QED
    BY <1>0, <2>1, <2>2, <2>3 DEF NoDupInv, Fresh, Writing, Good
<1>6. CASE UNCHANGED logVars
  BY <1>0, <1>6 DEF logVars, NoDupInv, Fresh, Good
<1> QED
  BY <1>1, <1>2, <1>3, <1>4, <1>5, <1>6 DEF LogStep

LEMMA NoDupInvNoDuplicateLine == NoDupInv => NoDuplicateLine
  BY DEF NoDupInv, LogBasics, LogTypes, Good, NoDup, NoDuplicateLine

-----------------------------------------------------------------------------
(* Writers with the lock keep each other's messages.                       *)

\* A step replaced the file and did not know message n.
Lost(n) == \E p \in overwritten : p.id = n /\ p.from \in StepWriter

\* log has all messages of tools that are in the file.
Knows(log) == \A k \in Keys(file) :
    k.by \in ToolWriter => k \in Keys(log) \/ Lost(k.id)

\* The file has all messages of tools that are in log.
Known(log) == \A k \in Keys(log) :
    k.by \in ToolWriter => k \in Keys(file) \/ Lost(k.id)

LockedInv ==
    /\ LogBasics
    /\ LockedWritersKeepEachOther
    /\ \A t \in ToolWriter : manager[t].pc \in Writing => Knows(manager[t].log)
    /\ \A s \in StepWriter : Known(manager[s].log)

LEMMA EmptyKeys == Keys(<<>>) = {}
  BY DEF Keys, ToSet

LEMMA LockedInit == LogInit => LockedInv
<1> SUFFICES ASSUME LogInit PROVE LockedInv
  OBVIOUS
<1>1. LogBasics
  BY LogInitBasics
<1>2. /\ overwritten = {}
      /\ \A w \in Writer : manager[w].log = <<>> /\ manager[w].pc = "idle"
  BY DEF LogInit, NoManager
<1> QED
  BY <1>1, <1>2, EmptyKeys
  DEF LockedInv, LockedWritersKeepEachOther, Known, Writing, Writer

\* The file stays: a step gets no message of a tool that is not in it, and a tool
\* begins to write with all of them.
LEMMA LockedFileStays ==
    ASSUME LockedInv, LogBasics', UNCHANGED <<file, overwritten>>,
           NEW w \in Writer, NEW pc, NEW then, NEW log, NEW persisted,
           Becomes(w, pc, then, log, persisted),
           w \in StepWriter => Known(log),
           w \in ToolWriter /\ pc \in Writing => Knows(log)
    PROVE  LockedInv'
<1> USE DEF LockedInv
<1>0. /\ StepWriter \subseteq Writer /\ ToolWriter \subseteq Writer
      /\ \A s \in StepWriter : s \notin ToolWriter
  BY LogAssumption DEF Writer
<1>1. LockedWritersKeepEachOther'
  BY DEF LockedWritersKeepEachOther
<1>2. ASSUME NEW t \in ToolWriter, manager'[t].pc \in Writing
      PROVE  Knows(manager'[t].log)
  <2>1. CASE t = w
    BY <1>0, <1>2, <2>1 DEF Becomes
  <2>2. CASE t # w
    BY <1>0, <1>2, <2>2 DEF Becomes
  <2> QED
    BY <2>1, <2>2
<1>3. ASSUME NEW s \in StepWriter
      PROVE  Known(manager'[s].log)
  <2>1. CASE s = w
    BY <1>0, <2>1 DEF Becomes
  <2>2. CASE s # w
    BY <1>0, <2>2 DEF Becomes
  <2> QED
    BY <2>1, <2>2
<1> QED
  BY <1>1, <1>2, <1>3 DEF Knows, Known, Lost

\* What a step appends to the file is its own message; no tool writes meanwhile
\* but the one with the lock.
LEMMA LockedAppendLines ==
    ASSUME LockedInv, LogBasics', NEW w \in Writer, AppendLines(w)
    PROVE  LockedInv'
<1> USE DEF LockedInv, Knows, Known
<1>0. /\ StepWriter \subseteq Writer /\ ToolWriter \subseteq Writer
      /\ \A s \in StepWriter : s \notin ToolWriter
  BY LogAssumption DEF Writer
<1>1. /\ file \in Seq(Message) /\ Shape(w) /\ Place(w) /\ manager[w].pc = "append"
      /\ manager[w].log \in Seq(Message) /\ manager[w] \in ManagerRecord
      /\ file' = file \o Unwritten(manager[w]) /\ overwritten' = overwritten
  BY DEF LogBasics, LogTypes, ManagerRecord, AppendLines
<1>2. Becomes(w, "stat", manager[w].then, manager[w].log, manager[w].persisted)
  BY GotoEffect DEF LogBasics, AppendLines, WriterPc
<1>3. /\ Keys(file) \subseteq Keys(file')
      /\ \A k \in Keys(file') : k \in Keys(file) \/ k.by = w
  <2>1. CASE Len(manager[w].log) = Len(manager[w].persisted)
    <3>1. Unwritten(manager[w]) = <<>>
      BY <1>1, <2>1, UnwrittenFacts
    <3>2. file' = file
      BY <1>1, <3>1, ConcatEmptySeq
    <3> QED
      BY <3>2
  <2>2. CASE /\ Len(manager[w].log) = Len(manager[w].persisted) + 1
             /\ manager[w].log[Len(manager[w].log)].by = w
    <3> DEFINE m == manager[w].log[Len(manager[w].log)]
    <3>1. Len(manager[w].persisted) \in Nat
      BY <1>1 DEF ManagerRecord
    <3>2. m \in Message /\ m.by = w
      BY <1>1, <2>2, <3>1
    <3>3. Unwritten(manager[w]) = <<m>>
      BY <1>1, <2>2, UnwrittenFacts
    <3> HIDE DEF m
    <3>4. file' = Append(file, m)
      BY <1>1, <3>2, <3>3, AppendIsConcat
    <3>5. Keys(file') = Keys(file) \cup {[id |-> m.id, by |-> m.by]}
      BY <1>1, <3>2, <3>4, AppendFacts
    <3> QED
      BY <3>2, <3>5
  <2> QED
    BY <1>1, <2>1, <2>2 DEF Shape, Writing
<1>4. ASSUME NEW t \in ToolWriter, manager'[t].pc \in Writing
      PROVE  t # w /\ manager'[t] = manager[t] /\ w \notin ToolWriter
  <2>1. t # w /\ manager'[t] = manager[t]
    BY <1>0, <1>2, <1>4 DEF Becomes, Writing
  <2>2. lock = t
    BY <1>0, <1>4, <2>1 DEF LogBasics, Place, Writing
  <2> QED
    BY <1>1, <2>1, <2>2 DEF Place
<1>5. ASSUME NEW t \in ToolWriter, manager'[t].pc \in Writing, NEW k \in Keys(file'),
             k.by \in ToolWriter
      PROVE  k \in Keys(manager'[t].log) \/ Lost(k.id)
  BY <1>3, <1>4, <1>5
<1>6. ASSUME NEW s \in StepWriter, NEW k \in Keys(manager'[s].log), k.by \in ToolWriter
      PROVE  k \in Keys(file') \/ Lost(k.id)
  <2>1. manager'[s].log = manager[s].log
    BY <1>0, <1>2 DEF Becomes
  <2> QED
    BY <1>3, <1>6, <2>1
<1> QED
  BY <1>1, <1>5, <1>6 DEF Lost, LockedWritersKeepEachOther

\* What a step does not know is noted as lost; a tool knows what tools wrote.
LEMMA LockedReplaceFile ==
    ASSUME LockedInv, LogBasics', NEW w \in Writer, ReplaceFile(w)
    PROVE  LockedInv'
<1> USE DEF LockedInv, Knows, Known
<1>0. /\ StepWriter \subseteq Writer /\ ToolWriter \subseteq Writer
      /\ \A s \in StepWriter : s \notin ToolWriter
  BY LogAssumption DEF Writer
<1>1. /\ file \in Seq(Message) /\ Place(w) /\ manager[w].pc = "replace"
      /\ file' = manager[w].log /\ overwritten' = overwritten \cup Dropped(w)
  BY DEF LogBasics, LogTypes, ReplaceFile
<1>2. Becomes(w, "namesync", manager[w].then, manager[w].log, manager[w].persisted)
  BY GotoEffect DEF LogBasics, ReplaceFile, WriterPc
<1>3. \A n : Lost(n) => Lost(n)'
  BY <1>1 DEF Lost
<1>4. ASSUME NEW k \in Keys(file), k.by \in ToolWriter, k \notin Keys(manager[w].log)
      PROVE  Lost(k.id)'
  <2>1. CASE w \in StepWriter
    <3> DEFINE o == [id |-> k.id, by |-> k.by, from |-> w]
    <3>1. o \in overwritten'
      BY <1>1, <1>4 DEF Dropped
    <3>2. o.id = k.id /\ o.from \in StepWriter
      BY <2>1
    <3> HIDE DEF o
    <3> QED
      BY <3>1, <3>2 DEF Lost
  <2>2. CASE w \in ToolWriter
    BY <1>1, <1>3, <1>4, <2>2 DEF Writing
  <2> QED
    BY <2>1, <2>2 DEF Writer
<1>5. ASSUME NEW o \in overwritten'
      PROVE  o.by \in StepWriter \/ Lost(o.id)'
  <2>1. CASE o \in overwritten
    BY <1>3, <2>1 DEF LockedWritersKeepEachOther, Lost
  <2>2. CASE o \in Dropped(w)
    <3>1. PICK k \in Keys(file) \ Keys(manager[w].log) :
             o = [id |-> k.id, by |-> k.by, from |-> w]
      BY <2>2 DEF Dropped
    <3>2. k.by \in Writer
      <4>1. PICK i \in 1 .. Len(file) : k = [id |-> file[i].id, by |-> file[i].by]
        BY <1>1, KeysOf
      <4>2. file[i] \in Message
        BY <1>1
      <4> QED
        BY <4>1, <4>2 DEF Message
    <3> QED
      BY <1>4, <3>1, <3>2 DEF Writer
  <2> QED
    BY <1>1, <2>1, <2>2
<1>6. ASSUME NEW t \in ToolWriter, manager'[t].pc \in Writing, NEW k \in Keys(file'),
             k.by \in ToolWriter
      PROVE  k \in Keys(manager'[t].log) \/ Lost(k.id)'
  <2>1. t # w /\ manager'[t] = manager[t]
    BY <1>0, <1>2, <1>6 DEF Becomes, Writing
  <2>2. lock = t
    BY <1>0, <1>6, <2>1 DEF LogBasics, Place, Writing
  <2>3. w \in StepWriter
    BY <1>1, <2>1, <2>2 DEF Place, Writer
  <2>4. k \in Keys(file) \/ Lost(k.id)
    BY <1>1, <1>6, <2>3
  <2> QED
    BY <1>3, <1>6, <2>1, <2>4
<1>7. ASSUME NEW s \in StepWriter, NEW k \in Keys(manager'[s].log), k.by \in ToolWriter
      PROVE  k \in Keys(file') \/ Lost(k.id)'
  <2>1. manager'[s].log = manager[s].log
    BY <1>0, <1>2 DEF Becomes
  <2>2. k \in Keys(file) \/ Lost(k.id)
    BY <1>7, <2>1
  <2> QED
    BY <1>1, <1>3, <1>4, <1>7, <2>2
<1>8. LockedWritersKeepEachOther'
  BY <1>5 DEF LockedWritersKeepEachOther, Lost
<1> QED
  BY <1>6, <1>7, <1>8

LEMMA LockedStep ==
    ASSUME LockedInv, LogStep
    PROVE  LockedInv'
<1>0. /\ LogBasics /\ LogBasics' /\ LogTypes /\ file \in Seq(Message)
      /\ StepWriter \subseteq Writer /\ ToolWriter \subseteq Writer
      /\ \A s \in StepWriter : s \notin ToolWriter
      /\ \A w \in Writer : manager[w].log \in Seq(Message)
  BY BasicsStep, LogAssumption
  DEF LockedInv, LogBasics, LogTypes, ManagerRecord, Writer
<1>1. ASSUME NEW s \in StepWriter, StepNext(s)
      PROVE  LockedInv'
  <2>0. s \in Writer /\ s \notin ToolWriter /\ Known(manager[s].log)
    BY <1>0 DEF LockedInv
  <2>1. CASE StepLoads(s)
    <3>1. Becomes(s, "ready", "ready", file, file)
      BY <1>0, <2>1, StepLoadsEffect
    <3>2. Known(file)
      BY DEF Known
    <3> QED
      BY <1>0, <2>0, <2>1, <3>1, <3>2, LockedFileStays DEF StepLoads
  <2>2. CASE StepAppends(s)
    <3> DEFINE log == Append(manager[s].log, NewMessage(s))
    <3>1. Becomes(s, "check", "announce", log, manager[s].persisted)
      BY <1>0, <2>2, StepAppendsEffect
    <3>2. NewMessage(s) \in Message /\ NewMessage(s).by = s
      BY <1>0, <2>0, <2>2, NewMessageType DEF StepAppends, NewMessage
    <3>3. Keys(log) = Keys(manager[s].log) \cup {[id |-> NewMessage(s).id, by |-> s]}
      BY <1>0, <2>0, <3>2, AppendFacts
    <3>4. Known(log)
      BY <2>0, <3>3 DEF Known
    <3> HIDE DEF log
    <3> QED
      BY <1>0, <2>0, <2>2, <3>1, <3>4, LockedFileStays DEF StepAppends
  <2>3. CASE StepSyncs(s)
    <3>1. Becomes(s, "check", "fsync", manager[s].log, manager[s].persisted)
      BY <1>0, <2>3, StepSyncsEffect
    <3> QED
      BY <1>0, <2>0, <2>3, <3>1, LockedFileStays DEF StepSyncs
  <2>4. CASE SyncFile(s)
    <3>1. Becomes(s, "dirsync", manager[s].then, manager[s].log, manager[s].persisted)
      BY <1>0, <2>0, <2>4, GotoEffect DEF SyncFile, WriterPc
    <3> QED
      BY <1>0, <2>0, <2>4, <3>1, LockedFileStays DEF SyncFile
  <2>5. CASE SyncDirectories(s)
    <3>1. Becomes(s, "complete", "idle", <<>>, <<>>)
      BY <1>0, <2>0, <2>5, LeaveEffect DEF SyncDirectories, WriterPc
    <3>2. Known(<<>>)
      BY EmptyKeys DEF Known
    <3> QED
      BY <1>0, <2>0, <2>5, <3>1, <3>2, LockedFileStays DEF SyncDirectories
  <2> QED
    BY <1>1, <2>1, <2>2, <2>3, <2>4, <2>5 DEF StepNext
<1>2. ASSUME NEW t \in ToolWriter, ToolNext(t)
      PROVE  LockedInv'
  <2>0. t \in Writer /\ t \notin StepWriter
    BY <1>0
  <2>1. CASE ToolAppends(t)
    <3> DEFINE log == Append(file, NewMessage(t))
    <3>1. Becomes(t, "check", "announce", log, file)
      BY <1>0, <2>1, ToolAppendsEffect
    <3>2. NewMessage(t) \in Message
      BY <1>0, <2>0, <2>1, NewMessageType DEF ToolAppends
    <3>3. Knows(log)
      BY <1>0, <3>2, AppendFacts DEF Knows
    <3> HIDE DEF log
    <3> QED
      BY <1>0, <2>0, <2>1, <3>1, <3>3, LockedFileStays DEF ToolAppends
  <2>2. ASSUME NEW i, ToolPatches(t, i)
        PROVE  LockedInv'
    <3>1. /\ i \in 1 .. Len(file)
          /\ Becomes(t, "check", "unlock", Timed(file, i), file)
      BY <1>0, <2>2, ToolPatchesEffect
    <3>2. Knows(Timed(file, i))
      BY <1>0, <3>1, TimedFacts DEF Knows
    <3> QED
      BY <1>0, <2>0, <2>2, <3>1, <3>2, LockedFileStays DEF ToolPatches
  <2>3. CASE ToolEnds(t)
    <3>1. Becomes(t, "idle", "idle", <<>>, <<>>)
      BY <1>0, <2>0, <2>3, LeaveEffect DEF ToolEnds, WriterPc
    <3> QED
      BY <1>0, <2>0, <2>3, <3>1, LockedFileStays DEF ToolEnds, Writing
  <2>4. CASE Unlock(t)
    <3>1. PICK pc \in {"idle", "patch"} : Leave(t, pc)
      BY <2>4 DEF Unlock
    <3>2. Becomes(t, pc, "idle", <<>>, <<>>)
      BY <1>0, <2>0, <3>1, LeaveEffect DEF WriterPc
    <3> QED
      BY <1>0, <2>0, <2>4, <3>2, LockedFileStays DEF Unlock, Writing
  <2> QED
    BY <1>2, <2>1, <2>2, <2>3, <2>4 DEF ToolNext
<1>3. ASSUME NEW w \in Writer, WriteNext(w)
      PROVE  LockedInv'
  <2>0. /\ w \in StepWriter => Known(manager[w].log)
        /\ w \in ToolWriter /\ manager[w].pc \in Writing => Knows(manager[w].log)
    BY DEF LockedInv
  <2>1. CASE Check(w)
    <3>1. PICK pc \in {"append", "replace"} : Goto(w, pc)
      BY <2>1 DEF Check
    <3>2. Becomes(w, pc, manager[w].then, manager[w].log, manager[w].persisted)
      BY <1>0, <3>1, GotoEffect DEF WriterPc
    <3> QED
      BY <1>0, <2>0, <2>1, <3>2, LockedFileStays DEF Check, Writing
  <2>2. CASE AppendLines(w)
    BY <1>0, <2>2, LockedAppendLines
  <2>3. CASE ReplaceFile(w)
    BY <1>0, <2>3, LockedReplaceFile
  <2>4. CASE SyncName(w)
    <3>1. Becomes(w, "stat", manager[w].then, manager[w].log, manager[w].persisted)
      BY <1>0, <2>4, GotoEffect DEF SyncName, WriterPc
    <3> QED
      BY <1>0, <2>0, <2>4, <3>1, LockedFileStays DEF SyncName, Writing
  <2>5. CASE Stat(w)
    <3>1. Becomes(w, manager[w].then, manager[w].then, manager[w].log, manager[w].log)
      BY <1>0, <2>5, StatEffect
    <3>2. manager[w].then \notin Writing
      BY <1>0, <2>5 DEF LogBasics, Place, Stat, Written, Writing, Writer
    <3> QED
      BY <1>0, <2>0, <2>5, <3>1, <3>2, LockedFileStays DEF Stat
  <2> QED
    BY <1>3, <2>1, <2>2, <2>3, <2>4, <2>5 DEF WriteNext
<1>4. ASSUME NEW w \in Writer, Announces(w) \/ Announced(w)
      PROVE  LockedInv'
  <2>1. PICK pc \in WriterPc \ Writing : Goto(w, pc)
    BY <1>4 DEF Announces, Announced, WriterPc, Writing
  <2>2. Becomes(w, pc, manager[w].then, manager[w].log, manager[w].persisted)
    BY <1>0, <2>1, GotoEffect
  <2>3. w \in StepWriter => Known(manager[w].log)
    BY DEF LockedInv
  <2> QED
    BY <1>0, <1>4, <2>1, <2>2, <2>3, LockedFileStays DEF Announces, Announced
<1>5. ASSUME NEW left \in AfterCrash, NEW part \in BOOLEAN, Crash(left, part)
      PROVE  LockedInv'
  <2>1. /\ overwritten' = overwritten
        /\ \A w \in Writer : manager'[w].log = <<>> /\ manager'[w].pc = "idle"
    BY <1>5 DEF Crash, NoManager
  <2>2. LockedWritersKeepEachOther'
    BY <2>1 DEF LockedInv, LockedWritersKeepEachOther
  <2> QED
    BY <1>0, <2>1, <2>2, EmptyKeys DEF LockedInv, Known, Writing
<1>6. CASE UNCHANGED logVars
  BY <1>0, <1>6 DEF logVars, LockedInv, LockedWritersKeepEachOther, Knows, Known,
                       Lost
<1> QED
  BY <1>1, <1>2, <1>3, <1>4, <1>5, <1>6 DEF LogStep

-----------------------------------------------------------------------------
(* What was acknowledged survives.                                         *)

\* A manager that did not know message n replaced the file.
Over(n) == \E o \in overwritten : o.id = n

\* The messages that no crash takes from the file.
Synced == {file[i].id : i \in 1 .. durable}

InFile(log) == \A n \in Ids(log) : n \in Ids(file) \/ Over(n)
InSynced(log) == \A n \in Ids(log) : n \in Synced \/ Over(n)

\* Where all of the manager's log is in the file.
Done == {"namesync", "stat", "fsync", "dirsync"}

AckedInv ==
    /\ LogBasics
    /\ \A n \in acked : \/ Over(n)
                        \/ n \in Synced /\ \A old \in shadows : n \in Ids(old)
    /\ \A w \in Writer :
          /\ InFile(manager[w].persisted)
          /\ manager[w].pc \in Done => InFile(manager[w].log)
          /\ manager[w].pc = "dirsync" => InSynced(manager[w].log)

LEMMA EmptyIds == Ids(<<>>) = {}
  BY DEF Ids, ToSet

LEMMA AckedInit == LogInit => AckedInv
<1> SUFFICES ASSUME LogInit PROVE AckedInv
  OBVIOUS
<1>1. LogBasics
  BY LogInitBasics
<1>2. /\ acked = {}
      /\ \A w \in Writer : manager[w].persisted = <<>> /\ manager[w].pc = "idle"
  BY DEF LogInit, NoManager
<1> QED
  BY <1>1, <1>2, EmptyIds DEF AckedInv, InFile, Done

LEMMA FirstIds ==
    ASSUME NEW log \in Seq(Message), NEW k \in 0 .. Len(log)
    PROVE  /\ {log[i].id : i \in 1 .. k} \subseteq Ids(log)
           /\ {log[i].id : i \in 1 .. k} = Ids(SubSeq(log, 1, k))
           /\ k = Len(log) => {log[i].id : i \in 1 .. k} = Ids(log)
<1> DEFINE first == {log[i].id : i \in 1 .. k}
<1>1. first \subseteq Ids(log)
  BY IdsOf
<1>2. first = Ids(SubSeq(log, 1, k))
  BY PrefixFacts
<1>3. ASSUME k = Len(log), NEW n \in Ids(log)
      PROVE  n \in first
  <2>1. PICK i \in 1 .. Len(log) : log[i].id = n
    BY IdsOf
  <2> QED
    BY <1>3, <2>1
<1> QED
  BY <1>1, <1>2, <1>3

LEMMA SyncedFacts ==
    ASSUME LogTypes
    PROVE  /\ Synced \subseteq Ids(file)
           /\ Synced = Ids(SubSeq(file, 1, durable))
  BY FirstIds DEF LogTypes, Synced

\* After a step that syncs the file.
LEMMA AllSynced ==
    ASSUME LogTypes', durable' = Len(file')
    PROVE  Synced' = Ids(file')
<1>1. file' \in Seq(Message) /\ durable' \in 0 .. Len(file')
  BY DEF LogTypes
<1> QED
  BY <1>1, FirstIds DEF Synced

\* The file stays and nothing is acknowledged: only the logs of w change.
LEMMA AckedFileStays ==
    ASSUME AckedInv, LogBasics', UNCHANGED <<file, durable, overwritten, acked>>,
           shadows' \subseteq shadows,
           NEW w \in Writer, NEW pc, NEW then, NEW log, NEW persisted,
           Becomes(w, pc, then, log, persisted),
           InFile(persisted), pc \in Done => InFile(log), pc # "dirsync"
    PROVE  AckedInv'
<1> USE DEF AckedInv
<1>1. ASSUME NEW v \in Writer
      PROVE  /\ InFile(manager'[v].persisted)
             /\ manager'[v].pc \in Done => InFile(manager'[v].log)
             /\ manager'[v].pc = "dirsync" => InSynced(manager'[v].log)
  <2>1. CASE v = w
    BY <2>1 DEF Becomes
  <2>2. CASE v # w
    BY <2>2 DEF Becomes
  <2> QED
    BY <2>1, <2>2
<1> QED
  BY <1>1 DEF InFile, InSynced, Synced, Over

\* The file gets longer: its synced part stays.
LEMMA AckedAppendLines ==
    ASSUME AckedInv, LogBasics', NEW w \in Writer, AppendLines(w)
    PROVE  AckedInv'
<1> USE DEF AckedInv
<1>1. /\ file \in Seq(Message) /\ Shape(w) /\ manager[w].pc = "append"
      /\ manager[w].log \in Seq(Message) /\ manager[w].persisted \in Seq(Message)
      /\ manager[w] \in ManagerRecord /\ durable \in 0 .. Len(file)
      /\ file' = file \o Unwritten(manager[w])
      /\ UNCHANGED <<durable, shadows, acked, overwritten>>
  BY DEF LogBasics, LogTypes, ManagerRecord, AppendLines
<1>2. Becomes(w, "stat", manager[w].then, manager[w].log, manager[w].persisted)
  BY GotoEffect DEF LogBasics, AppendLines, WriterPc
<1>3. Unwritten(manager[w]) \in Seq(Message)
  BY <1>1, UnwrittenFacts DEF Shape, Writing
<1>4. /\ file' \in Seq(Message)
      /\ Len(file') = Len(file) + Len(Unwritten(manager[w]))
      /\ \A i \in 1 .. Len(file) : file'[i] = file[i]
      /\ \A i \in 1 .. Len(Unwritten(manager[w])) :
            file'[Len(file) + i] = Unwritten(manager[w])[i]
  BY <1>1, <1>3, ConcatProperties
<1>5. Ids(file) \subseteq Ids(file')
  <2>1. ASSUME NEW n \in Ids(file) PROVE n \in Ids(file')
    <3>1. PICK i \in 1 .. Len(file) : file[i].id = n
      BY <1>1, IdsOf
    <3>2. i \in 1 .. Len(file') /\ file'[i].id = n
      BY <1>3, <1>4, <3>1
    <3> QED
      BY <1>4, <3>2, IdsOf
  <2> QED
    BY <2>1
<1>6. Synced' = Synced
  BY <1>1, <1>4 DEF Synced
<1>7. ASSUME NEW n \in Ids(manager[w].log)
      PROVE  n \in Ids(file') \/ Over(n)
  <2>1. PICK i \in 1 .. Len(manager[w].log) : manager[w].log[i].id = n
    BY <1>1, IdsOf
  <2>2. CASE i <= Len(manager[w].persisted)
    <3>1. IsPrefix(manager[w].persisted, manager[w].log)
      BY <1>1 DEF Shape
    <3>2. manager[w].persisted[i] = manager[w].log[i]
      <4> DEFINE k == Len(manager[w].persisted)
      <4>1. /\ k \in 0 .. Len(manager[w].log) /\ k \in 0 .. Len(manager[w].persisted)
            /\ SubSeq(manager[w].persisted, 1, k) = SubSeq(manager[w].log, 1, k)
        BY <1>1, <3>1 DEF IsPrefix
      <4>2. /\ \A j \in 1 .. k : SubSeq(manager[w].persisted, 1, k)[j]
                                   = manager[w].persisted[j]
            /\ \A j \in 1 .. k : SubSeq(manager[w].log, 1, k)[j] = manager[w].log[j]
        BY <1>1, <4>1, PrefixFacts
      <4>3. i \in 1 .. k
        BY <1>1, <2>2
      <4> HIDE DEF k
      <4> QED
        BY <4>1, <4>2, <4>3
    <3>3. i \in 1 .. Len(manager[w].persisted)
      BY <1>1, <2>2
    <3>4. n \in Ids(manager[w].persisted)
      BY <1>1, <2>1, <3>2, <3>3, IdsOf
    <3> QED
      BY <1>5, <3>4 DEF InFile
  <2>3. CASE i > Len(manager[w].persisted)
    <3>1. /\ Len(manager[w].log) = Len(manager[w].persisted) + 1
          /\ i = Len(manager[w].log)
      BY <1>1, <2>1, <2>3 DEF Shape, Writing
    <3>2. Unwritten(manager[w]) = <<manager[w].log[i]>>
      BY <1>1, <3>1, UnwrittenFacts
    <3>3. Len(file) + 1 \in 1 .. Len(file') /\ file'[Len(file) + 1] = manager[w].log[i]
      BY <1>1, <1>4, <3>2
    <3> QED
      BY <1>4, <2>1, <3>3, IdsOf
  <2> QED
    BY <1>1, <2>2, <2>3
<1>8. \A n : Over(n)' <=> Over(n)
  BY <1>1 DEF Over
<1>9. ASSUME NEW v \in Writer
      PROVE  /\ InFile(manager[v].persisted)'
             /\ manager'[v].pc \in Done => InFile(manager[v].log)'
             /\ manager'[v].pc = "dirsync" => InSynced(manager[v].log)'
  <2>1. /\ manager'[v].persisted = manager[v].persisted
        /\ manager'[v].log = manager[v].log
        /\ v # w => manager'[v].pc = manager[v].pc
        /\ v = w => manager'[v].pc = "stat"
    BY <1>2 DEF Becomes
  <2>2. InFile(manager[v].persisted)'
    BY <1>5, <1>8, <2>1 DEF InFile
  <2>3. manager'[v].pc \in Done => InFile(manager[v].log)'
    BY <1>5, <1>7, <1>8, <2>1 DEF InFile
  <2>4. manager'[v].pc = "dirsync" => InSynced(manager[v].log)'
    BY <1>6, <1>8, <2>1 DEF InSynced
  <2> QED
    BY <2>2, <2>3, <2>4
<1>10. ASSUME NEW n \in acked'
       PROVE  Over(n)' \/ (n \in Synced' /\ \A old \in shadows' : n \in Ids(old))
  <2>1. Over(n) \/ (n \in Synced /\ \A old \in shadows : n \in Ids(old))
    BY <1>1
  <2> QED
    BY <1>1, <1>6, <1>8, <2>1
<1> QED
  BY <1>9, <1>10

\* What the new file does not have is noted; the old one may come back in a crash,
\* with all that was synced.
LEMMA AckedReplaceFile ==
    ASSUME AckedInv, LogBasics', NEW w \in Writer, ReplaceFile(w)
    PROVE  AckedInv'
<1> USE DEF AckedInv
<1>1. /\ LogTypes /\ LogTypes' /\ file \in Seq(Message)
      /\ manager[w].pc = "replace" /\ manager[w].log \in Seq(Message)
      /\ file' = manager[w].log /\ durable' = Len(file') /\ acked' = acked
      /\ shadows' = shadows \cup {SubSeq(file, 1, durable)}
      /\ overwritten' = overwritten \cup Dropped(w)
  BY DEF LogBasics, LogTypes, ManagerRecord, ReplaceFile
<1>2. Becomes(w, "namesync", manager[w].then, manager[w].log, manager[w].persisted)
  BY GotoEffect DEF LogBasics, ReplaceFile, WriterPc
<1>3. \A n : Over(n) => Over(n)'
  BY <1>1 DEF Over
<1>4. Synced' = Ids(file')
  BY <1>1, AllSynced
<1>5. ASSUME NEW n \in Ids(file)
      PROVE  n \in Ids(file') \/ Over(n)'
  <2> SUFFICES ASSUME n \notin Ids(manager[w].log) PROVE Over(n)'
    BY <1>1
  <2>1. PICK i \in 1 .. Len(file) : file[i].id = n
    BY <1>1, IdsOf
  <2> DEFINE k == [id |-> file[i].id, by |-> file[i].by]
             o == [id |-> k.id, by |-> k.by, from |-> w]
  <2>2. k \in Keys(file) /\ k.id = n
    BY <1>1, <2>1, KeysOf
  <2>3. k \notin Keys(manager[w].log)
    <3> SUFFICES ASSUME k \in Keys(manager[w].log) PROVE FALSE
      OBVIOUS
    <3> HIDE DEF k
    <3>1. PICK j \in 1 .. Len(manager[w].log) :
             k = [id |-> manager[w].log[j].id, by |-> manager[w].log[j].by]
      BY <1>1, KeysOf
    <3>2. manager[w].log[j].id = n
      BY <2>2, <3>1
    <3> QED
      BY <1>1, <3>2, IdsOf
  <2> HIDE DEF k
  <2>4. o \in overwritten' /\ o.id = n
    BY <1>1, <2>2, <2>3 DEF Dropped
  <2> HIDE DEF o
  <2> QED
    BY <2>4 DEF Over
<1>6. ASSUME NEW n \in Synced
      PROVE  n \in Ids(file') \/ Over(n)'
  BY <1>1, <1>5, SyncedFacts
<1>7. ASSUME NEW n \in acked'
      PROVE  Over(n)' \/ (n \in Synced' /\ \A old \in shadows' : n \in Ids(old))
  <2>1. Synced = Ids(SubSeq(file, 1, durable))
    BY <1>1, SyncedFacts
  <2>2. CASE Over(n)
    BY <1>3, <2>2
  <2>3. CASE n \in Synced /\ \A old \in shadows : n \in Ids(old)
    BY <1>1, <1>4, <1>6, <2>1, <2>3
  <2> QED
    BY <1>1, <2>2, <2>3
<1>8. ASSUME NEW v \in Writer
      PROVE  /\ InFile(manager[v].persisted)'
             /\ manager'[v].pc \in Done => InFile(manager[v].log)'
             /\ manager'[v].pc = "dirsync" => InSynced(manager[v].log)'
  <2>1. /\ manager'[v].persisted = manager[v].persisted
        /\ manager'[v].log = manager[v].log
        /\ v # w => manager'[v].pc = manager[v].pc
        /\ v = w => manager'[v].pc = "namesync"
    BY <1>2 DEF Becomes
  <2>2. InFile(manager[v].persisted)'
    BY <1>3, <1>5, <2>1 DEF InFile
  <2>3. manager'[v].pc \in Done => InFile(manager[v].log)'
    <3>1. CASE v = w
      BY <1>1, <2>1, <3>1 DEF InFile
    <3>2. CASE v # w
      BY <1>3, <1>5, <2>1, <3>2 DEF InFile
    <3> QED
      BY <3>1, <3>2
  <2>4. manager'[v].pc = "dirsync" => InSynced(manager[v].log)'
    BY <1>3, <1>4, <1>6, <2>1 DEF InSynced
  <2> QED
    BY <2>2, <2>3, <2>4
<1> QED
  BY <1>7, <1>8

\* The barrier of a step: all of the file is synced, and with it the step's log.
LEMMA AckedSyncs ==
    ASSUME AckedInv, LogBasics', NEW s \in StepWriter,
           SyncFile(s) \/ SyncDirectories(s)
    PROVE  AckedInv'
<1> USE DEF AckedInv
<1>1. s \in Writer /\ LogTypes /\ LogTypes'
  BY DEF LogBasics, Writer
<1>2. CASE SyncFile(s)
  <2>1. Becomes(s, "dirsync", manager[s].then, manager[s].log, manager[s].persisted)
    BY <1>1, <1>2, GotoEffect DEF SyncFile, WriterPc
  <2>2. /\ UNCHANGED <<file, shadows, acked, overwritten>> /\ durable' = Len(file')
        /\ manager[s].pc = "fsync"
    BY <1>2 DEF SyncFile
  <2>3. /\ Ids(file') = Ids(file) /\ Synced' = Ids(file) /\ Synced \subseteq Ids(file)
        /\ \A n : Over(n)' <=> Over(n)
    <3>1. Synced' = Ids(file')
      BY <1>1, <2>2, AllSynced
    <3> QED
      BY <1>1, <2>2, <3>1, SyncedFacts DEF Over
  <2>4. ASSUME NEW v \in Writer
        PROVE  /\ InFile(manager[v].persisted)'
               /\ manager'[v].pc \in Done => InFile(manager[v].log)'
               /\ manager'[v].pc = "dirsync" => InSynced(manager[v].log)'
    <3>1. /\ manager'[v].persisted = manager[v].persisted
          /\ manager'[v].log = manager[v].log
          /\ v # s => manager'[v].pc = manager[v].pc
      BY <2>1 DEF Becomes
    <3>2. manager[v].pc \in Done => InFile(manager[v].log)
      OBVIOUS
    <3>3. manager'[v].pc \in Done => manager[v].pc \in Done
      BY <2>2, <3>1 DEF Done
    <3> QED
      BY <2>3, <3>1, <3>2, <3>3 DEF InFile, InSynced, Done
  <2> QED
    BY <2>2, <2>3, <2>4
<1>3. CASE SyncDirectories(s)
  <2>1. Becomes(s, "complete", "idle", <<>>, <<>>)
    BY <1>1, <1>3, LeaveEffect DEF SyncDirectories, WriterPc
  <2>2. /\ UNCHANGED <<file, durable, overwritten>> /\ shadows' = {}
        /\ acked' = acked \cup Ids(manager[s].log) /\ manager[s].pc = "dirsync"
    BY <1>3 DEF SyncDirectories
  <2>3. Synced' = Synced /\ \A n : Over(n)' <=> Over(n)
    BY <2>2 DEF Synced, Over
  <2>4. InSynced(manager[s].log)
    BY <1>1, <2>2
  <2>5. ASSUME NEW n \in acked' PROVE Over(n)' \/ n \in Synced'
    BY <2>2, <2>3, <2>4, <2>5 DEF InSynced
  <2>6. ASSUME NEW v \in Writer
        PROVE  /\ InFile(manager[v].persisted)'
               /\ manager'[v].pc \in Done => InFile(manager[v].log)'
               /\ manager'[v].pc = "dirsync" => InSynced(manager[v].log)'
    <3>1. CASE v = s
      <4>1. manager'[v].pc = "complete" /\ manager'[v].persisted = <<>>
        BY <2>1, <3>1 DEF Becomes
      <4> QED
        BY <4>1, EmptyIds DEF InFile, Done
    <3>2. CASE v # s
      <4>1. manager'[v] = manager[v]
        BY <2>1, <3>2 DEF Becomes
      <4> QED
        BY <2>2, <2>3, <4>1 DEF InFile, InSynced
    <3> QED
      BY <3>1, <3>2
  <2> QED
    BY <2>2, <2>5, <2>6
<1> QED
  BY <1>2, <1>3

LEMMA AckedCrash ==
    ASSUME AckedInv, LogBasics', NEW left \in AfterCrash, NEW part \in BOOLEAN,
           Crash(left, part)
    PROVE  AckedInv'
<1> USE DEF AckedInv
<1>1. /\ LogTypes /\ LogTypes' /\ file \in Seq(Message)
      /\ file' = left /\ durable' = Len(file') /\ shadows' = {}
      /\ UNCHANGED <<acked, overwritten>>
      /\ \A w \in Writer : manager'[w].persisted = <<>> /\ manager'[w].pc = "idle"
  BY DEF LogBasics, LogTypes, Crash, NoManager
<1>2. Synced' = Ids(left) /\ \A n : Over(n)' <=> Over(n)
  <2>1. Synced' = Ids(file')
    BY <1>1, AllSynced
  <2> QED
    BY <1>1, <2>1 DEF Over
<1>3. ASSUME NEW n \in acked PROVE Over(n) \/ n \in Ids(left)
  <2>1. CASE left \in shadows
    BY <2>1
  <2>2. CASE left \notin shadows
    <3>1. PICK k \in durable .. Len(file) : left = SubSeq(file, 1, k)
      BY <2>2 DEF AfterCrash
    <3>2. k \in 0 .. Len(file) /\ durable \in 0 .. k
      BY <1>1, <3>1 DEF LogTypes
    <3>3. Ids(left) = {file[i].id : i \in 1 .. k}
      BY <1>1, <3>1, <3>2, PrefixFacts
    <3>4. Synced \subseteq Ids(left)
      BY <3>2, <3>3 DEF Synced
    <3> QED
      BY <3>4
  <2> QED
    BY <2>1, <2>2
<1> QED
  BY <1>1, <1>2, <1>3, EmptyIds DEF InFile, Done

LEMMA AckedStep ==
    ASSUME AckedInv, LogStep
    PROVE  AckedInv'
<1>0. /\ LogBasics /\ LogBasics' /\ LogTypes /\ file \in Seq(Message)
      /\ StepWriter \subseteq Writer /\ ToolWriter \subseteq Writer
  BY BasicsStep DEF AckedInv, LogBasics, LogTypes, Writer
<1>01. InFile(file) /\ InFile(<<>>)
  BY EmptyIds DEF InFile
<1>02. \A w \in Writer : /\ InFile(manager[w].persisted)
                         /\ manager[w].pc \in Done => InFile(manager[w].log)
  BY DEF AckedInv
<1>1. ASSUME NEW s \in StepWriter, StepNext(s)
      PROVE  AckedInv'
  <2>0. s \in Writer /\ InFile(manager[s].persisted)
    BY <1>0, <1>02
  <2>1. CASE StepLoads(s)
    <3>1. Becomes(s, "ready", "ready", file, file)
      BY <1>0, <2>1, StepLoadsEffect
    <3> QED
      BY <1>0, <1>01, <2>0, <2>1, <3>1, AckedFileStays DEF StepLoads, Done
  <2>2. CASE StepAppends(s)
    <3>1. Becomes(s, "check", "announce", Append(manager[s].log, NewMessage(s)),
                  manager[s].persisted)
      BY <1>0, <2>2, StepAppendsEffect
    <3> QED
      BY <1>0, <2>0, <2>2, <3>1, AckedFileStays DEF StepAppends, Done
  <2>3. CASE StepSyncs(s)
    <3>1. Becomes(s, "check", "fsync", manager[s].log, manager[s].persisted)
      BY <1>0, <2>3, StepSyncsEffect
    <3> QED
      BY <1>0, <2>0, <2>3, <3>1, AckedFileStays DEF StepSyncs, Done
  <2>4. CASE SyncFile(s) \/ SyncDirectories(s)
    BY <1>0, <2>4, AckedSyncs
  <2> QED
    BY <1>1, <2>1, <2>2, <2>3, <2>4 DEF StepNext
<1>2. ASSUME NEW t \in ToolWriter, ToolNext(t)
      PROVE  AckedInv'
  <2>0. t \in Writer
    BY <1>0
  <2>1. CASE ToolAppends(t)
    <3>1. Becomes(t, "check", "announce", Append(file, NewMessage(t)), file)
      BY <1>0, <2>1, ToolAppendsEffect
    <3> QED
      BY <1>0, <1>01, <2>0, <2>1, <3>1, AckedFileStays DEF ToolAppends, Done
  <2>2. ASSUME NEW i, ToolPatches(t, i)
        PROVE  AckedInv'
    <3>1. Becomes(t, "check", "unlock", Timed(file, i), file)
      BY <1>0, <2>2, ToolPatchesEffect
    <3> QED
      BY <1>0, <1>01, <2>0, <2>2, <3>1, AckedFileStays DEF ToolPatches, Done
  <2>3. CASE ToolEnds(t)
    <3>1. Becomes(t, "idle", "idle", <<>>, <<>>)
      BY <1>0, <2>0, <2>3, LeaveEffect DEF ToolEnds, WriterPc
    <3> QED
      BY <1>0, <1>01, <2>0, <2>3, <3>1, AckedFileStays DEF ToolEnds, Done
  <2>4. CASE Unlock(t)
    <3>1. PICK pc \in {"idle", "patch"} : Leave(t, pc)
      BY <2>4 DEF Unlock
    <3>2. Becomes(t, pc, "idle", <<>>, <<>>)
      BY <1>0, <2>0, <3>1, LeaveEffect DEF WriterPc
    <3> QED
      BY <1>0, <1>01, <2>0, <2>4, <3>2, AckedFileStays DEF Unlock, Done
  <2> QED
    BY <1>2, <2>1, <2>2, <2>3, <2>4 DEF ToolNext
<1>3. ASSUME NEW w \in Writer, WriteNext(w)
      PROVE  AckedInv'
  <2>0. /\ InFile(manager[w].persisted)
        /\ manager[w].pc \in Done => InFile(manager[w].log)
    BY <1>02
  <2>1. CASE Check(w)
    <3>1. PICK pc \in {"append", "replace"} : Goto(w, pc)
      BY <2>1 DEF Check
    <3>2. Becomes(w, pc, manager[w].then, manager[w].log, manager[w].persisted)
      BY <1>0, <3>1, GotoEffect DEF WriterPc
    <3> QED
      BY <1>0, <2>0, <2>1, <3>2, AckedFileStays DEF Check, Done
  <2>2. CASE AppendLines(w)
    BY <1>0, <2>2, AckedAppendLines
  <2>3. CASE ReplaceFile(w)
    BY <1>0, <2>3, AckedReplaceFile
  <2>4. CASE SyncName(w)
    <3>1. Becomes(w, "stat", manager[w].then, manager[w].log, manager[w].persisted)
      BY <1>0, <2>4, GotoEffect DEF SyncName, WriterPc
    <3> QED
      BY <1>0, <2>0, <2>4, <3>1, AckedFileStays DEF SyncName, Done
  <2>5. CASE Stat(w)
    <3>1. Becomes(w, manager[w].then, manager[w].then, manager[w].log, manager[w].log)
      BY <1>0, <2>5, StatEffect
    <3>2. manager[w].then # "dirsync"
      BY <1>0, <2>5 DEF LogBasics, Place, Stat, Written, Writer
    <3>3. InFile(manager[w].log)
      BY <2>0, <2>5 DEF Stat, Done
    <3> QED
      BY <1>0, <2>5, <3>1, <3>2, <3>3, AckedFileStays DEF Stat
  <2> QED
    BY <1>3, <2>1, <2>2, <2>3, <2>4, <2>5 DEF WriteNext
<1>4. ASSUME NEW w \in Writer, Announces(w) \/ Announced(w)
      PROVE  AckedInv'
  <2>1. PICK pc \in WriterPc \ Done : Goto(w, pc)
    BY <1>4 DEF Announces, Announced, WriterPc, Done
  <2>2. Becomes(w, pc, manager[w].then, manager[w].log, manager[w].persisted)
    BY <1>0, <2>1, GotoEffect
  <2>3. InFile(manager[w].persisted)
    BY <1>02
  <2> QED
    BY <1>0, <1>4, <2>1, <2>2, <2>3, AckedFileStays DEF Announces, Announced, Done
<1>5. ASSUME NEW left \in AfterCrash, NEW part \in BOOLEAN, Crash(left, part)
      PROVE  AckedInv'
  BY <1>0, <1>5, AckedCrash
<1>6. CASE UNCHANGED logVars
  <2>0. /\ file' = file /\ durable' = durable /\ shadows' = shadows /\ manager' = manager
        /\ acked' = acked /\ overwritten' = overwritten
    BY <1>6 DEF logVars
  <2>1. /\ Synced' = Synced
        /\ \A n : Over(n)' <=> Over(n)
    BY <2>0 DEF Synced, Over
  <2>2. /\ \A log : InFile(log)' <=> InFile(log)
        /\ \A log : InSynced(log)' <=> InSynced(log)
    BY <2>0, <2>1 DEF InFile, InSynced
  <2> QED
    BY <1>0, <2>0, <2>1, <2>2 DEF AckedInv
<1> QED
  BY <1>1, <1>2, <1>3, <1>4, <1>5, <1>6 DEF LogStep

LEMMA AckedInvAckedSurvives == AckedInv => AckedSurvives
  BY SyncedFacts DEF AckedInv, LogBasics, AckedSurvives, Over

=============================================================================
