----------------------- MODULE SubagentDeliveryProofs -----------------------
(***************************************************************************)
(* Proofs about the delivery of completions, for any number of subagents,  *)
(* notices, threads, requests and faults: a completion is in exactly one   *)
(* place, but for the doubles of a wake that fails after its append; only  *)
(* a late one sleeps; and a run that ended is announced once, or never if  *)
(* it was cancelled or has no result.  What is proved of the subagents     *)
(* alone holds of them here.                                               *)
(***************************************************************************)
EXTENDS SubagentDelivery, SubagentRunsProofs

-----------------------------------------------------------------------------
(* The composition, seen from each of its parts.                           *)

\* A tool of the parent may ask for a subagent.
ToolAsks ==
    /\ Asks \/ UNCHANGED requests
    /\ UNCHANGED <<call, queue, delivered, owner, interrupted, thread, pending,
                   connected, faults, lost, doubled, late>>

DeliveryMoves ==
    \/ \E n \in Notice : Call(n) \/ CallNext(n)
    \/ \E t \in Thread : ThreadNext(t) \/ ToolDone(t) \/ FaultNext(t) \/ WorkerRaises(t)
    \/ UserNext \/ Disconnect \/ Connect \/ ToolAsks

LEMMA RunsPart ==
    ASSUME [Next]_vars
    PROVE  [RunsNext]_runVars
  BY DEF Next, vars, RunsStep, DeliveryStep, RunsNext, WorkerNotifies, WatchdogNotifies,
         WorkerLeaves, ParentStep, ToolStops, Faulty

LEMMA DeliveryPart ==
    ASSUME [Next]_vars
    PROVE  DeliveryMoves \/ UNCHANGED deliveryVars
<1>1. ASSUME NEW r \in Run, WorkerNotifies(r) \/ WatchdogNotifies(r)
      PROVE  DeliveryMoves
  <2>1. <<r, "worker">> \in Notice /\ <<r, "watchdog">> \in Notice
    BY NoticeAssumption DEF Announcer
  <2> QED
    BY <1>1, <2>1 DEF WorkerNotifies, WatchdogNotifies, DeliveryMoves
<1>2. ASSUME NEW r \in Run, RunsStep(RunNext(r)) \/ WorkerLeaves(r)
      PROVE  UNCHANGED deliveryVars
  BY <1>2 DEF RunsStep, WorkerLeaves
<1>3. ParentStep => ToolAsks
  BY DEF ParentStep, ToolAsks
<1>4. ASSUME NEW n \in Notice, DeliveryStep(CallNext(n)) \/ DeliveryStep(Call(n))
      PROVE  DeliveryMoves
  BY <1>4 DEF DeliveryStep, DeliveryMoves
<1>5. ASSUME NEW t \in Thread, DeliveryStep(ThreadNext(t)) \/ ToolStops(t) \/ Faulty(t)
      PROVE  DeliveryMoves
  BY <1>5 DEF DeliveryStep, ToolStops, Faulty, DeliveryMoves
<1>6. DeliveryStep(UserNext) \/ DeliveryStep(Disconnect) \/ DeliveryStep(Connect)
         => DeliveryMoves
  BY DEF DeliveryStep, DeliveryMoves
<1>7. UNCHANGED vars => UNCHANGED deliveryVars
  BY DEF vars
<1> QED
  BY <1>1, <1>2, <1>3, <1>4, <1>5, <1>6, <1>7 DEF Next, OtherNotice, DeliveryMoves

\* The subagents behave as they do alone.
THEOREM RunsImplemented == Spec => RunsSpec
<1>1. Init => RunsInit
  BY DEF Init
<1>2. [Next]_vars => [RunsNext]_runVars
  BY RunsPart
<1> QED
  BY <1>1, <1>2, PTL DEF Spec, RunsSpec

-----------------------------------------------------------------------------
(* Sequences of notices.                                                   *)

NoDup(s) == \A i, j \in DOMAIN s : s[i] = s[j] => i = j

LEMMA EmptySeq ==
    /\ <<>> \in Seq(Notice) /\ NoDup(<<>>)
    /\ \A m \in Notice : ~InSeq(m, <<>>)
  BY DEF NoDup, InSeq

LEMMA OneSeq ==
    ASSUME NEW s \in Seq(Notice), Len(s) = 1
    PROVE  /\ Head(s) \in Notice /\ s # <<>> /\ InSeq(Head(s), s) /\ NoDup(s)
           /\ \A m \in Notice : InSeq(m, s) <=> m = Head(s)
<1>1. DOMAIN s = {1} /\ Head(s) = s[1] /\ s[1] \in Notice
  OBVIOUS
<1> QED
  BY <1>1 DEF InSeq, NoDup

LEMMA Single ==
    ASSUME NEW n \in Notice
    PROVE  \A m \in Notice : InSeq(m, <<n>>) <=> m = n
<1>1. <<n>> \in Seq(Notice) /\ Len(<<n>>) = 1 /\ Head(<<n>>) = n
  OBVIOUS
<1> QED
  BY <1>1, OneSeq

LEMMA AppendSeq ==
    ASSUME NEW s \in Seq(Notice), NEW n \in Notice
    PROVE  /\ Append(s, n) \in Seq(Notice)
           /\ \A m \in Notice : InSeq(m, Append(s, n)) <=> InSeq(m, s) \/ m = n
           /\ NoDup(s) /\ ~InSeq(n, s) => NoDup(Append(s, n))
<1> DEFINE a == Append(s, n)
<1>1. /\ a \in Seq(Notice) /\ Len(a) = Len(s) + 1 /\ a[Len(s) + 1] = n
      /\ \A i \in 1 .. Len(s) : a[i] = s[i]
      /\ DOMAIN s = 1 .. Len(s) /\ DOMAIN a = 1 .. Len(s) + 1 /\ Len(s) \in Nat
  OBVIOUS
<1> HIDE DEF a
<1>2. DOMAIN a = DOMAIN s \cup {Len(s) + 1}
  BY <1>1
<1>3. \A m \in Notice : InSeq(m, a) <=> InSeq(m, s) \/ m = n
  BY <1>1, <1>2 DEF InSeq
<1>4. NoDup(s) /\ ~InSeq(n, s) => NoDup(a)
  BY <1>1, <1>2 DEF NoDup, InSeq
<1> QED
  BY <1>1, <1>3, <1>4 DEF a

\* What retry_deferred_watch_wakes still holds when the second has gone back.
LEMMA DropSecond ==
    ASSUME NEW s \in Seq(Notice), Len(s) > 1, NoDup(s),
           NEW d, d = <<Head(s)>> \o Tail(Tail(s))
    PROVE  /\ d \in Seq(Notice) /\ d # <<>> /\ s[2] \in Notice /\ InSeq(s[2], s)
           /\ NoDup(d)
           /\ \A m \in Notice : InSeq(m, d) <=> InSeq(m, s) /\ m # s[2]
<1> DEFINE n == Len(s)
<1> DEFINE h == <<Head(s)>>
<1> DEFINE e == Tail(Tail(s))
<1>1. /\ h \in Seq(Notice) /\ Len(h) = 1 /\ h[1] = s[1]
      /\ DOMAIN s = 1 .. n /\ n \in Nat /\ n > 1 /\ s[2] \in Notice
  OBVIOUS
<1>2. /\ e \in Seq(Notice) /\ Len(e) = n - 2
      /\ \A i \in 1 .. n - 2 : e[i] = s[i + 2]
  <2> DEFINE f == Tail(s)
  <2>1. f \in Seq(Notice) /\ Len(f) = n - 1 /\ \A i \in 1 .. n - 1 : f[i] = s[i + 1]
    OBVIOUS
  <2> HIDE DEF f
  <2>2. f # <<>>
    BY <1>1, <2>1
  <2>3. /\ Tail(f) \in Seq(Notice) /\ Len(Tail(f)) = Len(f) - 1
        /\ \A i \in 1 .. Len(f) - 1 : Tail(f)[i] = f[i + 1]
    BY <2>1, <2>2
  <2>4. \A i \in 1 .. n - 2 : i + 1 \in 1 .. n - 1 /\ (i + 1) + 1 = i + 2
    BY <1>1
  <2> QED
    BY <1>1, <2>1, <2>3, <2>4 DEF f
<1>3. d = h \o e
  OBVIOUS
<1> HIDE DEF n, h, e
<1>4. d \in Seq(Notice) /\ Len(d) = n - 1 /\ DOMAIN d = 1 .. n - 1 /\ d[1] = s[1]
  <2>1. /\ d \in Seq(Notice) /\ Len(d) = Len(h) + Len(e)
        /\ \A i \in 1 .. Len(h) + Len(e) :
              d[i] = IF i <= Len(h) THEN h[i] ELSE e[i - Len(h)]
    <3>1. h \in Seq(Notice) /\ e \in Seq(Notice)
      BY <1>1, <1>2
    <3>2. /\ h \o e \in Seq(Notice) /\ Len(h \o e) = Len(h) + Len(e)
          /\ \A i \in 1 .. Len(h) + Len(e) :
                (h \o e)[i] = IF i <= Len(h) THEN h[i] ELSE e[i - Len(h)]
      BY ONLY <3>1
    <3> QED
      BY <1>3, <3>2
  <2>2. Len(h) + Len(e) = n - 1 /\ 1 \in 1 .. Len(h) + Len(e) /\ 1 <= Len(h)
    BY <1>1, <1>2
  <2>3. DOMAIN d = 1 .. Len(d)
    BY <2>1
  <2> QED
    BY <1>1, <2>1, <2>2, <2>3
<1>5. ASSUME NEW i \in 2 .. n - 1
      PROVE  d[i] = s[i + 1]
  <2>1. i - 1 \in 1 .. n - 2 /\ (i - 1) + 2 = i + 1 /\ i \in 1 .. Len(h) + Len(e) /\ i > Len(h)
    BY <1>1, <1>2
  <2>2. d[i] = e[i - 1]
    BY <1>1, <1>2, <1>3, <2>1
  <2> QED
    BY <1>2, <2>1, <2>2
<1>6. 1 \in DOMAIN d /\ 2 \in DOMAIN s /\ 1 \in DOMAIN s
  BY <1>1, <1>4
<1>7. d # <<>> /\ InSeq(s[2], s)
  BY <1>6 DEF InSeq
\* Where d has what s has.
<1>8. ASSUME NEW i \in DOMAIN d
      PROVE  \E k \in DOMAIN s : ((i = 1 /\ k = 1) \/ (i > 1 /\ k = i + 1)) /\ s[k] = d[i]
  <2>1. CASE i = 1
    BY <1>4, <1>6, <2>1
  <2>2. CASE i # 1
    <3>0. n \in Nat /\ i \in 1 .. n - 1
      BY <1>1, <1>4
    <3>1. i \in 2 .. n - 1 /\ i + 1 \in 1 .. n /\ i > 1
      BY <2>2, <3>0
    <3> QED
      BY <1>1, <1>5, <3>1
  <2> QED
    BY <2>1, <2>2
<1>9. ASSUME NEW k \in DOMAIN s, k # 2
      PROVE  \E i \in DOMAIN d : d[i] = s[k]
  <2>1. CASE k = 1
    BY <1>4, <1>6, <2>1
  <2>2. CASE k # 1
    <3>1. k - 1 \in 2 .. n - 1 /\ k - 1 \in 1 .. n - 1 /\ (k - 1) + 1 = k
      BY <1>1, <1>9, <2>2
    <3>2. d[k - 1] = s[k]
      BY <1>5, <3>1
    <3> QED
      BY <1>4, <3>1, <3>2
  <2> QED
    BY <2>1, <2>2
<1>10. NoDup(d)
  <2> SUFFICES ASSUME NEW i \in DOMAIN d, NEW j \in DOMAIN d, d[i] = d[j]
               PROVE  i = j
    BY DEF NoDup
  <2>1. PICK k \in DOMAIN s : ((i = 1 /\ k = 1) \/ (i > 1 /\ k = i + 1)) /\ s[k] = d[i]
    BY <1>8
  <2>2. PICK l \in DOMAIN s : ((j = 1 /\ l = 1) \/ (j > 1 /\ l = j + 1)) /\ s[l] = d[j]
    BY <1>8
  <2>3. k = l
    BY <2>1, <2>2 DEF NoDup
  <2> QED
    BY <1>4, <2>1, <2>2, <2>3
<1>11. ASSUME NEW m \in Notice, InSeq(m, d)
       PROVE  InSeq(m, s) /\ m # s[2]
  <2>1. PICK i \in DOMAIN d : d[i] = m
    BY <1>11 DEF InSeq
  <2>2. PICK k \in DOMAIN s : ((i = 1 /\ k = 1) \/ (i > 1 /\ k = i + 1)) /\ s[k] = d[i]
    BY <1>8
  <2>3. k # 2
    BY <1>4, <2>2
  <2> QED
    BY <1>6, <2>1, <2>2, <2>3 DEF InSeq, NoDup
<1>12. \A m \in Notice : InSeq(m, s) /\ m # s[2] => InSeq(m, d)
  BY <1>9 DEF InSeq
<1> QED
  BY <1>1, <1>4, <1>7, <1>10, <1>11, <1>12
-----------------------------------------------------------------------------
(* The places of a completion.                                             *)

Here(n, t) == InSeq(n, thread[t].taken)

\* Appended once for every wake that failed after its append, or once more.
Level(n) == delivered[n] = doubled[n]
Ahead(n) == delivered[n] = doubled[n] + 1

Somewhere(n) ==
    \/ Ahead(n)
    \/ InSeq(n, queue)
    \/ \E t \in Thread : Here(n, t)
    \/ n \in lost

Apart(n) ==
    /\ ~(Ahead(n) /\ InSeq(n, queue))
    /\ ~(Ahead(n) /\ n \in lost)
    /\ ~(InSeq(n, queue) /\ n \in lost)
    /\ \A t \in Thread : Here(n, t) =>
          /\ ~Ahead(n) /\ ~InSeq(n, queue) /\ n \notin lost
          /\ \A u \in Thread : Here(n, u) => u = t

\* Once its call is done a completion is somewhere, and nowhere twice.
PlaceInv ==
    \A n \in Notice :
        (call[n] = "done" <=> Somewhere(n)) /\ Apart(n) /\ (Level(n) \/ Ahead(n))

\* What a thread holds at its place.
MayHold(pc, s) ==
    /\ NoDup(s)
    /\ pc \notin {"drained", "rest", "back"} => s = <<>>
    /\ pc = "rest" => s # <<>>
    /\ pc = "back" => Len(s) = 1

Shape == NoDup(queue) /\ \A t \in Thread : MayHold(thread[t].pc, thread[t].taken)

\* The reservation is a step's, or that of the worker of a rerun.
MayOwn(pc, reserved) == pc \in {"idle"} \cup StepPc \/ (pc \in ToolPc /\ reserved)
OwnerInv == \A t \in Thread : owner = t => MayOwn(thread[t].pc, thread[t].reserved)

\* OnlyLateSleep is a part of it: an end that leaves the queue marks what is in
\* it, and every other step leaves somebody who is going to look.
DeliveryInv == DeliveryTypeOK /\ Shape /\ PlaceInv /\ OwnerInv /\ OnlyLateSleep

LEMMA DeliveryInitInv == DeliveryInit => DeliveryInv
<1> SUFFICES ASSUME DeliveryInit
             PROVE  DeliveryInv
  OBVIOUS
<1>1. IdleThread \in ThreadRecord
  BY EmptySeq DEF IdleThread, ThreadRecord, ThreadPc
<1>2. DeliveryTypeOK
  <2>1. interrupted \in BOOLEAN /\ connected \in BOOLEAN
    BY Zenon DEF DeliveryInit
  <2>2. /\ requests \in 0 .. MaxRequests /\ faults \in 0 .. MaxFaults /\ pending \in Nat
        /\ queue \in Seq(Notice) /\ lost \subseteq Notice /\ late \subseteq Notice
        /\ owner \in Thread \cup {Nobody}
    BY DeliveryAssumption, EmptySeq DEF DeliveryInit
  <2>3. /\ call \in [Notice -> CallState] /\ thread \in [Thread -> ThreadRecord]
        /\ delivered \in [Notice -> Nat] /\ doubled \in [Notice -> Nat]
    BY <1>1 DEF DeliveryInit, CallState
  <2> QED
    BY <2>1, <2>2, <2>3 DEF DeliveryTypeOK
<1>3. \A t \in Thread : thread[t].pc = "idle" /\ thread[t].taken = <<>>
  BY DEF DeliveryInit, IdleThread
<1>4. Shape
  BY <1>3, EmptySeq DEF DeliveryInit, Shape, MayHold
<1>5. \A n \in Notice : ~Somewhere(n) /\ call[n] # "done" /\ Level(n)
  BY <1>3, EmptySeq DEF DeliveryInit, Somewhere, Here, Ahead, Level
<1>6. PlaceInv
  BY <1>5 DEF PlaceInv, Apart, Somewhere
<1>7. OwnerInv
  BY DeliveryAssumption DEF DeliveryInit, OwnerInv
<1>8. OnlyLateSleep
  BY EmptySeq DEF DeliveryInit, OnlyLateSleep, Queued
<1> QED
  BY <1>2, <1>4, <1>6, <1>7, <1>8 DEF DeliveryInv

-----------------------------------------------------------------------------
(* A step of one thread, and what the log gets.                            *)

ThreadGoes(t, pc, s, reserved) ==
    /\ thread' \in [Thread -> ThreadRecord]
    /\ thread'[t].pc = pc /\ thread'[t].taken = s /\ thread'[t].reserved = reserved
    /\ \A u \in Thread \ {t} : thread'[u] = thread[u]

LEMMA RecordFact ==
    ASSUME DeliveryTypeOK, NEW t \in Thread, NEW record \in ThreadRecord,
           thread' = [thread EXCEPT ![t] = record]
    PROVE  ThreadGoes(t, record.pc, record.taken, record.reserved)
  BY DEF DeliveryTypeOK, ThreadGoes

LEMMA MovesWithFact ==
    ASSUME DeliveryTypeOK, NEW t \in Thread, NEW pc \in ThreadPc, NEW s \in Seq(Notice),
           MovesWith(t, pc, s)
    PROVE  ThreadGoes(t, pc, s, thread[t].reserved)
<1>1. thread[t] \in ThreadRecord
  BY DEF DeliveryTypeOK
<1> DEFINE record == [thread[t] EXCEPT !.pc = pc, !.taken = s]
<1>2. /\ record \in ThreadRecord /\ record.pc = pc /\ record.taken = s
      /\ record.reserved = thread[t].reserved
  BY <1>1 DEF ThreadRecord
<1>3. thread' = [thread EXCEPT ![t] = record]
  BY DEF MovesWith
<1> HIDE DEF record
<1> QED
  BY <1>2, <1>3, RecordFact

LEMMA MovesFact ==
    ASSUME DeliveryTypeOK, NEW t \in Thread, NEW pc \in ThreadPc, Moves(t, pc)
    PROVE  ThreadGoes(t, pc, thread[t].taken, thread[t].reserved)
<1>1. thread[t] \in ThreadRecord
  BY DEF DeliveryTypeOK
<1> DEFINE record == [thread[t] EXCEPT !.pc = pc]
<1>2. /\ record \in ThreadRecord /\ record.pc = pc /\ record.taken = thread[t].taken
      /\ record.reserved = thread[t].reserved
  BY <1>1 DEF ThreadRecord
<1>3. thread' = [thread EXCEPT ![t] = record]
  BY DEF Moves
<1> HIDE DEF record
<1> QED
  BY <1>2, <1>3, RecordFact

LEMMA EndsFact ==
    ASSUME DeliveryTypeOK, NEW t \in Thread, Ends(t)
    PROVE  ThreadGoes(t, "idle", <<>>, FALSE)
<1>1. /\ IdleThread \in ThreadRecord /\ IdleThread.pc = "idle"
      /\ IdleThread.taken = <<>> /\ IdleThread.reserved = FALSE
  BY EmptySeq DEF IdleThread, ThreadRecord, ThreadPc
<1> QED
  BY <1>1, RecordFact DEF Ends

\* A new step.
LEMMA StepRecord ==
    ASSUME NEW pc \in ThreadPc, NEW mark \in BOOLEAN
    PROVE  /\ Step(pc, mark) \in ThreadRecord /\ Step(pc, mark).pc = pc
           /\ Step(pc, mark).taken = <<>> /\ Step(pc, mark).reserved = FALSE
  BY EmptySeq DEF Step, IdleThread, ThreadRecord

\* Who holds what after the step.
LEMMA HandsFact ==
    ASSUME DeliveryInv, NEW t \in Thread, NEW pc, NEW s, NEW reserved,
           ThreadGoes(t, pc, s, reserved), MayHold(pc, s)
    PROVE  /\ \A u \in Thread : MayHold(thread'[u].pc, thread'[u].taken)
           /\ \A n \in Notice : Here(n, t)' <=> InSeq(n, s)
           /\ \A n \in Notice : \A u \in Thread \ {t} : Here(n, u)' <=> Here(n, u)
  BY DEF ThreadGoes, Here, DeliveryInv, Shape

\* A thread that holds nothing.
LEMMA EmptyHands ==
    ASSUME DeliveryInv, NEW t \in Thread, thread[t].pc \notin {"drained", "rest", "back"}
    PROVE  thread[t].taken = <<>> /\ \A n \in Notice : ~Here(n, t)
  BY EmptySeq DEF DeliveryInv, Shape, MayHold, Here

LEMMA OwnerStill ==
    ASSUME DeliveryInv, NEW t \in Thread, NEW pc, NEW s, NEW reserved,
           ThreadGoes(t, pc, s, reserved),
           owner' \in {owner, t, Nobody}, owner' = t => MayOwn(pc, reserved)
    PROVE  OwnerInv'
<1> SUFFICES ASSUME NEW u \in Thread, owner' = u
             PROVE  MayOwn(thread'[u].pc, thread'[u].reserved)
  BY DEF OwnerInv
<1>1. CASE u = t
  BY <1>1 DEF ThreadGoes
<1>2. CASE u # t
  BY <1>2, DeliveryAssumption DEF ThreadGoes, DeliveryInv, OwnerInv
<1> QED
  BY <1>1, <1>2

\* What is appended is ahead.
LEMMA Delivered ==
    ASSUME DeliveryInv, NEW s \in Seq(Notice), Deliver(s), doubled' = doubled,
           \A n \in Notice : InSeq(n, s) => ~Ahead(n)
    PROVE  /\ delivered' \in [Notice -> Nat]
           /\ \A n \in Notice : Ahead(n)' <=> Ahead(n) \/ InSeq(n, s)
           /\ \A n \in Notice : Level(n)' \/ Ahead(n)'
<1>1. delivered \in [Notice -> Nat] /\ doubled \in [Notice -> Nat]
  BY DEF DeliveryInv, DeliveryTypeOK
<1>2. \A n \in Notice : Level(n) \/ Ahead(n)
  BY DEF DeliveryInv, PlaceInv
<1>3. ASSUME NEW n \in Notice
      PROVE  /\ delivered'[n] \in Nat
             /\ Ahead(n)' <=> Ahead(n) \/ InSeq(n, s)
             /\ Level(n)' \/ Ahead(n)'
  <2>1. delivered'[n] = delivered[n] + (IF InSeq(n, s) THEN 1 ELSE 0)
    BY DEF Deliver
  <2>2. delivered[n] \in Nat /\ doubled[n] \in Nat
    BY <1>1
  <2> QED
    BY <1>2, <2>1, <2>2 DEF Ahead, Level
<1> QED
  BY <1>3 DEF Deliver

LEMMA FaultCounts ==
    ASSUME DeliveryInv, Fault
    PROVE  faults' \in 0 .. MaxFaults
  BY DeliveryAssumption DEF DeliveryInv, DeliveryTypeOK, Fault

LEMMA AsksCounts ==
    ASSUME DeliveryInv, Asks
    PROVE  requests' \in 0 .. MaxRequests
  BY DeliveryAssumption DEF DeliveryInv, DeliveryTypeOK, Asks

\* A refusal leaves the log as it was, or doubles.
LEMMA RefusedFact ==
    ASSUME DeliveryInv, NEW n \in Notice, WakeRefused(n)
    PROVE  /\ faults' \in 0 .. MaxFaults
           /\ delivered' \in [Notice -> Nat] /\ doubled' \in [Notice -> Nat]
           /\ \A m \in Notice : (Ahead(m)' <=> Ahead(m)) /\ (Level(m)' <=> Level(m))
<1>1. /\ delivered \in [Notice -> Nat] /\ doubled \in [Notice -> Nat]
      /\ faults \in 0 .. MaxFaults
  BY DEF DeliveryInv, DeliveryTypeOK
<1>2. faults' \in 0 .. MaxFaults
  BY <1>1, FaultCounts DEF WakeRefused
<1>3. CASE UNCHANGED <<delivered, doubled>>
  BY <1>1, <1>2, <1>3 DEF Ahead, Level
<1>4. CASE Deliver(<<n>>) /\ doubled' = [doubled EXCEPT ![n] = @ + 1]
  <2>1. ASSUME NEW m \in Notice
        PROVE  /\ delivered'[m] \in Nat
               /\ (Ahead(m)' <=> Ahead(m)) /\ (Level(m)' <=> Level(m))
    <3>1. delivered'[m] = delivered[m] + (IF m = n THEN 1 ELSE 0)
      BY <1>4, Single DEF Deliver
    <3>2. doubled'[m] = doubled[m] + (IF m = n THEN 1 ELSE 0)
      BY <1>1, <1>4
    <3>3. delivered[m] \in Nat /\ doubled[m] \in Nat
      BY <1>1
    <3> QED
      BY <3>1, <3>2, <3>3 DEF Ahead, Level
  <2>2. delivered' \in [Notice -> Nat]
    BY <1>4, <2>1 DEF Deliver
  <2>3. doubled' \in [Notice -> Nat]
    BY <1>1, <1>4
  <2> QED
    BY <1>2, <2>1, <2>2, <2>3
<1> QED
  BY <1>3, <1>4 DEF WakeRefused

-----------------------------------------------------------------------------
(* Who is going to look at the queue.                                      *)

\* Whoever leaves the queue marks what is in it.
LEMMA LeavesLate ==
    ASSUME DeliveryInv, LeavesQueue
    PROVE  OnlyLateSleep' /\ late' \in SUBSET Notice
<1>1. late \in SUBSET Notice /\ Queued' \in SUBSET Notice
  BY DEF DeliveryInv, DeliveryTypeOK, Queued
<1> QED
  BY <1>1 DEF LeavesQueue, OnlyLateSleep

\* The queue stands, and who was going to look at it still is.
LEMMA StillWatched ==
    ASSUME DeliveryInv, UNCHANGED <<queue, late>>, Awake => Awake'
    PROVE  OnlyLateSleep'
  BY DEF DeliveryInv, OnlyLateSleep, Queued

\* A thread has just got the reservation.
LEMMA OwnerAwake ==
    ASSUME NEW t \in Thread, owner' = t, thread'[t].pc # "idle"
    PROVE  OnlyLateSleep'
<1>1. WillLook(t)' /\ ~Stranded'
  BY DEF WillLook, Stranded
<1> QED
  BY <1>1 DEF Awake, OnlyLateSleep

\* A thread goes on that is going to look whoever owns the reservation.
LEMMA LookerAwake ==
    ASSUME DeliveryInv, NEW t \in Thread, NEW pc, NEW s, NEW reserved,
           ThreadGoes(t, pc, s, reserved), pc \in {"command"} \cup RetryPc \cup ToolPc,
           owner' = owner, thread[t].pc # "idle" \/ owner # t,
           UNCHANGED <<queue, late>>
    PROVE  OnlyLateSleep'
<1>1. WillLook(t)'
  BY DEF WillLook, ThreadGoes
<1>2. Stranded' => Stranded
  BY DEF Stranded, ThreadGoes, RetryPc, ToolPc, DeliveryInv, DeliveryTypeOK
<1>3. Awake => Awake'
  BY <1>1, <1>2 DEF Awake
<1> QED
  BY <1>3, StillWatched

-----------------------------------------------------------------------------
(* The steps that move no completion.                                      *)

\* Nothing changes its place.
LEMMA PlacesStill ==
    ASSUME PlaceInv, UNCHANGED <<queue, lost>>,
           \A n \in Notice : (Ahead(n)' <=> Ahead(n)) /\ (Level(n)' <=> Level(n)),
           \A n \in Notice : \A t \in Thread : Here(n, t)' <=> Here(n, t),
           \A n \in Notice : call'[n] = "done" <=> call[n] = "done"
    PROVE  PlaceInv'
<1>1. \A n \in Notice : Somewhere(n)' <=> Somewhere(n)
  BY DEF Somewhere
<1>2. \A n \in Notice : Apart(n) => Apart(n)'
  BY DEF Apart
<1> QED
  BY <1>1, <1>2 DEF PlaceInv

\* No thread moves.
LEMMA ThreadsStill ==
    ASSUME DeliveryInv, UNCHANGED <<queue, thread, lost>>,
           DeliveryTypeOK', owner' \in {owner, Nobody}, OnlyLateSleep',
           \A n \in Notice : (Ahead(n)' <=> Ahead(n)) /\ (Level(n)' <=> Level(n)),
           \A n \in Notice : call'[n] = "done" <=> call[n] = "done"
    PROVE  DeliveryInv'
<1>1. Shape'
  BY DEF DeliveryInv, Shape
<1>2. PlaceInv'
  BY PlacesStill DEF DeliveryInv, Here
<1>3. OwnerInv'
  BY DeliveryAssumption DEF DeliveryInv, OwnerInv
<1> QED
  BY <1>1, <1>2, <1>3 DEF DeliveryInv

\* A thread moves on with what it holds.
LEMMA QuietInv ==
    ASSUME DeliveryInv, NEW t \in Thread, NEW pc, NEW s, NEW reserved,
           ThreadGoes(t, pc, s, reserved), s = thread[t].taken, MayHold(pc, s),
           UNCHANGED <<call, queue, lost>>,
           \A n \in Notice : (Ahead(n)' <=> Ahead(n)) /\ (Level(n)' <=> Level(n)),
           DeliveryTypeOK', OnlyLateSleep',
           owner' \in {owner, t, Nobody}, owner' = t => MayOwn(pc, reserved)
    PROVE  DeliveryInv'
<1>1. /\ \A u \in Thread : MayHold(thread'[u].pc, thread'[u].taken)
      /\ \A n \in Notice : \A u \in Thread : Here(n, u)' <=> Here(n, u)
  BY HandsFact DEF Here
<1>2. Shape'
  BY <1>1 DEF DeliveryInv, Shape
<1>3. PlaceInv'
  BY <1>1, PlacesStill DEF DeliveryInv
<1>4. OwnerInv'
  BY OwnerStill
<1> QED
  BY <1>2, <1>3, <1>4 DEF DeliveryInv

LEMMA CallInv ==
    ASSUME DeliveryInv, NEW n \in Notice, Call(n) \/ CallRefused(n)
    PROVE  DeliveryInv'
<1>1. /\ faults' \in 0 .. MaxFaults
      /\ delivered' \in [Notice -> Nat] /\ doubled' \in [Notice -> Nat]
      /\ \A m \in Notice : (Ahead(m)' <=> Ahead(m)) /\ (Level(m)' <=> Level(m))
  <2>1. CASE Call(n)
    BY <2>1 DEF Call, Ahead, Level, DeliveryInv, DeliveryTypeOK
  <2>2. CASE CallRefused(n)
    BY <2>2, RefusedFact DEF CallRefused
  <2> QED
    BY <2>1, <2>2
<1>2. UNCHANGED <<queue, owner, interrupted, thread, pending, connected, requests, lost, late>>
  BY DEF Call, CallRefused
<1>3. /\ call' \in [Notice -> CallState]
      /\ \A m \in Notice : call'[m] = "done" <=> call[m] = "done"
  BY DEF DeliveryInv, DeliveryTypeOK, Call, StartCall, CallRefused, CallState
<1>4. DeliveryTypeOK'
  BY <1>1, <1>2, <1>3 DEF DeliveryInv, DeliveryTypeOK
<1>5. Awake => Awake'
  BY <1>2 DEF Awake, Stranded, WillLook
<1>6. OnlyLateSleep'
  BY <1>2, <1>5, StillWatched
<1> QED
  BY <1>1, <1>2, <1>3, <1>4, <1>6, ThreadsStill

\* Requests and events that start no thread.
LEMMA RequestInv ==
    ASSUME DeliveryInv, Rerun \/ Interrupt \/ Disconnect \/ Connect \/ ToolAsks
    PROVE  DeliveryInv'
<1>1. /\ UNCHANGED <<call, queue, delivered, thread, lost, doubled>>
      /\ owner' \in {owner, Nobody} /\ interrupted' \in BOOLEAN /\ connected' \in BOOLEAN
      /\ pending' \in Nat
  <2>1. interrupted' \in BOOLEAN /\ connected' \in BOOLEAN
    BY Zenon DEF Rerun, Interrupt, Disconnect, Connect, ToolAsks, DeliveryInv, DeliveryTypeOK
  <2>2. /\ UNCHANGED <<call, queue, delivered, thread, lost, doubled>>
        /\ owner' \in {owner, Nobody} /\ pending' \in Nat
    BY DEF Rerun, Interrupt, Disconnect, Connect, ToolAsks, DeliveryInv, DeliveryTypeOK
  <2> QED
    BY <2>1, <2>2
<1>2. requests' \in 0 .. MaxRequests /\ faults' \in 0 .. MaxFaults
  <2>1. requests' = requests \/ Asks
    BY DEF Rerun, Interrupt, Disconnect, Connect, ToolAsks
  <2>2. faults' = faults \/ Fault
    BY DEF Rerun, Interrupt, Disconnect, Connect, ToolAsks
  <2> QED
    BY <2>1, <2>2, AsksCounts, FaultCounts DEF DeliveryInv, DeliveryTypeOK
<1>3. OnlyLateSleep' /\ late' \in SUBSET Notice
  <2>1. CASE Interrupt \/ Disconnect
    BY <2>1, LeavesLate DEF Interrupt, Disconnect
  <2>2. CASE Rerun
    <3>1. owner' = Nobody /\ pending' > 0 /\ late' = late
      BY <2>2 DEF Rerun, CanReserve, Unreserved, DeliveryInv, DeliveryTypeOK
    <3>2. Awake'
      BY <3>1 DEF Awake, Stranded
    <3> QED
      BY <3>1, <3>2 DEF OnlyLateSleep, DeliveryInv, DeliveryTypeOK
  <2>3. CASE Connect \/ ToolAsks
    <3>1. UNCHANGED <<queue, owner, thread, pending, late>>
      BY <2>3 DEF Connect, ToolAsks
    <3>2. Awake => Awake'
      BY <3>1 DEF Awake, Stranded, WillLook
    <3> QED
      BY <3>1, <3>2, StillWatched DEF DeliveryInv, DeliveryTypeOK
  <2> QED
    BY <2>1, <2>2, <2>3
<1>4. DeliveryTypeOK'
  BY <1>1, <1>2, <1>3 DEF DeliveryInv, DeliveryTypeOK
<1>5. \A n \in Notice : (Ahead(n)' <=> Ahead(n)) /\ (Level(n)' <=> Level(n))
  BY <1>1 DEF Ahead, Level
<1> QED
  BY <1>1, <1>3, <1>4, <1>5, ThreadsStill

\* A step is reserved, or the worker of a rerun started.
LEMMA ReservesInv ==
    ASSUME DeliveryInv, NEW t \in Thread,
           UserStep(t) \/ TaskStep(t) \/ Skip(t) \/ RerunStarts(t) \/ ElectWins(t)
    PROVE  DeliveryInv'
<1>1. /\ UNCHANGED <<call, queue, delivered, connected, faults, lost, doubled, late>>
      /\ interrupted' \in BOOLEAN /\ pending' \in Nat /\ owner' = t
      /\ thread[t].pc \in {"idle", "elect"}
  <2>1. interrupted' \in BOOLEAN
    <3>1. interrupted' = FALSE \/ interrupted' = interrupted
      BY DEF UserStep, TaskStep, Skip, RerunStarts, ElectWins
    <3>2. interrupted \in BOOLEAN
      BY DEF DeliveryInv, DeliveryTypeOK
    <3> QED
      BY <3>1, <3>2, Zenon
  <2>2. /\ UNCHANGED <<call, queue, delivered, connected, faults, lost, doubled, late>>
        /\ pending' \in Nat /\ owner' = t
    <3>1. pending \in Nat
      BY DEF DeliveryInv, DeliveryTypeOK
    <3>2. pending' \in Nat
      BY <3>1 DEF UserStep, TaskStep, Skip, RerunStarts, ElectWins
    <3>3. UNCHANGED <<call, queue, delivered, connected, faults, lost, doubled, late>>
      BY DEF UserStep, TaskStep, Skip, RerunStarts, ElectWins
    <3> QED
      BY <3>2, <3>3 DEF UserStep, TaskStep, Skip, RerunStarts, ElectWins, Reserves
  <2>3. thread[t].pc \in {"idle", "elect"}
    BY DEF UserStep, TaskStep, Skip, RerunStarts, ElectWins, Reserves, Idle, Stands
  <2> QED
    BY <2>1, <2>2, <2>3
<1>2. requests' \in 0 .. MaxRequests
  <2>1. requests' = requests \/ Asks
    BY DEF UserStep, TaskStep, Skip, RerunStarts, ElectWins
  <2> QED
    BY <2>1, AsksCounts DEF DeliveryInv, DeliveryTypeOK
<1>3. PICK pc \in {"reserved", "claim"}, reserved \in BOOLEAN :
          /\ ThreadGoes(t, pc, <<>>, reserved)
          /\ MayOwn(pc, reserved)
  <2>1. DeliveryTypeOK /\ interrupted \in BOOLEAN
    BY DEF DeliveryInv, DeliveryTypeOK
  <2>2. "reserved" \in ThreadPc /\ "claim" \in ThreadPc
    BY DEF ThreadPc, StepPc, ToolPc
  <2>3. MayOwn("reserved", FALSE) /\ MayOwn("claim", TRUE)
    BY DEF MayOwn, StepPc, ToolPc
  <2>4. CASE UserStep(t) \/ TaskStep(t) \/ Skip(t) \/ ElectWins(t)
    <3>1. thread' = [thread EXCEPT ![t] = Step("reserved", interrupted)]
      BY <2>4 DEF UserStep, TaskStep, Skip, ElectWins, Reserves
    <3>2. ThreadGoes(t, "reserved", <<>>, FALSE)
      BY <2>1, <2>2, <3>1, StepRecord, RecordFact
    <3> QED
      BY <2>3, <3>2
  <2>5. CASE RerunStarts(t)
    <3> DEFINE record == [Step("claim", FALSE) EXCEPT !.reserved = TRUE]
    <3>1. thread' = [thread EXCEPT ![t] = record]
      BY <2>5 DEF RerunStarts, Reserves
    <3>2. /\ record \in ThreadRecord /\ record.pc = "claim" /\ record.taken = <<>>
          /\ record.reserved = TRUE
      <4>1. /\ Step("claim", FALSE) \in ThreadRecord /\ Step("claim", FALSE).pc = "claim"
            /\ Step("claim", FALSE).taken = <<>>
        BY <2>2, StepRecord
      <4> QED
        BY <4>1 DEF ThreadRecord
    <3> HIDE DEF record
    <3>3. ThreadGoes(t, "claim", <<>>, TRUE)
      BY <2>1, <3>1, <3>2, RecordFact
    <3> QED
      BY <2>3, <3>3
  <2> QED
    BY <2>4, <2>5
<1>4. thread[t].taken = <<>> /\ MayHold(pc, <<>>)
  BY <1>1, EmptyHands, EmptySeq DEF MayHold
<1>5. DeliveryTypeOK'
  BY <1>1, <1>2, <1>3 DEF DeliveryInv, DeliveryTypeOK, ThreadGoes
<1>6. OnlyLateSleep'
  <2>1. thread'[t].pc # "idle"
    BY <1>3 DEF ThreadGoes
  <2> QED
    BY <1>1, <2>1, OwnerAwake
<1>7. \A n \in Notice : (Ahead(n)' <=> Ahead(n)) /\ (Level(n)' <=> Level(n))
  BY <1>1 DEF Ahead, Level
<1> QED
  BY <1>1, <1>3, <1>4, <1>5, <1>6, <1>7, QuietInv

\* A thread ends without a look at the queue.
LEMMA EndsInv ==
    ASSUME DeliveryInv, NEW t \in Thread,
           \/ RollBack(t) \/ BeginRevoked(t) \/ SetupRaises(t) \/ EarlyExit(t)
           \/ ClaimFails(t) \/ ElectSkips(t) \/ WorkerRaises(t)
    PROVE  DeliveryInv'
<1>1. /\ UNCHANGED <<call, queue, delivered, pending, connected, requests, lost, doubled>>
      /\ owner' \in {owner, Nobody} /\ interrupted' \in BOOLEAN
      /\ Ends(t) /\ LeavesQueue
  <2>1. thread[t].found \in BOOLEAN /\ interrupted \in BOOLEAN
    BY DEF DeliveryInv, DeliveryTypeOK, ThreadRecord
  <2> QED
    BY <2>1 DEF RollBack, BeginRevoked, SetupRaises, EarlyExit, ClaimFails, ElectSkips,
       WorkerRaises, GivesUp, WorkerGivesUp
<1>2. thread[t].pc \in {"reserved", "begun", "hooked", "claim", "tool", "elect"}
  BY DEF RollBack, BeginRevoked, SetupRaises, EarlyExit, ClaimFails, ElectSkips,
     WorkerRaises, Stands, ToolPc
<1>3. faults' \in 0 .. MaxFaults
  <2>1. faults' = faults \/ Fault
    BY DEF RollBack, BeginRevoked, SetupRaises, EarlyExit, ClaimFails, ElectSkips, WorkerRaises
  <2> QED
    BY <2>1, FaultCounts DEF DeliveryInv, DeliveryTypeOK
<1>4. ThreadGoes(t, "idle", <<>>, FALSE)
  BY <1>1, EndsFact DEF DeliveryInv
<1>5. thread[t].taken = <<>> /\ MayHold("idle", <<>>) /\ MayOwn("idle", FALSE)
  BY <1>2, EmptyHands, EmptySeq DEF MayHold, MayOwn
<1>6. OnlyLateSleep' /\ late' \in SUBSET Notice
  BY <1>1, LeavesLate
<1>7. DeliveryTypeOK'
  BY <1>1, <1>3, <1>4, <1>6 DEF DeliveryInv, DeliveryTypeOK, ThreadGoes
<1>8. \A n \in Notice : (Ahead(n)' <=> Ahead(n)) /\ (Level(n)' <=> Level(n))
  BY <1>1 DEF Ahead, Level
<1> QED
  BY <1>1, <1>4, <1>5, <1>6, <1>7, <1>8, QuietInv

\* A step goes on.
LEMMA StepGoesInv ==
    ASSUME DeliveryInv, NEW t \in Thread, Begin(t) \/ Answer(t) \/ Registers(t)
    PROVE  DeliveryInv'
<1>1. /\ UNCHANGED <<call, queue, delivered, owner, interrupted, connected, faults, lost,
                     doubled, late>>
      /\ pending' \in {pending, pending + 1}
      /\ thread[t].pc \in {"reserved", "hooked", "answered"}
  BY DEF Begin, Answer, Registers, Stands
<1>2. requests' \in 0 .. MaxRequests
  <2>1. requests' = requests \/ Asks
    BY DEF Begin, Answer, Registers
  <2> QED
    BY <2>1, AsksCounts DEF DeliveryInv, DeliveryTypeOK
<1>3. PICK pc \in {"begun", "answered", "registered"} : Moves(t, pc)
  BY DEF Begin, Answer, Registers
<1>4. pc \in ThreadPc /\ pc \in StepPc
  BY DEF ThreadPc, StepPc
<1>5. ThreadGoes(t, pc, thread[t].taken, thread[t].reserved)
  BY <1>3, <1>4, MovesFact DEF DeliveryInv
<1>6. thread[t].taken = <<>> /\ MayHold(pc, <<>>) /\ MayOwn(pc, thread[t].reserved)
  BY <1>1, <1>4, EmptyHands, EmptySeq DEF MayHold, MayOwn
<1>7. pending \in Nat
  BY DEF DeliveryInv, DeliveryTypeOK
<1>8. DeliveryTypeOK'
  BY <1>1, <1>2, <1>5, <1>7 DEF DeliveryInv, DeliveryTypeOK, ThreadGoes
<1>9. OnlyLateSleep'
  <2>1. \A u \in Thread : WillLook(u) => WillLook(u)'
    <3> SUFFICES ASSUME NEW u \in Thread, WillLook(u)
                 PROVE  WillLook(u)'
      OBVIOUS
    <3>1. CASE u = t
      BY <1>1, <1>5, <3>1 DEF WillLook, ThreadGoes, RetryPc, ToolPc
    <3>2. CASE u # t
      BY <1>1, <1>5, <3>2 DEF WillLook, ThreadGoes
    <3> QED
      BY <3>1, <3>2
  <2>2. Stranded' => Stranded
    BY <1>1, <1>5 DEF Stranded, ThreadGoes, DeliveryInv, DeliveryTypeOK
  <2>3. pending > 0 => pending' > 0
    BY <1>1, <1>7
  <2>4. Awake => Awake'
    BY <2>1, <2>2, <2>3 DEF Awake
  <2> QED
    BY <1>1, <2>4, StillWatched
<1>10. \A n \in Notice : (Ahead(n)' <=> Ahead(n)) /\ (Level(n)' <=> Level(n))
  BY <1>1 DEF Ahead, Level
<1> QED
  BY <1>1, <1>5, <1>6, <1>8, <1>9, <1>10, QuietInv

\* A command or a tool goes on, or begins.
LEMMA WorkGoesInv ==
    ASSUME DeliveryInv, NEW t \in Thread,
           \/ UserCommand(t) \/ CommandEnds(t) \/ Confirm(t) \/ Chain(t)
           \/ Claim(t) \/ ToolEnds(t)
    PROVE  DeliveryInv'
<1>1. /\ UNCHANGED <<call, queue, delivered, owner, interrupted, connected, faults, lost,
                     doubled, late>>
      /\ pending' \in Nat
  BY DEF UserCommand, CommandEnds, Confirm, Chain, Claim, ToolEnds, DeliveryInv,
         DeliveryTypeOK
<1>2. requests' \in 0 .. MaxRequests
  <2>1. requests' = requests \/ Asks
    BY DEF UserCommand, CommandEnds, Confirm, Chain, Claim, ToolEnds
  <2> QED
    BY <2>1, AsksCounts DEF DeliveryInv, DeliveryTypeOK
<1>3. PICK pc \in {"command", "retry"} \cup ToolPc :
          /\ Moves(t, pc)
          /\ \/ t \in Idle
             \/ thread[t].pc = "command" /\ pc = "retry"
             \/ thread[t].pc \in ToolPc /\ pc \in ToolPc
  BY DEF UserCommand, CommandEnds, Confirm, Chain, Claim, ToolEnds, Stands, ToolPc
<1>4. pc \in ThreadPc /\ pc \notin {"drained", "rest", "back", "idle"}
      /\ thread[t].pc \notin {"drained", "rest", "back"}
      /\ (thread[t].pc # "idle" \/ owner # t)
  BY <1>3 DEF ThreadPc, ToolPc, RetryPc, Idle
<1>5. ThreadGoes(t, pc, thread[t].taken, thread[t].reserved)
  BY <1>3, <1>4, MovesFact DEF DeliveryInv
<1>6. thread[t].taken = <<>> /\ MayHold(pc, <<>>)
  BY <1>4, EmptyHands, EmptySeq DEF MayHold
<1>7. owner = t => MayOwn(pc, thread[t].reserved)
  BY <1>3 DEF DeliveryInv, OwnerInv, MayOwn, Idle, StepPc, ToolPc
<1>8. DeliveryTypeOK'
  BY <1>1, <1>2, <1>5 DEF DeliveryInv, DeliveryTypeOK, ThreadGoes
<1>9. OnlyLateSleep'
  BY <1>1, <1>3, <1>4, <1>5, LookerAwake DEF RetryPc
<1>10. \A n \in Notice : (Ahead(n)' <=> Ahead(n)) /\ (Level(n)' <=> Level(n))
  BY <1>1 DEF Ahead, Level
<1> QED
  BY <1>1, <1>5, <1>6, <1>7, <1>8, <1>9, <1>10, QuietInv

\* Only who releases the reservation looks at the queue again.
LEMMA ReleaseInv ==
    ASSUME DeliveryInv, NEW t \in Thread, Release(t)
    PROVE  DeliveryInv'
<1>1. /\ UNCHANGED <<call, queue, delivered, interrupted, pending, connected, requests,
                     faults, lost, doubled, late>>
      /\ thread[t].pc \in {"hooked", "answered", "registered"}
  BY DEF Release, Generates
<1>2. thread[t].taken = <<>> /\ MayHold("retry", <<>>) /\ MayHold("idle", <<>>)
  BY <1>1, EmptyHands, EmptySeq DEF MayHold
<1>3. \A n \in Notice : (Ahead(n)' <=> Ahead(n)) /\ (Level(n)' <=> Level(n))
  BY <1>1 DEF Ahead, Level
<1>4. CASE owner = t
  <2>1. owner' = Nobody /\ Moves(t, "retry")
    BY <1>4 DEF Release, GivesUp
  <2>2. ThreadGoes(t, "retry", <<>>, thread[t].reserved)
    BY <1>2, <2>1, MovesFact DEF DeliveryInv, ThreadPc, RetryPc
  <2>3. DeliveryTypeOK'
    BY <1>1, <2>1, <2>2 DEF DeliveryInv, DeliveryTypeOK, ThreadGoes
  <2>4. OnlyLateSleep'
    <3>1. WillLook(t)' /\ ~Stranded'
      BY <2>1, <2>2 DEF WillLook, Stranded, ThreadGoes, RetryPc
    <3> QED
      BY <3>1 DEF Awake, OnlyLateSleep
  <2> QED
    BY <1>1, <1>2, <1>3, <2>1, <2>2, <2>3, <2>4, DeliveryAssumption, QuietInv
<1>5. CASE owner # t
  <2>1. owner' = owner /\ Ends(t)
    BY <1>5 DEF Release, GivesUp
  <2>2. ThreadGoes(t, "idle", <<>>, FALSE)
    BY <2>1, EndsFact DEF DeliveryInv
  <2>3. DeliveryTypeOK'
    BY <1>1, <2>1, <2>2 DEF DeliveryInv, DeliveryTypeOK, ThreadGoes
  <2>4. OnlyLateSleep'
    <3>1. ASSUME NEW u \in Thread, WillLook(u)
          PROVE  WillLook(u)'
      <4>1. u # t
        BY <1>1, <1>5, <3>1 DEF WillLook, RetryPc, ToolPc
      <4> QED
        BY <2>1, <2>2, <3>1, <4>1 DEF WillLook, ThreadGoes
    <3>2. Stranded' => Stranded
      BY <1>5, <2>1, <2>2 DEF Stranded, ThreadGoes, DeliveryInv, DeliveryTypeOK
    <3>3. Awake => Awake'
      BY <1>1, <3>1, <3>2 DEF Awake
    <3> QED
      BY <1>1, <3>3, StillWatched
  <2> QED
    BY <1>1, <1>2, <1>3, <1>5, <2>1, <2>2, <2>3, <2>4, QuietInv
<1> QED
  BY <1>4, <1>5

\* Whoever is the reason of a lost election is going to look.
LEMMA ElectLosesInv ==
    ASSUME DeliveryInv, NEW t \in Thread, ElectLoses(t)
    PROVE  DeliveryInv'
<1>1. /\ UNCHANGED <<call, queue, delivered, interrupted, pending, connected, requests,
                     faults, lost, doubled, late>>
      /\ thread[t].pc = "elect" /\ Ends(t) /\ WorkerGivesUp(t)
      /\ ~Superseded(t) /\ ~MayContinueAfter(t)
  BY DEF ElectLoses, Stands
<1>2. ThreadGoes(t, "idle", <<>>, FALSE)
  BY <1>1, EndsFact DEF DeliveryInv
<1>3. thread[t].taken = <<>> /\ MayHold("idle", <<>>) /\ MayOwn("idle", FALSE)
  BY <1>1, EmptyHands, EmptySeq DEF MayHold, MayOwn
<1>4. IF thread[t].reserved THEN owner = t /\ owner' = Nobody ELSE owner # t /\ owner' = owner
  <2>1. owner = t => thread[t].reserved
    BY <1>1 DEF DeliveryInv, OwnerInv, MayOwn, StepPc
  <2> QED
    BY <1>1, <2>1 DEF Superseded, WorkerGivesUp, GivesUp
<1>5. \/ pending > 0
      \/ \E u \in Thread : thread[u].pc = "tool"
      \/ ~thread[t].reserved /\ (owner # Nobody \/ \E u \in Thread : thread[u].pc = "command")
  BY <1>1 DEF MayContinueAfter, NoToolExecutes, Unreserved, NoCommand, DeliveryInv,
     DeliveryTypeOK
<1>6. DeliveryTypeOK'
  BY <1>1, <1>2, <1>4 DEF DeliveryInv, DeliveryTypeOK, ThreadGoes
<1>7. OnlyLateSleep'
  <2>1. Stranded' => Stranded
    BY <1>2, <1>4 DEF Stranded, ThreadGoes, DeliveryInv, DeliveryTypeOK
  <2>2. ASSUME NEW u \in Thread, thread[u].pc \in {"tool", "command"}
        PROVE  WillLook(u)'
    <3>1. u # t
      BY <1>1, <2>2
    <3> QED
      BY <1>2, <2>2, <3>1 DEF WillLook, ThreadGoes, ToolPc
  <2>3. ASSUME ~thread[t].reserved, owner # Nobody, ~Stranded
        PROVE  \E u \in Thread : WillLook(u)'
    <3>1. owner \in Thread /\ owner # t /\ owner' = owner /\ thread[owner].pc # "idle"
      BY <1>4, <2>3 DEF Stranded, DeliveryInv, DeliveryTypeOK
    <3> QED
      BY <1>2, <3>1 DEF WillLook, ThreadGoes
  <2>4. ~Stranded => Awake'
    BY <1>1, <1>5, <2>1, <2>2, <2>3 DEF Awake
  <2> QED
    BY <1>1, <2>4, StillWatched DEF Awake
<1>8. \A n \in Notice : (Ahead(n)' <=> Ahead(n)) /\ (Level(n)' <=> Level(n))
  BY <1>1 DEF Ahead, Level
<1> QED
  BY <1>1, <1>2, <1>3, <1>4, <1>6, <1>7, <1>8, QuietInv

LEMMA RetryRefusedInv ==
    ASSUME DeliveryInv, NEW t \in Thread, RetryRefused(t)
    PROVE  DeliveryInv'
<1> DEFINE s == thread[t].taken
<1>1. /\ UNCHANGED <<call, queue, owner, interrupted, pending, connected, requests, lost, late>>
      /\ thread[t].pc = "rest" /\ Len(s) = 1 /\ Moves(t, "back") /\ WakeRefused(Head(s))
  BY DEF RetryRefused, HoldsOne, Stands, Held
<1>2. s \in Seq(Notice) /\ NoDup(s)
  BY DEF DeliveryInv, DeliveryTypeOK, ThreadRecord, Shape, MayHold
<1>3. Head(s) \in Notice /\ MayHold("back", s)
  BY <1>1, <1>2, OneSeq DEF MayHold
<1>4. ThreadGoes(t, "back", s, thread[t].reserved)
  BY <1>1, MovesFact DEF DeliveryInv, ThreadPc, RetryPc
<1> HIDE DEF s
<1>5. /\ faults' \in 0 .. MaxFaults
      /\ delivered' \in [Notice -> Nat] /\ doubled' \in [Notice -> Nat]
      /\ \A m \in Notice : (Ahead(m)' <=> Ahead(m)) /\ (Level(m)' <=> Level(m))
  BY <1>1, <1>3, RefusedFact
<1>6. DeliveryTypeOK'
  BY <1>1, <1>4, <1>5 DEF DeliveryInv, DeliveryTypeOK, ThreadGoes
<1>7. OnlyLateSleep'
  BY <1>1, <1>4, LookerAwake DEF RetryPc
<1>8. owner # t
  BY <1>1 DEF DeliveryInv, OwnerInv, MayOwn, StepPc, ToolPc
<1>9. s = thread[t].taken
  BY DEF s
<1> QED
  BY <1>1, <1>3, <1>4, <1>5, <1>6, <1>7, <1>8, <1>9, QuietInv

-----------------------------------------------------------------------------
(* The steps that move completions.                                        *)

\* The call persists the message and reserves a step.
LEMMA CallWakesInv ==
    ASSUME DeliveryInv, NEW n \in Notice, NEW t \in Thread, CallWakes(n, t)
    PROVE  DeliveryInv'
<1>1. /\ call[n] = "calling" /\ t \in Idle /\ Deliver(<<n>>) /\ doubled' = doubled
      /\ thread' = [thread EXCEPT ![t] = Step("reserved", FALSE)]
      /\ owner' = t /\ interrupted' = FALSE /\ call' = [call EXCEPT ![n] = "done"]
      /\ UNCHANGED <<queue, pending, connected, requests, faults, lost, late>>
  BY DEF CallWakes, Reserves
<1>2. "reserved" \in ThreadPc /\ MayHold("reserved", <<>>) /\ MayOwn("reserved", FALSE)
  BY EmptySeq DEF ThreadPc, StepPc, MayHold, MayOwn
<1>3. ThreadGoes(t, "reserved", <<>>, FALSE)
  BY <1>1, <1>2, StepRecord, RecordFact DEF DeliveryInv
<1>4. \A m \in Notice : ~Here(m, t) /\ ~InSeq(m, <<>>)
  BY <1>1, EmptyHands, EmptySeq DEF Idle
<1>5. /\ \A u \in Thread : MayHold(thread'[u].pc, thread'[u].taken)
      /\ \A m \in Notice : \A u \in Thread : Here(m, u)' <=> Here(m, u)
  <2>1. /\ \A u \in Thread : MayHold(thread'[u].pc, thread'[u].taken)
        /\ \A m \in Notice : Here(m, t)' <=> InSeq(m, <<>>)
        /\ \A m \in Notice : \A u \in Thread \ {t} : Here(m, u)' <=> Here(m, u)
    BY <1>2, <1>3, HandsFact
  <2> QED
    BY <1>4, <2>1
<1>6. ~Somewhere(n)
  BY <1>1 DEF DeliveryInv, PlaceInv
<1>7. <<n>> \in Seq(Notice) /\ \A m \in Notice : InSeq(m, <<n>>) <=> m = n
  BY Single
<1>8. \A m \in Notice : InSeq(m, <<n>>) => ~Ahead(m)
  BY <1>6, <1>7 DEF Somewhere
<1>9. /\ delivered' \in [Notice -> Nat]
      /\ \A m \in Notice : Ahead(m)' <=> Ahead(m) \/ m = n
      /\ \A m \in Notice : Level(m)' \/ Ahead(m)'
  BY <1>1, <1>7, <1>8, Delivered
<1>10. DeliveryTypeOK'
  BY <1>1, <1>3, <1>9 DEF DeliveryInv, DeliveryTypeOK, ThreadGoes, CallState
<1>11. Shape'
  BY <1>1, <1>5 DEF DeliveryInv, Shape
<1>12. \A m \in Notice : call'[m] = "done" <=> call[m] = "done" \/ m = n
  BY <1>1 DEF DeliveryInv, DeliveryTypeOK
<1>13. \A m \in Notice : Somewhere(m)' <=> Somewhere(m) \/ m = n
  BY <1>1, <1>5, <1>9 DEF Somewhere
<1>14. \A m \in Notice : Apart(m)'
  BY <1>1, <1>5, <1>6, <1>9 DEF DeliveryInv, PlaceInv, Apart, Somewhere
<1>15. PlaceInv'
  BY <1>9, <1>12, <1>13, <1>14 DEF DeliveryInv, PlaceInv
<1>16. OwnerInv'
  BY <1>1, <1>2, <1>3, OwnerStill
<1>17. OnlyLateSleep'
  BY <1>1, <1>3, OwnerAwake DEF ThreadGoes
<1> QED
  BY <1>10, <1>11, <1>15, <1>16, <1>17 DEF DeliveryInv

LEMMA CallQueuesInv ==
    ASSUME DeliveryInv, NEW n \in Notice, CallQueues(n)
    PROVE  DeliveryInv'
<1>1. /\ queue \in Seq(Notice) /\ queue' = Append(queue, n) /\ NoDup(queue) /\ LeavesQueue
      /\ call[n] = "refused" /\ call' = [call EXCEPT ![n] = "done"]
      /\ UNCHANGED <<delivered, owner, interrupted, thread, pending, connected,
                     requests, faults, lost, doubled>>
  BY DEF DeliveryInv, DeliveryTypeOK, Shape, CallQueues, Put
<1>2. ~Somewhere(n)
  BY <1>1 DEF DeliveryInv, PlaceInv
<1>3. ~InSeq(n, queue)
  BY <1>2 DEF Somewhere
<1>4. /\ queue' \in Seq(Notice) /\ NoDup(queue')
      /\ \A m \in Notice : InSeq(m, queue') <=> InSeq(m, queue) \/ m = n
  BY <1>1, <1>3, AppendSeq
<1>5. OnlyLateSleep' /\ late' \in SUBSET Notice
  BY <1>1, LeavesLate
<1>6. DeliveryTypeOK'
  BY <1>1, <1>4, <1>5 DEF DeliveryInv, DeliveryTypeOK, CallState
<1>7. Shape'
  BY <1>1, <1>4 DEF DeliveryInv, Shape
<1>8. \A m \in Notice : call'[m] = "done" <=> call[m] = "done" \/ m = n
  BY <1>1 DEF DeliveryInv, DeliveryTypeOK
<1>9. /\ \A m \in Notice : \A u \in Thread : Here(m, u)' <=> Here(m, u)
      /\ \A m \in Notice : (Ahead(m)' <=> Ahead(m)) /\ (Level(m)' <=> Level(m))
  BY <1>1 DEF Here, Ahead, Level
<1>10. \A m \in Notice : Somewhere(m)' <=> Somewhere(m) \/ m = n
  BY <1>1, <1>4, <1>9 DEF Somewhere
<1>11. \A m \in Notice : Apart(m)'
  BY <1>1, <1>2, <1>4, <1>9 DEF DeliveryInv, PlaceInv, Apart, Somewhere
<1>12. PlaceInv'
  BY <1>8, <1>9, <1>10, <1>11 DEF DeliveryInv, PlaceInv
<1>13. OwnerInv'
  BY <1>1 DEF DeliveryInv, OwnerInv
<1> QED
  BY <1>5, <1>6, <1>7, <1>12, <1>13 DEF DeliveryInv

\* The queue goes into the hands of a thread that had nothing.
LEMMA TakesInv ==
    ASSUME DeliveryInv, NEW t \in Thread, Drain(t) \/ RetryTakes(t)
    PROVE  DeliveryInv'
<1>1. /\ thread[t].pc \in {"begun", "retry"} /\ TakeAll
      /\ UNCHANGED <<call, delivered, owner, interrupted, pending, connected, requests,
                     faults, lost, doubled>>
  BY DEF Drain, RetryTakes, Stands
<1>2. queue \in Seq(Notice) /\ NoDup(queue)
  BY DEF DeliveryInv, DeliveryTypeOK, Shape
<1>3. thread[t].reserved \in BOOLEAN
  BY DEF DeliveryInv, DeliveryTypeOK, ThreadRecord
<1>4. PICK pc \in {"drained", "rest", "idle"}, reserved \in BOOLEAN :
          /\ ThreadGoes(t, pc, queue, reserved) /\ MayHold(pc, queue)
          /\ owner = t => pc = "drained"
  <2>1. CASE Drain(t)
    <3>1. ThreadGoes(t, "drained", queue, thread[t].reserved)
      BY <1>2, <2>1, MovesWithFact DEF Drain, DeliveryInv, ThreadPc, StepPc
    <3> QED
      BY <1>2, <1>3, <3>1 DEF MayHold
  <2>2. CASE RetryTakes(t)
    <3>1. owner # t
      BY <2>2 DEF RetryTakes, Stands, DeliveryInv, OwnerInv, MayOwn, StepPc, ToolPc
    <3>2. CASE queue = <<>>
      <4>1. ThreadGoes(t, "idle", queue, FALSE)
        BY <2>2, <3>2, EndsFact DEF RetryTakes, DeliveryInv
      <4> QED
        BY <1>2, <3>1, <3>2, <4>1 DEF MayHold
    <3>3. CASE queue # <<>>
      <4>1. ThreadGoes(t, "rest", queue, thread[t].reserved)
        BY <1>2, <2>2, <3>3, MovesWithFact DEF RetryTakes, DeliveryInv, ThreadPc, RetryPc
      <4> QED
        BY <1>2, <1>3, <3>1, <3>3, <4>1 DEF MayHold
    <3> QED
      BY <3>2, <3>3
  <2> QED
    BY <2>1, <2>2
<1>5. \A n \in Notice : ~Here(n, t)
  BY <1>1, EmptyHands
<1>6. /\ \A u \in Thread : MayHold(thread'[u].pc, thread'[u].taken)
      /\ \A n \in Notice : Here(n, t)' <=> InSeq(n, queue)
      /\ \A n \in Notice : \A u \in Thread \ {t} : Here(n, u)' <=> Here(n, u)
  BY <1>4, HandsFact
<1>7. queue' \in Seq(Notice) /\ NoDup(queue') /\ \A n \in Notice : ~InSeq(n, queue')
  BY <1>1, EmptySeq DEF TakeAll
<1>8. DeliveryTypeOK'
  BY <1>1, <1>4, <1>7 DEF DeliveryInv, DeliveryTypeOK, TakeAll, ThreadGoes
<1>9. Shape'
  BY <1>6, <1>7 DEF Shape
<1>10. \A n \in Notice : (Ahead(n)' <=> Ahead(n)) /\ (Level(n)' <=> Level(n))
  BY <1>1 DEF Ahead, Level
<1>11. ASSUME NEW n \in Notice
       PROVE  (Somewhere(n)' <=> Somewhere(n)) /\ (Apart(n) => Apart(n)')
  <2>1. Somewhere(n) => Somewhere(n)'
    BY <1>1, <1>5, <1>6, <1>10 DEF Somewhere
  <2>2. Somewhere(n)' => Somewhere(n)
    BY <1>1, <1>6, <1>7, <1>10 DEF Somewhere
  <2>3. Apart(n) => Apart(n)'
    BY <1>1, <1>5, <1>6, <1>7, <1>10 DEF Apart
  <2> QED
    BY <2>1, <2>2, <2>3
<1>12. PlaceInv'
  BY <1>1, <1>10, <1>11 DEF DeliveryInv, PlaceInv
<1>13. OwnerInv'
  BY <1>1, <1>4, OwnerStill DEF MayOwn, StepPc
<1>14. OnlyLateSleep'
  BY <1>7 DEF OnlyLateSleep, Queued
<1> QED
  BY <1>8, <1>9, <1>12, <1>13, <1>14 DEF DeliveryInv

\* What a thread holds reaches the log, or is lost, and it holds nothing.
LEMMA LeavesHands ==
    ASSUME DeliveryInv, NEW t \in Thread,
           NEW p \in Seq(Notice), NEW left \in SUBSET Notice,
           \A n \in Notice : Here(n, t) <=> InSeq(n, p) \/ n \in left,
           \A n \in Notice : ~(InSeq(n, p) /\ n \in left),
           Deliver(p), lost' = lost \cup left, UNCHANGED <<call, queue, doubled>>,
           \A n \in Notice : ~Here(n, t)',
           \A n \in Notice : \A u \in Thread \ {t} : Here(n, u)' <=> Here(n, u)
    PROVE  delivered' \in [Notice -> Nat] /\ lost' \in SUBSET Notice /\ PlaceInv'
<1>1. \A n \in Notice : InSeq(n, p) => ~Ahead(n)
  BY DEF DeliveryInv, PlaceInv, Apart
<1>2. /\ delivered' \in [Notice -> Nat]
      /\ \A n \in Notice : Ahead(n)' <=> Ahead(n) \/ InSeq(n, p)
      /\ \A n \in Notice : Level(n)' \/ Ahead(n)'
  BY <1>1, Delivered
<1>3. ASSUME NEW n \in Notice
      PROVE  (Somewhere(n)' <=> Somewhere(n)) /\ (Apart(n) => Apart(n)')
  <2>1. Somewhere(n) => Somewhere(n)'
    BY <1>2 DEF Somewhere
  <2>2. Somewhere(n)' => Somewhere(n)
    BY <1>2 DEF Somewhere
  <2>3. Apart(n) => Apart(n)'
    BY <1>2 DEF Apart
  <2> QED
    BY <2>1, <2>2, <2>3
<1>4. PlaceInv'
  BY <1>2, <1>3 DEF DeliveryInv, PlaceInv
<1> QED
  BY <1>2, <1>4 DEF DeliveryInv, DeliveryTypeOK

\* What the hook took reaches the log.
LEMMA AppendsInv ==
    ASSUME DeliveryInv, NEW t \in Thread, AppendsTaken(t)
    PROVE  DeliveryInv'
<1> DEFINE s == thread[t].taken
<1>1. /\ thread[t].pc = "drained" /\ Deliver(s) /\ MovesWith(t, "hooked", <<>>)
      /\ UNCHANGED <<call, queue, owner, interrupted, pending, connected, requests, faults,
                     lost, doubled, late>>
  BY DEF AppendsTaken, Stands
<1>2. s \in Seq(Notice) /\ \A n \in Notice : Here(n, t) <=> InSeq(n, s)
  BY DEF DeliveryInv, DeliveryTypeOK, ThreadRecord, Here
<1>3. /\ "hooked" \in ThreadPc /\ MayHold("hooked", <<>>) /\ <<>> \in Seq(Notice)
      /\ MayOwn("hooked", thread[t].reserved)
  BY EmptySeq DEF ThreadPc, StepPc, MayHold, MayOwn
<1>4. ThreadGoes(t, "hooked", <<>>, thread[t].reserved)
  BY <1>1, <1>3, MovesWithFact DEF DeliveryInv
<1> HIDE DEF s
<1>5. /\ \A u \in Thread : MayHold(thread'[u].pc, thread'[u].taken)
      /\ \A n \in Notice : Here(n, t)' <=> InSeq(n, <<>>)
      /\ \A n \in Notice : \A u \in Thread \ {t} : Here(n, u)' <=> Here(n, u)
  BY <1>3, <1>4, HandsFact
<1>6. delivered' \in [Notice -> Nat] /\ PlaceInv'
  <2>1. \A n \in Notice : ~Here(n, t)'
    BY <1>5, EmptySeq
  <2>2. lost' = lost \cup {} /\ {} \in SUBSET Notice
    BY <1>1
  <2>3. /\ \A n \in Notice : Here(n, t) <=> InSeq(n, s) \/ n \in {}
        /\ \A n \in Notice : ~(InSeq(n, s) /\ n \in {})
    BY <1>2
  <2> QED
    <3>1. \A n \in Notice : \A u \in Thread \ {t} : Here(n, u)' <=> Here(n, u)
      BY <1>5
    <3>2. Deliver(s) /\ s \in Seq(Notice) /\ UNCHANGED <<call, queue, doubled>>
      BY <1>1, <1>2
    <3> QED
      BY <2>1, <2>2, <2>3, <3>1, <3>2, LeavesHands
<1>7. DeliveryTypeOK'
  BY <1>1, <1>4, <1>6 DEF DeliveryInv, DeliveryTypeOK, ThreadGoes
<1>8. Shape'
  BY <1>1, <1>5 DEF DeliveryInv, Shape
<1>9. OwnerInv'
  BY <1>1, <1>3, <1>4, OwnerStill
<1>10. OnlyLateSleep'
  <2>1. \A u \in Thread : WillLook(u) => WillLook(u)'
    <3> SUFFICES ASSUME NEW u \in Thread, WillLook(u)
                 PROVE  WillLook(u)'
      OBVIOUS
    <3>1. CASE u = t
      BY <1>1, <1>4, <3>1 DEF WillLook, ThreadGoes, RetryPc, ToolPc
    <3>2. CASE u # t
      BY <1>1, <1>4, <3>2 DEF WillLook, ThreadGoes
    <3> QED
      BY <3>1, <3>2
  <2>2. Stranded' => Stranded
    BY <1>1, <1>4 DEF Stranded, ThreadGoes, DeliveryInv, DeliveryTypeOK
  <2>3. Awake => Awake'
    BY <1>1, <2>1, <2>2 DEF Awake
  <2> QED
    BY <1>1, <2>3, StillWatched
<1> QED
  BY <1>6, <1>7, <1>8, <1>9, <1>10 DEF DeliveryInv

\* A thread fails with what it holds: a part of it is appended, the rest lost.
LEMMA FailsInv ==
    ASSUME DeliveryInv, NEW t \in Thread,
           NEW p \in Seq(Notice), NEW left \in SUBSET Notice,
           \A n \in Notice : Here(n, t) <=> InSeq(n, p) \/ n \in left,
           \A n \in Notice : ~(InSeq(n, p) /\ n \in left),
           Deliver(p), lost' = lost \cup left, Ends(t), LeavesQueue, Fault,
           UNCHANGED <<call, queue, owner, interrupted, pending, connected, requests, doubled>>
    PROVE  DeliveryInv'
<1>1. ThreadGoes(t, "idle", <<>>, FALSE)
  BY EndsFact DEF DeliveryInv
<1>2. MayHold("idle", <<>>) /\ MayOwn("idle", FALSE)
  BY EmptySeq DEF MayHold, MayOwn
<1>3. /\ \A u \in Thread : MayHold(thread'[u].pc, thread'[u].taken)
      /\ \A n \in Notice : Here(n, t)' <=> InSeq(n, <<>>)
      /\ \A n \in Notice : \A u \in Thread \ {t} : Here(n, u)' <=> Here(n, u)
  BY <1>1, <1>2, HandsFact
<1>4. \A n \in Notice : ~Here(n, t)'
  BY <1>3, EmptySeq
<1>5. delivered' \in [Notice -> Nat] /\ lost' \in SUBSET Notice /\ PlaceInv'
  BY <1>3, <1>4, LeavesHands
<1>6. OnlyLateSleep' /\ late' \in SUBSET Notice
  BY LeavesLate
<1>7. faults' \in 0 .. MaxFaults
  BY FaultCounts
<1>8. DeliveryTypeOK'
  BY <1>1, <1>5, <1>6, <1>7 DEF DeliveryInv, DeliveryTypeOK, ThreadGoes
<1>9. Shape'
  BY <1>3 DEF DeliveryInv, Shape
<1>10. OwnerInv'
  BY <1>1, <1>2, OwnerStill
<1> QED
  BY <1>5, <1>6, <1>8, <1>9, <1>10 DEF DeliveryInv

LEMMA AppendFailsInv ==
    ASSUME DeliveryInv, NEW t \in Thread, AppendFails(t)
    PROVE  DeliveryInv'
<1> DEFINE s == thread[t].taken
<1>1. /\ Fault /\ Ends(t) /\ LeavesQueue
      /\ UNCHANGED <<call, queue, owner, interrupted, pending, connected, requests, doubled>>
  BY DEF AppendFails
<1>2. PICK i \in 1 .. Len(s) + 1 :
          /\ Deliver(SubSeq(s, 1, i - 1))
          /\ lost' = lost \cup {s[j] : j \in i .. Len(s)}
  BY DEF AppendFails
<1>3. s \in Seq(Notice) /\ NoDup(s) /\ \A n \in Notice : Here(n, t) <=> InSeq(n, s)
  BY DEF DeliveryInv, DeliveryTypeOK, ThreadRecord, Shape, MayHold, Here
<1> HIDE DEF s
<1> DEFINE p == SubSeq(s, 1, i - 1)
<1> DEFINE left == {s[j] : j \in i .. Len(s)}
<1>4. p \in Seq(Notice)
  BY <1>3
<1>5. /\ left \in SUBSET Notice
      /\ \A n \in Notice : InSeq(n, s) <=> InSeq(n, p) \/ n \in left
      /\ \A n \in Notice : ~(InSeq(n, p) /\ n \in left)
  <2>1. /\ DOMAIN p = 1 .. i - 1 /\ \A j \in 1 .. i - 1 : p[j] = s[j]
        /\ DOMAIN s = 1 .. Len(s) /\ Len(s) \in Nat /\ i \in Nat
        /\ \A j \in 1 .. Len(s) : s[j] \in Notice
    BY <1>3
  <2>2. \A x : x \in left <=> \E j \in i .. Len(s) : x = s[j]
    OBVIOUS
  <2> HIDE DEF p, left
  <2>3. \A j \in 1 .. i - 1 : j \in DOMAIN s
    BY <2>1
  <2>4. \A j \in i .. Len(s) : j \in DOMAIN s /\ j \notin 1 .. i - 1
    BY <2>1
  <2>5. \A j \in DOMAIN s : j \in 1 .. i - 1 \/ j \in i .. Len(s)
    BY <2>1
  <2>6. left \in SUBSET Notice
    BY <2>1, <2>2, <2>4
  <2>7. \A n \in Notice : InSeq(n, s) <=> InSeq(n, p) \/ n \in left
    BY <2>1, <2>2, <2>3, <2>4, <2>5 DEF InSeq
  <2>8. \A n \in Notice : ~(InSeq(n, p) /\ n \in left)
    BY <1>3, <2>1, <2>2, <2>3, <2>4 DEF InSeq, NoDup
  <2> QED
    BY <2>6, <2>7, <2>8
<1>6. Deliver(p) /\ lost' = lost \cup left
  BY <1>2
<1> HIDE DEF p, left
<1> QED
  BY <1>1, <1>3, <1>4, <1>5, <1>6, FailsInv

LEMMA RetryRaisesInv ==
    ASSUME DeliveryInv, NEW t \in Thread, RetryRaises(t)
    PROVE  DeliveryInv'
<1> DEFINE s == thread[t].taken
<1>1. /\ Fault /\ Ends(t) /\ LeavesQueue /\ Len(s) = 1 /\ lost' = lost \cup {Head(s)}
      /\ UNCHANGED <<call, queue, delivered, owner, interrupted, pending, connected,
                     requests, doubled>>
  BY DEF RetryRaises, HoldsOne, Held
<1>2. s \in Seq(Notice) /\ \A n \in Notice : Here(n, t) <=> InSeq(n, s)
  BY DEF DeliveryInv, DeliveryTypeOK, ThreadRecord, Here
<1> HIDE DEF s
<1>3. {Head(s)} \in SUBSET Notice /\ \A n \in Notice : InSeq(n, s) <=> n = Head(s)
  BY <1>1, <1>2, OneSeq
<1>4. Deliver(<<>>)
  <2>1. delivered \in [Notice -> Nat]
    BY DEF DeliveryInv, DeliveryTypeOK
  <2>2. delivered = [n \in Notice |-> delivered[n] + (IF InSeq(n, <<>>) THEN 1 ELSE 0)]
    BY <2>1, EmptySeq
  <2> QED
    BY <1>1, <2>2 DEF Deliver
<1>5. /\ <<>> \in Seq(Notice)
      /\ \A n \in Notice : Here(n, t) <=> InSeq(n, <<>>) \/ n \in {Head(s)}
      /\ \A n \in Notice : ~(InSeq(n, <<>>) /\ n \in {Head(s)})
  BY <1>2, <1>3, EmptySeq
<1> QED
  BY <1>1, <1>3, <1>4, <1>5, FailsInv

\* One completion goes from a thread to the end of the queue.
LEMMA PutsInv ==
    ASSUME DeliveryInv, NEW t \in Thread, NEW pc, NEW s, NEW reserved, NEW n \in Notice,
           ThreadGoes(t, pc, s, reserved), MayHold(pc, s), Put(n), owner # t,
           UNCHANGED <<call, delivered, owner, interrupted, pending, connected, requests,
                       faults, lost, doubled>>,
           Here(n, t),
           \A m \in Notice : InSeq(m, s) <=> Here(m, t) /\ m # n
    PROVE  DeliveryInv'
<1>1. queue \in Seq(Notice) /\ NoDup(queue) /\ ~InSeq(n, queue)
  BY DEF DeliveryInv, DeliveryTypeOK, Shape, PlaceInv, Apart
<1>2. /\ queue' \in Seq(Notice) /\ NoDup(queue')
      /\ \A m \in Notice : InSeq(m, queue') <=> InSeq(m, queue) \/ m = n
  BY <1>1, AppendSeq DEF Put
<1>3. /\ \A u \in Thread : MayHold(thread'[u].pc, thread'[u].taken)
      /\ \A m \in Notice : Here(m, t)' <=> InSeq(m, s)
      /\ \A m \in Notice : \A u \in Thread \ {t} : Here(m, u)' <=> Here(m, u)
  BY HandsFact
<1>4. OnlyLateSleep' /\ late' \in SUBSET Notice
  BY LeavesLate DEF Put
<1>5. DeliveryTypeOK'
  BY <1>2, <1>4 DEF DeliveryInv, DeliveryTypeOK, ThreadGoes
<1>6. Shape'
  BY <1>2, <1>3 DEF Shape
<1>7. \A m \in Notice : (Ahead(m)' <=> Ahead(m)) /\ (Level(m)' <=> Level(m))
  BY DEF Ahead, Level
<1>8. ASSUME NEW m \in Notice
      PROVE  (Somewhere(m)' <=> Somewhere(m)) /\ (Apart(m) => Apart(m)')
  <2>1. /\ Here(m, t)' <=> Here(m, t) /\ m # n
        /\ m = n => Here(m, t)
    BY <1>3
  <2>2. Somewhere(m) => Somewhere(m)'
    BY <1>2, <1>3, <1>7, <2>1 DEF Somewhere
  <2>3. Somewhere(m)' => Somewhere(m)
    BY <1>2, <1>3, <1>7, <2>1 DEF Somewhere
  <2>4. Apart(m) => Apart(m)'
    BY <1>2, <1>3, <1>7, <2>1 DEF Apart
  <2> QED
    BY <2>2, <2>3, <2>4
<1>9. PlaceInv'
  BY <1>7, <1>8 DEF DeliveryInv, PlaceInv
<1>10. OwnerInv'
  BY OwnerStill
<1> QED
  BY <1>4, <1>5, <1>6, <1>9, <1>10 DEF DeliveryInv

LEMMA PutsRestInv ==
    ASSUME DeliveryInv, NEW t \in Thread, RetryPutsRest(t)
    PROVE  DeliveryInv'
<1> DEFINE s == thread[t].taken
<1> DEFINE d == <<Head(s)>> \o Tail(Tail(s))
<1>1. /\ thread[t].pc = "rest" /\ Len(s) > 1 /\ Put(s[2]) /\ MovesWith(t, "rest", d)
      /\ UNCHANGED <<call, delivered, owner, interrupted, pending, connected, requests,
                     faults, lost, doubled>>
  BY DEF RetryPutsRest, Stands
<1>2. s \in Seq(Notice) /\ NoDup(s) /\ \A n \in Notice : Here(n, t) <=> InSeq(n, s)
  BY DEF DeliveryInv, DeliveryTypeOK, ThreadRecord, Shape, MayHold, Here
<1> HIDE DEF s
<1>3. /\ d \in Seq(Notice) /\ d # <<>> /\ s[2] \in Notice /\ InSeq(s[2], s)
      /\ NoDup(d)
      /\ \A m \in Notice : InSeq(m, d) <=> InSeq(m, s) /\ m # s[2]
  BY <1>1, <1>2, DropSecond
<1> HIDE DEF d
<1>4. MayHold("rest", d)
  BY <1>3 DEF MayHold
<1>5. ThreadGoes(t, "rest", d, thread[t].reserved)
  BY <1>1, <1>3, MovesWithFact DEF DeliveryInv, ThreadPc, RetryPc
<1>6. Here(s[2], t) /\ \A m \in Notice : InSeq(m, d) <=> Here(m, t) /\ m # s[2]
  BY <1>2, <1>3
<1>7. owner # t
  BY <1>1 DEF DeliveryInv, OwnerInv, MayOwn, StepPc, ToolPc
<1> QED
  BY <1>1, <1>3, <1>4, <1>5, <1>6, <1>7, PutsInv

LEMMA PutsBackInv ==
    ASSUME DeliveryInv, NEW t \in Thread, RetryPutsBack(t)
    PROVE  DeliveryInv'
<1> DEFINE s == thread[t].taken
<1> DEFINE n == Head(s)
<1>1. /\ thread[t].pc = "back" /\ Put(n) /\ Ends(t)
      /\ UNCHANGED <<call, delivered, owner, interrupted, pending, connected, requests,
                     faults, lost, doubled>>
  BY DEF RetryPutsBack, Stands, Held
<1>2. s \in Seq(Notice) /\ Len(s) = 1 /\ \A m \in Notice : Here(m, t) <=> InSeq(m, s)
  BY <1>1 DEF DeliveryInv, DeliveryTypeOK, ThreadRecord, Shape, MayHold, Here
<1> HIDE DEF s
<1>3. n \in Notice /\ \A m \in Notice : InSeq(m, s) <=> m = n
  BY <1>2, OneSeq
<1> HIDE DEF n
<1>4. Here(n, t) /\ \A m \in Notice : InSeq(m, <<>>) <=> Here(m, t) /\ m # n
  BY <1>2, <1>3, EmptySeq
<1>5. MayHold("idle", <<>>) /\ ThreadGoes(t, "idle", <<>>, FALSE)
  BY <1>1, EmptySeq, EndsFact DEF MayHold, DeliveryInv
<1>6. owner # t
  BY <1>1 DEF DeliveryInv, OwnerInv, MayOwn, StepPc, ToolPc
<1> QED
  BY <1>1, <1>3, <1>4, <1>5, <1>6, PutsInv

\* The completion at hand reaches the log, and a step is reserved.
LEMMA RetryWakesInv ==
    ASSUME DeliveryInv, NEW t \in Thread, NEW u \in Thread, RetryWakes(t, u)
    PROVE  DeliveryInv'
<1> DEFINE s == thread[t].taken
<1>1. /\ u \in Idle \cup {t} /\ Deliver(s) /\ CanWake
      /\ thread' = [thread EXCEPT ![t] = IdleThread, ![u] = Step("reserved", FALSE)]
      /\ owner' = u /\ interrupted' = FALSE
      /\ UNCHANGED <<call, queue, pending, connected, requests, faults, lost, doubled, late>>
  BY DEF RetryWakes
<1>2. s \in Seq(Notice) /\ \A n \in Notice : Here(n, t) <=> InSeq(n, s)
  BY DEF DeliveryInv, DeliveryTypeOK, ThreadRecord, Here
<1> HIDE DEF s
<1>3. /\ IdleThread \in ThreadRecord /\ Step("reserved", FALSE) \in ThreadRecord
      /\ IdleThread.pc = "idle" /\ IdleThread.taken = <<>>
      /\ Step("reserved", FALSE).pc = "reserved" /\ Step("reserved", FALSE).taken = <<>>
  <2>1. "reserved" \in ThreadPc /\ "idle" \in ThreadPc
    BY DEF ThreadPc, StepPc
  <2> QED
    BY <2>1, StepRecord, EmptySeq DEF IdleThread, ThreadRecord
<1>4. thread \in [Thread -> ThreadRecord]
  BY DEF DeliveryInv, DeliveryTypeOK
<1>5. /\ thread' \in [Thread -> ThreadRecord]
      /\ \A v \in Thread \ {t, u} : thread'[v] = thread[v]
      /\ \A v \in {t, u} : thread'[v].taken = <<>> /\ thread'[v].pc \in {"idle", "reserved"}
      /\ thread'[u].pc = "reserved"
  BY <1>1, <1>3, <1>4
<1>6. \A v \in Thread : MayHold(thread'[v].pc, thread'[v].taken)
  <2>1. MayHold("idle", <<>>) /\ MayHold("reserved", <<>>)
    BY EmptySeq DEF MayHold
  <2> QED
    BY <1>5, <2>1 DEF DeliveryInv, Shape
<1>7. u # t => \A n \in Notice : ~Here(n, u)
  BY <1>1, EmptyHands DEF Idle
<1>8. /\ \A n \in Notice : \A v \in Thread \ {t} : Here(n, v)' <=> Here(n, v)
      /\ \A n \in Notice : ~Here(n, t)'
  BY <1>5, <1>7, EmptySeq DEF Here
<1>9. delivered' \in [Notice -> Nat] /\ PlaceInv'
  <2>1. lost' = lost \cup {} /\ {} \in SUBSET Notice
    BY <1>1
  <2>2. /\ \A n \in Notice : Here(n, t) <=> InSeq(n, s) \/ n \in {}
        /\ \A n \in Notice : ~(InSeq(n, s) /\ n \in {})
    BY <1>2
  <2> QED
    BY <1>1, <1>2, <1>8, <2>1, <2>2, LeavesHands
<1>10. DeliveryTypeOK'
  BY <1>1, <1>5, <1>9 DEF DeliveryInv, DeliveryTypeOK
<1>11. Shape'
  BY <1>1, <1>6 DEF DeliveryInv, Shape
<1>12. OwnerInv'
  BY <1>1, <1>5 DEF OwnerInv, MayOwn, StepPc
<1>13. OnlyLateSleep'
  BY <1>1, <1>5, OwnerAwake
<1> QED
  BY <1>9, <1>10, <1>11, <1>12, <1>13 DEF DeliveryInv

-----------------------------------------------------------------------------
(* All of them.                                                            *)

LEMMA DeliveryStepInv ==
    ASSUME DeliveryInv, DeliveryMoves \/ UNCHANGED deliveryVars
    PROVE  DeliveryInv'
<1>1. ASSUME NEW n \in Notice, Call(n) \/ CallNext(n)
      PROVE  DeliveryInv'
  BY <1>1, CallInv, CallWakesInv, CallQueuesInv DEF CallNext
<1>2. ASSUME NEW t \in Thread, StepNext(t) \/ ToolDone(t)
      PROVE  DeliveryInv'
  BY <1>2, StepGoesInv, EndsInv, TakesInv, AppendsInv, ReleaseInv, WorkGoesInv
  DEF StepNext, ToolDone
<1>3. ASSUME NEW t \in Thread, WorkerNext(t)
      PROVE  DeliveryInv'
  BY <1>3, WorkGoesInv, EndsInv, ReservesInv, ElectLosesInv DEF WorkerNext
<1>4. ASSUME NEW t \in Thread, RetryNext(t)
      PROVE  DeliveryInv'
  BY <1>4, TakesInv, PutsRestInv, RetryWakesInv, RetryRefusedInv, PutsBackInv DEF RetryNext
<1>5. ASSUME NEW t \in Thread, FaultNext(t) \/ WorkerRaises(t)
      PROVE  DeliveryInv'
  BY <1>5, EndsInv, AppendFailsInv, RetryRaisesInv DEF FaultNext
<1>6. CASE UserNext
  BY <1>6, ReservesInv, WorkGoesInv, RequestInv DEF UserNext
<1>7. CASE UNCHANGED deliveryVars
  <2>1. DeliveryTypeOK' /\ Awake' = Awake
    BY <1>7 DEF deliveryVars, DeliveryInv, DeliveryTypeOK, Awake, Stranded, WillLook
  <2>2. OnlyLateSleep'
    BY <1>7, <2>1 DEF deliveryVars, DeliveryInv, OnlyLateSleep, Queued
  <2>3. \A n \in Notice : (Ahead(n)' <=> Ahead(n)) /\ (Level(n)' <=> Level(n))
    BY <1>7 DEF deliveryVars, Ahead, Level
  <2> QED
    BY <1>7, <2>1, <2>2, <2>3, ThreadsStill DEF deliveryVars
<1> QED
  BY <1>1, <1>2, <1>3, <1>4, <1>5, <1>6, <1>7, RequestInv DEF DeliveryMoves, ThreadNext

LEMMA DeliveryInvariant == Spec => []DeliveryInv
<1>1. Init => DeliveryInv
  BY DeliveryInitInv DEF Init
<1>2. DeliveryInv /\ [Next]_vars => DeliveryInv'
  BY DeliveryPart, DeliveryStepInv
<1> QED
  BY <1>1, <1>2, PTL DEF Spec

-----------------------------------------------------------------------------
(* The properties.                                                         *)

\* A queue without doubles has at most one place for a completion.
LEMMA InQueueOnce ==
    ASSUME NEW s \in Seq(Notice), NoDup(s), NEW n \in Notice
    PROVE  Cardinality({i \in DOMAIN s : s[i] = n}) = IF InSeq(n, s) THEN 1 ELSE 0
<1> DEFINE I == {i \in DOMAIN s : s[i] = n}
<1>1. CASE InSeq(n, s)
  <2>1. PICK i \in DOMAIN s : s[i] = n
    BY <1>1 DEF InSeq
  <2>2. I = {i}
    BY <2>1 DEF NoDup
  <2> HIDE DEF I
  <2>3. Cardinality(I) = 1
    BY <2>2, FS_Singleton
  <2> QED
    BY <1>1, <2>3 DEF I
<1>2. CASE ~InSeq(n, s)
  <2>1. I = {}
    BY <1>2 DEF InSeq
  <2> HIDE DEF I
  <2>2. Cardinality(I) = 0
    BY <2>1, FS_EmptySet
  <2> QED
    BY <1>2, <2>2 DEF I
<1> QED
  BY <1>1, <1>2

\* Only one thread has it in its hands.
LEMMA InHandsOnce ==
    ASSUME NEW n \in Notice, Apart(n)
    PROVE  Cardinality({t \in Thread : InSeq(n, thread[t].taken)})
              = IF \E t \in Thread : Here(n, t) THEN 1 ELSE 0
<1> DEFINE T == {t \in Thread : InSeq(n, thread[t].taken)}
<1>1. CASE \E t \in Thread : Here(n, t)
  <2>1. PICK t \in Thread : Here(n, t)
    BY <1>1
  <2>2. T = {t}
    BY <2>1 DEF Apart, Here
  <2> HIDE DEF T
  <2>3. Cardinality(T) = 1
    BY <2>2, FS_Singleton
  <2> QED
    BY <1>1, <2>3 DEF T
<1>2. CASE ~\E t \in Thread : Here(n, t)
  <2>1. T = {}
    BY <1>2 DEF Here
  <2> HIDE DEF T
  <2>2. Cardinality(T) = 0
    BY <2>1, FS_EmptySet
  <2> QED
    BY <1>2, <2>2 DEF T
<1> QED
  BY <1>1, <1>2

LEMMA PlacesCounted == DeliveryInv => ExactlyOnePlace
<1> SUFFICES ASSUME DeliveryInv, NEW n \in Notice
             PROVE  Places(n) = doubled[n] + IF call[n] = "done" THEN 1 ELSE 0
  BY DEF ExactlyOnePlace
<1>1. (call[n] = "done" <=> Somewhere(n)) /\ Apart(n) /\ (Level(n) \/ Ahead(n))
  BY DEF DeliveryInv, PlaceInv
<1>2. delivered[n] \in Nat /\ doubled[n] \in Nat /\ queue \in Seq(Notice) /\ NoDup(queue)
  BY DEF DeliveryInv, DeliveryTypeOK, Shape
<1>3. Cardinality({i \in DOMAIN queue : queue[i] = n}) = IF InSeq(n, queue) THEN 1 ELSE 0
  BY <1>2, InQueueOnce
<1>4. Cardinality({t \in Thread : InSeq(n, thread[t].taken)})
         = IF \E t \in Thread : Here(n, t) THEN 1 ELSE 0
  BY <1>1, InHandsOnce
<1>5. Places(n) = delivered[n] + (IF InSeq(n, queue) THEN 1 ELSE 0)
                    + (IF \E t \in Thread : Here(n, t) THEN 1 ELSE 0)
                    + (IF n \in lost THEN 1 ELSE 0)
  BY <1>3, <1>4 DEF Places
<1>6. delivered[n] = doubled[n] + IF Ahead(n) THEN 1 ELSE 0
  BY <1>1, <1>2 DEF Level, Ahead
<1>7. CASE Somewhere(n)
  <2>1. CASE Ahead(n)
    BY <1>1, <1>2, <1>5, <1>6, <1>7, <2>1 DEF Apart
  <2>2. CASE InSeq(n, queue)
    BY <1>1, <1>2, <1>5, <1>6, <1>7, <2>2 DEF Apart
  <2>3. CASE n \in lost
    BY <1>1, <1>2, <1>5, <1>6, <1>7, <2>3 DEF Apart
  <2>4. CASE \E t \in Thread : Here(n, t)
    BY <1>1, <1>2, <1>5, <1>6, <1>7, <2>4 DEF Apart
  <2> QED
    BY <1>7, <2>1, <2>2, <2>3, <2>4 DEF Somewhere
<1>8. CASE ~Somewhere(n)
  BY <1>1, <1>2, <1>5, <1>6, <1>8 DEF Somewhere
<1> QED
  BY <1>7, <1>8

\* Every completion is in exactly one place once its call of notify_completion
\* is done: in the log, in the queue, in the hands of one thread, or lost with
\* a step that could not append it or a wake that raised; and in the log once
\* more for every wake that failed after its append, no oftener.
THEOREM CompletionInOnePlace == Spec => []ExactlyOnePlace
<1>1. DeliveryInv => ExactlyOnePlace
  BY PlacesCounted
<1> QED
  BY <1>1, DeliveryInvariant, PTL

\* Among all interleavings of steps, commands, tool workers, elections and
\* interrupts, a completion that nobody is going to look at was put or left in
\* the queue by one of the ends that do not look at it: the other ends hand
\* over to somebody who does (retry_deferred_watch_wakes).
THEOREM NoOtherSleeps == Spec => []OnlyLateSleep
<1>1. DeliveryInv => OnlyLateSleep
  BY DEF DeliveryInv
<1> QED
  BY <1>1, DeliveryInvariant, PTL

\* The subagents, the queue of their completions and the threads of the server
\* keep their types.
THEOREM DeliveryTypeCorrect == Spec => []TypeOK
<1>1. RunsTypeOK /\ DeliveryInv => TypeOK
  BY DEF DeliveryInv, TypeOK
<1> QED
  BY <1>1, RunsImplemented, RunsTypeCorrect, DeliveryInvariant, PTL

-----------------------------------------------------------------------------
(* The report of a run, from its worker to the queue.                      *)

\* A worker on its way to a cache without a result brings an outcome of its
\* run.  A result is a cancellation, of which nobody is told, or it is
\* announced, or its watchdog is about to.
Reported(r) ==
    /\ Pc(r) = "read" /\ ~Cached(AgentOf(r)) => worker[r].outcome \in Outcome
    /\ Cached(AgentOf(r)) =>
          \/ result[AgentOf(r)].status = "cancelled" /\ Completions(r) = {}
          \/ /\ result[AgentOf(r)].status # "cancelled"
             /\ watchdog[r] = "marked" \/ Completions(r) # {}

SoleReported == \A r \in Created : Sole(r) => Reported(r)

LEMMA CreateKeepsReported ==
    ASSUME Base, SoleReported, NEW record, NEW entries, Creates(record, entries)
    PROVE  SoleReported'
<1>0. PICK n : n = Len(run) + 1
  OBVIOUS
<1>1. /\ n \in Run /\ n \notin Created /\ Created' = Created \cup {n}
      /\ run'[n] = record /\ \A q \in Created : run'[q] = run[q]
      /\ result' = [result EXCEPT ![record.agent] = NoResult]
      /\ worker' = [worker EXCEPT ![n].pc = "queued"]
      /\ watchdog' = [watchdog EXCEPT ![n] = "armed"] /\ told' = told
      /\ record.agent \in Agent
  BY <1>0, CreateFacts DEF Creates, IsNew, RunRecord
<1> SUFFICES ASSUME NEW r \in Created', Sole(r)'
             PROVE  Reported(r)'
  BY DEF SoleReported
<1>2. CASE r = n
  <2>1. Pc(r)' = "queued" /\ AgentOf(r)' = record.agent
    BY <1>1, <1>2 DEF Pc, AgentOf, Base, RunTypes, WorkerRecord
  <2>2. result'[record.agent] = NoResult
    BY <1>1 DEF Base, RunTypes
  <2> QED
    BY <2>1, <2>2 DEF Reported, Cached
<1>3. CASE r \in Created
  <2>1. r # n /\ r \in Run /\ AgentOf(r) \in Agent
    BY <1>1, <1>3, AtCreated
  <2>2. AgentOf(r) # record.agent /\ AgentOf(r)' = AgentOf(r)
    BY <1>1, <1>3, <2>1 DEF Sole, AgentOf
  <2>3. /\ result'[AgentOf(r)] = result[AgentOf(r)] /\ watchdog'[r] = watchdog[r]
        /\ worker'[r] = worker[r]
    BY <1>1, <2>1, <2>2 DEF Base, RunTypes
  <2>4. \A q \in Created : AgentOf(q)' = AgentOf(q)
    BY <1>1 DEF AgentOf
  <2>5. Reported(r)
    BY <1>1, <1>3, <2>4 DEF SoleReported, Sole
  <2>6. Completions(r)' = Completions(r) /\ Pc(r)' = Pc(r)
    BY <1>1, <2>3 DEF Completions, Pc
  <2> QED
    BY <2>2, <2>3, <2>5, <2>6 DEF Reported, Cached
<1> QED
  BY <1>1, <1>2, <1>3

\* A result that is there stays, one that was not has no completions.
LEMMA SoleFacts ==
    ASSUME Base, Lineage, SoleTold, NEW r \in Created, Sole(r)
    PROVE  /\ ~run[r].resumed
           /\ ~Cached(AgentOf(r)) => Completions(r) = {} /\ watchdog[r] # "marked"
           /\ First(AgentOf(r)) = r
           /\ r \in Run /\ AgentOf(r) \in Agent /\ result[AgentOf(r)] \in Result
<1>1. First(AgentOf(r)) \in Created /\ AgentOf(First(AgentOf(r))) = AgentOf(r)
  BY EntriesFact DEF Entries
<1> QED
  BY <1>1, AtCreated DEF Lineage, SoleTold, Told, Sole

\* The step leaves the result of r and its completions alone.
LEMMA ReportedFrame ==
    ASSUME NEW r \in Created, Reported(r), AgentOf(r)' = AgentOf(r),
           result'[AgentOf(r)] = result[AgentOf(r)],
           Completions(r)' = Completions(r),
           watchdog[r] = "marked" => watchdog'[r] = "marked",
           Pc(r)' = "read" /\ ~Cached(AgentOf(r)) =>
               worker'[r].outcome \in Outcome \/ (Pc(r) = "read" /\ worker'[r] = worker[r])
    PROVE  Reported(r)'
<1>1. Cached(AgentOf(r))' <=> Cached(AgentOf(r))
  BY DEF Cached
<1> QED
  BY <1>1 DEF Reported

\* A cancellation is written for r.
LEMMA CancelledReported ==
    ASSUME Base, Lineage, SoleTold, NEW r \in Created, Sole(r), Reported(r),
           ~Cached(AgentOf(r)), PutResult(r, "cancelled"), UNCHANGED <<run, told>>
    PROVE  Reported(r)'
<1>1. AgentOf(r)' = AgentOf(r) /\ Completions(r)' = Completions(r)
  BY DEF AgentOf, Completions
<1>2. Completions(r) = {}
  BY SoleFacts
<1>3. ResultBecomes(r, "cancelled")
  BY PutFact DEF Base, Status
<1>4. Cached(AgentOf(r))' /\ result'[AgentOf(r)].status = "cancelled"
  BY <1>1, <1>3 DEF ResultBecomes, Cached
<1> QED
  BY <1>1, <1>2, <1>4 DEF Reported

LEMMA ParentKeepsReported ==
    ASSUME Base, Lineage, SoleTold, NEW r \in Created, Sole(r), Reported(r), ParentMoves
    PROVE  Reported(r)'
<1>1. UNCHANGED <<run, worker, watchdog, told>>
  BY DEF ParentMoves, Cancel, CancelWritesControl, CancelTerminates, EndSession, EndSessionVisits
<1>2. result' = result \/ \E a \in Agent : Entries(a) # {} /\ ~Cached(a)
                              /\ PutResult(Newest(a), "cancelled")
  <2>1. ASSUME NEW a \in Agent, Cancel(a)
        PROVE  Entries(a) # {} /\ ~Cached(a) /\ PutResult(Newest(a), "cancelled")
    <3>1. Entries(a) # {} /\ CancelMarks(Newest(a))
      BY <2>1 DEF Cancel
    <3>2. AgentOf(Newest(a)) = a
      BY <3>1, NewestFact
    <3> QED
      BY <3>1, <3>2 DEF CancelMarks, SetResultIfAbsent
  <2>2. ASSUME EndSessionVisits, result' # result
        PROVE  \E a \in Agent : Entries(a) # {} /\ ~Cached(a) /\ PutResult(Newest(a), "cancelled")
    <3>1. PICK q : q = Min(parent.todo)
      OBVIOUS
    <3>2. /\ parent.todo # {} /\ NeedsCancel(q)
          /\ PutResult(Newest(AgentOf(q)), "cancelled")
      BY <2>2, <3>1 DEF EndSessionVisits
    <3>3. q \in Created
      <4>1. parent.todo \in SUBSET Created
        BY DEF Base, Anchored
      <4>2. parent.todo \in SUBSET Nat
        BY <4>1, CreatedIsRun DEF Base
      <4>3. q \in parent.todo
        BY <3>1, <3>2, <4>2, MinFact
      <4> QED
        BY <4>1, <4>3
    <3>4. AgentOf(q) \in Agent /\ Entries(AgentOf(q)) # {}
      BY <3>3, AtCreated, EntriesFact
    <3> QED
      BY <3>2, <3>4 DEF NeedsCancel
  <2>3. CancelWritesControl \/ CancelTerminates \/ EndSession => result' = result
    BY DEF CancelWritesControl, CancelTerminates, EndSession
  <2> QED
    BY <2>1, <2>2, <2>3 DEF ParentMoves
<1>3. /\ AgentOf(r)' = AgentOf(r) /\ Completions(r)' = Completions(r) /\ Pc(r)' = Pc(r)
      /\ worker'[r] = worker[r] /\ watchdog'[r] = watchdog[r]
  BY <1>1 DEF AgentOf, Completions, Pc
<1>4. CASE result'[AgentOf(r)] = result[AgentOf(r)]
  BY <1>3, <1>4, ReportedFrame
<1>5. CASE result'[AgentOf(r)] # result[AgentOf(r)]
  <2>1. PICK a \in Agent : Entries(a) # {} /\ ~Cached(a) /\ PutResult(Newest(a), "cancelled")
    BY <1>2, <1>5
  <2>2. Newest(a) \in Created /\ AgentOf(Newest(a)) = a
    BY <2>1, NewestFact
  <2>3. a = AgentOf(r)
    <3>1. ResultBecomes(Newest(a), "cancelled")
      BY <2>1, <2>2, PutFact DEF Base, Status
    <3> QED
      BY <1>5, <2>2, <3>1, SoleFacts DEF ResultBecomes
  <2>4. Newest(a) = r
    BY <2>2, <2>3 DEF Sole
  <2> QED
    BY <1>1, <2>1, <2>3, <2>4, CancelledReported
<1> QED
  BY <1>4, <1>5

LEMMA RunKeepsReported ==
    ASSUME Base, Lineage, SoleTold, NEW r \in Created, Sole(r), Reported(r), RunMoves(r)
    PROVE  Reported(r)'
<1>1. /\ r \in Run /\ AgentOf(r) \in Agent /\ worker[r] \in WorkerRecord
      /\ ~run[r].resumed /\ First(AgentOf(r)) = r
      /\ ~Cached(AgentOf(r)) => Completions(r) = {} /\ watchdog[r] # "marked"
      /\ ending \in [Run -> Outcome \cup {"empty"}] /\ Home(r) \in Run /\ RunTypes
  BY AtCreated, SoleFacts DEF Base, RunTypes
<1>2. AgentOf(r)' = AgentOf(r) /\ run' = run
  BY <1>1, RunMovesIsMove DEF RunGoesOn, OnlyRun, AgentOf
\* The worker goes on, and nothing is written or announced.
<1>3. ASSUME NEW pc \in WorkerPc, NEW outcome, WorkerGoes(r, pc, outcome),
             UNCHANGED <<result, watchdog, told>>,
             pc = "read" /\ ~Cached(AgentOf(r)) => outcome \in Outcome
      PROVE  Reported(r)'
  <2>1. Pc(r)' = pc /\ worker'[r].outcome = outcome /\ Completions(r)' = Completions(r)
    BY <1>3 DEF WorkerGoes, Pc, Completions
  <2> QED
    BY <1>2, <1>3, <2>1, ReportedFrame
\* It is no continuation.
<1>4. ~Rereads(r) /\ ~Rewrites(r) /\ AfterRace(r) = "leaving" /\ ~Overwrites(r)
  BY <1>1 DEF Rereads, Rewrites, At, Base, Anchored, AfterRace, Overwrites
<1>5. CASE SkipQueued(r) \/ BeginWork(r) \/ Launch(r) \/ ReleaseSlot(r)
           \/ \E e \in Outcome : ChatReturns(r, e)
  <2>1. UNCHANGED <<result, watchdog, told>>
    BY <1>5 DEF SkipQueued, BeginWork, Launch, ReleaseSlot, ChatReturns
  <2>2. PICK pc \in WorkerPc \ {"read"} : Goes(r, pc)
    BY <1>5 DEF SkipQueued, BeginWork, Launch, ReleaseSlot, ChatReturns, WorkerPc
  <2> QED
    BY <1>1, <1>3, <2>1, <2>2, GoesFact
<1>6. CASE WorkRaises(r)
  BY <1>1, <1>3, <1>6, GoesWithFact DEF WorkRaises, WorkerPc, Status, Outcome
<1>7. ASSUME NEW e \in Outcome, AcpReturns(r, e)
      PROVE  Reported(r)'
  BY <1>1, <1>3, <1>7, GoesWithFact DEF AcpReturns, WorkerPc, Status
<1>8. CASE MonitorReturns(r)
  <2>1. PICK e \in Outcome : GoesWith(r, "read", e)
    BY <1>8 DEF MonitorReturns, ExitOutcomes, Outcome
  <2> QED
    BY <1>1, <1>3, <1>8, <2>1, GoesWithFact DEF MonitorReturns, WorkerPc, Status
<1>9. CASE ReadOutcome(r)
  <2>1. GoesWith(r, "read", ReadLog(r)) /\ UNCHANGED <<result, watchdog, told>>
    BY <1>1, <1>9 DEF ReadOutcome
  <2>2. ReadLog(r) \in Status
    BY <1>1, ReadLogFact
  <2>3. ~Cached(AgentOf(r)) => ReadLog(r) \in Outcome
    BY <1>1 DEF ReadLog, Outcome
  <2> QED
    BY <1>1, <1>3, <2>1, <2>2, <2>3, GoesWithFact DEF WorkerPc
<1>10. CASE LoseRace(r)
  BY <1>1, <1>3, <1>4, <1>10, GoesWithFact DEF LoseRace, WorkerPc
<1>11. CASE ReadRaises(r)
  BY <1>1, <1>3, <1>11, GoesWithFact DEF ReadRaises, WorkerPc
<1>12. CASE ThreadSeesCancel(r)
  <2>1. Goes(r, "returned") /\ UNCHANGED <<watchdog, told, run>>
        /\ IF Cached(AgentOf(r)) THEN result' = result ELSE PutResult(r, "cancelled")
    BY <1>12 DEF ThreadSeesCancel
  <2>2. CASE Cached(AgentOf(r))
    BY <1>1, <1>3, <2>1, <2>2, GoesFact DEF WorkerPc
  <2>3. CASE ~Cached(AgentOf(r))
    BY <2>1, <2>3, CancelledReported
  <2> QED
    BY <2>2, <2>3
\* The child, and a watchdog that writes nothing.
<1>13. CASE MonitorKills(r) \/ ChildNext(r) \/ WatchdogChecks(r)
            \/ (WatchdogMarks(r) /\ result' = result)
  <2>1. UNCHANGED <<worker, result, told>>
    BY <1>13 DEF MonitorKills, ChildNext, ProcessExits, ProcessSeesCancel, WatchdogChecks,
                 WatchdogMarks
  <2>2. watchdog[r] = "marked" => watchdog'[r] = "marked"
    BY <1>13 DEF MonitorKills, ChildNext, ProcessExits, ProcessSeesCancel, WatchdogChecks,
                 WatchdogMarks
  <2> QED
    BY <1>2, <2>1, <2>2, ReportedFrame DEF Completions, Pc
<1>14. CASE WatchdogMarks(r) /\ result' # result
  <2>1. /\ ~Cached(AgentOf(r)) /\ PutResult(r, "timeout") /\ told' = told
        /\ watchdog' = [watchdog EXCEPT ![r] = "marked"]
    BY <1>14 DEF WatchdogMarks, SetResultIfAbsent
  <2>2. watchdog'[r] = "marked"
    BY <1>1, <2>1 DEF RunTypes
  <2>3. ResultBecomes(r, "timeout")
    BY <1>1, <2>1, PutFact DEF Status
  <2>4. Cached(AgentOf(r))' /\ result'[AgentOf(r)].status # "cancelled"
    BY <1>2, <2>3 DEF ResultBecomes, Cached
  <2> QED
    BY <1>2, <2>2, <2>4 DEF Reported
<1>15. CASE WatchdogTells(r)
  <2>1. /\ UNCHANGED <<worker, result>> /\ watchdog[r] = "marked"
        /\ told' = told \cup {[run |-> r, by |-> "watchdog", status |-> "timeout"]}
    BY <1>15 DEF WatchdogTells
  <2>2. Cached(AgentOf(r)) /\ result[AgentOf(r)].status = "timeout"
    BY <2>1 DEF SoleTold, Told
  <2>3. Completions(r)' # {}
    <3> DEFINE c == [run |-> r, by |-> "watchdog", status |-> "timeout"]
    <3>1. c \in told' /\ c.run = r
      BY <2>1
    <3> HIDE DEF c
    <3> QED
      BY <3>1 DEF Completions
  <2> QED
    BY <1>2, <2>1, <2>2, <2>3 DEF Reported, Cached
<1>16. CASE RecordOutcome(r)
  <2>1. /\ Pc(r) = "read" /\ ~Cached(AgentOf(r)) /\ PutResult(r, worker[r].outcome)
        /\ told' = told \cup {[run |-> r, by |-> "worker", status |-> worker[r].outcome]}
        /\ GoesWith(r, "leaving", "none")
    BY <1>4, <1>16 DEF RecordOutcome, At, SetResultIfAbsent
  <2>2. worker[r].outcome \in Outcome /\ worker[r].outcome \in Status
    BY <2>1 DEF Reported, Outcome, Status
  <2>3. ResultBecomes(r, worker[r].outcome)
    BY <1>1, <2>1, <2>2, PutFact
  <2>4. Cached(AgentOf(r))' /\ result'[AgentOf(r)].status # "cancelled"
    BY <1>2, <2>2, <2>3 DEF ResultBecomes, Cached, Outcome
  <2>5. Completions(r)' # {}
    <3> DEFINE c == [run |-> r, by |-> "worker", status |-> worker[r].outcome]
    <3>1. c \in told' /\ c.run = r
      BY <2>1
    <3> HIDE DEF c
    <3> QED
      BY <3>1 DEF Completions
  <2> QED
    BY <1>2, <2>4, <2>5 DEF Reported
<1> QED
  BY <1>4, <1>5, <1>6, <1>7, <1>8, <1>9, <1>10, <1>11, <1>12, <1>13, <1>14, <1>15, <1>16
  DEF RunMoves, RunNext, WorkNext, AfterNotice

LEMMA ReportedStep ==
    ASSUME Base, Lineage, SoleTold, SoleReported, [RunsNext]_runVars
    PROVE  SoleReported'
<1>1. ASSUME NEW record, NEW entries, Creates(record, entries)
      PROVE  SoleReported'
  BY <1>1, CreateKeepsReported
<1>2. ASSUME run' = run, \A r \in Created : Sole(r) /\ Reported(r) => Reported(r)'
      PROVE  SoleReported'
  <2>1. Created' = Created /\ \A r \in Created : AgentOf(r)' = AgentOf(r)
    BY <1>2 DEF Created, AgentOf
  <2>2. \A r \in Created : Sole(r)' <=> Sole(r)
    BY <2>1 DEF Sole
  <2> QED
    BY <1>2, <2>1, <2>2 DEF SoleReported
<1>3. CASE ParentMoves
  <2>1. run' = run
    BY <1>3 DEF ParentMoves, Cancel, CancelWritesControl, CancelTerminates,
                EndSession, EndSessionVisits
  <2> QED
    BY <1>2, <1>3, <2>1, ParentKeepsReported
<1>4. ASSUME NEW m \in Run, RunMoves(m)
      PROVE  SoleReported'
  <2>1. RunGoesOn(m) /\ m \in Created /\ run' = run
    BY <1>4, RunMovesIsMove DEF RunGoesOn, OnlyRun
  <2>2. ASSUME NEW r \in Created, r # m, Sole(r), Reported(r)
        PROVE  Reported(r)'
    <3>1. AgentOf(r) # AgentOf(m) /\ r \in Run
      BY <2>1, <2>2, AtCreated DEF Sole
    <3>2. /\ AgentOf(r)' = AgentOf(r) /\ worker'[r] = worker[r] /\ watchdog'[r] = watchdog[r]
          /\ result'[AgentOf(r)] = result[AgentOf(r)] /\ Completions(r)' = Completions(r)
      BY <2>1, <2>2, <3>1, OthersStay
    <3> QED
      BY <2>2, <3>2, ReportedFrame DEF Pc
  <2> QED
    BY <1>2, <1>4, <2>1, <2>2, RunKeepsReported
<1>5. CASE UNCHANGED runVars \/ \E a \in Agent : ReplyFails(a)
  <2>1. UNCHANGED <<run, worker, watchdog, told, result>>
    BY <1>5 DEF runVars, ReplyFails
  <2>2. \A r \in Created : Reported(r) => Reported(r)'
    BY <2>1 DEF Reported, Pc, AgentOf, Cached, Completions
  <2> QED
    BY <1>2, <2>1, <2>2
<1> QED
  BY <1>1, <1>3, <1>4, <1>5, Steps

LEMMA ReportedHolds == RunsSpec => []SoleReported
<1>1. RunsInit => SoleReported
  BY DEF RunsInit, SoleReported, Created
<1>2. RunsInv /\ SoleReported /\ [RunsNext]_runVars => SoleReported'
  BY ReportedStep DEF RunsInv
<1> QED
  BY <1>1, <1>2, RunsInvHolds, PTL DEF RunsSpec

\* Every call for a run follows what its worker or its watchdog announced.
Calls ==
    \A r \in Run : \A by \in Announcer :
        call[<<r, by>>] # "none" <=> \E c \in told : c.run = r /\ c.by = by

LEMMA ToldStays ==
    ASSUME ToolNext \/ \E r \in Run : RunNext(r) \/ AfterNotice(r)
    PROVE  told' = told
<1>1. ToolNext => told' = told
  BY DEF ToolNext, Spawn, Continue, Reply, ReplyFails, Create, Cancel, CancelWritesControl,
     CancelTerminates
<1>2. ASSUME NEW r \in Run, WorkNext(r)
      PROVE  told' = told
  BY <1>2 DEF WorkNext, SkipQueued, BeginWork, Launch, WorkRaises, ChatReturns, AcpReturns,
     ThreadSeesCancel, MonitorKills, MonitorReturns, ReadOutcome, ReadRaises, LoseRace, Rewrites
<1>3. ASSUME NEW r \in Run,
             ChildNext(r) \/ WatchdogChecks(r) \/ WatchdogMarks(r) \/ AfterNotice(r)
      PROVE  told' = told
  BY <1>3 DEF ChildNext, ProcessExits, ProcessSeesCancel, WatchdogChecks, WatchdogMarks,
     AfterNotice, Rereads, ReleaseSlot
<1> QED
  BY <1>1, <1>2, <1>3 DEF RunNext

\* A call is made where its run announces, and nowhere else.
LEMMA Announcing ==
    ASSUME DeliveryInv, Calls, NEW r \in Run, NEW by \in Announcer, NEW status,
           Call(<<r, by>>), told' = told \cup {[run |-> r, by |-> by, status |-> status]}
    PROVE  Calls'
<1> DEFINE c == [run |-> r, by |-> by, status |-> status]
<1>1. c.run = r /\ c.by = by /\ told' = told \cup {c}
  OBVIOUS
<1> HIDE DEF c
<1>2. \A q \in Run : \A b \in Announcer : <<q, b>> \in Notice
  BY NoticeAssumption
<1>3. call' = [call EXCEPT ![<<r, by>>] = "calling"] /\ call \in [Notice -> CallState]
  BY DEF Call, StartCall, DeliveryInv, DeliveryTypeOK
<1>4. ASSUME NEW q \in Run, NEW b \in Announcer
      PROVE  call'[<<q, b>>] # "none" <=> \E d \in told' : d.run = q /\ d.by = b
  <2>1. CASE q = r /\ b = by
    <3>1. call'[<<q, b>>] = "calling"
      BY <1>2, <1>3, <2>1
    <3> QED
      BY <1>1, <2>1, <3>1
  <2>2. CASE ~(q = r /\ b = by)
    <3>1. <<q, b>> # <<r, by>>
      BY <2>2
    <3>2. call'[<<q, b>>] = call[<<q, b>>]
      BY <1>2, <1>3, <3>1
    <3>3. (\E d \in told' : d.run = q /\ d.by = b) <=> \E d \in told : d.run = q /\ d.by = b
      BY <1>1, <2>2
    <3> QED
      BY <3>2, <3>3 DEF Calls
  <2> QED
    BY <2>1, <2>2
<1> QED
  BY <1>4 DEF Calls

LEMMA CallsStep ==
    ASSUME DeliveryInv, Calls, [Next]_vars
    PROVE  Calls'
<1>1. ASSUME told' = told,
             \A r \in Run : \A by \in Announcer :
                call'[<<r, by>>] = "none" <=> call[<<r, by>>] = "none"
      PROVE  Calls'
  <2> SUFFICES ASSUME NEW r \in Run, NEW by \in Announcer
               PROVE  (call[<<r, by>>] # "none" <=> \E c \in told : c.run = r /\ c.by = by)'
    BY DEF Calls
  <2>1. call[<<r, by>>] # "none" <=> \E c \in told : c.run = r /\ c.by = by
    BY DEF Calls
  <2> QED
    BY <1>1, <2>1
<1>2. /\ call \in [Notice -> CallState]
      /\ \A r \in Run : \A by \in Announcer : <<r, by>> \in Notice /\ <<r, by>> \notin OtherNotice
  BY NoticeAssumption DEF DeliveryInv, DeliveryTypeOK, OtherNotice
<1>3. CASE UNCHANGED <<told, call>>
  BY <1>1, <1>3
<1>4. ASSUME ToolNext \/ \E r \in Run : RunNext(r) \/ AfterNotice(r), call' = call
      PROVE  Calls'
  BY <1>3, <1>4, ToldStays
<1>5. ASSUME NEW r \in Run, WorkerNotifies(r)
      PROVE  Calls'
  BY <1>5, Announcing DEF WorkerNotifies, RecordOutcome, Announcer
<1>6. ASSUME NEW r \in Run, WatchdogNotifies(r)
      PROVE  Calls'
  BY <1>6, Announcing DEF WatchdogNotifies, WatchdogTells, Announcer
<1>7. ASSUME NEW n \in OtherNotice, DeliveryStep(Call(n))
      PROVE  Calls'
  <2>1. told' = told /\ call' = [call EXCEPT ![n] = "calling"]
    BY <1>7 DEF DeliveryStep, Call, StartCall, runVars
  <2>2. \A r \in Run : \A by \in Announcer : call'[<<r, by>>] = call[<<r, by>>]
    BY <1>2, <1>7, <2>1
  <2> QED
    BY <1>1, <2>1, <2>2
<1>8. ASSUME NEW n \in Notice, DeliveryStep(CallNext(n))
      PROVE  Calls'
  <2>1. told' = told /\ call[n] # "none"
        /\ call' \in {[call EXCEPT ![n] = "done"], [call EXCEPT ![n] = "refused"]}
    BY <1>8 DEF DeliveryStep, CallNext, CallWakes, CallRefused, CallQueues, runVars
  <2>2. \A m \in Notice : call'[m] = "none" <=> call[m] = "none"
    BY <1>2, <2>1
  <2> QED
    BY <1>1, <1>2, <2>1, <2>2
<1>9. ASSUME NEW t \in Thread,
             DeliveryStep(ThreadNext(t)) \/ ToolStops(t) \/ Faulty(t)
      PROVE  Calls'
  <2>1. told' = told
    BY <1>9 DEF DeliveryStep, ToolStops, Faulty, runVars
  <2>2. ThreadNext(t) \/ ToolDone(t) \/ FaultNext(t) \/ WorkerRaises(t)
    BY <1>9 DEF DeliveryStep, ToolStops, Faulty
  <2>3. StepNext(t) \/ WorkerNext(t) \/ ToolDone(t) => call' = call
    BY DEF StepNext, Begin, BeginRevoked, Drain, AppendsTaken, Answer, Registers, Release,
       CommandEnds, WorkerNext, Claim, ClaimFails, ElectWins, ElectSkips, ElectLoses,
       ToolDone, Chain, ToolEnds
  <2>4. RetryNext(t) \/ FaultNext(t) \/ WorkerRaises(t) => call' = call
    BY DEF RetryNext, RetryTakes, RetryPutsRest, RetryWakes, RetryRefused, RetryPutsBack,
       FaultNext, RollBack, SetupRaises, EarlyExit, AppendFails, RetryRaises, WorkerRaises
  <2> QED
    BY <1>3, <2>1, <2>2, <2>3, <2>4 DEF ThreadNext
<1>10. CASE DeliveryStep(UserNext) \/ DeliveryStep(Disconnect) \/ DeliveryStep(Connect)
  <2>1. told' = told
    BY <1>10 DEF DeliveryStep, runVars
  <2>2. call' = call
    BY <1>10 DEF DeliveryStep, UserNext, UserStep, TaskStep, UserCommand, Confirm, Skip,
       RerunStarts, Rerun, Interrupt, Disconnect, Connect
  <2> QED
    BY <1>3, <2>1, <2>2
<1>11. CASE UNCHANGED vars
  BY <1>3, <1>11 DEF vars, runVars, deliveryVars
<1>12. ASSUME NEW r \in Run, RunsStep(RunNext(r)) \/ WorkerLeaves(r)
       PROVE  Calls'
  BY <1>4, <1>12 DEF RunsStep, WorkerLeaves, deliveryVars
<1>13. ParentStep => Calls'
  BY <1>4 DEF ParentStep
<1> QED
  BY <1>5, <1>6, <1>7, <1>8, <1>9, <1>10, <1>11, <1>12, <1>13 DEF Next

\* The completion of a run that ended is announced exactly once, by whoever won
\* the race for its result, and never if it was cancelled or if there is no
\* result, its log being unreadable (set_subagent_result_if_absent,
\* notify_completion).
THEOREM ReportedOnce == Spec => []RunReportedOnce
<1>1. Init => Calls
  <2> SUFFICES ASSUME Init
               PROVE  Calls
    OBVIOUS
  <2>1. told = {} /\ \A n \in Notice : call[n] = "none"
    BY DEF Init, RunsInit, DeliveryInit
  <2> QED
    BY <2>1, NoticeAssumption DEF Calls
<1>2. DeliveryInv /\ Calls /\ [Next]_vars => Calls'
  BY CallsStep
<1>3. RunsInv /\ SoleReported /\ Calls => RunReportedOnce
  <2> SUFFICES ASSUME RunsInv, SoleReported, Calls,
                      NEW r \in Created, Sole(r), Pc(r) = "ended", watchdog[r] # "marked"
               PROVE  Cardinality(Announced(r)) =
                         IF ~Cached(AgentOf(r)) \/ result[AgentOf(r)].status = "cancelled"
                         THEN 0 ELSE 1
    BY DEF RunReportedOnce
  <2>1. Base /\ Told(r) /\ Reported(r)
    BY DEF RunsInv, SoleTold, SoleReported
  <2>2. ~Cached(AgentOf(r)) => Completions(r) = {}
    BY <2>1, SoleFacts DEF RunsInv
  <2>3. r \in Run /\ told \subseteq Completion
    BY <2>1, AtCreated DEF Base, RunTypes
  <2>4. \A by \in Announcer : by \in Announced(r) <=> \E c \in Completions(r) : c.by = by
    BY <2>3 DEF Calls, Announced, Completions
  <2>5. CASE ~Cached(AgentOf(r)) \/ result[AgentOf(r)].status = "cancelled"
    <3>1. Completions(r) = {}
      BY <2>1, <2>2, <2>5 DEF Reported
    <3>2. Announced(r) = {}
      BY <2>4, <3>1 DEF Announced
    <3> QED
      BY <2>5, <3>2, FS_EmptySet
  <2>6. CASE Cached(AgentOf(r)) /\ result[AgentOf(r)].status # "cancelled"
    <3>1. PICK c : c \in Completions(r)
      BY <2>1, <2>2, <2>6 DEF Reported
    <3>2. c.by \in Announcer /\ \A d \in Completions(r) : d.by = c.by
      BY <2>1, <2>3, <3>1 DEF Told, Completions, Completion
    <3>3. Announced(r) = {c.by}
      BY <2>4, <3>1, <3>2 DEF Announced
    <3>4. Cardinality(Announced(r)) = 1
      BY <3>3, FS_Singleton
    <3> QED
      BY <2>6, <3>4
  <2> QED
    BY <2>5, <2>6
<1> QED
  BY <1>1, <1>2, <1>3, DeliveryInvariant, ReportedHolds, RunsInvHolds, RunsImplemented, PTL
  DEF Spec
=============================================================================
