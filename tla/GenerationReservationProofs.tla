-------------------- MODULE GenerationReservationProofs --------------------
(***************************************************************************)
(* Proofs about GenerationReservation, for every number of sessions,       *)
(* generations, workers and tools.  For every set of failures:             *)
(*   - every variable has its type;                                        *)
(*   - the claims on tools are accounted for (ClaimsInv is inductive);     *)
(*   - epochs that run back never meet one another (EpochInv);             *)
(*   - no reservation is forgotten, which rests on EpochInv: a worker that *)
(*     declines the election as interrupted must not be the owner;         *)
(*   - and, as long as every thread starts, a live session has one holder, *)
(*     one live session generates, no holder is robbed, and the whole      *)
(*     implements ConversationOwner: every step is of a few kinds, named   *)
(*     below, and each kind keeps OwnerInv.                                *)
(***************************************************************************)
EXTENDS GenerationReservation, TLAPS

-----------------------------------------------------------------------------
(* Types.                                                                  *)

\* A generation record: its session exists once it is under way, and an epoch
\* to roll back is not the initial one.
SoundGen == {r \in GenRecord :
    /\ r.pc # "idle" => r.sess \in Session
    /\ r.pc \in {"setup", "stepFailed", "undo"} => r.seq # 0}

\* A worker record: it has a session once it is under way, and a tool while it
\* is to take, runs or has run one.
SoundWorker == {r \in WorkerRecord :
    /\ r.pc # "idle" => r.sess \in Session
    /\ r.pc \in {"claim", "exec", "release"} => r.tool \in Tool}

\* A tool record: a pending or executing tool belongs to a session.
SoundTool == {r \in ToolRecord :
    r.st \in {"pending", "executing"} => r.sess \in Session}

\* The inductive type invariant: TypeOK with the records sound.
TypeInv ==
    /\ status \in [Session -> SessionStatus]
    /\ generating \in [Session -> BOOLEAN]
    /\ interrupted \in [Session -> BOOLEAN]
    /\ stepSeq \in [Session -> Nat]
    /\ command \in BOOLEAN
    /\ tool \in [Tool -> SoundTool]
    /\ gen \in [Gen -> SoundGen]
    /\ wrk \in [Worker -> SoundWorker]
    /\ wedged \in Session \cup {NoSession}
    /\ stranded \subseteq Session \X Nat

\* An idle process is sound.
LEMMA IdleTypes ==
    /\ IdleGen \in SoundGen
    /\ IdleWorker \in SoundWorker
BY
DEF IdleGen, IdleWorker, SoundGen, SoundWorker, GenRecord, WorkerRecord, GenPc,
    WorkerPc

\* What a dispatch leaves in the pool of generations is sound.
LEMMA StepThreadType ==
    ASSUME NEW s \in Session, NEW e \in Nat,
           NEW pc \in {"spawn", "failed", "failedTwice"}
    PROVE  StepThread(s, e, pc) \in SoundGen
  BY DEF StepThread, IdleGen, SoundGen, GenRecord, GenPc

\* So is a /step handler that has just reserved.
LEMMA SetupType ==
    ASSUME NEW s \in Session, NEW e \in Nat \ {0}, NEW b \in BOOLEAN
    PROVE  [StepThread(s, e, "setup") EXCEPT !.prev = b] \in SoundGen
  BY DEF StepThread, IdleGen, SoundGen, GenRecord, GenPc

\* And a worker that has just been started on a tool.
LEMMA ToolThreadType ==
    ASSUME NEW s \in Session, NEW e \in Nat, NEW t \in Tool, NEW b \in BOOLEAN
    PROVE  ToolThread(s, e, t, b) \in SoundWorker
  BY DEF ToolThread, IdleWorker, SoundWorker, WorkerRecord, WorkerPc

\* Dropping tools keeps the tool records sound.
LEMMA DropToolsType ==
    ASSUME tool \in [Tool -> SoundTool], NEW T
    PROVE  DropTools(T) \in [Tool -> SoundTool]
  BY DEF DropTools, SoundTool, ToolRecord, ToolState

\* The compare-and-clear keeps the type of the flags.
LEMMA ReleaseType ==
    ASSUME TypeInv, NEW s, NEW e, ReleaseIfOwned(s, e)
    PROVE  generating' \in [Session -> BOOLEAN]
  BY DEF TypeInv, ReleaseIfOwned

\* Every step of the protocol keeps the type invariant.
LEMMA TypeStep ==
    ASSUME TypeInv, [Next]_vars
    PROVE  TypeInv'
<1> USE IdleTypes, StepThreadType, ToolThreadType, DropToolsType, ReleaseType
    DEF TypeInv, SessionStatus, flags, marks, vars
<1>a. /\ \A g \in Gen : gen[g] \in SoundGen
      /\ \A w \in Worker : wrk[w] \in SoundWorker
      /\ \A t \in Tool : tool[t] \in SoundTool
  OBVIOUS
<1>1. ASSUME NEW s \in Session, CreateSession(s)
      PROVE  TypeInv'
  BY <1>1 DEF CreateSession
<1>2. ASSUME NEW s \in Session, DeleteMark(s)
      PROVE  TypeInv'
  BY <1>2 DEF DeleteMark
<1>3. ASSUME NEW s \in Session, DeleteRemove(s)
      PROVE  TypeInv'
  BY <1>3 DEF DeleteRemove
<1>4. ASSUME NEW s \in Session, CleanInactive(s)
      PROVE  TypeInv'
  BY <1>4 DEF CleanInactive
<1>5. ASSUME NEW s \in Session, NEW g \in Gen, StepReserve(s, g)
      PROVE  TypeInv'
  <2>1. stepSeq[s] + 1 \in Nat \ {0} /\ interrupted[s] \in BOOLEAN
    OBVIOUS
  <2>2. gen' \in [Gen -> SoundGen]
    BY <1>5, <2>1, SetupType DEF StepReserve
  <2> QED
    BY <1>5, <2>2 DEF StepReserve
<1>6. ASSUME NEW s \in Session, NEW g \in Gen, DirectStart(s, g)
      PROVE  TypeInv'
  BY <1>6 DEF DirectStart, Dispatched
<1>7. ASSUME NEW s \in Session, NEW g \in Gen, WatchWake(s, g)
      PROVE  TypeInv'
  BY <1>7 DEF WatchWake, DispatchedByOwner
<1>8. ASSUME StartCommand PROVE TypeInv'
  BY <1>8 DEF StartCommand
<1>9. ASSUME NEW t \in Tool, NEW w \in Worker, Confirm(t, w)
      PROVE  TypeInv'
  <2>1. tool[t].sess \in Session
    BY <1>9, <1>a DEF Confirm, SoundTool
  <2> QED
    BY <1>9, <2>1 DEF Confirm
<1>10. ASSUME NEW t \in Tool, NEW g \in Gen, Skip(t, g)
      PROVE  TypeInv'
  <2>1. tool[t].sess \in Session
    BY <1>10, <1>a DEF Skip, SkipTool, SoundTool
  <2> QED
    BY <1>10, <2>1 DEF Skip, SkipTool
<1>11. ASSUME NEW t \in Tool, SkipFails(t)
      PROVE  TypeInv'
  <2>1. tool[t].sess \in Session
    BY <1>11, <1>a DEF SkipFails, SkipTool, SoundTool
  <2> QED
    BY <1>11, <2>1 DEF SkipFails, SkipTool
<1>12. ASSUME NEW t \in Tool, SkipWedges(t)
      PROVE  TypeInv'
  <2>1. tool[t].sess \in Session
    BY <1>12, <1>a DEF SkipWedges, SkipTool, SoundTool
  <2> QED
    BY <1>12, <2>1 DEF SkipWedges, SkipTool
<1>13. ASSUME NEW s \in Session, NEW T \in SUBSET Tool, Rerun(s, T)
      PROVE  TypeInv'
  <2>1. tool' \in [Tool -> SoundTool]
    BY <1>13, <1>a DEF Rerun, Reregister, SoundTool, ToolRecord, ToolState
  <2> QED
    BY <1>13, <2>1 DEF Rerun, Reregister
<1>14. ASSUME NEW s \in Session, NEW T \in SUBSET Tool, NEW A \in
              SUBSET Tool, NEW w \in Worker, RerunAuto(s, T, A, w)
      PROVE  TypeInv'
  <2>1. tool' \in [Tool -> SoundTool]
    BY <1>14, <1>a DEF RerunAuto, Reregister, SoundTool, ToolRecord, ToolState
  <2>2. PICK t \in A : wrk' = [wrk EXCEPT ![w] = ToolThread(s, stepSeq[s] + 1, t, TRUE)]
    BY <1>14 DEF RerunAuto
  <2>3. wrk' \in [Worker -> SoundWorker]
    <3>1. t \in Tool /\ stepSeq[s] + 1 \in Nat
      OBVIOUS
    <3>2. ToolThread(s, stepSeq[s] + 1, t, TRUE) \in SoundWorker
      BY <3>1, ToolThreadType
    <3> QED BY <2>2, <3>2
  <2>4. /\ generating' \in [Session -> BOOLEAN]
        /\ interrupted' \in [Session -> BOOLEAN]
        /\ stepSeq' \in [Session -> Nat]
    BY <1>14 DEF RerunAuto, RerunClaim
  <2>5. UNCHANGED <<status, command, gen, marks>>
    BY <1>14 DEF RerunAuto, Reregister
  <2> QED
    BY <2>1, <2>3, <2>4, <2>5
<1>15. ASSUME NEW s \in Session, NEW T \in SUBSET Tool, NEW A \in
              SUBSET Tool, RerunWedges(s, T, A)
      PROVE  TypeInv'
  <2>1. tool' \in [Tool -> SoundTool]
    BY <1>15, <1>a DEF RerunWedges, Reregister, SoundTool, ToolRecord, ToolState
  <2> QED
    BY <1>15, <2>1 DEF RerunWedges, Reregister, RerunClaim
<1>16. ASSUME Interrupt PROVE TypeInv'
  BY <1>16 DEF Interrupt
<1>17. ASSUME FinishCommand PROVE TypeInv'
  BY <1>17 DEF FinishCommand
<1>18. ASSUME NEW g \in Gen, StepDispatch(g)
      PROVE  TypeInv'
  <2> DEFINE r == [gen[g] EXCEPT !.pc = "spawn", !.prev = FALSE]
             q == [gen[g] EXCEPT !.pc = "stepFailed"]
  <2>1. r \in SoundGen /\ q \in SoundGen
    BY ZenonT(60), <1>18, <1>a DEF StepDispatch, SoundGen, GenRecord, GenPc
  <2>2. gen' = [gen EXCEPT ![g] = r] \/ gen' = [gen EXCEPT ![g] = q]
    BY <1>18 DEF StepDispatch
  <2>3. gen' \in [Gen -> SoundGen]
    BY <2>1, <2>2
  <2> QED
    BY <1>18, <2>3 DEF StepDispatch
<1>19. ASSUME NEW g \in Gen, StepRollback(g)
      PROVE  TypeInv'
  <2>1. /\ gen[g].sess \in Session /\ gen[g].seq \in Nat \ {0}
        /\ gen[g].prev \in BOOLEAN
    BY <1>19, <1>a DEF StepRollback, SoundGen, GenRecord
  <2>2. stepSeq' \in [Session -> Nat]
    BY <1>19, <2>1 DEF StepRollback
  <2>3. /\ generating' \in [Session -> BOOLEAN]
        /\ interrupted' \in [Session -> BOOLEAN]
    BY <1>19, <2>1 DEF StepRollback
  <2> QED
    BY <1>19, <2>2, <2>3 DEF StepRollback
<1>20. ASSUME NEW g \in Gen, ReleaseFailed(g)
      PROVE  TypeInv'
  <2> DEFINE r == [gen[g] EXCEPT !.pc = "undo"]
             q == [gen[g] EXCEPT !.pc = "failed"]
  <2>1. /\ gen[g].pc = "stepFailed" => r \in SoundGen
        /\ gen[g].pc = "failedTwice" => q \in SoundGen
    BY ZenonT(60), <1>20, <1>a DEF SoundGen, GenRecord, GenPc
  <2>2. \/ gen[g].pc = "stepFailed" /\ gen' = [gen EXCEPT ![g] = r]
        \/ gen[g].pc = "failedTwice" /\ gen' = [gen EXCEPT ![g] = q]
        \/ gen' = [gen EXCEPT ![g] = IdleGen]
    BY <1>20 DEF ReleaseFailed
  <2>3. gen' \in [Gen -> SoundGen]
    BY <2>1, <2>2
  <2> QED
    BY <1>20, <2>3 DEF ReleaseFailed
<1>21. ASSUME NEW g \in Gen, Begin(g)
      PROVE  TypeInv'
  <2> DEFINE r == [gen[g] EXCEPT !.pc = "stream"]
  <2>1. r \in SoundGen
    BY ZenonT(60), <1>21, <1>a DEF Begin, SoundGen, GenRecord, GenPc
  <2>2. gen' = [gen EXCEPT ![g] = r]
    BY <1>21 DEF Begin
  <2>3. gen' \in [Gen -> SoundGen]
    BY <2>1, <2>2
  <2> QED
    BY <1>21, <2>3 DEF Begin
<1>22. ASSUME NEW g \in Gen, BeginRevoked(g)
      PROVE  TypeInv'
  <2>1. gen[g].sess \in Session /\ gen[g].seq \in Nat
    BY <1>22, <1>a DEF BeginRevoked, SoundGen, GenRecord
  <2> QED
    BY <1>22, <2>1 DEF BeginRevoked, StrandIfOwned
<1>23. ASSUME NEW g \in Gen, EarlyExit(g)
      PROVE  TypeInv'
  BY <1>23 DEF EarlyExit
<1>24. ASSUME NEW g \in Gen, NEW T \in SUBSET Tool, StreamDone(g, T)
      PROVE  TypeInv'
  <2> DEFINE r == [gen[g] EXCEPT !.pc = "register", !.todo = T]
  <2>1. r \in SoundGen
    BY ZenonT(60), <1>24, <1>a DEF StreamDone, SoundGen, GenRecord, GenPc
  <2>2. gen' = [gen EXCEPT ![g] = r]
    BY <1>24 DEF StreamDone
  <2>3. gen' \in [Gen -> SoundGen]
    BY <2>1, <2>2
  <2>5. tool' \in [Tool -> SoundTool]
    BY <1>24 DEF StreamDone, SoundTool, ToolRecord, ToolState
  <2> QED
    BY <1>24, <2>3, <2>5 DEF StreamDone
<1>25. ASSUME NEW g \in Gen, StreamBreak(g)
      PROVE  TypeInv'
  <2> DEFINE r == [gen[g] EXCEPT !.pc = "finally", !.todo = {}, !.first = NoTool]
  <2>1. r \in SoundGen
    BY ZenonT(60), <1>25, <1>a DEF StreamBreak, SoundGen, GenRecord, GenPc
  <2>2. gen' = [gen EXCEPT ![g] = r]
    BY <1>25 DEF StreamBreak
  <2>3. gen' \in [Gen -> SoundGen]
    BY <2>1, <2>2
  <2> QED
    BY <1>25, <2>3 DEF StreamBreak
<1>26. ASSUME NEW g \in Gen, NEW t \in Tool, NEW auto \in BOOLEAN,
              RegisterTool(g, t, auto)
      PROVE  TypeInv'
  <2> DEFINE r == [gen[g] EXCEPT !.todo = @ \ {t},
                                !.first = IF auto /\ @ = NoTool THEN t ELSE @]
  <2>1. r \in SoundGen
    <3>1. gen[g].todo \ {t} \in SUBSET Tool /\ gen[g].first \in Tool \cup {NoTool}
      BY <1>a DEF SoundGen, GenRecord
    <3>2. \A T \in SUBSET Tool, u \in Tool \cup {NoTool} :
            [gen[g] EXCEPT !.todo = T, !.first = u] \in SoundGen
      BY <1>26, <1>a DEF RegisterTool, SoundGen, GenRecord
    <3> QED
      BY <3>1, <3>2
  <2>2. gen' = [gen EXCEPT ![g] = r]
    BY <1>26 DEF RegisterTool
  <2>3. gen' \in [Gen -> SoundGen]
    BY <2>1, <2>2
  <2>4. gen[g].sess \in Session
    BY <1>26, <1>a DEF RegisterTool, SoundGen
  <2>5. tool' \in [Tool -> SoundTool]
    BY <1>26, <2>4 DEF RegisterTool, SoundTool, ToolRecord, ToolState
  <2> QED
    BY <1>26, <2>3, <2>5 DEF RegisterTool
<1>27. ASSUME NEW g \in Gen, NEW w \in Worker, StartFirstTool(g, w)
      PROVE  TypeInv'
  <2> DEFINE r == [gen[g] EXCEPT !.pc = "finally", !.first = NoTool]
  <2>1. r \in SoundGen
    BY ZenonT(60), <1>27, <1>a DEF StartFirstTool, SoundGen, GenRecord, GenPc
  <2>2. gen' = [gen EXCEPT ![g] = r]
    BY <1>27 DEF StartFirstTool
  <2>3. gen' \in [Gen -> SoundGen]
    BY <2>1, <2>2
  <2>4. gen[g].sess \in Session /\ gen[g].first \in Tool
    BY <1>27, <1>a DEF StartFirstTool, SoundGen, GenRecord
  <2> QED
    BY <1>27, <2>3, <2>4 DEF StartFirstTool
<1>28. ASSUME NEW g \in Gen, StartNoTool(g)
      PROVE  TypeInv'
  <2> DEFINE r == [gen[g] EXCEPT !.pc = "finally", !.first = NoTool]
  <2>1. r \in SoundGen
    BY ZenonT(60), <1>28, <1>a DEF StartNoTool, SoundGen, GenRecord, GenPc
  <2>2. gen' = [gen EXCEPT ![g] = r]
    BY <1>28 DEF StartNoTool
  <2>3. gen' \in [Gen -> SoundGen]
    BY <2>1, <2>2
  <2> QED
    BY <1>28, <2>3 DEF StartNoTool
<1>29. ASSUME NEW g \in Gen, Finally(g)
      PROVE  TypeInv'
  BY <1>29 DEF Finally
<1>30. ASSUME NEW w \in Worker, Claim(w)
      PROVE  TypeInv'
  <2> DEFINE r == [wrk[w] EXCEPT !.pc = "exec"]
  <2>1. r \in SoundWorker
    BY ZenonT(60), <1>30, <1>a DEF Claim, SoundWorker, WorkerRecord, WorkerPc
  <2>2. wrk' = [wrk EXCEPT ![w] = r]
    BY <1>30 DEF Claim
  <2>3. wrk' \in [Worker -> SoundWorker]
    BY <2>1, <2>2
  <2> DEFINE t == wrk[w].tool
             q == [tool[t] EXCEPT !.st = "executing", !.auto = FALSE]
  <2>4. t \in Tool /\ tool[t] \in SoundTool /\ tool[t].st = "pending"
    BY <1>30, <1>a DEF Claim, SoundWorker
  <2>5. q \in SoundTool
    BY <2>4 DEF SoundTool, ToolRecord, ToolState
  <2>6. tool' = [tool EXCEPT ![t] = q]
    BY <1>30 DEF Claim
  <2>7. tool' \in [Tool -> SoundTool]
    BY <2>5, <2>6
  <2> QED
    BY <1>30, <2>3, <2>7 DEF Claim
<1>31. ASSUME NEW w \in Worker, ClaimFails(w)
      PROVE  TypeInv'
  BY <1>31 DEF ClaimFails
<1>32. ASSUME NEW w \in Worker, Execute(w)
      PROVE  TypeInv'
  <2>1. PICK t \in Tool \cup {NoTool} :
          wrk' = [wrk EXCEPT ![w].pc = "release", ![w].next = t]
    BY <1>32 DEF Execute, Pending
  <2> DEFINE r == [wrk[w] EXCEPT !.pc = "release", !.next = t]
  <2>2. r \in SoundWorker
    BY ZenonT(60), <1>32, <1>a DEF Execute, SoundWorker, WorkerRecord, WorkerPc
  <2>3. wrk' = [wrk EXCEPT ![w] = r]
    BY <2>1
  <2>4. wrk' \in [Worker -> SoundWorker]
    BY <2>2, <2>3
  <2> QED
    BY <1>32, <2>4 DEF Execute
<1>33. ASSUME NEW w \in Worker, Release(w)
      PROVE  TypeInv'
  <2>1. wrk[w].next = NoTool =>
          [wrk[w] EXCEPT !.pc = "elect",
                                         !.tool = NoTool, !.next = NoTool]
          \in SoundWorker
    BY ZenonT(60), <1>33, <1>a DEF Release, SoundWorker, WorkerRecord, WorkerPc
  <2>2. wrk[w].next # NoTool =>
          [wrk[w] EXCEPT !.pc = "claim",
                                         !.tool = wrk[w].next, !.next = NoTool]
          \in SoundWorker
    BY ZenonT(60), <1>33, <1>a DEF Release, SoundWorker, WorkerRecord, WorkerPc
  <2>3. wrk' = [wrk EXCEPT ![w] =
                 IF wrk[w].next = NoTool
                 THEN [wrk[w] EXCEPT !.pc = "elect",
                                     !.tool = NoTool, !.next = NoTool]
                 ELSE [wrk[w] EXCEPT !.pc = "claim",
                                     !.tool = wrk[w].next, !.next = NoTool]]
    BY <1>33 DEF Release
  <2>4. wrk' \in [Worker -> SoundWorker]
    BY <2>1, <2>2, <2>3
  <2> QED
    BY <1>33, <2>4 DEF Release
<1>34. ASSUME NEW w \in Worker, NEW g \in Gen, ElectContinue(w, g)
      PROVE  TypeInv'
  <2>1. wrk[w].sess \in Session
    BY <1>34, <1>a DEF ElectContinue, SoundWorker
  <2> QED
    BY <1>34, <2>1 DEF ElectContinue, DispatchedByOwner
<1>35. ASSUME NEW w \in Worker, ElectDecline(w)
      PROVE  TypeInv'
  BY <1>35 DEF ElectDecline
<1>36. ASSUME NEW w \in Worker, WorkerAborts(w)
      PROVE  TypeInv'
  BY <1>36 DEF WorkerAborts
<1>37. ASSUME NEW g \in Gen, SetupRaises(g)
      PROVE  TypeInv'
  <2>1. gen[g].sess \in Session /\ gen[g].seq \in Nat
    BY <1>37, <1>a DEF SetupRaises, SoundGen, GenRecord
  <2> QED
    BY <1>37, <2>1 DEF SetupRaises, StrandIfOwned
<1>38. ASSUME NEW w \in Worker, WorkerRaises(w)
      PROVE  TypeInv'
  <2> DEFINE r == [wrk[w] EXCEPT !.pc = "abort", !.tool = NoTool, !.next = NoTool]
  <2>1. r \in SoundWorker
    BY ZenonT(60), <1>38, <1>a DEF WorkerRaises, SoundWorker, WorkerRecord, WorkerPc
  <2>2. wrk' = [wrk EXCEPT ![w] = r]
    BY <1>38 DEF WorkerRaises
  <2>3. wrk' \in [Worker -> SoundWorker]
    BY <2>1, <2>2
  <2> QED
    BY <1>38, <2>3 DEF WorkerRaises
<1>39. ASSUME Idle PROVE TypeInv'
  BY <1>39 DEF Idle
<1>40. ASSUME UNCHANGED vars PROVE TypeInv'
  BY <1>40
<1> HIDE IdleTypes, StepThreadType, ToolThreadType, DropToolsType, ReleaseType
    DEF TypeInv, SessionStatus, flags, marks, vars
<1>41. ASSUME Request PROVE TypeInv'
  BY <1>1, <1>2, <1>3, <1>4, <1>5, <1>6, <1>7, <1>8, <1>9, <1>10, <1>11, <1>12,
     <1>13, <1>14, <1>15, <1>16, <1>41 DEF Request
<1>42. ASSUME NEW g \in Gen, GenStep(g) PROVE TypeInv'
  BY <1>18, <1>19, <1>20, <1>21, <1>22, <1>23, <1>24, <1>25, <1>26, <1>27,
     <1>28, <1>29, <1>42 DEF GenStep
<1>43. ASSUME NEW w \in Worker, WorkerStep(w) PROVE TypeInv'
  BY <1>30, <1>31, <1>32, <1>33, <1>34, <1>35, <1>36, <1>43 DEF WorkerStep
<1>44. ASSUME Failure PROVE TypeInv'
  BY <1>37, <1>38, <1>44 DEF Failure
<1> QED
  BY <1>17, <1>39, <1>40, <1>41, <1>42, <1>43, <1>44 DEF Next

\* TypeInv implies the type invariant that the runs check.
LEMMA TypeInvImpliesTypeOK == TypeInv => TypeOK
  BY DEF TypeInv, TypeOK, SoundGen, SoundWorker, SoundTool

\* TypeInv holds initially.
LEMMA TypeInit == Init => TypeInv
<1> SUFFICES ASSUME Init PROVE TypeInv
  OBVIOUS
<1>1. tool \in [Tool -> SoundTool]
  BY DEF Init, SoundTool, ToolRecord, ToolState
<1>2. gen \in [Gen -> SoundGen] /\ wrk \in [Worker -> SoundWorker]
  BY IdleTypes DEF Init
<1>3. \A s \in Session : "unborn" \in SessionStatus
  BY DEF SessionStatus
<1> QED
  BY <1>1, <1>2, <1>3 DEF Init, TypeInv

\* The inductive type invariant holds of every behaviour.
LEMMA TypeInvariant == Spec => []TypeInv
  BY TypeInit, TypeStep, PTL DEF Spec

\* Every variable of the reservation protocol always has its type.
THEOREM TypeCorrect == Spec => []TypeOK
  BY TypeInvariant, TypeInvImpliesTypeOK, PTL

-----------------------------------------------------------------------------
(* The claims on tools.                                                    *)

\* A step that neither begins nor ends an execution and disturbs no parsed tool
\* use.
ToolsKept == \A t \in Tool :
    /\ tool'[t].st = "executing" <=> tool[t].st = "executing"
    /\ tool[t].st = "parsed" => tool'[t].st = "parsed"

\* A step that leaves every worker with the claim it had.
ClaimsKept == \A w \in Worker :
    /\ HasClaim(w)' <=> HasClaim(w)
    /\ HasClaim(w) => wrk'[w].tool = wrk[w].tool

\* A step that gives no step thread another tool use to register.
TodoKept == \A g \in Gen : gen'[g].todo \subseteq gen[g].todo

\* Such a step keeps the claims accounted for.
LEMMA ClaimsFrame ==
    ASSUME TypeInv, ClaimsInv, ToolsKept, ClaimsKept, TodoKept
    PROVE  ClaimsInv'
<1>1. \A w \in Worker : HasClaim(w) => wrk[w].tool \in Tool
  BY DEF TypeInv, SoundWorker, HasClaim
<1>2. \A g \in Gen : gen[g].todo \subseteq Tool
  BY DEF TypeInv, SoundGen, GenRecord
<1>3. ClaimsAccounted'
  BY <1>1 DEF ClaimsInv, ClaimsAccounted, ToolsKept, ClaimsKept
<1>4. \A g \in Gen : \A t \in gen'[g].todo : tool'[t].st = "parsed"
  BY <1>2 DEF ClaimsInv, ToolsKept, TodoKept
<1>5. \A g, h \in Gen : g # h => gen'[g].todo \cap gen'[h].todo = {}
  BY DEF ClaimsInv, TodoKept
<1> QED
  BY <1>3, <1>4, <1>5 DEF ClaimsInv

\* Dropping pending tools is such a step, as far as the tools go.
LEMMA DropPendingKeeps ==
    ASSUME NEW T \in SUBSET {t \in Tool : tool[t].st = "pending"},
           tool' = DropTools(T)
    PROVE  ToolsKept
  BY DEF ToolsKept, DropTools

\* Every step of the protocol keeps the claims accounted for.
LEMMA ClaimsStep ==
    ASSUME TypeInv, ClaimsInv, [Next]_vars
    PROVE  ClaimsInv'
<1> USE DEF TypeInv, flags, marks, vars,
      HasClaim, IdleGen, IdleWorker, StepThread, ToolThread
<1>a. /\ \A g \in Gen : gen[g] \in SoundGen
      /\ \A w \in Worker : wrk[w] \in SoundWorker
      /\ \A t \in Tool : tool[t] \in SoundTool
  OBVIOUS
<1>1. ASSUME NEW s \in Session, CreateSession(s)
      PROVE  ClaimsInv'
  BY <1>1, <1>a DEF CreateSession, ClaimsInv, ClaimsAccounted
<1>2. ASSUME NEW s \in Session, DeleteMark(s)
      PROVE  ClaimsInv'
  <2>1. tool' = DropTools(Pending(s))
    BY <1>2 DEF DeleteMark
  <2>2. Pending(s) \in SUBSET {u \in Tool : tool[u].st = "pending"}
    BY <1>2 DEF DeleteMark, Pending
  <2>3. ToolsKept
    BY <2>1, <2>2, DropPendingKeeps
  <2>4. ClaimsKept /\ TodoKept
    BY <1>2 DEF DeleteMark, ClaimsKept, TodoKept
  <2> QED
    BY <2>3, <2>4, ClaimsFrame
<1>3. ASSUME NEW s \in Session, DeleteRemove(s)
      PROVE  ClaimsInv'
  BY <1>3, <1>a DEF DeleteRemove, ClaimsInv, ClaimsAccounted
<1>4. ASSUME NEW s \in Session, CleanInactive(s)
      PROVE  ClaimsInv'
  BY <1>4, <1>a DEF CleanInactive, ClaimsInv, ClaimsAccounted
<1>5. ASSUME NEW s \in Session, NEW g \in Gen, StepReserve(s, g)
      PROVE  ClaimsInv'
  BY <1>5, <1>a DEF StepReserve, ClaimsInv, ClaimsAccounted
<1>6. ASSUME NEW s \in Session, NEW g \in Gen, DirectStart(s, g)
      PROVE  ClaimsInv'
  BY <1>6, <1>a DEF DirectStart, Dispatched, ClaimsInv, ClaimsAccounted
<1>7. ASSUME NEW s \in Session, NEW g \in Gen, WatchWake(s, g)
      PROVE  ClaimsInv'
  BY <1>7, <1>a DEF WatchWake, DispatchedByOwner, ClaimsInv, ClaimsAccounted
<1>8. ASSUME StartCommand PROVE ClaimsInv'
  BY <1>8, <1>a DEF StartCommand, ClaimsInv, ClaimsAccounted
<1>9. ASSUME NEW t \in Tool, NEW w \in Worker, Confirm(t, w)
      PROVE  ClaimsInv'
  BY <1>9, <1>a DEF Confirm, ClaimsInv, ClaimsAccounted
<1>10. ASSUME NEW t \in Tool, NEW g \in Gen, Skip(t, g)
      PROVE  ClaimsInv'
  <2>1. tool' = DropTools({t})
    BY <1>10 DEF Skip, SkipTool
  <2>2. {t} \in SUBSET {u \in Tool : tool[u].st = "pending"}
    BY <1>10 DEF Skip, SkipTool, Pending
  <2>3. ToolsKept
    BY <2>1, <2>2, DropPendingKeeps
  <2>4. ClaimsKept /\ TodoKept
    BY <1>10 DEF Skip, SkipTool, ClaimsKept, TodoKept
  <2> QED
    BY <2>3, <2>4, ClaimsFrame
<1>11. ASSUME NEW t \in Tool, SkipFails(t)
      PROVE  ClaimsInv'
  <2>1. tool' = DropTools({t})
    BY <1>11 DEF SkipFails, SkipTool
  <2>2. {t} \in SUBSET {u \in Tool : tool[u].st = "pending"}
    BY <1>11 DEF SkipFails, SkipTool, Pending
  <2>3. ToolsKept
    BY <2>1, <2>2, DropPendingKeeps
  <2>4. ClaimsKept /\ TodoKept
    BY <1>11 DEF SkipFails, SkipTool, ClaimsKept, TodoKept
  <2> QED
    BY <2>3, <2>4, ClaimsFrame
<1>12. ASSUME NEW t \in Tool, SkipWedges(t)
      PROVE  ClaimsInv'
  <2>1. tool' = DropTools({t})
    BY <1>12 DEF SkipWedges, SkipTool
  <2>2. {t} \in SUBSET {u \in Tool : tool[u].st = "pending"}
    BY <1>12 DEF SkipWedges, SkipTool, Pending
  <2>3. ToolsKept
    BY <2>1, <2>2, DropPendingKeeps
  <2>4. ClaimsKept /\ TodoKept
    BY <1>12 DEF SkipWedges, SkipTool, ClaimsKept, TodoKept
  <2> QED
    BY <2>3, <2>4, ClaimsFrame
<1>13. ASSUME NEW s \in Session, NEW T \in SUBSET Tool, Rerun(s, T)
      PROVE  ClaimsInv'
  <2>1. ToolsKept
    BY <1>13 DEF Rerun, Reregister, ToolsKept, Fresh
  <2>2. ClaimsKept /\ TodoKept
    BY <1>13 DEF Rerun, Reregister, ClaimsKept, TodoKept
  <2> QED
    BY <2>1, <2>2, ClaimsFrame
<1>14. ASSUME NEW s \in Session, NEW T \in SUBSET Tool, NEW A \in
              SUBSET Tool, NEW w \in Worker, RerunAuto(s, T, A, w)
      PROVE  ClaimsInv'
  <2>1. ToolsKept
    BY <1>14 DEF RerunAuto, Reregister, RerunClaim, ToolsKept, Fresh
  <2>2. ClaimsKept /\ TodoKept
    BY <1>14 DEF RerunAuto, Reregister, RerunClaim, ClaimsKept, TodoKept
  <2> QED
    BY <2>1, <2>2, ClaimsFrame
<1>15. ASSUME NEW s \in Session, NEW T \in SUBSET Tool, NEW A \in
              SUBSET Tool, RerunWedges(s, T, A)
      PROVE  ClaimsInv'
  <2>1. ToolsKept
    BY <1>15 DEF RerunWedges, Reregister, RerunClaim, ToolsKept, Fresh
  <2>2. ClaimsKept /\ TodoKept
    BY <1>15 DEF RerunWedges, Reregister, RerunClaim, ClaimsKept, TodoKept
  <2> QED
    BY <2>1, <2>2, ClaimsFrame
<1>16. ASSUME Interrupt PROVE ClaimsInv'
  <2> DEFINE active == {s \in Registered : generating[s] \/ ~Quiescent(s)}
             T == UNION {Pending(s) : s \in active}
  <2>1. tool' = DropTools(T)
    BY <1>16 DEF Interrupt
  <2>2. T \in SUBSET {u \in Tool : tool[u].st = "pending"}
    BY DEF Pending
  <2>3. ToolsKept
    BY <2>1, <2>2, DropPendingKeeps
  <2>4. ClaimsKept /\ TodoKept
    BY <1>16 DEF Interrupt, ClaimsKept, TodoKept
  <2> QED
    BY <2>3, <2>4, ClaimsFrame
<1>17. ASSUME FinishCommand PROVE ClaimsInv'
  BY <1>17, <1>a DEF FinishCommand, ClaimsInv, ClaimsAccounted
<1>18. ASSUME NEW g \in Gen, StepDispatch(g)
      PROVE  ClaimsInv'
  <2>1. TodoKept
    <3>1. CASE gen' = [gen EXCEPT ![g].pc = "spawn", ![g].prev = FALSE]
      BY <3>1 DEF TodoKept
    <3>2. CASE gen' = [gen EXCEPT ![g].pc = "stepFailed"]
      BY <3>2 DEF TodoKept
    <3> QED
      BY <1>18, <3>1, <3>2 DEF StepDispatch
  <2>2. ToolsKept /\ ClaimsKept
    BY <1>18 DEF StepDispatch, ToolsKept, ClaimsKept, HasClaim
  <2> QED
    BY <2>1, <2>2, ClaimsFrame
<1>19. ASSUME NEW g \in Gen, StepRollback(g)
      PROVE  ClaimsInv'
  BY <1>19, <1>a DEF StepRollback, ClaimsInv, ClaimsAccounted
<1>20. ASSUME NEW g \in Gen, ReleaseFailed(g)
      PROVE  ClaimsInv'
  BY <1>20, <1>a DEF ReleaseFailed, ClaimsInv, ClaimsAccounted
<1>21. ASSUME NEW g \in Gen, Begin(g)
      PROVE  ClaimsInv'
  BY <1>21, <1>a DEF Begin, ClaimsInv, ClaimsAccounted
<1>22. ASSUME NEW g \in Gen, BeginRevoked(g)
      PROVE  ClaimsInv'
  BY <1>22, <1>a DEF BeginRevoked, ClaimsInv, ClaimsAccounted
<1>23. ASSUME NEW g \in Gen, EarlyExit(g)
      PROVE  ClaimsInv'
  BY <1>23, <1>a DEF EarlyExit, ClaimsInv, ClaimsAccounted
<1>24. ASSUME NEW g \in Gen, NEW T \in SUBSET Tool, StreamDone(g, T)
      PROVE  ClaimsInv'
  <2>1. \A u \in Tool : tool'[u].st = IF u \in T THEN "parsed" ELSE tool[u].st
    BY <1>24 DEF StreamDone
  <2>2. \A h \in Gen : gen'[h].todo = IF h = g THEN T ELSE gen[h].todo
    BY <1>24, <1>a DEF StreamDone, SoundGen, GenRecord
  <2>3. \A u \in T : tool[u].st = "fresh"
    BY <1>24 DEF StreamDone, Fresh
  <2>4. \A h \in Gen : gen[h].todo \subseteq Tool
    BY <1>a DEF SoundGen, GenRecord
  <2>5. ClaimsAccounted'
    <3>1. \A v \in Worker : HasClaim(v) => wrk[v].tool \in Tool
      BY <1>a DEF HasClaim, SoundWorker
    <3>2. wrk' = wrk
      BY <1>24 DEF StreamDone
    <3> QED
      BY <2>1, <2>3, <3>1, <3>2 DEF ClaimsInv, ClaimsAccounted, HasClaim
  <2>6. \A h \in Gen : \A t \in gen'[h].todo : tool'[t].st = "parsed"
    BY <2>1, <2>2, <2>4 DEF ClaimsInv
  <2>7. \A h \in Gen : gen[h].todo \cap T = {}
    BY <2>3, <2>4 DEF ClaimsInv
  <2>8. \A h, k \in Gen : h # k => gen'[h].todo \cap gen'[k].todo = {}
    BY <2>2, <2>7 DEF ClaimsInv
  <2> QED
    BY <2>5, <2>6, <2>8 DEF ClaimsInv
<1>25. ASSUME NEW g \in Gen, StreamBreak(g)
      PROVE  ClaimsInv'
  <2>1. \A u \in Tool : tool'[u].st = IF u \in gen[g].todo THEN "done" ELSE tool[u].st
    BY <1>25 DEF StreamBreak, DropTools
  <2>2. \A h \in Gen : gen'[h].todo = IF h = g THEN {} ELSE gen[h].todo
    BY <1>25, <1>a DEF StreamBreak, SoundGen, GenRecord
  <2>3. \A h \in Gen : gen[h].todo \subseteq Tool
    BY <1>a DEF SoundGen, GenRecord
  <2>4. ClaimsAccounted'
    <3>1. \A v \in Worker : HasClaim(v) => wrk[v].tool \in Tool
      BY <1>a DEF HasClaim, SoundWorker
    <3>2. wrk' = wrk
      BY <1>25 DEF StreamBreak
    <3>3. \A u \in gen[g].todo : tool[u].st = "parsed"
      BY DEF ClaimsInv
    <3> QED
      BY <2>1, <3>1, <3>2, <3>3 DEF ClaimsInv, ClaimsAccounted, HasClaim
  <2>5. \A h \in Gen : \A t \in gen'[h].todo : tool'[t].st = "parsed"
    BY <2>1, <2>2, <2>3 DEF ClaimsInv
  <2>6. \A h, k \in Gen : h # k => gen'[h].todo \cap gen'[k].todo = {}
    BY <2>2 DEF ClaimsInv
  <2> QED
    BY <2>4, <2>5, <2>6 DEF ClaimsInv
<1>26. ASSUME NEW g \in Gen, NEW t \in Tool, NEW auto \in BOOLEAN,
              RegisterTool(g, t, auto)
      PROVE  ClaimsInv'
  BY <1>26, <1>a DEF RegisterTool, ClaimsInv, ClaimsAccounted
<1>27. ASSUME NEW g \in Gen, NEW w \in Worker, StartFirstTool(g, w)
      PROVE  ClaimsInv'
  BY <1>27, <1>a DEF StartFirstTool, ClaimsInv, ClaimsAccounted
<1>28. ASSUME NEW g \in Gen, StartNoTool(g)
      PROVE  ClaimsInv'
  BY <1>28, <1>a DEF StartNoTool, ClaimsInv, ClaimsAccounted
<1>29. ASSUME NEW g \in Gen, Finally(g)
      PROVE  ClaimsInv'
  BY <1>29, <1>a DEF Finally, ClaimsInv, ClaimsAccounted
<1>30. ASSUME NEW w \in Worker, Claim(w)
      PROVE  ClaimsInv'
  <2> DEFINE t == wrk[w].tool
  <2>1. t \in Tool /\ tool[t].st = "pending"
    BY <1>30, <1>a DEF Claim, SoundWorker
  <2>2. \A u \in Tool : tool'[u].st = IF u = t THEN "executing" ELSE tool[u].st
    BY <1>30, <1>a, <2>1 DEF Claim, SoundTool, ToolRecord
  <2>3. \A v \in Worker : /\ wrk'[v].tool = wrk[v].tool
                          /\ HasClaim(v)' <=> HasClaim(v) \/ v = w
    BY <1>30, <1>a DEF Claim, HasClaim, SoundWorker, WorkerRecord
  <2>4. gen' = gen
    BY <1>30 DEF Claim
  <2>5. \A v \in Worker : HasClaim(v) => wrk[v].tool \in Tool
    BY <1>a DEF HasClaim, SoundWorker
  <2>6. \A g \in Gen : gen[g].todo \subseteq Tool
    BY <1>a DEF SoundGen, GenRecord
  <2>7. ClaimsAccounted'
    BY <2>1, <2>2, <2>3, <2>5 DEF ClaimsInv, ClaimsAccounted
  <2> QED
    BY <2>1, <2>2, <2>4, <2>6, <2>7 DEF ClaimsInv
<1>31. ASSUME NEW w \in Worker, ClaimFails(w)
      PROVE  ClaimsInv'
  BY <1>31, <1>a DEF ClaimFails, ClaimsInv, ClaimsAccounted
<1>32. ASSUME NEW w \in Worker, Execute(w)
      PROVE  ClaimsInv'
  BY <1>32, <1>a DEF Execute, ClaimsInv, ClaimsAccounted
<1>33. ASSUME NEW w \in Worker, Release(w)
      PROVE  ClaimsInv'
  <2> DEFINE t == wrk[w].tool
  <2>1. t \in Tool /\ HasClaim(w)
    BY <1>33, <1>a DEF Release, SoundWorker, HasClaim
  <2>2. \A u \in Tool : tool'[u].st = IF u = t THEN "done" ELSE tool[u].st
    BY <1>33 DEF Release, DropTools
  <2>3. \A v \in Worker : /\ HasClaim(v)' <=> HasClaim(v) /\ v # w
                          /\ v # w => wrk'[v] = wrk[v]
    BY <1>33, <1>a DEF Release, HasClaim, SoundWorker, WorkerRecord
  <2>4. gen' = gen
    BY <1>33 DEF Release
  <2>5. \A v \in Worker : HasClaim(v) => wrk[v].tool \in Tool
    BY <1>a DEF HasClaim, SoundWorker
  <2>6. \A g \in Gen : gen[g].todo \subseteq Tool
    BY <1>a DEF SoundGen, GenRecord
  <2>7. ClaimsAccounted'
    BY <2>1, <2>2, <2>3, <2>5 DEF ClaimsInv, ClaimsAccounted
  <2>8. tool[t].st = "executing"
    BY <2>1 DEF ClaimsInv, ClaimsAccounted
  <2> QED
    BY <2>2, <2>4, <2>6, <2>7, <2>8 DEF ClaimsInv
<1>34. ASSUME NEW w \in Worker, NEW g \in Gen, ElectContinue(w, g)
      PROVE  ClaimsInv'
  BY <1>34, <1>a
  DEF ElectContinue, DispatchedByOwner, ClaimsInv, ClaimsAccounted
<1>35. ASSUME NEW w \in Worker, ElectDecline(w)
      PROVE  ClaimsInv'
  BY <1>35, <1>a DEF ElectDecline, ClaimsInv, ClaimsAccounted
<1>36. ASSUME NEW w \in Worker, WorkerAborts(w)
      PROVE  ClaimsInv'
  BY <1>36, <1>a DEF WorkerAborts, ClaimsInv, ClaimsAccounted
<1>37. ASSUME NEW g \in Gen, SetupRaises(g)
      PROVE  ClaimsInv'
  BY <1>37, <1>a DEF SetupRaises, ClaimsInv, ClaimsAccounted
<1>38. ASSUME NEW w \in Worker, WorkerRaises(w)
      PROVE  ClaimsInv'
  <2>1. CASE wrk[w].pc = "claim"
    BY <1>38, <2>1, ClaimsFrame
    DEF WorkerRaises, ToolsKept, ClaimsKept, TodoKept, HasClaim
  <2>2. CASE wrk[w].pc \in {"exec", "release"}
    <3> DEFINE t == wrk[w].tool
    <3>1. t \in Tool /\ HasClaim(w)
      BY <1>38, <1>a, <2>2 DEF WorkerRaises, SoundWorker, HasClaim
    <3>2. \A u \in Tool : tool'[u].st = IF u = t THEN "done" ELSE tool[u].st
      BY <1>38, <2>2 DEF WorkerRaises, DropTools
    <3>3. \A v \in Worker : /\ HasClaim(v)' <=> HasClaim(v) /\ v # w
                            /\ v # w => wrk'[v] = wrk[v]
      BY <1>38, <1>a, <2>2 DEF WorkerRaises, HasClaim, SoundWorker, WorkerRecord
    <3>4. gen' = gen
      BY <1>38 DEF WorkerRaises
    <3>5. \A v \in Worker : HasClaim(v) => wrk[v].tool \in Tool
      BY <1>a DEF HasClaim, SoundWorker
    <3>6. \A g \in Gen : gen[g].todo \subseteq Tool
      BY <1>a DEF SoundGen, GenRecord
    <3>7. ClaimsAccounted'
      BY <3>1, <3>2, <3>3, <3>5 DEF ClaimsInv, ClaimsAccounted
    <3>8. tool[t].st = "executing"
      BY <3>1 DEF ClaimsInv, ClaimsAccounted
    <3> QED
      BY <3>2, <3>4, <3>6, <3>7, <3>8 DEF ClaimsInv
  <2> QED
    BY <1>38, <2>1, <2>2 DEF WorkerRaises
<1>39. ASSUME Idle PROVE ClaimsInv'
  BY <1>39, <1>a DEF Idle, ClaimsInv, ClaimsAccounted
<1>40. ASSUME UNCHANGED vars PROVE ClaimsInv'
  BY <1>40 DEF ClaimsInv, ClaimsAccounted, HasClaim
<1> HIDE DEF TypeInv, flags, marks, vars,
      HasClaim, IdleGen, IdleWorker, StepThread, ToolThread
<1>41. ASSUME Request PROVE ClaimsInv'
  BY <1>1, <1>2, <1>3, <1>4, <1>5, <1>6, <1>7, <1>8, <1>9, <1>10, <1>11, <1>12,
     <1>13, <1>14, <1>15, <1>16, <1>41 DEF Request
<1>42. ASSUME NEW g \in Gen, GenStep(g) PROVE ClaimsInv'
  BY <1>18, <1>19, <1>20, <1>21, <1>22, <1>23, <1>24, <1>25, <1>26, <1>27,
     <1>28, <1>29, <1>42 DEF GenStep
<1>43. ASSUME NEW w \in Worker, WorkerStep(w) PROVE ClaimsInv'
  BY <1>30, <1>31, <1>32, <1>33, <1>34, <1>35, <1>36, <1>43 DEF WorkerStep
<1>44. ASSUME Failure PROVE ClaimsInv'
  BY <1>37, <1>38, <1>44 DEF Failure
<1> QED
  BY <1>17, <1>39, <1>40, <1>41, <1>42, <1>43, <1>44 DEF Next

\* Nobody has a claim or a tool use to register initially.
LEMMA ClaimsInit == Init => ClaimsInv
  BY DEF Init, ClaimsInv, ClaimsAccounted, HasClaim, IdleGen, IdleWorker

\* The tool uses a step thread has still to register are its own and nobody
\* else's, and the claims are accounted for.
THEOREM ToolsInOneHand == Spec => []ClaimsInv
<1>1. TypeInv /\ ClaimsInv /\ [Next]_vars => ClaimsInv'
  BY ClaimsStep
<1> QED
  BY <1>1, ClaimsInit, TypeInvariant, PTL DEF Spec

\* Whatever fails and however the processes interleave, every executing tool is
\* run by exactly one worker: no entry of _executing_tools outlives its worker.
THEOREM ToolClaims == Spec => []ClaimsAccounted
  BY ToolsInOneHand, PTL DEF ClaimsInv

-----------------------------------------------------------------------------
(* The order of the epochs.                                                *)

\* A step after which no other handler has an epoch to give back.
KeepsReserving == \A g \in Gen : Reserving(g)' =>
    /\ Reserving(g)
    /\ gen'[g].sess = gen[g].sess /\ gen'[g].seq = gen[g].seq
    /\ gen'[g].prev = gen[g].prev

\* A step after which no other worker has a reservation.
KeepsReserved == \A w \in Worker : Reserved(w)' =>
    /\ Reserved(w)
    /\ wrk'[w].sess = wrk[w].sess /\ wrk'[w].seq = wrk[w].seq

\* A step in which no epoch runs back, and an interrupt mark changes only with
\* its epoch.
Advances == \A s \in Session :
    \/ stepSeq'[s] = stepSeq[s] /\ interrupted'[s] = interrupted[s]
    \/ stepSeq'[s] = stepSeq[s] + 1

\* Such a step keeps the epochs in order.
LEMMA EpochAdvance ==
    ASSUME TypeInv, EpochInv, KeepsReserving, KeepsReserved, Advances
    PROVE  EpochInv'
<1>1. /\ \A g \in Gen :
           /\ gen[g].seq \in Nat
           /\ Reserving(g) => gen[g].sess \in Session
      /\ \A w \in Worker :
           /\ wrk[w].seq \in Nat
           /\ Reserved(w) => wrk[w].sess \in Session
      /\ \A s \in Session : stepSeq[s] \in Nat
  BY
  DEF TypeInv, SoundGen, SoundWorker, GenRecord, WorkerRecord, Reserving,
      Reserved
<1>2. \A g \in Gen : Reserving(g)' => gen'[g].seq <= stepSeq'[gen'[g].sess]
  BY <1>1 DEF EpochInv, KeepsReserving, Advances
<1>3. \A g, h \in Gen :
        /\ Reserving(g)' /\ Reserving(h)'
        /\ gen'[g].sess = gen'[h].sess /\ gen'[g].seq = gen'[h].seq
        => g = h
  BY DEF EpochInv, KeepsReserving
<1>4. \A w \in Worker : Reserved(w)' =>
        /\ wrk'[w].seq <= stepSeq'[wrk'[w].sess]
        /\ wrk'[w].seq = stepSeq'[wrk'[w].sess] => ~interrupted'[wrk'[w].sess]
  BY <1>1 DEF EpochInv, KeepsReserved, Advances
<1>5. \A w \in Worker, g \in Gen :
        Reserved(w)' /\ Reserving(g)' /\ gen'[g].sess = wrk'[w].sess =>
          /\ gen'[g].seq # wrk'[w].seq
          /\ gen'[g].seq = wrk'[w].seq + 1 => ~gen'[g].prev
  BY DEF EpochInv, KeepsReserved, KeepsReserving
<1> QED
  BY <1>2, <1>3, <1>4, <1>5 DEF EpochInv

\* Every step of the protocol keeps the epochs in order, a rollback included:
\* the epoch it returns to belongs to no other handler, and a worker that owns
\* it is not interrupted.
LEMMA EpochStep ==
    ASSUME TypeInv, EpochInv, [Next]_vars
    PROVE  EpochInv'
<1> USE DEF TypeInv, flags, marks, vars,
      KeepsReserving, KeepsReserved, Advances, Reserving, Reserved,
      IdleGen, IdleWorker, StepThread, ToolThread, SoundTool, SoundWorker
<1>a. /\ \A g \in Gen : gen[g] \in SoundGen
      /\ \A w \in Worker : wrk[w] \in SoundWorker
      /\ \A t \in Tool : tool[t] \in SoundTool
  OBVIOUS
<1>1. ASSUME NEW s \in Session, CreateSession(s)
      PROVE  EpochInv'
  BY <1>1, <1>a, EpochAdvance DEF CreateSession
<1>2. ASSUME NEW s \in Session, DeleteMark(s)
      PROVE  EpochInv'
  BY <1>2, <1>a, EpochAdvance DEF DeleteMark
<1>3. ASSUME NEW s \in Session, DeleteRemove(s)
      PROVE  EpochInv'
  BY <1>3, <1>a, EpochAdvance DEF DeleteRemove
<1>4. ASSUME NEW s \in Session, CleanInactive(s)
      PROVE  EpochInv'
  BY <1>4, <1>a, EpochAdvance DEF CleanInactive
<1>5. ASSUME NEW s \in Session, NEW g \in Gen, StepReserve(s, g)
      PROVE  EpochInv'
  <2> HIDE DEF KeepsReserving, KeepsReserved, Advances, Reserving, Reserved,
      IdleGen, IdleWorker, StepThread, ToolThread, SoundTool, SoundWorker
  <2>1. /\ gen'[g].pc = "setup" /\ gen'[g].sess = s
        /\ gen'[g].seq = stepSeq[s] + 1 /\ gen'[g].prev = interrupted[s]
        /\ \A h \in Gen : h # g => gen'[h] = gen[h]
    BY <1>5 DEF StepReserve, StepThread, IdleGen
  <2>2. /\ stepSeq'[s] = stepSeq[s] + 1
        /\ \A r \in Session : r # s =>
             stepSeq'[r] = stepSeq[r] /\ interrupted'[r] = interrupted[r]
        /\ ~interrupted'[s]
        /\ wrk' = wrk
    BY <1>5 DEF StepReserve
  <2>3. \A h \in Gen : h # g => (Reserving(h)' <=> Reserving(h))
    BY <2>1 DEF Reserving
  <2>4. \A v \in Worker : Reserved(v)' <=> Reserved(v)
    BY <2>2 DEF Reserved
  <2>5. /\ \A h \in Gen :
             /\ gen[h].seq \in Nat
             /\ Reserving(h) => gen[h].sess \in Session
        /\ \A v \in Worker :
             /\ wrk[v].seq \in Nat
             /\ Reserved(v) => wrk[v].sess \in Session
        /\ \A r \in Session : stepSeq[r] \in Nat
    BY <1>a
    DEF SoundGen, SoundWorker, GenRecord, WorkerRecord, Reserving, Reserved
  <2>6. \A h \in Gen : Reserving(h)' => gen'[h].seq <= stepSeq'[gen'[h].sess]
    BY <2>1, <2>2, <2>3, <2>5 DEF EpochInv
  <2>7. \A h \in Gen : Reserving(h) /\ gen[h].sess = s => gen[h].seq # stepSeq[s] + 1
    BY <2>5 DEF EpochInv
  <2>8. \A h, k \in Gen :
          /\ Reserving(h)' /\ Reserving(k)'
          /\ gen'[h].sess = gen'[k].sess /\ gen'[h].seq = gen'[k].seq
          => h = k
    BY <2>1, <2>3, <2>7 DEF EpochInv
  <2>9. \A v \in Worker : Reserved(v)' =>
          /\ wrk'[v].seq <= stepSeq'[wrk'[v].sess]
          /\ wrk'[v].seq = stepSeq'[wrk'[v].sess] => ~interrupted'[wrk'[v].sess]
    BY <2>2, <2>4, <2>5 DEF EpochInv
  <2>10. \A v \in Worker, h \in Gen :
           Reserved(v)' /\ Reserving(h)' /\ gen'[h].sess = wrk'[v].sess =>
             /\ gen'[h].seq # wrk'[v].seq
             /\ gen'[h].seq = wrk'[v].seq + 1 => ~gen'[h].prev
    <3> SUFFICES ASSUME NEW v \in Worker, NEW h \in Gen,
                        Reserved(v)', Reserving(h)', gen'[h].sess = wrk'[v].sess
                 PROVE  /\ gen'[h].seq # wrk'[v].seq
                        /\ gen'[h].seq = wrk'[v].seq + 1 => ~gen'[h].prev
      OBVIOUS
    <3>1. CASE h = g
      BY <3>1, <2>1, <2>2, <2>4, <2>5 DEF EpochInv
    <3>2. CASE h # g
      BY <3>2, <2>1, <2>2, <2>3, <2>4 DEF EpochInv
    <3> QED
      BY <3>1, <3>2
  <2> QED
    BY <2>6, <2>8, <2>9, <2>10 DEF EpochInv
<1>6. ASSUME NEW s \in Session, NEW g \in Gen, DirectStart(s, g)
      PROVE  EpochInv'
  <2>1. KeepsReserving
    <3>1. PICK pc \in {"spawn", "failed", "failedTwice"} :
            gen' = [gen EXCEPT ![g] = StepThread(s, stepSeq[s], pc)]
      BY <1>6 DEF DirectStart, Dispatched
    <3>2. gen'[g].pc = pc
      BY <3>1 DEF StepThread, IdleGen
    <3>3. ~Reserving(g)'
      BY <3>2 DEF Reserving
    <3>4. \A h \in Gen : h # g => gen'[h] = gen[h]
      BY <3>1
    <3> QED
      BY <3>3, <3>4 DEF KeepsReserving, Reserving
  <2>2. KeepsReserved
    BY <1>6, <1>a
    DEF DirectStart, KeepsReserved, Reserved, IdleWorker, SoundWorker,
        WorkerRecord
  <2>3. Advances
    BY <1>6, <1>a DEF DirectStart, Advances, SoundTool
  <2> QED
    BY <2>1, <2>2, <2>3, EpochAdvance
<1>7. ASSUME NEW s \in Session, NEW g \in Gen, WatchWake(s, g)
      PROVE  EpochInv'
  <2>1. KeepsReserving
    <3>1. PICK pc \in {"spawn", "failed", "failedTwice"} :
            gen' = [gen EXCEPT ![g] = StepThread(s, stepSeq[s] + 1, pc)]
      BY <1>7 DEF WatchWake, DispatchedByOwner
    <3>2. gen'[g].pc = pc
      BY <3>1 DEF StepThread, IdleGen
    <3>3. ~Reserving(g)'
      BY <3>2 DEF Reserving
    <3>4. \A h \in Gen : h # g => gen'[h] = gen[h]
      BY <3>1
    <3> QED
      BY <3>3, <3>4 DEF KeepsReserving, Reserving
  <2>2. KeepsReserved
    BY <1>7, <1>a
    DEF WatchWake, KeepsReserved, Reserved, IdleWorker, SoundWorker,
        WorkerRecord
  <2>3. Advances
    BY <1>7, <1>a DEF WatchWake, Advances, SoundTool
  <2> QED
    BY <2>1, <2>2, <2>3, EpochAdvance
<1>8. ASSUME StartCommand PROVE EpochInv'
  BY <1>8, <1>a, EpochAdvance DEF StartCommand
<1>9. ASSUME NEW t \in Tool, NEW w \in Worker, Confirm(t, w)
      PROVE  EpochInv'
  BY <1>9, <1>a, EpochAdvance DEF Confirm
<1>10. ASSUME NEW t \in Tool, NEW g \in Gen, Skip(t, g)
      PROVE  EpochInv'
  BY <1>10, <1>a, EpochAdvance DEF Skip, SkipTool
<1>11. ASSUME NEW t \in Tool, SkipFails(t)
      PROVE  EpochInv'
  BY <1>11, <1>a, EpochAdvance DEF SkipFails, SkipTool
<1>12. ASSUME NEW t \in Tool, SkipWedges(t)
      PROVE  EpochInv'
  BY <1>12, <1>a, EpochAdvance DEF SkipWedges, SkipTool
<1>13. ASSUME NEW s \in Session, NEW T \in SUBSET Tool, Rerun(s, T)
      PROVE  EpochInv'
  BY <1>13, <1>a, EpochAdvance DEF Rerun, Reregister
<1>14. ASSUME NEW s \in Session, NEW T \in SUBSET Tool, NEW A \in
              SUBSET Tool, NEW w \in Worker, RerunAuto(s, T, A, w)
      PROVE  EpochInv'
  <2> HIDE DEF KeepsReserving, KeepsReserved, Advances, Reserving, Reserved,
      IdleGen, IdleWorker, StepThread, ToolThread, SoundTool, SoundWorker
  <2>1. /\ Reserved(w)' /\ wrk'[w].sess = s /\ wrk'[w].seq = stepSeq[s] + 1
        /\ \A v \in Worker : v # w => wrk'[v] = wrk[v]
    BY <1>14 DEF RerunAuto, ToolThread, IdleWorker, Reserved
  <2>2. /\ stepSeq'[s] = stepSeq[s] + 1
        /\ \A r \in Session : r # s =>
             stepSeq'[r] = stepSeq[r] /\ interrupted'[r] = interrupted[r]
        /\ ~interrupted'[s]
        /\ gen' = gen
    BY <1>14 DEF RerunAuto, Reregister, RerunClaim
  <2>3. \A v \in Worker : v # w => (Reserved(v)' <=> Reserved(v))
    BY <2>1 DEF Reserved
  <2>4. \A h \in Gen : Reserving(h)' <=> Reserving(h)
    BY <2>2 DEF Reserving
  <2>5. /\ \A h \in Gen :
             /\ gen[h].seq \in Nat
             /\ Reserving(h) => gen[h].sess \in Session
        /\ \A v \in Worker :
             /\ wrk[v].seq \in Nat
             /\ Reserved(v) => wrk[v].sess \in Session
        /\ \A r \in Session : stepSeq[r] \in Nat
    BY <1>a
    DEF SoundGen, SoundWorker, GenRecord, WorkerRecord, Reserving, Reserved
  <2>6. \A h \in Gen : Reserving(h)' => gen'[h].seq <= stepSeq'[gen'[h].sess]
    BY <2>2, <2>4, <2>5 DEF EpochInv
  <2>7. \A h, k \in Gen :
          /\ Reserving(h)' /\ Reserving(k)'
          /\ gen'[h].sess = gen'[k].sess /\ gen'[h].seq = gen'[k].seq
          => h = k
    BY <2>2, <2>4 DEF EpochInv
  <2>8. \A v \in Worker : Reserved(v)' =>
          /\ wrk'[v].seq <= stepSeq'[wrk'[v].sess]
          /\ wrk'[v].seq = stepSeq'[wrk'[v].sess] => ~interrupted'[wrk'[v].sess]
    BY <2>1, <2>2, <2>3, <2>5 DEF EpochInv
  <2>9. \A h \in Gen : Reserving(h) /\ gen[h].sess = s => gen[h].seq < stepSeq[s] + 1
    BY <2>5 DEF EpochInv
  <2>10. \A v \in Worker, h \in Gen :
           Reserved(v)' /\ Reserving(h)' /\ gen'[h].sess = wrk'[v].sess =>
             /\ gen'[h].seq # wrk'[v].seq
             /\ gen'[h].seq = wrk'[v].seq + 1 => ~gen'[h].prev
    <3> SUFFICES ASSUME NEW v \in Worker, NEW h \in Gen,
                        Reserved(v)', Reserving(h)', gen'[h].sess = wrk'[v].sess
                 PROVE  /\ gen'[h].seq # wrk'[v].seq
                        /\ gen'[h].seq = wrk'[v].seq + 1 => ~gen'[h].prev
      OBVIOUS
    <3>1. CASE v = w
      BY <3>1, <2>1, <2>2, <2>4, <2>5, <2>9
    <3>2. CASE v # w
      BY <3>2, <2>1, <2>2, <2>3, <2>4 DEF EpochInv
    <3> QED
      BY <3>1, <3>2
  <2> QED
    BY <2>6, <2>7, <2>8, <2>10 DEF EpochInv
<1>15. ASSUME NEW s \in Session, NEW T \in SUBSET Tool, NEW A \in
              SUBSET Tool, RerunWedges(s, T, A)
      PROVE  EpochInv'
  BY <1>15, <1>a, EpochAdvance DEF RerunWedges, Reregister, RerunClaim
<1>16. ASSUME Interrupt PROVE EpochInv'
  BY <1>16, <1>a, EpochAdvance DEF Interrupt
<1>17. ASSUME FinishCommand PROVE EpochInv'
  BY <1>17, <1>a, EpochAdvance DEF FinishCommand
<1>18. ASSUME NEW g \in Gen, StepDispatch(g)
      PROVE  EpochInv'
  <2>1. KeepsReserving
    BY <1>18, <1>a
    DEF StepDispatch, KeepsReserving, Reserving, IdleGen, StepThread, SoundGen,
        GenRecord
  <2>2. KeepsReserved
    BY <1>18, <1>a
    DEF StepDispatch, KeepsReserved, Reserved, IdleWorker, ToolThread,
        SoundWorker, WorkerRecord
  <2>3. Advances
    BY <1>18, <1>a DEF StepDispatch, Advances, SoundTool
  <2> QED
    BY <2>1, <2>2, <2>3, EpochAdvance
<1>19. ASSUME NEW g \in Gen, StepRollback(g)
      PROVE  EpochInv'
  <2> HIDE DEF KeepsReserving, KeepsReserved, Advances, Reserving, Reserved,
      IdleGen, IdleWorker, StepThread, ToolThread, SoundTool, SoundWorker
  <2> DEFINE s == gen[g].sess
  <2>1. /\ ~Reserving(g)' /\ Reserving(g) /\ wrk' = wrk
        /\ \A h \in Gen : h # g => gen'[h] = gen[h]
    BY <1>19 DEF StepRollback, Reserving, IdleGen
  <2>2. KeepsReserving
    BY <2>1 DEF KeepsReserving, Reserving
  <2>3. KeepsReserved
    BY <2>1 DEF KeepsReserved, Reserved
  <2>4. CASE stepSeq[s] # gen[g].seq
    <3>1. Advances
      BY <1>19, <2>4 DEF StepRollback, Advances
    <3> QED
      BY <2>2, <2>3, <3>1, EpochAdvance
  <2>5. CASE stepSeq[s] = gen[g].seq
    <3>1. /\ s \in Session /\ gen[g].seq \in Nat \ {0}
          /\ \A h \in Gen :
               /\ gen[h].seq \in Nat
               /\ Reserving(h) => gen[h].sess \in Session
          /\ \A v \in Worker :
               /\ wrk[v].seq \in Nat
               /\ Reserved(v) => wrk[v].sess \in Session
          /\ \A r \in Session : stepSeq[r] \in Nat
      BY <1>a, <2>1
      DEF SoundGen, SoundWorker, GenRecord, WorkerRecord, Reserving, Reserved
    <3>2. /\ stepSeq'[s] = gen[g].seq - 1
          /\ interrupted'[s] = gen[g].prev
          /\ \A r \in Session : r # s =>
               stepSeq'[r] = stepSeq[r] /\ interrupted'[r] = interrupted[r]
      BY <1>19, <2>5, <3>1 DEF StepRollback
    <3>3. \A h \in Gen : Reserving(h)' => gen'[h].seq <= stepSeq'[gen'[h].sess]
      BY SMTT(30), <2>1, <2>2, <2>5, <3>1, <3>2 DEF EpochInv, KeepsReserving
    <3>4. \A h, k \in Gen :
            /\ Reserving(h)' /\ Reserving(k)'
            /\ gen'[h].sess = gen'[k].sess /\ gen'[h].seq = gen'[k].seq
            => h = k
      BY <2>2 DEF EpochInv, KeepsReserving
    <3>5. \A v \in Worker : Reserved(v)' =>
            /\ wrk'[v].seq <= stepSeq'[wrk'[v].sess]
            /\ wrk'[v].seq = stepSeq'[wrk'[v].sess] => ~interrupted'[wrk'[v].sess]
      <4> SUFFICES ASSUME NEW v \in Worker, Reserved(v)'
                   PROVE  /\ wrk'[v].seq <= stepSeq'[wrk'[v].sess]
                          /\ wrk'[v].seq = stepSeq'[wrk'[v].sess] => ~interrupted'[wrk'[v].sess]
        OBVIOUS
      <4>1. Reserved(v) /\ wrk'[v].sess = wrk[v].sess /\ wrk'[v].seq = wrk[v].seq
        BY <2>3 DEF KeepsReserved
      <4>2. CASE wrk[v].sess = s
        <5>1. /\ gen[g].seq # wrk[v].seq
              /\ gen[g].seq = wrk[v].seq + 1 => ~gen[g].prev
              /\ wrk[v].seq <= stepSeq[s]
          BY <4>1, <4>2, <2>1 DEF EpochInv
        <5>2. wrk[v].seq <= gen[g].seq - 1
          BY <5>1, <2>5, <3>1
        <5>3. wrk[v].seq = gen[g].seq - 1 => ~gen[g].prev
          BY <5>1, <3>1
        <5> QED
          BY <4>1, <4>2, <5>2, <5>3, <3>2
      <4>3. CASE wrk[v].sess # s
        BY <4>1, <4>3, <3>1, <3>2 DEF EpochInv
      <4> QED
        BY <4>2, <4>3
    <3>6. \A v \in Worker, h \in Gen :
            Reserved(v)' /\ Reserving(h)' /\ gen'[h].sess = wrk'[v].sess =>
              /\ gen'[h].seq # wrk'[v].seq
              /\ gen'[h].seq = wrk'[v].seq + 1 => ~gen'[h].prev
      BY <2>2, <2>3 DEF EpochInv, KeepsReserved, KeepsReserving
    <3> QED
      BY <3>3, <3>4, <3>5, <3>6 DEF EpochInv
  <2> QED
    BY <2>4, <2>5
<1>20. ASSUME NEW g \in Gen, ReleaseFailed(g)
      PROVE  EpochInv'
  <2>1. KeepsReserving
    BY <1>20, <1>a
    DEF ReleaseFailed, KeepsReserving, Reserving, IdleGen, StepThread, SoundGen,
        GenRecord
  <2>2. KeepsReserved
    BY <1>20, <1>a
    DEF ReleaseFailed, KeepsReserved, Reserved, IdleWorker, ToolThread,
        SoundWorker, WorkerRecord
  <2>3. Advances
    BY <1>20, <1>a DEF ReleaseFailed, Advances, SoundTool
  <2> QED
    BY <2>1, <2>2, <2>3, EpochAdvance
<1>21. ASSUME NEW g \in Gen, Begin(g)
      PROVE  EpochInv'
  BY <1>21, <1>a, EpochAdvance DEF Begin
<1>22. ASSUME NEW g \in Gen, BeginRevoked(g)
      PROVE  EpochInv'
  BY <1>22, <1>a, EpochAdvance DEF BeginRevoked, StrandIfOwned
<1>23. ASSUME NEW g \in Gen, EarlyExit(g)
      PROVE  EpochInv'
  BY <1>23, <1>a, EpochAdvance DEF EarlyExit, ReleaseIfOwned
<1>24. ASSUME NEW g \in Gen, NEW T \in SUBSET Tool, StreamDone(g, T)
      PROVE  EpochInv'
  BY <1>24, <1>a, EpochAdvance DEF StreamDone
<1>25. ASSUME NEW g \in Gen, StreamBreak(g)
      PROVE  EpochInv'
  BY <1>25, <1>a, EpochAdvance DEF StreamBreak
<1>26. ASSUME NEW g \in Gen, NEW t \in Tool, NEW auto \in BOOLEAN,
              RegisterTool(g, t, auto)
      PROVE  EpochInv'
  BY <1>26, <1>a, EpochAdvance DEF RegisterTool
<1>27. ASSUME NEW g \in Gen, NEW w \in Worker, StartFirstTool(g, w)
      PROVE  EpochInv'
  BY <1>27, <1>a, EpochAdvance DEF StartFirstTool
<1>28. ASSUME NEW g \in Gen, StartNoTool(g)
      PROVE  EpochInv'
  BY <1>28, <1>a, EpochAdvance DEF StartNoTool
<1>29. ASSUME NEW g \in Gen, Finally(g)
      PROVE  EpochInv'
  BY <1>29, <1>a, EpochAdvance DEF Finally, ReleaseIfOwned
<1>30. ASSUME NEW w \in Worker, Claim(w)
      PROVE  EpochInv'
  BY <1>30, <1>a, EpochAdvance DEF Claim
<1>31. ASSUME NEW w \in Worker, ClaimFails(w)
      PROVE  EpochInv'
  BY <1>31, <1>a, EpochAdvance DEF ClaimFails, ReleaseIfOwned
<1>32. ASSUME NEW w \in Worker, Execute(w)
      PROVE  EpochInv'
  BY <1>32, <1>a, EpochAdvance DEF Execute
<1>33. ASSUME NEW w \in Worker, Release(w)
      PROVE  EpochInv'
  <2>1. KeepsReserving /\ Advances
    BY <1>33, <1>a DEF Release
  <2>2. KeepsReserved
    BY <1>33, <1>a DEF Release
  <2> QED
    BY <2>1, <2>2, EpochAdvance
<1>34. ASSUME NEW w \in Worker, NEW g \in Gen, ElectContinue(w, g)
      PROVE  EpochInv'
  <2>1. KeepsReserving
    <3>1. PICK pc \in {"spawn", "failed", "failedTwice"} :
            gen' = [gen EXCEPT ![g] = StepThread(wrk[w].sess, stepSeq[wrk[w].sess] + 1, pc)]
      BY <1>34 DEF ElectContinue, DispatchedByOwner
    <3>2. gen'[g].pc = pc
      BY <3>1 DEF StepThread, IdleGen
    <3>3. ~Reserving(g)'
      BY <3>2 DEF Reserving
    <3>4. \A h \in Gen : h # g => gen'[h] = gen[h]
      BY <3>1
    <3> QED
      BY <3>3, <3>4 DEF KeepsReserving, Reserving
  <2>2. KeepsReserved
    BY <1>34, <1>a
    DEF ElectContinue, KeepsReserved, Reserved, IdleWorker, SoundWorker,
        WorkerRecord
  <2>3. Advances
    BY <1>34, <1>a DEF ElectContinue, Advances, SoundTool
  <2> QED
    BY <2>1, <2>2, <2>3, EpochAdvance
<1>35. ASSUME NEW w \in Worker, ElectDecline(w)
      PROVE  EpochInv'
  BY <1>35, <1>a, EpochAdvance DEF ElectDecline
<1>36. ASSUME NEW w \in Worker, WorkerAborts(w)
      PROVE  EpochInv'
  BY <1>36, <1>a, EpochAdvance DEF WorkerAborts, ReleaseIfOwned
<1>37. ASSUME NEW g \in Gen, SetupRaises(g)
      PROVE  EpochInv'
  BY <1>37, <1>a, EpochAdvance DEF SetupRaises, StrandIfOwned
<1>38. ASSUME NEW w \in Worker, WorkerRaises(w)
      PROVE  EpochInv'
  BY <1>38, <1>a, EpochAdvance DEF WorkerRaises
<1>39. ASSUME Idle PROVE EpochInv'
  BY <1>39, <1>a, EpochAdvance DEF Idle
<1>40. ASSUME UNCHANGED vars PROVE EpochInv'
  BY <1>40 DEF EpochInv, Reserving, Reserved
<1> HIDE DEF TypeInv, flags, marks, vars,
      KeepsReserving, KeepsReserved, Advances, Reserving, Reserved,
      IdleGen, IdleWorker, StepThread, ToolThread, SoundTool, SoundWorker
<1>41. ASSUME Request PROVE EpochInv'
  BY <1>1, <1>2, <1>3, <1>4, <1>5, <1>6, <1>7, <1>8, <1>9, <1>10, <1>11, <1>12,
     <1>13, <1>14, <1>15, <1>16, <1>41 DEF Request
<1>42. ASSUME NEW g \in Gen, GenStep(g) PROVE EpochInv'
  BY <1>18, <1>19, <1>20, <1>21, <1>22, <1>23, <1>24, <1>25, <1>26, <1>27,
     <1>28, <1>29, <1>42 DEF GenStep
<1>43. ASSUME NEW w \in Worker, WorkerStep(w) PROVE EpochInv'
  BY <1>30, <1>31, <1>32, <1>33, <1>34, <1>35, <1>36, <1>43 DEF WorkerStep
<1>44. ASSUME Failure PROVE EpochInv'
  BY <1>37, <1>38, <1>44 DEF Failure
<1> QED
  BY <1>17, <1>39, <1>40, <1>41, <1>42, <1>43, <1>44 DEF Next

\* Nobody has an epoch initially.
LEMMA EpochInit == Init => EpochInv
  BY DEF Init, EpochInv, Reserving, Reserved, IdleGen, IdleWorker

\* The rollback of a /step handler never revives an epoch that somebody else
\* holds or that an interrupt has revoked.
THEOREM EpochOrder == Spec => []EpochInv
<1>1. TypeInv /\ EpochInv /\ [Next]_vars => EpochInv'
  BY EpochStep
<1> QED
  BY <1>1, EpochInit, TypeInvariant, PTL DEF Spec

-----------------------------------------------------------------------------
(* The reservation.                                                        *)

\* A session generates after the step only if it has a holder then, or is
\* wedged, or generated under the same epoch before.
Supported == \A s \in Session : generating'[s] =>
    \/ Held(s)'
    \/ wedged' = s
    \/ /\ generating[s] /\ stepSeq'[s] = stepSeq[s]
       /\ wedged = s => wedged' = s

\* A step thread that gives up an epoch that stays current has released it, or
\* its end is recorded.
GenKept == \A g \in Gen, s \in Session :
    GenHolds(g, s) /\ stepSeq'[s] = stepSeq[s] =>
        GenHolds(g, s)' \/ ~generating'[s] \/ <<s, stepSeq[s]>> \in stranded'

\* A worker that gives up an epoch that stays current has released it, or has a
\* successor under it.
WorkerKept == \A w \in Worker, s \in Session :
    WorkerHolds(w, s) /\ stepSeq'[s] = stepSeq[s] =>
        Held(s)' \/ ~generating'[s]

\* A step of this kind forgets no reservation.
LEMMA AccountedFrame ==
    ASSUME ReservationAccounted, Supported, GenKept, WorkerKept,
           stranded \subseteq stranded'
    PROVE  ReservationAccounted'
<1> SUFFICES ASSUME NEW s \in Session, generating'[s]
             PROVE  Held(s)' \/ <<s, stepSeq'[s]>> \in stranded' \/ wedged' = s
  BY DEF ReservationAccounted
<1>1. CASE Held(s)' \/ wedged' = s
  BY <1>1
<1>2. CASE /\ generating[s] /\ stepSeq'[s] = stepSeq[s]
           /\ wedged = s => wedged' = s
  <2>1. CASE \E g \in Gen : GenHolds(g, s)
    BY <1>2, <2>1 DEF GenKept, Held
  <2>2. CASE \E w \in Worker : WorkerHolds(w, s)
    BY <1>2, <2>2 DEF WorkerKept
  <2>3. CASE <<s, stepSeq[s]>> \in stranded \/ wedged = s
    BY <1>2, <2>3
  <2> QED
    BY <1>2, <2>1, <2>2, <2>3 DEF ReservationAccounted, Held
<1> QED
  BY <1>1, <1>2 DEF Supported

\* Every step of the protocol forgets no reservation.
LEMMA AccountedStep ==
    ASSUME TypeInv, EpochInv, ReservationAccounted, [Next]_vars
    PROVE  ReservationAccounted'
<1> USE DEF TypeInv, flags, marks, vars,
      Supported, GenKept, WorkerKept, Held, GenHolds, WorkerHolds,
      IdleGen, IdleWorker, StepThread, ToolThread, SoundTool
<1>a. /\ \A g \in Gen : gen[g] \in SoundGen
      /\ \A w \in Worker : wrk[w] \in SoundWorker
      /\ \A t \in Tool : tool[t] \in SoundTool
  OBVIOUS
<1>1. ASSUME NEW s \in Session, CreateSession(s)
      PROVE  ReservationAccounted'
  BY <1>1, <1>a, AccountedFrame DEF CreateSession
<1>2. ASSUME NEW s \in Session, DeleteMark(s)
      PROVE  ReservationAccounted'
  BY <1>2, <1>a, AccountedFrame DEF DeleteMark
<1>3. ASSUME NEW s \in Session, DeleteRemove(s)
      PROVE  ReservationAccounted'
  BY <1>3, <1>a, AccountedFrame DEF DeleteRemove
<1>4. ASSUME NEW s \in Session, CleanInactive(s)
      PROVE  ReservationAccounted'
  BY <1>4, <1>a, AccountedFrame DEF CleanInactive
<1>5. ASSUME NEW s \in Session, NEW g \in Gen, StepReserve(s, g)
      PROVE  ReservationAccounted'
  BY <1>5, <1>a, AccountedFrame DEF StepReserve
<1>6. ASSUME NEW s \in Session, NEW g \in Gen, DirectStart(s, g)
      PROVE  ReservationAccounted'
  BY <1>6, <1>a, AccountedFrame DEF DirectStart, Dispatched
<1>7. ASSUME NEW s \in Session, NEW g \in Gen, WatchWake(s, g)
      PROVE  ReservationAccounted'
  BY <1>7, <1>a, AccountedFrame DEF WatchWake, DispatchedByOwner
<1>8. ASSUME StartCommand PROVE ReservationAccounted'
  BY <1>8, <1>a, AccountedFrame DEF StartCommand
<1>9. ASSUME NEW t \in Tool, NEW w \in Worker, Confirm(t, w)
      PROVE  ReservationAccounted'
  BY <1>9, <1>a, AccountedFrame DEF Confirm
<1>10. ASSUME NEW t \in Tool, NEW g \in Gen, Skip(t, g)
      PROVE  ReservationAccounted'
  BY <1>10, <1>a, AccountedFrame DEF Skip, SkipTool
<1>11. ASSUME NEW t \in Tool, SkipFails(t)
      PROVE  ReservationAccounted'
  BY <1>11, <1>a, AccountedFrame DEF SkipFails, SkipTool
<1>12. ASSUME NEW t \in Tool, SkipWedges(t)
      PROVE  ReservationAccounted'
  <2>1. Supported
    BY <1>12, <1>a, PoolAssumption
    DEF SkipWedges, SkipTool, ConversationLockFree, Supported, SoundTool
  <2>2. GenKept
    BY <1>12, <1>a
    DEF SkipWedges, SkipTool, GenKept, GenHolds, IdleGen, StepThread, SoundGen,
        GenRecord
  <2>3. WorkerKept
    BY <1>12, <1>a
    DEF SkipWedges, SkipTool, WorkerKept, Held, GenHolds, WorkerHolds,
        IdleWorker, ToolThread, SoundWorker, WorkerRecord
  <2>4. stranded \subseteq stranded'
    BY <1>12 DEF SkipWedges, SkipTool
  <2> QED
    BY <2>1, <2>2, <2>3, <2>4, AccountedFrame
<1>13. ASSUME NEW s \in Session, NEW T \in SUBSET Tool, Rerun(s, T)
      PROVE  ReservationAccounted'
  BY <1>13, <1>a, AccountedFrame DEF Rerun, Reregister
<1>14. ASSUME NEW s \in Session, NEW T \in SUBSET Tool, NEW A \in
              SUBSET Tool, NEW w \in Worker, RerunAuto(s, T, A, w)
      PROVE  ReservationAccounted'
  BY <1>14, <1>a, AccountedFrame DEF RerunAuto, Reregister, RerunClaim
<1>15. ASSUME NEW s \in Session, NEW T \in SUBSET Tool, NEW A \in
              SUBSET Tool, RerunWedges(s, T, A)
      PROVE  ReservationAccounted'
  <2>1. Supported
    BY <1>15, <1>a, PoolAssumption
    DEF RerunWedges, Reregister, RerunClaim, ConversationLockFree, Supported
  <2>2. GenKept
    BY <1>15, <1>a
    DEF RerunWedges, Reregister, RerunClaim, GenKept, GenHolds, IdleGen,
        StepThread, SoundGen, GenRecord
  <2>3. WorkerKept
    BY <1>15, <1>a
    DEF RerunWedges, Reregister, RerunClaim, WorkerKept, Held, GenHolds,
        WorkerHolds, IdleWorker, ToolThread, SoundWorker, WorkerRecord
  <2>4. stranded \subseteq stranded'
    BY <1>15 DEF RerunWedges, Reregister, RerunClaim
  <2> QED
    BY <2>1, <2>2, <2>3, <2>4, AccountedFrame
<1>16. ASSUME Interrupt PROVE ReservationAccounted'
  BY <1>16, <1>a, AccountedFrame DEF Interrupt
<1>17. ASSUME FinishCommand PROVE ReservationAccounted'
  BY <1>17, <1>a, AccountedFrame DEF FinishCommand
<1>18. ASSUME NEW g \in Gen, StepDispatch(g)
      PROVE  ReservationAccounted'
  <2>1. Supported
    BY <1>18, <1>a
    DEF StepDispatch, Supported, Held, GenHolds, WorkerHolds, IdleGen,
        StepThread, IdleWorker, ToolThread, SoundGen, GenRecord, SoundTool
  <2>2. GenKept
    <3>1. CASE gen' = [gen EXCEPT ![g].pc = "spawn", ![g].prev = FALSE]
      BY <1>18, <3>1 DEF StepDispatch, GenKept, GenHolds
    <3>2. CASE gen' = [gen EXCEPT ![g].pc = "stepFailed"]
      BY <1>18, <3>2 DEF StepDispatch, GenKept, GenHolds
    <3> QED
      BY <1>18, <3>1, <3>2 DEF StepDispatch
  <2>3. WorkerKept
    BY <1>18, <1>a
    DEF StepDispatch, WorkerKept, Held, GenHolds, WorkerHolds, IdleWorker,
        ToolThread, SoundWorker, WorkerRecord
  <2>4. stranded \subseteq stranded'
    BY <1>18 DEF StepDispatch
  <2> QED
    BY <2>1, <2>2, <2>3, <2>4, AccountedFrame
<1>19. ASSUME NEW g \in Gen, StepRollback(g)
      PROVE  ReservationAccounted'
  BY <1>19, <1>a, AccountedFrame DEF StepRollback
<1>20. ASSUME NEW g \in Gen, ReleaseFailed(g)
      PROVE  ReservationAccounted'
  BY <1>20, <1>a, AccountedFrame DEF ReleaseFailed, ReleaseIfOwned
<1>21. ASSUME NEW g \in Gen, Begin(g)
      PROVE  ReservationAccounted'
  BY <1>21, <1>a, AccountedFrame DEF Begin
<1>22. ASSUME NEW g \in Gen, BeginRevoked(g)
      PROVE  ReservationAccounted'
  BY <1>22, <1>a, AccountedFrame DEF BeginRevoked, StrandIfOwned
<1>23. ASSUME NEW g \in Gen, EarlyExit(g)
      PROVE  ReservationAccounted'
  BY <1>23, <1>a, AccountedFrame DEF EarlyExit, ReleaseIfOwned
<1>24. ASSUME NEW g \in Gen, NEW T \in SUBSET Tool, StreamDone(g, T)
      PROVE  ReservationAccounted'
  BY <1>24, <1>a, AccountedFrame DEF StreamDone
<1>25. ASSUME NEW g \in Gen, StreamBreak(g)
      PROVE  ReservationAccounted'
  BY <1>25, <1>a, AccountedFrame DEF StreamBreak
<1>26. ASSUME NEW g \in Gen, NEW t \in Tool, NEW auto \in BOOLEAN,
              RegisterTool(g, t, auto)
      PROVE  ReservationAccounted'
  <2>1. Supported
    BY <1>26, <1>a DEF RegisterTool
  <2>2. GenKept
    <3> SUFFICES ASSUME NEW h \in Gen, NEW s \in Session, GenHolds(h, s)
                 PROVE  GenHolds(h, s)'
      BY DEF GenKept
    <3> QED
      BY <1>26, <1>a DEF RegisterTool
  <2>3. WorkerKept
    BY <1>26 DEF RegisterTool
  <2> QED
    BY <1>26, <2>1, <2>2, <2>3, AccountedFrame DEF RegisterTool
<1>27. ASSUME NEW g \in Gen, NEW w \in Worker, StartFirstTool(g, w)
      PROVE  ReservationAccounted'
  BY <1>27, <1>a, AccountedFrame DEF StartFirstTool
<1>28. ASSUME NEW g \in Gen, StartNoTool(g)
      PROVE  ReservationAccounted'
  BY <1>28, <1>a, AccountedFrame DEF StartNoTool
<1>29. ASSUME NEW g \in Gen, Finally(g)
      PROVE  ReservationAccounted'
  BY <1>29, <1>a, AccountedFrame DEF Finally, ReleaseIfOwned
<1>30. ASSUME NEW w \in Worker, Claim(w)
      PROVE  ReservationAccounted'
  BY <1>30, <1>a, AccountedFrame DEF Claim
<1>31. ASSUME NEW w \in Worker, ClaimFails(w)
      PROVE  ReservationAccounted'
  <2>1. Supported
    BY <1>31, <1>a
    DEF ClaimFails, ReleaseIfOwned, Supported, Held, GenHolds, WorkerHolds,
        IdleGen, StepThread, IdleWorker, ToolThread, SoundGen, GenRecord,
        SoundTool
  <2>2. GenKept
    BY <1>31, <1>a
    DEF ClaimFails, ReleaseIfOwned, GenKept, GenHolds, IdleGen, StepThread,
        SoundGen, GenRecord
  <2>3. WorkerKept
    <3> SUFFICES ASSUME NEW v \in Worker, NEW s \in Session,
                        WorkerHolds(v, s), stepSeq'[s] = stepSeq[s]
                 PROVE  Held(s)' \/ ~generating'[s]
      BY DEF WorkerKept
    <3>1. CASE v = w
      <4>1. wrk[w].sess = s /\ wrk[w].seq = stepSeq[s] /\ wrk[w].reserved
        BY <3>1 DEF WorkerHolds
      <4> QED
        BY <1>31, <4>1 DEF ClaimFails, ReleaseIfOwned
    <3>2. CASE v # w
      <4>1. WorkerHolds(v, s)'
        BY <1>31, <3>2 DEF ClaimFails, ReleaseIfOwned, WorkerHolds
      <4> QED
        BY <4>1 DEF Held
    <3> QED
      BY <3>1, <3>2
  <2>4. stranded \subseteq stranded'
    BY <1>31 DEF ClaimFails, ReleaseIfOwned
  <2> QED
    BY <2>1, <2>2, <2>3, <2>4, AccountedFrame
<1>32. ASSUME NEW w \in Worker, Execute(w)
      PROVE  ReservationAccounted'
  BY <1>32, <1>a, AccountedFrame DEF Execute
<1>33. ASSUME NEW w \in Worker, Release(w)
      PROVE  ReservationAccounted'
  <2>1. Supported
    BY <1>33, <1>a DEF Release
  <2>2. GenKept
    BY <1>33 DEF Release
  <2>3. WorkerKept
    <3> SUFFICES ASSUME NEW v \in Worker, NEW s \in Session,
                        WorkerHolds(v, s), stepSeq'[s] = stepSeq[s]
                 PROVE  WorkerHolds(v, s)'
      BY DEF WorkerKept
    <3>1. CASE v = w
      BY <1>33, <1>a, <3>1 DEF Release
    <3>2. CASE v # w
      BY <1>33, <3>2 DEF Release
    <3> QED
      BY <3>1, <3>2
  <2> QED
    BY <1>33, <2>1, <2>2, <2>3, AccountedFrame DEF Release
<1>34. ASSUME NEW w \in Worker, NEW g \in Gen, ElectContinue(w, g)
      PROVE  ReservationAccounted'
  BY <1>34, <1>a, AccountedFrame DEF ElectContinue, DispatchedByOwner
<1>35. ASSUME NEW w \in Worker, ElectDecline(w)
      PROVE  ReservationAccounted'
  <2>1. Supported
    BY <1>35, <1>a
    DEF ElectDecline, Supported, Held, GenHolds, WorkerHolds, IdleGen,
        StepThread, IdleWorker, ToolThread, SoundGen, GenRecord, SoundTool
  <2>2. GenKept
    BY <1>35, <1>a
    DEF ElectDecline, GenKept, GenHolds, IdleGen, StepThread, SoundGen,
        GenRecord
  <2>3. WorkerKept
    <3> SUFFICES ASSUME NEW v \in Worker, NEW s \in Session,
                        WorkerHolds(v, s), stepSeq'[s] = stepSeq[s]
                 PROVE  Held(s)' \/ ~generating'[s]
      BY DEF WorkerKept
    <3>1. CASE v = w
      <4>1. wrk[w].sess = s /\ wrk[w].seq = stepSeq[s] /\ wrk[w].reserved
        BY <3>1 DEF WorkerHolds
      <4> QED
        BY <1>35, <4>1 DEF ElectDecline, OwnsReservation, EpochInv, Reserved
    <3>2. CASE v # w
      <4>1. WorkerHolds(v, s)'
        BY <1>35, <3>2
        DEF ElectDecline, OwnsReservation, EpochInv, Reserved, WorkerHolds
      <4> QED
        BY <4>1 DEF Held
    <3> QED
      BY <3>1, <3>2
  <2>4. stranded \subseteq stranded'
    BY <1>35 DEF ElectDecline
  <2> QED
    BY <2>1, <2>2, <2>3, <2>4, AccountedFrame
<1>36. ASSUME NEW w \in Worker, WorkerAborts(w)
      PROVE  ReservationAccounted'
  <2>1. Supported
    BY <1>36, <1>a
    DEF WorkerAborts, ReleaseIfOwned, Supported, Held, GenHolds, WorkerHolds,
        IdleGen, StepThread, IdleWorker, ToolThread, SoundGen, GenRecord,
        SoundTool
  <2>2. GenKept
    BY <1>36, <1>a
    DEF WorkerAborts, ReleaseIfOwned, GenKept, GenHolds, IdleGen, StepThread,
        SoundGen, GenRecord
  <2>3. WorkerKept
    <3> SUFFICES ASSUME NEW v \in Worker, NEW s \in Session,
                        WorkerHolds(v, s), stepSeq'[s] = stepSeq[s]
                 PROVE  Held(s)' \/ ~generating'[s]
      BY DEF WorkerKept
    <3>1. CASE v = w
      <4>1. wrk[w].sess = s /\ wrk[w].seq = stepSeq[s] /\ wrk[w].reserved
        BY <3>1 DEF WorkerHolds
      <4> QED
        BY <1>36, <4>1 DEF WorkerAborts, ReleaseIfOwned
    <3>2. CASE v # w
      <4>1. WorkerHolds(v, s)'
        BY <1>36, <3>2 DEF WorkerAborts, ReleaseIfOwned, WorkerHolds
      <4> QED
        BY <4>1 DEF Held
    <3> QED
      BY <3>1, <3>2
  <2>4. stranded \subseteq stranded'
    BY <1>36 DEF WorkerAborts, ReleaseIfOwned
  <2> QED
    BY <2>1, <2>2, <2>3, <2>4, AccountedFrame
<1>37. ASSUME NEW g \in Gen, SetupRaises(g)
      PROVE  ReservationAccounted'
  BY <1>37, <1>a, AccountedFrame DEF SetupRaises, StrandIfOwned
<1>38. ASSUME NEW w \in Worker, WorkerRaises(w)
      PROVE  ReservationAccounted'
  BY <1>38, <1>a, AccountedFrame DEF WorkerRaises
<1>39. ASSUME Idle PROVE ReservationAccounted'
  BY <1>39, <1>a, AccountedFrame DEF Idle
<1>40. ASSUME UNCHANGED vars PROVE ReservationAccounted'
  BY <1>40 DEF ReservationAccounted, Held, GenHolds, WorkerHolds
<1> HIDE DEF TypeInv, flags, marks, vars,
      Supported, GenKept, WorkerKept, Held, GenHolds, WorkerHolds,
      IdleGen, IdleWorker, StepThread, ToolThread, SoundTool
<1>41. ASSUME Request PROVE ReservationAccounted'
  BY <1>1, <1>2, <1>3, <1>4, <1>5, <1>6, <1>7, <1>8, <1>9, <1>10, <1>11, <1>12,
     <1>13, <1>14, <1>15, <1>16, <1>41 DEF Request
<1>42. ASSUME NEW g \in Gen, GenStep(g) PROVE ReservationAccounted'
  BY <1>18, <1>19, <1>20, <1>21, <1>22, <1>23, <1>24, <1>25, <1>26, <1>27,
     <1>28, <1>29, <1>42 DEF GenStep
<1>43. ASSUME NEW w \in Worker, WorkerStep(w) PROVE ReservationAccounted'
  BY <1>30, <1>31, <1>32, <1>33, <1>34, <1>35, <1>36, <1>43 DEF WorkerStep
<1>44. ASSUME Failure PROVE ReservationAccounted'
  BY <1>37, <1>38, <1>44 DEF Failure
<1> QED
  BY <1>17, <1>39, <1>40, <1>41, <1>42, <1>43, <1>44 DEF Next

\* Nobody generates initially.
LEMMA AccountedInit == Init => ReservationAccounted
  BY DEF Init, ReservationAccounted

\* A session is never left marked as generating without a process that will
\* release it, but for the ends that stranded and wedged record.
THEOREM NoReservationForgotten == Spec => []ReservationAccounted
<1>1. /\ TypeInv /\ EpochInv /\ ReservationAccounted /\ [Next]_vars
      => ReservationAccounted'
  BY AccountedStep
<1> QED
  BY <1>1, AccountedInit, TypeInvariant, EpochOrder, PTL DEF Spec

-----------------------------------------------------------------------------
(* Sessions that do not exist yet.                                         *)

\* No thread that failed to start is about, and neither a process nor a tool
\* belongs to a session that does not exist yet, which does not generate.
BornInv ==
    /\ \A g \in Gen : gen[g].pc \notin {"failed", "failedTwice", "stepFailed", "undo"}
    /\ \A g \in Gen : gen[g].pc # "idle" => status[gen[g].sess] # "unborn"
    /\ \A w \in Worker : wrk[w].pc # "idle" => status[wrk[w].sess] # "unborn"
    /\ \A t \in Tool : tool[t].st = "pending" => status[tool[t].sess] # "unborn"
    /\ \A s \in Session : status[s] = "unborn" => ~generating[s]

\* No step without a failing thread start brings one about.
LEMMA BornStep ==
    ASSUME "thread" \notin Failures, TypeInv, BornInv, [Next]_vars
    PROVE  BornInv'
<1> USE DEF TypeInv, flags, marks, vars, BornInv
<1>a. /\ \A g \in Gen : gen[g] \in SoundGen
      /\ \A w \in Worker : wrk[w] \in SoundWorker
      /\ \A t \in Tool : tool[t] \in SoundTool
  OBVIOUS
<1>b. /\ \A g \in Gen : gen[g].pc # "idle" => gen[g].sess \in Session
      /\ \A w \in Worker : wrk[w].pc # "idle" => wrk[w].sess \in Session
      /\ \A t \in Tool : tool[t].st = "pending" => tool[t].sess \in Session
  BY <1>a DEF SoundGen, SoundWorker, SoundTool
<1>1. ASSUME NEW s \in Session, CreateSession(s)
      PROVE  BornInv'
  BY <1>1, <1>b DEF CreateSession
<1>2. ASSUME NEW s \in Session, DeleteMark(s)
      PROVE  BornInv'
  BY <1>2, <1>b DEF DeleteMark, DropTools
<1>3. ASSUME NEW s \in Session, DeleteRemove(s)
      PROVE  BornInv'
  BY <1>3, <1>b DEF DeleteRemove
<1>4. ASSUME NEW s \in Session, CleanInactive(s)
      PROVE  BornInv'
  BY <1>4, <1>b DEF CleanInactive
<1>5. ASSUME NEW s \in Session, NEW g \in Gen, StepReserve(s, g)
      PROVE  BornInv'
  BY <1>5, <1>b DEF StepReserve, StepThread, IdleGen
<1>6. ASSUME NEW s \in Session, NEW g \in Gen, DirectStart(s, g)
      PROVE  BornInv'
  BY <1>6, <1>b DEF DirectStart, Dispatched, StepThread, IdleGen, Registered
<1>7. ASSUME NEW s \in Session, NEW g \in Gen, WatchWake(s, g)
      PROVE  BornInv'
  BY <1>7, <1>b DEF WatchWake, DispatchedByOwner, StepThread, IdleGen, Registered
<1>8. ASSUME StartCommand PROVE BornInv'
  BY <1>8 DEF StartCommand
<1>9. ASSUME NEW t \in Tool, NEW w \in Worker, Confirm(t, w)
      PROVE  BornInv'
  BY <1>9, <1>b DEF Confirm, ToolThread, IdleWorker
<1>10. ASSUME NEW t \in Tool, NEW g \in Gen, Skip(t, g)
      PROVE  BornInv'
  BY <1>10, <1>b DEF Skip, SkipTool, StepThread, IdleGen, DropTools
<1>11. ASSUME NEW t \in Tool, SkipFails(t)
      PROVE  BornInv'
  BY <1>11, <1>b DEF SkipFails, SkipTool, DropTools
<1>12. ASSUME NEW t \in Tool, SkipWedges(t)
      PROVE  BornInv'
  BY <1>12 DEF SkipWedges
<1>13. ASSUME NEW s \in Session, NEW T \in SUBSET Tool, Rerun(s, T)
      PROVE  BornInv'
  BY <1>13, <1>b DEF Rerun, Reregister
<1>14. ASSUME NEW s \in Session, NEW T \in SUBSET Tool, NEW A \in
              SUBSET Tool, NEW w \in Worker, RerunAuto(s, T, A, w)
      PROVE  BornInv'
  BY <1>14, <1>b DEF RerunAuto, Reregister, RerunClaim, ToolThread, IdleWorker
<1>15. ASSUME NEW s \in Session, NEW T \in SUBSET Tool, NEW A \in
              SUBSET Tool, RerunWedges(s, T, A)
      PROVE  BornInv'
  BY <1>15 DEF RerunWedges
<1>16. ASSUME Interrupt PROVE BornInv'
  BY <1>16, <1>b DEF Interrupt, DropTools
<1>17. ASSUME FinishCommand PROVE BornInv'
  BY <1>17 DEF FinishCommand
<1>18. ASSUME NEW g \in Gen, StepDispatch(g)
      PROVE  BornInv'
  <2>1. gen' = [gen EXCEPT ![g].pc = "spawn", ![g].prev = FALSE]
    BY <1>18 DEF StepDispatch
  <2>2. /\ gen'[g].pc = "spawn" /\ gen'[g].sess = gen[g].sess
        /\ gen[g].pc # "idle"
        /\ \A h \in Gen : h # g => gen'[h] = gen[h]
    BY <2>1, <1>18 DEF StepDispatch
  <2> QED
    BY <1>18, <2>2 DEF StepDispatch
<1>19. ASSUME NEW g \in Gen, StepRollback(g)
      PROVE  BornInv'
  BY <1>19, <1>b DEF StepRollback, IdleGen
<1>20. ASSUME NEW g \in Gen, ReleaseFailed(g)
      PROVE  BornInv'
  BY <1>20 DEF ReleaseFailed
<1>21. ASSUME NEW g \in Gen, Begin(g)
      PROVE  BornInv'
  BY <1>21, <1>b DEF Begin
<1>22. ASSUME NEW g \in Gen, BeginRevoked(g)
      PROVE  BornInv'
  BY <1>22, <1>b DEF BeginRevoked, IdleGen
<1>23. ASSUME NEW g \in Gen, EarlyExit(g)
      PROVE  BornInv'
  BY <1>23, <1>b DEF EarlyExit, ReleaseIfOwned, IdleGen
<1>24. ASSUME NEW g \in Gen, NEW T \in SUBSET Tool, StreamDone(g, T)
      PROVE  BornInv'
  BY <1>24, <1>b DEF StreamDone
<1>25. ASSUME NEW g \in Gen, StreamBreak(g)
      PROVE  BornInv'
  BY <1>25, <1>b DEF StreamBreak, DropTools
<1>26. ASSUME NEW g \in Gen, NEW t \in Tool, NEW auto \in BOOLEAN,
              RegisterTool(g, t, auto)
      PROVE  BornInv'
  BY <1>26, <1>b DEF RegisterTool
<1>27. ASSUME NEW g \in Gen, NEW w \in Worker, StartFirstTool(g, w)
      PROVE  BornInv'
  BY <1>27, <1>b DEF StartFirstTool, ToolThread, IdleWorker
<1>28. ASSUME NEW g \in Gen, StartNoTool(g)
      PROVE  BornInv'
  BY <1>28, <1>b DEF StartNoTool
<1>29. ASSUME NEW g \in Gen, Finally(g)
      PROVE  BornInv'
  BY <1>29, <1>b DEF Finally, ReleaseIfOwned, IdleGen
<1>30. ASSUME NEW w \in Worker, Claim(w)
      PROVE  BornInv'
  BY <1>30, <1>b DEF Claim
<1>31. ASSUME NEW w \in Worker, ClaimFails(w)
      PROVE  BornInv'
  BY <1>31, <1>b DEF ClaimFails, ReleaseIfOwned, IdleWorker
<1>32. ASSUME NEW w \in Worker, Execute(w)
      PROVE  BornInv'
  BY <1>32, <1>b DEF Execute
<1>33. ASSUME NEW w \in Worker, Release(w)
      PROVE  BornInv'
  BY <1>33, <1>b DEF Release, DropTools
<1>34. ASSUME NEW w \in Worker, NEW g \in Gen, ElectContinue(w, g)
      PROVE  BornInv'
  BY <1>34, <1>b
  DEF ElectContinue, DispatchedByOwner, StepThread, IdleGen, IdleWorker
<1>35. ASSUME NEW w \in Worker, ElectDecline(w)
      PROVE  BornInv'
  BY <1>35, <1>b DEF ElectDecline, IdleWorker
<1>36. ASSUME NEW w \in Worker, WorkerAborts(w)
      PROVE  BornInv'
  BY <1>36, <1>b DEF WorkerAborts, ReleaseIfOwned, IdleWorker
<1>37. ASSUME NEW g \in Gen, SetupRaises(g)
      PROVE  BornInv'
  BY <1>37, <1>b DEF SetupRaises, IdleGen
<1>38. ASSUME NEW w \in Worker, WorkerRaises(w)
      PROVE  BornInv'
  BY <1>38, <1>b DEF WorkerRaises, DropTools
<1>39. ASSUME Idle PROVE BornInv'
  BY <1>39 DEF Idle
<1>40. ASSUME UNCHANGED vars PROVE BornInv'
  BY <1>40
<1> HIDE DEF TypeInv, flags, marks, vars, BornInv
<1>41. ASSUME Request PROVE BornInv'
  BY <1>1, <1>2, <1>3, <1>4, <1>5, <1>6, <1>7, <1>8, <1>9, <1>10, <1>11, <1>12,
     <1>13, <1>14, <1>15, <1>16, <1>41 DEF Request
<1>42. ASSUME NEW g \in Gen, GenStep(g) PROVE BornInv'
  BY <1>18, <1>19, <1>20, <1>21, <1>22, <1>23, <1>24, <1>25, <1>26, <1>27,
     <1>28, <1>29, <1>42 DEF GenStep
<1>43. ASSUME NEW w \in Worker, WorkerStep(w) PROVE BornInv'
  BY <1>30, <1>31, <1>32, <1>33, <1>34, <1>35, <1>36, <1>43 DEF WorkerStep
<1>44. ASSUME Failure PROVE BornInv'
  BY <1>37, <1>38, <1>44 DEF Failure
<1> QED
  BY <1>17, <1>39, <1>40, <1>41, <1>42, <1>43, <1>44 DEF Next

-----------------------------------------------------------------------------
(* Kinds of steps.                                                         *)

\* A process is at session s: a generation, or a worker with a reservation.
GenAt(g, s) == gen[g].pc # "idle" /\ gen[g].sess = s
WrkAt(w, s) == Reserved(w) /\ wrk[w].sess = s

\* The step leaves the process what it was, or ends it.
GenSame(g) ==
    \/ gen'[g].pc = "idle"
    \/ /\ gen[g].pc # "idle"
       /\ gen'[g].sess = gen[g].sess /\ gen'[g].seq = gen[g].seq
       /\ gen'[g].pc = "setup" => gen[g].pc = "setup"
WrkSame(w) ==
    \/ wrk'[w].pc = "idle"
    \/ ~Reserved(w) /\ ~Reserved(w)'
    \/ /\ Reserved(w) /\ Reserved(w)'
       /\ wrk'[w].sess = wrk[w].sess /\ wrk'[w].seq = wrk[w].seq

\* What a step without a newcomer does to a session: nothing, a release by the
\* holder of its epoch, a rollback of it, or a revocation.
Keeps(s) == stepSeq'[s] = stepSeq[s] /\ generating'[s] = generating[s]
Clears(s) ==
    /\ stepSeq'[s] = stepSeq[s] /\ ~generating'[s]
    /\ \/ \E g \in Gen :
            GenAt(g, s) /\ gen[g].seq = stepSeq[s] /\ gen'[g].pc = "idle"
       \/ \E w \in Worker :
            WrkAt(w, s) /\ wrk[w].seq = stepSeq[s] /\ wrk'[w].pc = "idle"
RollsBack(s) ==
    /\ stepSeq'[s] = stepSeq[s] - 1 /\ ~generating'[s]
    /\ \E g \in Gen : /\ GenAt(g, s) /\ gen[g].pc = "setup"
                      /\ gen[g].seq = stepSeq[s] /\ gen'[g].pc = "idle"
Revokes(s) ==
    /\ stepSeq'[s] = stepSeq[s] + 1 /\ ~generating'[s]
    /\ InterruptOf(s) \/ ~ConversationGenerating

\* A step without a newcomer.
Calm ==
    /\ \A g \in Gen : GenSame(g)
    /\ \A w \in Worker : WrkSame(w)
    /\ \A s \in Session : generating'[s] => generating[s]
    /\ \A s \in Session : status'[s] = "live" =>
         /\ status[s] \in {"live", "unborn"}
         /\ Keeps(s) \/ Clears(s) \/ RollsBack(s) \/ Revokes(s)

\* Generation g starts on session s under its epoch, all the others stay.
NewGen(g, s) ==
    /\ gen[g].pc = "idle" /\ GenAt(g, s)' /\ gen'[g].seq = stepSeq'[s]
    /\ \A h \in Gen \ {g} : GenSame(h)
NewWrk(w, s) ==
    /\ wrk[w].pc = "idle" /\ WrkAt(w, s)' /\ wrk'[w].seq = stepSeq'[s]
    /\ \A v \in Worker \ {w} : WrkSame(v)

\* Session s generates after the step, the other sessions are left alone.
Starts(s) ==
    /\ status' = status /\ generating'[s]
    /\ \A r \in Session \ {s} : Keeps(r)

\* The idle conversation is taken by a newcomer at s, a tool skipped if a slash
\* command runs.
Takes(s) ==
    /\ Starts(s)
    /\ ~ConversationGenerating
    /\ ~CommandIsActive \/ \E t \in Pending(s) : tool'[t].st = "done"
    /\ stepSeq'[s] \in {stepSeq[s], stepSeq[s] + 1}
    /\ \/ /\ \E g \in Gen : /\ NewGen(g, s)
                            /\ gen'[g].pc = "setup" => stepSeq'[s] = stepSeq[s] + 1
          /\ \A w \in Worker : WrkSame(w)
       \/ /\ \E w \in Worker : NewWrk(w, s)
          /\ \A g \in Gen : GenSame(g)

\* A worker hands its reservation to a new generation.
HandsOver(s) ==
    /\ Starts(s)
    /\ stepSeq'[s] = stepSeq[s] + 1
    /\ \E g \in Gen : NewGen(g, s) /\ gen'[g].pc # "setup"
    /\ \A w \in Worker : WrkSame(w)
    /\ \E w \in Worker :
         WrkAt(w, s) /\ wrk[w].seq = stepSeq[s] /\ wrk'[w].pc = "idle"

\* The kinds a step can be of, if every thread starts.
Kind == Calm \/ \E s \in Session : Takes(s) \/ HandsOver(s)

\* Every step without a failing thread start is of one of these kinds.
LEMMA StepKind ==
    ASSUME "thread" \notin Failures, TypeInv, BornInv, [Next]_vars
    PROVE  Kind
<1> USE DEF TypeInv, flags, marks, vars
<1>a. /\ \A g \in Gen : gen[g] \in SoundGen
      /\ \A w \in Worker : wrk[w] \in SoundWorker
      /\ \A t \in Tool : tool[t] \in SoundTool
  OBVIOUS
<1>b. /\ \A g \in Gen : gen[g].pc # "idle" => gen[g].sess \in Session
      /\ \A w \in Worker : wrk[w].pc # "idle" => wrk[w].sess \in Session
      /\ \A t \in Tool : tool[t].st = "pending" => tool[t].sess \in Session
  BY <1>a DEF SoundGen, SoundWorker, SoundTool
<1>1. ASSUME NEW s \in Session, CreateSession(s)
      PROVE  Kind
  BY <1>1, <1>b
  DEF CreateSession, BornInv, Kind, Calm, Keeps, Clears, RollsBack, Revokes,
      GenAt, WrkAt, GenSame, WrkSame, Reserved, InterruptOf
<1>2. ASSUME NEW s \in Session, DeleteMark(s)
      PROVE  Kind
  BY <1>2, <1>b
  DEF DeleteMark, BornInv, Kind, Calm, Keeps, Clears, RollsBack, Revokes,
      GenAt, WrkAt, GenSame, WrkSame, Reserved, InterruptOf
<1>3. ASSUME NEW s \in Session, DeleteRemove(s)
      PROVE  Kind
  BY <1>3, <1>b
  DEF DeleteRemove, BornInv, Kind, Calm, Keeps, Clears, RollsBack, Revokes,
      GenAt, WrkAt, GenSame, WrkSame, Reserved, InterruptOf
<1>4. ASSUME NEW s \in Session, CleanInactive(s)
      PROVE  Kind
  BY <1>4, <1>b
  DEF CleanInactive, BornInv, Kind, Calm, Keeps, Clears, RollsBack, Revokes,
      GenAt, WrkAt, GenSame, WrkSame, Reserved, InterruptOf
<1>5. ASSUME NEW s \in Session, NEW g \in Gen, StepReserve(s, g)
      PROVE  Kind
  <2> DEFINE r == [StepThread(s, stepSeq[s] + 1, "setup") EXCEPT !.prev = interrupted[s]]
  <2>1. gen' = [gen EXCEPT ![g] = r] /\ UNCHANGED wrk
    BY <1>5 DEF StepReserve
  <2>2. r.pc = "setup" /\ r.sess = s /\ r.seq = stepSeq[s] + 1
    BY DEF StepThread, IdleGen
  <2> HIDE DEF r
  <2>3. Starts(s) /\ stepSeq'[s] = stepSeq[s] + 1
    BY <1>5 DEF StepReserve, Starts, Keeps
  <2>4. NewGen(g, s) /\ \A w \in Worker : WrkSame(w)
    BY <1>5, <2>1, <2>2, <2>3
    DEF StepReserve, NewGen, GenAt, GenSame, WrkSame, Reserved
  <2> QED
    BY <1>5, <2>1, <2>2, <2>3, <2>4 DEF StepReserve, Kind, Takes
<1>6. ASSUME NEW s \in Session, NEW g \in Gen, DirectStart(s, g)
      PROVE  Kind
  <2> DEFINE r == StepThread(s, stepSeq[s], "spawn")
  <2>1. gen' = [gen EXCEPT ![g] = r] /\ UNCHANGED wrk
    BY <1>6 DEF DirectStart, Dispatched
  <2>2. r.pc = "spawn" /\ r.sess = s /\ r.seq = stepSeq[s]
    BY DEF StepThread, IdleGen
  <2> HIDE DEF r
  <2>3. Starts(s) /\ stepSeq'[s] = stepSeq[s]
    BY <1>6 DEF DirectStart, Starts, Keeps
  <2>4. NewGen(g, s) /\ \A w \in Worker : WrkSame(w)
    BY <1>6, <2>1, <2>2, <2>3
    DEF DirectStart, NewGen, GenAt, GenSame, WrkSame, Reserved
  <2> QED
    BY <1>6, <2>1, <2>2, <2>3, <2>4 DEF DirectStart, Kind, Takes
<1>7. ASSUME NEW s \in Session, NEW g \in Gen, WatchWake(s, g)
      PROVE  Kind
  <2> DEFINE r == StepThread(s, stepSeq[s] + 1, "spawn")
  <2>1. gen' = [gen EXCEPT ![g] = r] /\ UNCHANGED wrk
    BY <1>7 DEF WatchWake, DispatchedByOwner
  <2>2. r.pc = "spawn" /\ r.sess = s /\ r.seq = stepSeq[s] + 1
    BY DEF StepThread, IdleGen
  <2> HIDE DEF r
  <2>3. Starts(s) /\ stepSeq'[s] = stepSeq[s] + 1
    BY <1>7 DEF WatchWake, Starts, Keeps
  <2>4. NewGen(g, s) /\ \A w \in Worker : WrkSame(w)
    BY <1>7, <2>1, <2>2, <2>3
    DEF WatchWake, NewGen, GenAt, GenSame, WrkSame, Reserved
  <2> QED
    BY <1>7, <2>1, <2>2, <2>3, <2>4 DEF WatchWake, Kind, Takes
<1>8. ASSUME StartCommand
      PROVE  Kind
  BY <1>8, <1>b
  DEF StartCommand, BornInv, Kind, Calm, Keeps, Clears, RollsBack, Revokes,
      GenAt, WrkAt, GenSame, WrkSame, Reserved, InterruptOf
<1>9. ASSUME NEW t \in Tool, NEW w \in Worker, Confirm(t, w)
      PROVE  Kind
  BY <1>9, <1>b
  DEF Confirm, ToolThread, IdleWorker, BornInv, Kind, Calm, Keeps, Clears,
      RollsBack, Revokes, GenAt, WrkAt, GenSame, WrkSame, Reserved,
      InterruptOf
<1>10. ASSUME NEW t \in Tool, NEW g \in Gen, Skip(t, g)
      PROVE  Kind
  <2>0. PICK s \in Session : s = tool[t].sess
    BY <1>10, <1>b DEF Skip, SkipTool
  <2> DEFINE r == StepThread(s, stepSeq[s] + 1, "spawn")
  <2>1. gen' = [gen EXCEPT ![g] = r] /\ UNCHANGED wrk
    BY <1>10, <2>0 DEF Skip, SkipTool
  <2>2. r.pc = "spawn" /\ r.sess = s /\ r.seq = stepSeq[s] + 1
    BY DEF StepThread, IdleGen
  <2>3. t \in Pending(s) /\ tool'[t].st = "done"
    BY <1>10, <2>0 DEF Skip, SkipTool, Pending, DropTools
  <2>4. /\ status' = status /\ gen[g].pc = "idle" /\ ~ConversationGenerating
        /\ generating' = [generating EXCEPT ![s] = TRUE]
        /\ stepSeq' = [stepSeq EXCEPT ![s] = @ + 1]
    BY <1>10, <2>0 DEF Skip, SkipTool
  <2> HIDE DEF r
  <2>5. Starts(s) /\ stepSeq'[s] = stepSeq[s] + 1
    BY <2>1, <2>4 DEF Starts, Keeps
  <2>6. NewGen(g, s) /\ \A w \in Worker : WrkSame(w)
    BY <2>1, <2>2, <2>4, <2>5 DEF NewGen, GenAt, GenSame, WrkSame, Reserved
  <2> QED
    BY <2>1, <2>2, <2>3, <2>4, <2>5, <2>6 DEF Kind, Takes
<1>11. ASSUME NEW t \in Tool, SkipFails(t)
      PROVE  Kind
  BY <1>11, <1>b
  DEF SkipFails, SkipTool, BornInv, Kind, Calm, Keeps, Clears, RollsBack,
      Revokes, GenAt, WrkAt, GenSame, WrkSame, Reserved, InterruptOf
<1>12. ASSUME NEW t \in Tool, SkipWedges(t)
      PROVE  Kind
  BY <1>12, <1>b
  DEF SkipWedges, BornInv, Kind, Calm, Keeps, Clears, RollsBack, Revokes,
      GenAt, WrkAt, GenSame, WrkSame, Reserved, InterruptOf
<1>13. ASSUME NEW s \in Session, NEW T \in SUBSET Tool, Rerun(s, T)
      PROVE  Kind
  BY <1>13, <1>b
  DEF Rerun, Reregister, BornInv, Kind, Calm, Keeps, Clears, RollsBack,
      Revokes, GenAt, WrkAt, GenSame, WrkSame, Reserved, InterruptOf
<1>14. ASSUME NEW s \in Session, NEW T \in SUBSET Tool, NEW A \in SUBSET Tool,
             NEW w \in Worker, RerunAuto(s, T, A, w)
      PROVE  Kind
  <2>1. PICK t \in A : wrk' = [wrk EXCEPT ![w] = ToolThread(s, stepSeq[s] + 1, t, TRUE)]
    BY <1>14 DEF RerunAuto
  <2> DEFINE r == ToolThread(s, stepSeq[s] + 1, t, TRUE)
  <2>2. r.pc = "claim" /\ r.sess = s /\ r.seq = stepSeq[s] + 1 /\ r.reserved
    BY DEF ToolThread, IdleWorker
  <2> HIDE DEF r
  <2>3. wrk' = [wrk EXCEPT ![w] = r]
    BY <2>1 DEF r
  <2>4. Starts(s) /\ stepSeq'[s] = stepSeq[s] + 1
    BY <1>14 DEF RerunAuto, Reregister, RerunClaim, Starts, Keeps
  <2>5. NewWrk(w, s)
    BY <1>14, <2>2, <2>3, <2>4 DEF RerunAuto, NewWrk, WrkAt, WrkSame, Reserved
  <2>6. \A g \in Gen : GenSame(g)
    BY <1>14 DEF RerunAuto, Reregister, GenSame
  <2> QED
    BY <1>14, <2>4, <2>5, <2>6 DEF RerunAuto, Reregister, Kind, Takes
<1>15. ASSUME NEW s \in Session, NEW T \in SUBSET Tool, NEW A \in SUBSET Tool,
             RerunWedges(s, T, A)
      PROVE  Kind
  BY <1>15, <1>b
  DEF RerunWedges, BornInv, Kind, Calm, Keeps, Clears, RollsBack, Revokes,
      GenAt, WrkAt, GenSame, WrkSame, Reserved, InterruptOf
<1>16. ASSUME Interrupt
      PROVE  Kind
  BY <1>16, <1>b
  DEF Interrupt, BornInv, Kind, Calm, Keeps, Clears, RollsBack, Revokes,
      GenAt, WrkAt, GenSame, WrkSame, Reserved, InterruptOf
<1>17. ASSUME FinishCommand
      PROVE  Kind
  BY <1>17, <1>b
  DEF FinishCommand, BornInv, Kind, Calm, Keeps, Clears, RollsBack, Revokes,
      GenAt, WrkAt, GenSame, WrkSame, Reserved, InterruptOf
<1>18. ASSUME NEW g \in Gen, StepDispatch(g)
      PROVE  Kind
  <2>1. gen' = [gen EXCEPT ![g].pc = "spawn", ![g].prev = FALSE]
    BY <1>18 DEF StepDispatch
  <2>2. /\ gen'[g].pc = "spawn" /\ gen'[g].sess = gen[g].sess
        /\ gen'[g].seq = gen[g].seq /\ gen[g].pc # "idle"
        /\ \A h \in Gen : h # g => gen'[h] = gen[h]
    BY <2>1, <1>18 DEF StepDispatch
  <2> QED
    BY <1>18, <2>2, <1>b
    DEF StepDispatch, BornInv, Kind, Calm, Keeps, Clears, RollsBack, Revokes,
        GenAt, WrkAt, GenSame, WrkSame, Reserved, InterruptOf
<1>19. ASSUME NEW g \in Gen, StepRollback(g)
      PROVE  Kind
  BY <1>19, <1>b
  DEF StepRollback, IdleGen, BornInv, Kind, Calm, Keeps, Clears, RollsBack,
      Revokes, GenAt, WrkAt, GenSame, WrkSame, Reserved, InterruptOf
<1>20. ASSUME NEW g \in Gen, ReleaseFailed(g)
      PROVE  Kind
  BY <1>20, <1>b
  DEF ReleaseFailed, BornInv, Kind, Calm, Keeps, Clears, RollsBack, Revokes,
      GenAt, WrkAt, GenSame, WrkSame, Reserved, InterruptOf
<1>21. ASSUME NEW g \in Gen, Begin(g)
      PROVE  Kind
  BY <1>21, <1>b
  DEF Begin, BornInv, Kind, Calm, Keeps, Clears, RollsBack, Revokes, GenAt,
      WrkAt, GenSame, WrkSame, Reserved, InterruptOf
<1>22. ASSUME NEW g \in Gen, BeginRevoked(g)
      PROVE  Kind
  BY <1>22, <1>b
  DEF BeginRevoked, IdleGen, BornInv, Kind, Calm, Keeps, Clears, RollsBack,
      Revokes, GenAt, WrkAt, GenSame, WrkSame, Reserved, InterruptOf
<1>23. ASSUME NEW g \in Gen, EarlyExit(g)
      PROVE  Kind
  BY <1>23, <1>b
  DEF EarlyExit, ReleaseIfOwned, IdleGen, BornInv, Kind, Calm, Keeps, Clears,
      RollsBack, Revokes, GenAt, WrkAt, GenSame, WrkSame, Reserved,
      InterruptOf
<1>24. ASSUME NEW g \in Gen, NEW T \in SUBSET Tool, StreamDone(g, T)
      PROVE  Kind
  BY <1>24, <1>b
  DEF StreamDone, BornInv, Kind, Calm, Keeps, Clears, RollsBack, Revokes,
      GenAt, WrkAt, GenSame, WrkSame, Reserved, InterruptOf
<1>25. ASSUME NEW g \in Gen, StreamBreak(g)
      PROVE  Kind
  BY <1>25, <1>b
  DEF StreamBreak, BornInv, Kind, Calm, Keeps, Clears, RollsBack, Revokes,
      GenAt, WrkAt, GenSame, WrkSame, Reserved, InterruptOf
<1>26. ASSUME NEW g \in Gen, NEW t \in Tool, NEW auto \in BOOLEAN,
             RegisterTool(g, t, auto)
      PROVE  Kind
  BY <1>26, <1>b
  DEF RegisterTool, BornInv, Kind, Calm, Keeps, Clears, RollsBack, Revokes,
      GenAt, WrkAt, GenSame, WrkSame, Reserved, InterruptOf
<1>27. ASSUME NEW g \in Gen, NEW w \in Worker, StartFirstTool(g, w)
      PROVE  Kind
  BY <1>27, <1>b
  DEF StartFirstTool, ToolThread, IdleWorker, BornInv, Kind, Calm, Keeps,
      Clears, RollsBack, Revokes, GenAt, WrkAt, GenSame, WrkSame, Reserved,
      InterruptOf
<1>28. ASSUME NEW g \in Gen, StartNoTool(g)
      PROVE  Kind
  BY <1>28, <1>b
  DEF StartNoTool, BornInv, Kind, Calm, Keeps, Clears, RollsBack, Revokes,
      GenAt, WrkAt, GenSame, WrkSame, Reserved, InterruptOf
<1>29. ASSUME NEW g \in Gen, Finally(g)
      PROVE  Kind
  BY <1>29, <1>b
  DEF Finally, ReleaseIfOwned, IdleGen, BornInv, Kind, Calm, Keeps, Clears,
      RollsBack, Revokes, GenAt, WrkAt, GenSame, WrkSame, Reserved,
      InterruptOf
<1>30. ASSUME NEW w \in Worker, Claim(w)
      PROVE  Kind
  BY <1>30, <1>b
  DEF Claim, BornInv, Kind, Calm, Keeps, Clears, RollsBack, Revokes, GenAt,
      WrkAt, GenSame, WrkSame, Reserved, InterruptOf
<1>31. ASSUME NEW w \in Worker, ClaimFails(w)
      PROVE  Kind
  <2>0. PICK s \in Session : s = wrk[w].sess
    BY <1>31, <1>b DEF ClaimFails
  <2>1. /\ gen' = gen /\ status' = status /\ stepSeq' = stepSeq
        /\ wrk' = [wrk EXCEPT ![w] = IdleWorker]
    BY <1>31 DEF ClaimFails
  <2>2. wrk'[w].pc = "idle" /\ \A v \in Worker \ {w} : wrk'[v] = wrk[v]
    BY <2>1 DEF IdleWorker
  <2>3. (\A g \in Gen : GenSame(g)) /\ (\A v \in Worker : WrkSame(v))
    BY <2>1, <2>2 DEF GenSame, WrkSame, Reserved
  <2>a. \/ generating' = generating
        \/ Reserved(w) /\ ReleaseIfOwned(s, wrk[w].seq)
    BY <1>31, <2>0 DEF ClaimFails, Reserved
  <2>4. /\ \A r \in Session \ {s} : generating'[r] = generating[r]
        /\ \/ generating'[s] = generating[s]
           \/ ~generating'[s] /\ Reserved(w) /\ wrk[w].seq = stepSeq[s]
    BY <2>a DEF ReleaseIfOwned
  <2>5. \A r \in Session : Keeps(r) \/ Clears(r)
    BY <2>0, <2>1, <2>2, <2>4 DEF Keeps, Clears, WrkAt
  <2>6. \A r \in Session : generating'[r] => generating[r]
    BY <2>4
  <2> QED
    BY <2>1, <2>3, <2>5, <2>6 DEF Kind, Calm
<1>32. ASSUME NEW w \in Worker, Execute(w)
      PROVE  Kind
  BY <1>32, <1>b
  DEF Execute, BornInv, Kind, Calm, Keeps, Clears, RollsBack, Revokes, GenAt,
      WrkAt, GenSame, WrkSame, Reserved, InterruptOf
<1>33. ASSUME NEW w \in Worker, Release(w)
      PROVE  Kind
  <2>1. /\ gen' = gen /\ status' = status /\ stepSeq' = stepSeq
        /\ generating' = generating
    BY <1>33 DEF Release
  <2>2. /\ wrk[w].pc # "idle" /\ wrk'[w].pc # "idle"
        /\ wrk'[w].reserved = wrk[w].reserved
        /\ wrk'[w].sess = wrk[w].sess /\ wrk'[w].seq = wrk[w].seq
        /\ \A v \in Worker \ {w} : wrk'[v] = wrk[v]
    BY <1>33 DEF Release
  <2>3. (\A g \in Gen : GenSame(g)) /\ (\A v \in Worker : WrkSame(v))
    BY <2>1, <2>2 DEF GenSame, WrkSame, Reserved
  <2> QED
    BY <2>1, <2>3 DEF Kind, Calm, Keeps
<1>34. ASSUME NEW w \in Worker, NEW g \in Gen, ElectContinue(w, g)
      PROVE  Kind
  <2>0. PICK s \in Session : s = wrk[w].sess
    BY <1>34, <1>b DEF ElectContinue
  <2> DEFINE r == StepThread(s, stepSeq[s] + 1, "spawn")
  <2>1. /\ gen' = [gen EXCEPT ![g] = r]
        /\ wrk' = [wrk EXCEPT ![w] = IdleWorker]
    BY <1>34, <2>0 DEF ElectContinue, DispatchedByOwner
  <2>2. /\ r.pc = "spawn" /\ r.sess = s /\ r.seq = stepSeq[s] + 1
        /\ IdleWorker.pc = "idle"
    BY DEF StepThread, IdleGen, IdleWorker
  <2>3. /\ status' = status /\ gen[g].pc = "idle" /\ wrk[w].pc = "elect"
        /\ generating' = [generating EXCEPT ![s] = TRUE]
        /\ stepSeq' = [stepSeq EXCEPT ![s] = @ + 1]
    BY <1>34, <2>0 DEF ElectContinue
  <2>4. \/ Reserved(w) /\ wrk[w].seq = stepSeq[s]
        \/ ~ConversationGenerating /\ ~CommandIsActive
    BY <1>34, <2>0, <2>3 DEF ElectContinue, MayContinue, OwnsReservation, Reserved
  <2> HIDE DEF r
  <2>5. Starts(s) /\ stepSeq'[s] = stepSeq[s] + 1
    BY <2>1, <2>3 DEF Starts, Keeps
  <2>6. NewGen(g, s)
    BY <2>1, <2>2, <2>3, <2>5 DEF NewGen, GenAt, GenSame
  <2>7. \A v \in Worker : WrkSame(v)
    BY <2>1, <2>2 DEF WrkSame, Reserved
  <2>8. gen'[g].pc # "setup" /\ wrk'[w].pc = "idle"
    BY <2>1, <2>2
  <2> QED
    BY <2>0, <2>1, <2>4, <2>5, <2>6, <2>7, <2>8
    DEF Kind, Takes, HandsOver, WrkAt, Reserved
<1>35. ASSUME NEW w \in Worker, ElectDecline(w)
      PROVE  Kind
  <2>0. PICK s \in Session : s = wrk[w].sess
    BY <1>35, <1>b DEF ElectDecline
  <2>1. /\ gen' = gen /\ status' = status /\ stepSeq' = stepSeq
        /\ wrk' = [wrk EXCEPT ![w] = IdleWorker]
    BY <1>35 DEF ElectDecline
  <2>2. wrk'[w].pc = "idle" /\ \A v \in Worker \ {w} : wrk'[v] = wrk[v]
    BY <2>1 DEF IdleWorker
  <2>3. (\A g \in Gen : GenSame(g)) /\ (\A v \in Worker : WrkSame(v))
    BY <2>1, <2>2 DEF GenSame, WrkSame, Reserved
  <2>4. \/ generating' = generating
        \/ /\ generating' = [generating EXCEPT ![s] = FALSE]
           /\ Reserved(w) /\ wrk[w].seq = stepSeq[s]
    BY <1>35, <2>0 DEF ElectDecline, OwnsReservation, Reserved
  <2>5. \A r \in Session : Keeps(r) \/ Clears(r)
    BY <2>0, <2>1, <2>2, <2>4 DEF Keeps, Clears, WrkAt
  <2>6. \A r \in Session : generating'[r] => generating[r]
    BY <2>4
  <2> QED
    BY <2>1, <2>3, <2>5, <2>6 DEF Kind, Calm
<1>36. ASSUME NEW w \in Worker, WorkerAborts(w)
      PROVE  Kind
  <2>0. PICK s \in Session : s = wrk[w].sess
    BY <1>36, <1>b DEF WorkerAborts
  <2>1. /\ gen' = gen /\ status' = status /\ stepSeq' = stepSeq
        /\ wrk' = [wrk EXCEPT ![w] = IdleWorker]
    BY <1>36 DEF WorkerAborts
  <2>2. wrk'[w].pc = "idle" /\ \A v \in Worker \ {w} : wrk'[v] = wrk[v]
    BY <2>1 DEF IdleWorker
  <2>3. (\A g \in Gen : GenSame(g)) /\ (\A v \in Worker : WrkSame(v))
    BY <2>1, <2>2 DEF GenSame, WrkSame, Reserved
  <2>a. \/ generating' = generating
        \/ Reserved(w) /\ ReleaseIfOwned(s, wrk[w].seq)
    BY <1>36, <2>0 DEF WorkerAborts, Reserved
  <2>4. /\ \A r \in Session \ {s} : generating'[r] = generating[r]
        /\ \/ generating'[s] = generating[s]
           \/ ~generating'[s] /\ Reserved(w) /\ wrk[w].seq = stepSeq[s]
    BY <2>a DEF ReleaseIfOwned
  <2>5. \A r \in Session : Keeps(r) \/ Clears(r)
    BY <2>0, <2>1, <2>2, <2>4 DEF Keeps, Clears, WrkAt
  <2>6. \A r \in Session : generating'[r] => generating[r]
    BY <2>4
  <2> QED
    BY <2>1, <2>3, <2>5, <2>6 DEF Kind, Calm
<1>37. ASSUME NEW g \in Gen, SetupRaises(g)
      PROVE  Kind
  BY <1>37, <1>b
  DEF SetupRaises, IdleGen, BornInv, Kind, Calm, Keeps, Clears, RollsBack,
      Revokes, GenAt, WrkAt, GenSame, WrkSame, Reserved, InterruptOf
<1>38. ASSUME NEW w \in Worker, WorkerRaises(w)
      PROVE  Kind
  BY <1>38, <1>b
  DEF WorkerRaises, BornInv, Kind, Calm, Keeps, Clears, RollsBack, Revokes,
      GenAt, WrkAt, GenSame, WrkSame, Reserved, InterruptOf
<1>39. ASSUME Idle
      PROVE  Kind
  BY <1>39, <1>b
  DEF Idle, BornInv, Kind, Calm, Keeps, Clears, RollsBack, Revokes, GenAt,
      WrkAt, GenSame, WrkSame, Reserved, InterruptOf
<1>40. ASSUME UNCHANGED vars
      PROVE  Kind
  BY <1>40, <1>b
  DEF flags, BornInv, Kind, Calm, Keeps, Clears, RollsBack, Revokes, GenAt,
      WrkAt, GenSame, WrkSame, Reserved, InterruptOf
<1> HIDE DEF TypeInv, flags, marks, vars
<1>41. ASSUME Request PROVE Kind
  BY <1>1, <1>2, <1>3, <1>4, <1>5, <1>6, <1>7, <1>8, <1>9, <1>10, <1>11, <1>12,
     <1>13, <1>14, <1>15, <1>16, <1>41 DEF Request
<1>42. ASSUME NEW g \in Gen, GenStep(g) PROVE Kind
  BY <1>18, <1>19, <1>20, <1>21, <1>22, <1>23, <1>24, <1>25, <1>26, <1>27,
     <1>28, <1>29, <1>42 DEF GenStep
<1>43. ASSUME NEW w \in Worker, WorkerStep(w) PROVE Kind
  BY <1>30, <1>31, <1>32, <1>33, <1>34, <1>35, <1>36, <1>43 DEF WorkerStep
<1>44. ASSUME Failure PROVE Kind
  BY <1>37, <1>38, <1>44 DEF Failure
<1> QED
  BY <1>17, <1>39, <1>40, <1>41, <1>42, <1>43, <1>44 DEF Next

-----------------------------------------------------------------------------
(* One holder, one generation.                                             *)

\* The processes at a session stand under different epochs, none of them ahead
\* of the session, the one under the current epoch only while it generates.
\* Nobody stands under the epoch a /step handler may roll back to.
Owned(s) ==
    /\ \A g \in Gen : GenAt(g, s) =>
         gen[g].seq <= stepSeq[s] /\ (gen[g].seq = stepSeq[s] => generating[s])
    /\ \A w \in Worker : WrkAt(w, s) =>
         wrk[w].seq <= stepSeq[s] /\ (wrk[w].seq = stepSeq[s] => generating[s])
    /\ \A g, h \in Gen :
         GenAt(g, s) /\ GenAt(h, s) /\ gen[g].seq = gen[h].seq => g = h
    /\ \A w, v \in Worker :
         WrkAt(w, s) /\ WrkAt(v, s) /\ wrk[w].seq = wrk[v].seq => w = v
    /\ \A g \in Gen, w \in Worker :
         GenAt(g, s) /\ WrkAt(w, s) => gen[g].seq # wrk[w].seq
    /\ \A g, h \in Gen :
         GenAt(g, s) /\ gen[g].pc = "setup" /\ GenAt(h, s) =>
           gen[h].seq + 1 # gen[g].seq
    /\ \A g \in Gen, w \in Worker :
         GenAt(g, s) /\ gen[g].pc = "setup" /\ WrkAt(w, s) =>
           wrk[w].seq + 1 # gen[g].seq

\* What the single holder of a live session rests on.
OwnerInv ==
    /\ BornInv
    /\ \A s \in Session : status[s] = "live" => Owned(s)
    /\ OneGenerationPerConversation

\* Epochs are numbers.
Numbers ==
    /\ \A g \in Gen : gen[g].seq \in Nat
    /\ \A w \in Worker : wrk[w].seq \in Nat
    /\ \A s \in Session : stepSeq[s] \in Nat

\* The type invariant says so.
LEMMA EpochNumbers == TypeInv => Numbers
BY DEF TypeInv, Numbers, SoundGen, SoundWorker, GenRecord, WorkerRecord

\* A step that brings no newcomer and moves no epoch of the session keeps it
\* owned, if it goes on generating or the holder has gone.
LEMMA KeptOwned ==
    ASSUME NEW s \in Session, Numbers, Owned(s), Calm, Keeps(s) \/ Clears(s)
    PROVE  Owned(s)'
<1>1. /\ \A g \in Gen : GenAt(g, s)' =>
           /\ GenAt(g, s) /\ gen'[g].seq = gen[g].seq
           /\ gen'[g].pc = "setup" => gen[g].pc = "setup"
      /\ \A w \in Worker : WrkAt(w, s)' => WrkAt(w, s) /\ wrk'[w].seq = wrk[w].seq
  BY DEF Calm, GenSame, WrkSame, GenAt, WrkAt, Reserved
<1>2. stepSeq'[s] = stepSeq[s]
  BY DEF Keeps, Clears
<1>3. CASE Keeps(s)
  BY <1>1, <1>2, <1>3 DEF Owned, Keeps
<1>4. CASE Clears(s)
  <2>1. /\ \A g \in Gen : GenAt(g, s)' => gen'[g].seq # stepSeq[s]
        /\ \A w \in Worker : WrkAt(w, s)' => wrk'[w].seq # stepSeq[s]
    <3>1. CASE \E h \in Gen :
                 GenAt(h, s) /\ gen[h].seq = stepSeq[s] /\ gen'[h].pc = "idle"
      BY <1>1, <3>1 DEF Owned, GenAt
    <3>2. CASE \E v \in Worker :
                 WrkAt(v, s) /\ wrk[v].seq = stepSeq[s] /\ wrk'[v].pc = "idle"
      BY <1>1, <3>2 DEF Owned, WrkAt, Reserved
    <3> QED
      BY <1>4, <3>1, <3>2 DEF Clears
  <2> QED
    BY <1>1, <1>2, <2>1 DEF Owned
<1> QED
  BY <1>3, <1>4

\* A rollback keeps it owned: only the handler stood under the epoch given back,
\* and nobody stands under the one before.
LEMMA RolledBackOwned ==
    ASSUME NEW s \in Session, Numbers, Owned(s), Calm, RollsBack(s)
    PROVE  Owned(s)'
<1>1. /\ \A g \in Gen : GenAt(g, s)' =>
           /\ GenAt(g, s) /\ gen'[g].seq = gen[g].seq
           /\ gen'[g].pc = "setup" => gen[g].pc = "setup"
      /\ \A w \in Worker : WrkAt(w, s)' => WrkAt(w, s) /\ wrk'[w].seq = wrk[w].seq
  BY DEF Calm, GenSame, WrkSame, GenAt, WrkAt, Reserved
<1>2. PICK h \in Gen : /\ GenAt(h, s) /\ gen[h].pc = "setup"
                       /\ gen[h].seq = stepSeq[s] /\ gen'[h].pc = "idle"
  BY DEF RollsBack
<1>3. stepSeq'[s] = stepSeq[s] - 1
  BY DEF RollsBack
<1>4. \A g \in Gen : GenAt(g, s)' =>
        g # h /\ gen'[g].seq <= stepSeq[s] /\ gen'[g].seq # stepSeq[s]
              /\ gen'[g].seq + 1 # stepSeq[s]
  BY <1>1, <1>2 DEF Owned, GenAt
<1>5. \A w \in Worker : WrkAt(w, s)' =>
        wrk'[w].seq <= stepSeq[s] /\ wrk'[w].seq # stepSeq[s]
              /\ wrk'[w].seq + 1 # stepSeq[s]
  BY <1>1, <1>2 DEF Owned
<1>6. /\ \A g \in Gen : GenAt(g, s)' => gen'[g].seq \in Nat
      /\ \A w \in Worker : WrkAt(w, s)' => wrk'[w].seq \in Nat
      /\ stepSeq[s] \in Nat
  BY <1>1 DEF Numbers
<1>7. /\ \A g \in Gen : GenAt(g, s)' =>
           gen'[g].seq <= stepSeq'[s] /\ (gen'[g].seq = stepSeq'[s] => generating'[s])
      /\ \A w \in Worker : WrkAt(w, s)' =>
           wrk'[w].seq <= stepSeq'[s] /\ (wrk'[w].seq = stepSeq'[s] => generating'[s])
  BY <1>3, <1>4, <1>5, <1>6
<1> QED
  BY <1>1, <1>7 DEF Owned

\* So does a revocation: everybody stands under an older epoch then.
LEMMA RevokedOwned ==
    ASSUME NEW s \in Session, Numbers, Owned(s), Calm, Revokes(s)
    PROVE  Owned(s)'
<1>1. /\ \A g \in Gen : GenAt(g, s)' =>
           /\ GenAt(g, s) /\ gen'[g].seq = gen[g].seq
           /\ gen'[g].pc = "setup" => gen[g].pc = "setup"
      /\ \A w \in Worker : WrkAt(w, s)' => WrkAt(w, s) /\ wrk'[w].seq = wrk[w].seq
  BY DEF Calm, GenSame, WrkSame, GenAt, WrkAt, Reserved
<1>2. stepSeq'[s] = stepSeq[s] + 1
  BY DEF Revokes
<1>3. /\ \A g \in Gen : GenAt(g, s)' =>
           gen'[g].seq <= stepSeq'[s] /\ gen'[g].seq # stepSeq'[s]
      /\ \A w \in Worker : WrkAt(w, s)' =>
           wrk'[w].seq <= stepSeq'[s] /\ wrk'[w].seq # stepSeq'[s]
  BY <1>1, <1>2 DEF Owned, Numbers
<1> QED
  BY <1>1, <1>3 DEF Owned

\* A session another one starts next to stays owned.
LEMMA OthersOwned ==
    ASSUME NEW s \in Session, NEW r \in Session, r # s,
           Numbers, Owned(r), Takes(s) \/ HandsOver(s)
    PROVE  Owned(r)'
<1>1. Keeps(r)
  BY DEF Takes, HandsOver, Starts
<1>2. \A g \in Gen : GenAt(g, r)' =>
        /\ GenAt(g, r) /\ gen'[g].seq = gen[g].seq
        /\ gen'[g].pc = "setup" => gen[g].pc = "setup"
  BY DEF Takes, HandsOver, NewGen, GenSame, GenAt
<1>3. \A w \in Worker : WrkAt(w, r)' => WrkAt(w, r) /\ wrk'[w].seq = wrk[w].seq
  BY DEF Takes, HandsOver, NewWrk, WrkSame, WrkAt, Reserved
<1> QED
  BY <1>1, <1>2, <1>3 DEF Owned, Keeps

\* The newcomer is the only one under the epoch it starts with: nobody stood
\* under the current epoch of a session that does not generate, nobody ever
\* under the next one.
LEMMA TakenOwned ==
    ASSUME NEW s \in Session, Numbers, Owned(s), status[s] = "live", Takes(s)
    PROVE  Owned(s)'
<1>1. generating'[s] /\ ~generating[s] /\ stepSeq'[s] \in {stepSeq[s], stepSeq[s] + 1}
  BY DEF Takes, Starts, ConversationGenerating, Registered
<1>2. /\ \A g \in Gen : GenAt(g, s) =>
           gen[g].seq \in Nat /\ gen[g].seq <= stepSeq[s] /\ gen[g].seq # stepSeq[s]
      /\ \A w \in Worker : WrkAt(w, s) =>
           wrk[w].seq \in Nat /\ wrk[w].seq <= stepSeq[s] /\ wrk[w].seq # stepSeq[s]
      /\ stepSeq[s] \in Nat
  BY <1>1 DEF Owned, Numbers
<1>3. CASE /\ \E g \in Gen : /\ NewGen(g, s)
                             /\ gen'[g].pc = "setup" => stepSeq'[s] = stepSeq[s] + 1
           /\ \A w \in Worker : WrkSame(w)
  <2>1. PICK n \in Gen : /\ NewGen(n, s)
                         /\ gen'[n].pc = "setup" => stepSeq'[s] = stepSeq[s] + 1
    BY <1>3
  <2>2. \A g \in Gen : GenAt(g, s)' =>
          \/ g = n /\ gen'[g].seq = stepSeq'[s]
          \/ /\ g # n /\ GenAt(g, s) /\ gen'[g].seq = gen[g].seq
             /\ gen'[g].pc = "setup" => gen[g].pc = "setup"
    BY <2>1 DEF NewGen, GenSame, GenAt
  <2>3. \A w \in Worker : WrkAt(w, s)' => WrkAt(w, s) /\ wrk'[w].seq = wrk[w].seq
    BY <1>3 DEF WrkSame, WrkAt, Reserved
  <2>4. /\ \A g \in Gen : g # n /\ GenAt(g, s)' => gen'[g].seq < stepSeq[s]
        /\ \A w \in Worker : WrkAt(w, s)' => wrk'[w].seq < stepSeq[s]
    BY <1>2, <2>2, <2>3
  <2>5. \A g, h \in Gen :
          GenAt(g, s)' /\ gen'[g].pc = "setup" /\ GenAt(h, s)' =>
            gen'[h].seq + 1 # gen'[g].seq
    <3> SUFFICES ASSUME NEW g \in Gen, NEW h \in Gen,
                        GenAt(g, s)', gen'[g].pc = "setup", GenAt(h, s)'
                 PROVE  gen'[h].seq + 1 # gen'[g].seq
      OBVIOUS
    <3>1. CASE g = n
      BY <1>1, <1>2, <2>1, <2>2, <2>4, <3>1
    <3>2. CASE g # n /\ h = n
      BY <1>1, <1>2, <2>2, <2>4, <3>2
    <3>3. CASE g # n /\ h # n
      BY <2>2, <3>3 DEF Owned
    <3> QED
      BY <3>1, <3>2, <3>3
  <2>6. \A g \in Gen, w \in Worker :
          GenAt(g, s)' /\ gen'[g].pc = "setup" /\ WrkAt(w, s)' =>
            wrk'[w].seq + 1 # gen'[g].seq
    <3> SUFFICES ASSUME NEW g \in Gen, NEW w \in Worker,
                        GenAt(g, s)', gen'[g].pc = "setup", WrkAt(w, s)'
                 PROVE  wrk'[w].seq + 1 # gen'[g].seq
      OBVIOUS
    <3>1. CASE g = n
      <4>1. gen'[g].seq = stepSeq[s] + 1
        BY <1>1, <2>1, <3>1 DEF NewGen
      <4>2. wrk'[w].seq \in Nat /\ wrk'[w].seq < stepSeq[s]
        BY <1>2, <2>3, <2>4
      <4> QED
        BY <1>2, <4>1, <4>2
    <3>2. CASE g # n
      BY <2>2, <2>3, <3>2 DEF Owned
    <3> QED
      BY <3>1, <3>2
  <2>7. /\ \A g, h \in Gen :
             GenAt(g, s)' /\ GenAt(h, s)' /\ gen'[g].seq = gen'[h].seq => g = h
        /\ \A w, v \in Worker :
             WrkAt(w, s)' /\ WrkAt(v, s)' /\ wrk'[w].seq = wrk'[v].seq => w = v
        /\ \A g \in Gen, w \in Worker :
             GenAt(g, s)' /\ WrkAt(w, s)' => gen'[g].seq # wrk'[w].seq
    BY <1>1, <1>2, <2>2, <2>3, <2>4 DEF Owned
  <2>8. /\ \A g \in Gen : GenAt(g, s)' => gen'[g].seq <= stepSeq'[s]
        /\ \A w \in Worker : WrkAt(w, s)' => wrk'[w].seq <= stepSeq'[s]
    BY <1>1, <1>2, <2>2, <2>3
  <2> QED
    BY <1>1, <2>5, <2>6, <2>7, <2>8 DEF Owned
<1>4. CASE /\ \E w \in Worker : NewWrk(w, s)
           /\ \A g \in Gen : GenSame(g)
  <2>1. PICK n \in Worker : NewWrk(n, s)
    BY <1>4
  <2>2. \A g \in Gen : GenAt(g, s)' =>
          /\ GenAt(g, s) /\ gen'[g].seq = gen[g].seq
          /\ gen'[g].pc = "setup" => gen[g].pc = "setup"
    BY <1>4 DEF GenSame, GenAt
  <2>3. \A w \in Worker : WrkAt(w, s)' =>
          \/ w = n /\ wrk'[w].seq = stepSeq'[s]
          \/ w # n /\ WrkAt(w, s) /\ wrk'[w].seq = wrk[w].seq
    BY <2>1 DEF NewWrk, WrkSame, WrkAt, Reserved
  <2>4. /\ \A g \in Gen : GenAt(g, s)' => gen'[g].seq < stepSeq[s]
        /\ \A w \in Worker : w # n /\ WrkAt(w, s)' => wrk'[w].seq < stepSeq[s]
    BY <1>2, <2>2, <2>3
  <2>5. \A g \in Gen, w \in Worker :
          GenAt(g, s)' /\ gen'[g].pc = "setup" /\ WrkAt(w, s)' =>
            wrk'[w].seq + 1 # gen'[g].seq
    <3> SUFFICES ASSUME NEW g \in Gen, NEW w \in Worker,
                        GenAt(g, s)', gen'[g].pc = "setup", WrkAt(w, s)'
                 PROVE  wrk'[w].seq + 1 # gen'[g].seq
      OBVIOUS
    <3>1. CASE w = n
      BY <1>1, <1>2, <2>2, <2>3, <2>4, <3>1
    <3>2. CASE w # n
      BY <2>2, <2>3, <3>2 DEF Owned
    <3> QED
      BY <3>1, <3>2
  <2>6. \A g, h \in Gen :
          GenAt(g, s)' /\ gen'[g].pc = "setup" /\ GenAt(h, s)' =>
            gen'[h].seq + 1 # gen'[g].seq
    BY <2>2 DEF Owned
  <2>7. /\ \A g, h \in Gen :
             GenAt(g, s)' /\ GenAt(h, s)' /\ gen'[g].seq = gen'[h].seq => g = h
        /\ \A w, v \in Worker :
             WrkAt(w, s)' /\ WrkAt(v, s)' /\ wrk'[w].seq = wrk'[v].seq => w = v
        /\ \A g \in Gen, w \in Worker :
             GenAt(g, s)' /\ WrkAt(w, s)' => gen'[g].seq # wrk'[w].seq
    BY <1>1, <1>2, <2>2, <2>3, <2>4 DEF Owned
  <2>8. /\ \A g \in Gen : GenAt(g, s)' => gen'[g].seq <= stepSeq'[s]
        /\ \A w \in Worker : WrkAt(w, s)' => wrk'[w].seq <= stepSeq'[s]
    BY <1>1, <1>2, <2>2, <2>3
  <2> QED
    BY <1>1, <2>5, <2>6, <2>7, <2>8 DEF Owned
<1> QED
  BY <1>3, <1>4 DEF Takes

\* The same of a worker's successor, which starts with the next epoch.
LEMMA HandedOverOwned ==
    ASSUME NEW s \in Session, Numbers, Owned(s), HandsOver(s)
    PROVE  Owned(s)'
<1>1. generating'[s] /\ stepSeq'[s] = stepSeq[s] + 1
  BY DEF HandsOver, Starts
<1>2. PICK n \in Gen : NewGen(n, s) /\ gen'[n].pc # "setup"
  BY DEF HandsOver
<1>3. \A g \in Gen : GenAt(g, s)' =>
        \/ g = n /\ gen'[g].seq = stepSeq[s] + 1
        \/ /\ g # n /\ GenAt(g, s) /\ gen'[g].seq = gen[g].seq
           /\ gen'[g].pc = "setup" => gen[g].pc = "setup"
  BY <1>1, <1>2 DEF NewGen, GenSame, GenAt
<1>4. \A w \in Worker : WrkAt(w, s)' => WrkAt(w, s) /\ wrk'[w].seq = wrk[w].seq
  BY DEF HandsOver, WrkSame, WrkAt, Reserved
<1>5. /\ \A g \in Gen : GenAt(g, s) => gen[g].seq \in Nat /\ gen[g].seq <= stepSeq[s]
      /\ \A w \in Worker : WrkAt(w, s) => wrk[w].seq \in Nat /\ wrk[w].seq <= stepSeq[s]
      /\ stepSeq[s] \in Nat
  BY DEF Owned, Numbers
<1>6. \A g, h \in Gen :
        GenAt(g, s)' /\ gen'[g].pc = "setup" /\ GenAt(h, s)' =>
          gen'[h].seq + 1 # gen'[g].seq
  <2> SUFFICES ASSUME NEW g \in Gen, NEW h \in Gen,
                      GenAt(g, s)', gen'[g].pc = "setup", GenAt(h, s)'
               PROVE  gen'[h].seq + 1 # gen'[g].seq
    OBVIOUS
  <2>1. g # n
    BY <1>2
  <2>2. CASE h = n
    BY <1>3, <1>5, <2>1, <2>2
  <2>3. CASE h # n
    BY <1>3, <2>1, <2>3 DEF Owned
  <2> QED
    BY <2>2, <2>3
<1>7. \A g \in Gen, w \in Worker :
        GenAt(g, s)' /\ gen'[g].pc = "setup" /\ WrkAt(w, s)' =>
          wrk'[w].seq + 1 # gen'[g].seq
  BY <1>2, <1>3, <1>4 DEF Owned
<1>8. /\ \A g, h \in Gen :
           GenAt(g, s)' /\ GenAt(h, s)' /\ gen'[g].seq = gen'[h].seq => g = h
      /\ \A w, v \in Worker :
           WrkAt(w, s)' /\ WrkAt(v, s)' /\ wrk'[w].seq = wrk'[v].seq => w = v
      /\ \A g \in Gen, w \in Worker :
           GenAt(g, s)' /\ WrkAt(w, s)' => gen'[g].seq # wrk'[w].seq
  BY <1>3, <1>4, <1>5 DEF Owned
<1>9. /\ \A g \in Gen : GenAt(g, s)' => gen'[g].seq <= stepSeq'[s]
      /\ \A w \in Worker : WrkAt(w, s)' => wrk'[w].seq <= stepSeq'[s]
  BY <1>1, <1>3, <1>4, <1>5
<1> QED
  BY <1>1, <1>6, <1>7, <1>8, <1>9 DEF Owned

\* Every step keeps every live session owned.
LEMMA OwnedStep ==
    ASSUME TypeInv, OwnerInv, Kind,
           NEW s \in Session, status'[s] = "live"
    PROVE  Owned(s)'
<1>1. Numbers
  BY EpochNumbers
<1>2. CASE Calm /\ status[s] = "live"
  <2>1. Owned(s) /\ (Keeps(s) \/ Clears(s) \/ RollsBack(s) \/ Revokes(s))
    BY <1>2 DEF OwnerInv, Calm
  <2> QED
    BY <1>1, <1>2, <2>1, KeptOwned, RolledBackOwned, RevokedOwned
<1>3. CASE Calm /\ status[s] = "unborn"
  <2>1. (\A g \in Gen : ~GenAt(g, s)) /\ (\A w \in Worker : ~WrkAt(w, s))
    BY <1>3 DEF OwnerInv, BornInv, GenAt, WrkAt, Reserved
  <2>2. (\A g \in Gen : ~GenAt(g, s)') /\ (\A w \in Worker : ~WrkAt(w, s)')
    BY <1>3, <2>1 DEF Calm, GenSame, WrkSame, GenAt, WrkAt, Reserved
  <2> QED
    BY <2>2 DEF Owned
<1>4. CASE \E r \in Session : Takes(r) \/ HandsOver(r)
  <2>1. PICK r \in Session : Takes(r) \/ HandsOver(r)
    BY <1>4
  <2>2. status[s] = "live" /\ Owned(s)
    BY <2>1 DEF Takes, HandsOver, Starts, OwnerInv
  <2> QED
    BY <1>1, <2>1, <2>2, OthersOwned, TakenOwned, HandedOverOwned
<1> QED
  BY <1>2, <1>3, <1>4 DEF Kind, Calm

\* Every step keeps at most one live session generating: a session starts only
\* when none does, or goes on from its own worker.
LEMMA OneStep ==
    ASSUME TypeInv, OwnerInv, Kind
    PROVE  OneGenerationPerConversation'
<1> DEFINE On(s) == status[s] = "live" /\ generating[s]
<1> SUFFICES ASSUME NEW s \in Session, NEW r \in Session, On(s)', On(r)'
             PROVE  s = r
  BY DEF OneGenerationPerConversation
<1>1. CASE Calm
  <2>1. On(s) /\ On(r)
    BY <1>1 DEF Calm, OwnerInv, BornInv
  <2> QED
    BY <2>1 DEF OwnerInv, OneGenerationPerConversation
<1>2. CASE \E q \in Session : Takes(q)
  <2>1. PICK q \in Session : Takes(q)
    BY <1>2
  <2>2. \A p \in Session : On(p)' => p = q
    BY <2>1 DEF Takes, Starts, Keeps, ConversationGenerating, Registered
  <2> QED
    BY <2>2
<1>3. CASE \E q \in Session : HandsOver(q)
  <2>1. PICK q \in Session : HandsOver(q)
    BY <1>3
  <2>2. status[q] = "live" => On(q)
    BY <2>1 DEF HandsOver, OwnerInv, Owned
  <2>3. \A p \in Session : On(p)' => On(p)
    BY <2>1, <2>2 DEF HandsOver, Starts, Keeps
  <2> QED
    BY <2>3 DEF OwnerInv, OneGenerationPerConversation
<1> QED
  BY <1>1, <1>2, <1>3 DEF Kind

\* So every step keeps the invariant, and is of one of the kinds above.
LEMMA OwnerStep ==
    ASSUME "thread" \notin Failures, TypeInv, OwnerInv, [Next]_vars
    PROVE  OwnerInv' /\ Kind
<1>1. BornInv
  BY DEF OwnerInv
<1>2. Kind
  BY <1>1, StepKind
<1>3. BornInv'
  BY <1>1, BornStep
<1> QED
  BY <1>2, <1>3, OwnedStep, OneStep DEF OwnerInv

\* Nothing is under way initially.
LEMMA OwnerInit == Init => OwnerInv
BY DEF Init, OwnerInv, BornInv, OneGenerationPerConversation, IdleGen, IdleWorker

\* The invariant holds throughout, as long as every thread starts.
LEMMA OwnerInvariant ==
    ASSUME "thread" \notin Failures
    PROVE  Spec => []OwnerInv
<1>1. TypeInv /\ OwnerInv /\ [Next]_vars => OwnerInv'
  BY OwnerStep
<1> QED
  BY <1>1, OwnerInit, TypeInvariant, PTL DEF Spec

\* Two clients never stream into the same log: at most one live session of the
\* conversation is generating, as long as every thread starts.
THEOREM OneGeneration ==
    ASSUME "thread" \notin Failures
    PROVE  Spec => []OneGenerationPerConversation
<1>1. OwnerInv => OneGenerationPerConversation
  BY DEF OwnerInv
<1> QED
  BY <1>1, OwnerInvariant, PTL

\* On a live session the current epoch has at most one holder, and has one only
\* while the session is marked generating, as long as every thread starts.
THEOREM SingleHolder ==
    ASSUME "thread" \notin Failures
    PROVE  Spec => []SoleHolder
<1>1. TypeInv /\ OwnerInv => SoleHolder
  <2> SUFFICES ASSUME TypeInv, OwnerInv, NEW s \in Session, status[s] = "live"
               PROVE  /\ Held(s) => generating[s]
                      /\ \A g, h \in Gen : GenHolds(g, s) /\ GenHolds(h, s) => g = h
                      /\ \A w, v \in Worker :
                           WorkerHolds(w, s) /\ WorkerHolds(v, s) => w = v
                      /\ \A g \in Gen, w \in Worker :
                           ~(GenHolds(g, s) /\ WorkerHolds(w, s))
    BY DEF SoleHolder
  <2>1. Owned(s)
    BY DEF OwnerInv
  <2>2. /\ \A g \in Gen : GenHolds(g, s) => GenAt(g, s) /\ gen[g].seq = stepSeq[s]
        /\ \A w \in Worker : WorkerHolds(w, s) => WrkAt(w, s) /\ wrk[w].seq = stepSeq[s]
    BY DEF GenHolds, WorkerHolds, GenAt, WrkAt, Reserved
  <2> QED
    BY <2>1, <2>2 DEF Owned, Held
<1> QED
  BY <1>1, OwnerInvariant, TypeInvariant, PTL

\* A holder on a live session loses its reservation by its own doing or to an
\* interrupt: no late thread and no rollback takes it away (Race 5 of the source).
THEOREM HolderUndisturbed ==
    ASSUME "thread" \notin Failures
    PROVE  Spec => ReservationNotStolen
<1> DEFINE Undisturbed(s) ==
      /\ \A g \in Gen : GenHolds(g, s) /\ generating[s] =>
           \/ GenHolds(g, s)' /\ generating'[s]
           \/ gen'[g].pc \in {"idle", "undo"}
           \/ InterruptOf(s)
      /\ \A w \in Worker : WorkerHolds(w, s) /\ generating[s] =>
           \/ WorkerHolds(w, s)' /\ generating'[s]
           \/ wrk'[w].pc = "idle"
           \/ InterruptOf(s)
<1>1. ASSUME TypeInv, OwnerInv, OwnerInv', Kind, NEW s \in Session,
             status[s] = "live", status'[s] = "live"
      PROVE  Undisturbed(s)
  <2>1. Owned(s) /\ BornInv'
    BY <1>1 DEF OwnerInv
  <2>2. /\ \A g \in Gen : GenHolds(g, s) => GenAt(g, s) /\ gen[g].seq = stepSeq[s]
        /\ \A w \in Worker : WorkerHolds(w, s) => WrkAt(w, s) /\ wrk[w].seq = stepSeq[s]
    BY DEF GenHolds, WorkerHolds, GenAt, WrkAt, Reserved
  <2>3. CASE Keeps(s) /\ (Calm \/ \E r \in Session : r # s /\ (Takes(r) \/ HandsOver(r)))
    <3>1. /\ \A g \in Gen : gen[g].pc # "idle" => GenSame(g)
          /\ \A w \in Worker : wrk[w].pc # "idle" => WrkSame(w)
      BY <2>3 DEF Calm, Takes, HandsOver, NewGen, NewWrk
    <3>2. \A g \in Gen : GenHolds(g, s) => GenHolds(g, s)' \/ gen'[g].pc = "idle"
      BY <2>1, <2>3, <3>1 DEF GenHolds, GenSame, Keeps, BornInv
    <3>3. \A w \in Worker : WorkerHolds(w, s) => WorkerHolds(w, s)' \/ wrk'[w].pc = "idle"
      BY <2>3, <3>1 DEF WorkerHolds, WrkSame, Reserved, Keeps
    <3>4. generating'[s] = generating[s]
      BY <2>3 DEF Keeps
    <3> QED
      BY <3>2, <3>3, <3>4
  <2>4. CASE Clears(s)
    <3>1. CASE \E h \in Gen :
                 GenAt(h, s) /\ gen[h].seq = stepSeq[s] /\ gen'[h].pc = "idle"
      BY <2>1, <2>2, <3>1 DEF Owned
    <3>2. CASE \E v \in Worker :
                 WrkAt(v, s) /\ wrk[v].seq = stepSeq[s] /\ wrk'[v].pc = "idle"
      BY <2>1, <2>2, <3>2 DEF Owned
    <3> QED
      BY <2>4, <3>1, <3>2 DEF Clears
  <2>5. CASE RollsBack(s)
    BY <2>1, <2>2, <2>5 DEF RollsBack, Owned
  <2>6. CASE Revokes(s)
    <3>1. generating[s] => InterruptOf(s)
      BY <1>1, <2>6 DEF Revokes, ConversationGenerating, Registered
    <3> QED
      BY <3>1
  <2>7. CASE Takes(s)
    <3>1. ~generating[s]
      BY <1>1, <2>7 DEF Takes, ConversationGenerating, Registered
    <3> QED
      BY <3>1
  <2>8. CASE HandsOver(s)
    BY <2>1, <2>2, <2>8 DEF HandsOver, Owned
  <2>9. CASE Calm
    BY <1>1, <2>3, <2>4, <2>5, <2>6, <2>9 DEF Calm
  <2>10. ASSUME NEW r \in Session, r # s, Takes(r) \/ HandsOver(r)
         PROVE  Undisturbed(s)
    <3>1. Keeps(s)
      BY <2>10 DEF Takes, HandsOver, Starts
    <3> QED
      BY <2>3, <2>10, <3>1
  <2> QED
    BY <1>1, <2>7, <2>8, <2>9, <2>10 DEF Kind
<1>2. TypeInv /\ OwnerInv /\ [Next]_vars =>
        [\A s \in Session : status[s] = "live" /\ status'[s] = "live" => Undisturbed(s)]_vars
  BY <1>1, OwnerStep
<1> QED
  BY <1>2, OwnerInvariant, TypeInvariant, PTL DEF Spec, ReservationNotStolen

\* While a slash command owns the conversation, a live session starts to generate
\* only through the skip of a pending tool.
THEOREM CommandKept ==
    ASSUME "thread" \notin Failures
    PROVE  Spec => CommandBlocksGeneration
<1> DEFINE Blocked == \A s \in Session :
      /\ CommandIsActive /\ status[s] = "live"
      /\ ~generating[s] /\ generating'[s]
      => \E t \in Pending(s) : tool'[t].st = "done"
<1>1. ASSUME OwnerInv, Kind, NEW s \in Session, CommandIsActive,
             status[s] = "live", ~generating[s], generating'[s]
      PROVE  \E t \in Pending(s) : tool'[t].st = "done"
  <2>1. PICK r \in Session : Takes(r) \/ HandsOver(r)
    BY <1>1 DEF Kind, Calm
  <2>2. r = s
    BY <1>1, <2>1 DEF Takes, HandsOver, Starts, Keeps
  <2>3. ~HandsOver(s)
    BY <1>1 DEF HandsOver, OwnerInv, Owned
  <2> QED
    BY <1>1, <2>1, <2>2, <2>3 DEF Takes
<1>2. TypeInv /\ OwnerInv /\ [Next]_vars => [Blocked]_vars
  BY <1>1, OwnerStep
<1> QED
  BY <1>2, OwnerInvariant, TypeInvariant, PTL DEF Spec, CommandBlocksGeneration

\* A live session that generates.
LiveGen(s) == status[s] = "live" /\ generating[s]

\* The owner a state stands for, where at most one live session generates, ...
LEMMA OwnerOf ==
    ASSUME OneGenerationPerConversation
    PROVE  /\ \A s \in Session : LiveGen(s) => CurrentOwner = <<s, stepSeq[s]>>
           /\ (\A s \in Session : ~LiveGen(s)) => CurrentOwner = Nobody
<1>1. ASSUME NEW s \in Session, LiveGen(s)
      PROVE  CurrentOwner = <<s, stepSeq[s]>>
  <2> DEFINE c == CHOOSE r \in Session : status[r] = "live" /\ generating[r]
  <2>1. c \in Session /\ status[c] = "live" /\ generating[c]
    BY <1>1 DEF LiveGen
  <2>2. c = s
    BY <1>1, <2>1 DEF LiveGen, OneGenerationPerConversation
  <2>3. CurrentOwner = <<c, stepSeq[c]>>
    BY <1>1 DEF CurrentOwner, LiveGen
  <2> QED
    BY <2>2, <2>3
<1>2. (\A s \in Session : ~LiveGen(s)) => CurrentOwner = Nobody
  BY DEF CurrentOwner, LiveGen
<1> QED
  BY <1>1, <1>2

\* ... and the one the next state stands for.
LEMMA OwnerOfNext ==
    ASSUME OneGenerationPerConversation'
    PROVE  /\ \A s \in Session : LiveGen(s)' => CurrentOwner' = <<s, stepSeq'[s]>>
           /\ (\A s \in Session : ~LiveGen(s)') => CurrentOwner' = Nobody
<1>1. ASSUME NEW s \in Session, LiveGen(s)'
      PROVE  CurrentOwner' = <<s, stepSeq'[s]>>
  <2> DEFINE c == CHOOSE r \in Session : status'[r] = "live" /\ generating'[r]
  <2>1. c \in Session /\ status'[c] = "live" /\ generating'[c]
    BY <1>1 DEF LiveGen
  <2>2. c = s
    BY <1>1, <2>1 DEF LiveGen, OneGenerationPerConversation
  <2>3. CurrentOwner' = <<c, stepSeq'[c]>>
    BY <1>1 DEF CurrentOwner, LiveGen
  <2> QED
    BY <2>2, <2>3
<1>2. (\A s \in Session : ~LiveGen(s)') => CurrentOwner' = Nobody
  BY DEF CurrentOwner, LiveGen
<1> QED
  BY <1>1, <1>2

\* The reservation implements the ownership of ConversationOwner: it is taken
\* only from nobody, passes on only to the next epoch of the same session, and
\* ends, as long as every thread starts.
THEOREM Ownership ==
    ASSUME "thread" \notin Failures
    PROVE  Spec => OwnerRefinement
<1>1. Init => Abstract!Init
  BY DEF Init, Abstract!Init, CurrentOwner
<1>2. ASSUME TypeInv, OwnerInv, OwnerInv', Kind
      PROVE  [Abstract!Next]_CurrentOwner
  <2> USE DEF Abstract!Next, Abstract!Owner
  <2>1. /\ \A s \in Session : LiveGen(s) => CurrentOwner = <<s, stepSeq[s]>>
        /\ (\A s \in Session : ~LiveGen(s)) => CurrentOwner = Nobody
        /\ \A s \in Session : LiveGen(s)' => CurrentOwner' = <<s, stepSeq'[s]>>
        /\ (\A s \in Session : ~LiveGen(s)') => CurrentOwner' = Nobody
    BY <1>2, OwnerOf, OwnerOfNext DEF OwnerInv
  <2>2. \A s \in Session : stepSeq[s] \in Nat
    BY <1>2 DEF TypeInv
  <2>3. CASE Calm
    <3>1. \A s \in Session : LiveGen(s)' => LiveGen(s) /\ stepSeq'[s] = stepSeq[s]
      BY <1>2, <2>3
      DEF Calm, Keeps, Clears, RollsBack, Revokes, LiveGen, OwnerInv, BornInv
    <3>2. CASE \E s \in Session : LiveGen(s)'
      BY <2>1, <3>1, <3>2
    <3>3. CASE (\A s \in Session : ~LiveGen(s)') /\ \E s \in Session : LiveGen(s)
      BY <2>1, <2>2, <3>3 DEF Abstract!Yield
    <3>4. CASE (\A s \in Session : ~LiveGen(s)') /\ \A s \in Session : ~LiveGen(s)
      BY <2>1, <3>4
    <3> QED
      BY <3>2, <3>3, <3>4
  <2>4. ASSUME NEW q \in Session, Takes(q)
        PROVE  [Abstract!Next]_CurrentOwner
    <3>1. \A s \in Session : ~LiveGen(s)
      BY <2>4 DEF Takes, ConversationGenerating, Registered, LiveGen
    <3>2. CASE LiveGen(q)'
      <4>1. stepSeq'[q] \in Nat
        BY <2>2, <2>4 DEF Takes
      <4> QED
        BY <2>1, <3>1, <3>2, <4>1 DEF Abstract!Take
    <3>3. CASE ~LiveGen(q)'
      <4>1. \A s \in Session : ~LiveGen(s)'
        BY <2>4, <3>1, <3>3 DEF Takes, Starts, Keeps, LiveGen
      <4> QED
        BY <2>1, <3>1, <4>1
    <3> QED
      BY <3>2, <3>3
  <2>5. ASSUME NEW q \in Session, HandsOver(q)
        PROVE  [Abstract!Next]_CurrentOwner
    <3>1. CASE status[q] = "live"
      <4>1. LiveGen(q) /\ LiveGen(q)' /\ stepSeq'[q] = stepSeq[q] + 1
        BY <1>2, <2>5, <3>1 DEF HandsOver, Starts, OwnerInv, Owned, LiveGen
      <4>2. CurrentOwner = <<q, stepSeq[q]>> /\ CurrentOwner' = <<q, stepSeq[q] + 1>>
        BY <2>1, <4>1
      <4> QED
        BY <2>2, <4>2 DEF Abstract!PassOn
    <3>2. CASE status[q] # "live"
      <4>1. \A s \in Session :
              (LiveGen(s)' <=> LiveGen(s)) /\ (LiveGen(s) => stepSeq'[s] = stepSeq[s])
        BY <2>5, <3>2 DEF HandsOver, Starts, Keeps, LiveGen
      <4>2. CASE \E s \in Session : LiveGen(s)
        BY <2>1, <4>1, <4>2
      <4>3. CASE \A s \in Session : ~LiveGen(s)
        BY <2>1, <4>1, <4>3
      <4> QED
        BY <4>2, <4>3
    <3> QED
      BY <3>1, <3>2
  <2> QED
    BY <1>2, <2>3, <2>4, <2>5 DEF Kind
<1>3. TypeInv /\ OwnerInv /\ [Next]_vars => [Abstract!Next]_CurrentOwner
  BY <1>2, OwnerStep
<1> QED
  BY <1>1, <1>3, OwnerInvariant, TypeInvariant, PTL
  DEF Spec, OwnerRefinement, Abstract!Spec
=============================================================================
