-------------------------- MODULE SubagentRunsProofs --------------------------
(***************************************************************************)
(* Proofs about the subagents of one conversation, for any number of ids,  *)
(* runs and slots: the parent is told the outcome of a run once and the    *)
(* right one, a continued conversation has one writer, and whoever waits   *)
(* for a finished run finds a result.                                      *)
(***************************************************************************)
EXTENDS SubagentRuns, NaturalsInduction, WellFoundedInduction,
        FiniteSetTheorems, TLAPS

-----------------------------------------------------------------------------
(* The oldest and the newest of a set of runs.                             *)

LEMMA LeastExists ==
    ASSUME NEW S \in SUBSET Nat, S # {}
    PROVE  \E x \in S : \A y \in S : x <= y
<1> DEFINE Less == {ss \in Nat \X Nat : ss[1] < ss[2]}
<1>1. OpToRel(<, Nat) = Less
  BY Zenon DEF OpToRel
<1>2. IsWellFoundedOn(Less, Nat)
  BY <1>1, NatLessThanWellFounded, Zenon
<1> HIDE DEF Less
<1>3. PICK x \in S : \A y \in S : ~ (<<y, x>> \in Less)
  BY <1>2, WFMin, Zenon
<1>4. ASSUME NEW y \in S PROVE x <= y
  <2>1. <<y, x>> \in Nat \X Nat /\ ~ (<<y, x>> \in Less)
    BY <1>3
  <2>2. ~ (y < x)
    BY <2>1, Zenon DEF Less
  <2> QED
    BY <2>2
<1> QED
  BY <1>4

LEMMA MinFact ==
    ASSUME NEW S \in SUBSET Nat, S # {}
    PROVE  Min(S) \in S /\ \A y \in S : Min(S) <= y
  BY LeastExists DEF Min

LEMMA MaxFact ==
    ASSUME NEW n \in Nat, NEW S \in SUBSET (1 .. n), S # {}
    PROVE  Max(S) \in S /\ \A y \in S : Max(S) >= y
<1> DEFINE Gaps == {n - x : x \in S}
<1>1. \A x \in S : x \in Nat /\ n - x \in Nat
  OBVIOUS
<1>2. Gaps \in SUBSET Nat /\ Gaps # {}
  BY <1>1, Zenon
<1>3. PICK g \in Gaps : \A h \in Gaps : g <= h
  BY <1>2, LeastExists
<1>4. PICK x \in S : g = n - x
  BY Zenon
<1>5. \A y \in S : n - x <= n - y
  BY <1>3, <1>4
<1>6. \A y \in S : x >= y
  BY <1>1, <1>5
<1> QED
  BY <1>6 DEF Max

-----------------------------------------------------------------------------
(* Types, but for the bound of the slots, and the runs a step can name.    *)

RunTypes ==
    /\ run \in Seq(RunRecord) /\ Len(run) <= MaxRuns
    /\ registry \subseteq Created
    /\ result \in [Agent -> Result]
    /\ worker \in [Run -> WorkerRecord]
    /\ slots \in Nat
    /\ process \in [Run -> ProcessState]
    /\ ending \in [Run -> Outcome \cup {"empty"}]
    /\ cancelOp \subseteq Run \X {"file", "event"}
    /\ watchdog \in [Run -> WatchdogState]
    /\ parent \in ParentRecord
    /\ told \subseteq Completion

\* Only a run that was created has a worker, a process or a timer, is cancelled
\* or announced; its log is one of a created run.
Anchored ==
    /\ \A r \in Run : Pc(r) # "none" <=> r \in Created
    /\ \A r \in Run : process[r] # "none" => r \in Created
    /\ \A r \in Run : watchdog[r] # "off" => r \in Created
    /\ \A r \in Run : Pc(r) \in {"read", "rewrite"} => worker[r].outcome \in Status
    /\ \A r \in Run : Pc(r) \in {"reread", "rewrite"} => run[r].resumed
    /\ parent.pc # "idle" => parent.run \in Created
    /\ parent.todo \subseteq Created
    /\ \A c \in told : c.run \in Created
    /\ \A r \in Created : Home(r) \in Created

\* The latest run of an id is in the registry.
Registered == \A q \in Created : \E r \in registry : AgentOf(r) = AgentOf(q) /\ q <= r

Base == RunTypes /\ Anchored /\ Registered

LEMMA CreatedIsRun ==
    ASSUME RunTypes
    PROVE  /\ Len(run) \in Nat /\ Created \in SUBSET Run /\ Created \in SUBSET Nat
           /\ \A r \in Created : run[r] \in RunRecord /\ AgentOf(r) \in Agent
           /\ \A r \in Created : ModeOf(r) \in ExecutionMode /\ Home(r) \in Run
<1>1. Len(run) \in Nat /\ Created \in SUBSET Nat /\ \A r \in Created : run[r] \in RunRecord
  BY DEF RunTypes, Created
<1>2. Created \in SUBSET Run
  BY <1>1, RunAssumption DEF RunTypes, Created, Run
<1> QED
  BY <1>1, <1>2 DEF RunRecord, AgentOf, ModeOf, Home

LEMMA EntriesFact ==
    ASSUME Base, NEW q \in Created
    PROVE  /\ Entries(AgentOf(q)) \in SUBSET Created
           /\ First(AgentOf(q)) \in Entries(AgentOf(q))
           /\ Newest(AgentOf(q)) \in Entries(AgentOf(q))
           /\ \A r \in Entries(AgentOf(q)) : r <= Newest(AgentOf(q)) /\ First(AgentOf(q)) <= r
           /\ q <= Newest(AgentOf(q))
<1>1. Entries(AgentOf(q)) \in SUBSET Created
  BY DEF Entries, Base, RunTypes
<1>2. PICK r \in Entries(AgentOf(q)) : q <= r
  BY DEF Entries, Base, Registered
<1>3. Entries(AgentOf(q)) \in SUBSET Nat /\ Entries(AgentOf(q)) \in SUBSET (1 .. Len(run))
  BY <1>1, CreatedIsRun DEF Base, Created
<1>4. First(AgentOf(q)) \in Entries(AgentOf(q)) /\ \A x \in Entries(AgentOf(q)) : First(AgentOf(q)) <= x
  BY <1>2, <1>3, MinFact DEF First
<1>5. Newest(AgentOf(q)) \in Entries(AgentOf(q)) /\ \A x \in Entries(AgentOf(q)) : Newest(AgentOf(q)) >= x
  BY <1>2, <1>3, MaxFact, CreatedIsRun DEF Newest, Base
<1>6. \A x \in Entries(AgentOf(q)) : x \in Nat /\ x <= Newest(AgentOf(q))
  BY <1>3, <1>5
<1>7. q \in Nat
  BY CreatedIsRun DEF Base
<1> QED
  BY <1>1, <1>2, <1>3, <1>4, <1>5, <1>6, <1>7

\* The same of an id that is known to have an entry.
LEMMA NewestFact ==
    ASSUME Base, NEW a, Entries(a) # {}
    PROVE  /\ Newest(a) \in Created /\ Newest(a) \in registry
           /\ AgentOf(Newest(a)) = a
           /\ \A r \in Entries(a) : r <= Newest(a)
<1>1. PICK q \in registry : AgentOf(q) = a
  BY DEF Entries
<1>2. q \in Created
  BY <1>1 DEF Base, RunTypes
<1> QED
  BY <1>1, <1>2, EntriesFact DEF Entries

-----------------------------------------------------------------------------
(* The step that creates a run.                                            *)

\* The new run has a log of its own, or goes on with the log of the newest run
\* of its id, in which nobody works any more; that one leaves the registry.
IsNew(record, entries) ==
    /\ record \in RunRecord
    /\ entries = registry \/ entries = registry \ Entries(record.agent)
    /\ \/ record.home = Len(run) + 1 /\ ~record.resumed
       \/ /\ Entries(record.agent) # {}
          /\ entries = registry \ Entries(record.agent)
          /\ ~IsRunning(Newest(record.agent))
          /\ record.home = Home(Newest(record.agent))
          /\ record.resumed

Creates(record, entries) == ParentIdle /\ IsNew(record, entries) /\ Create(record, entries)

LEMMA NewRunIsNew ==
    ASSUME Base, Len(run) < MaxRuns, NEW a \in Agent, NEW m \in ExecutionMode
    PROVE  /\ IsNew(NewRun(a, m), registry)
           /\ IsNew(NewRun(a, m), registry \ Entries(a))
<1>1. Len(run) + 1 \in Run
  BY CreatedIsRun, RunAssumption DEF Run, Base
<1>2. NewRun(a, m) \in RunRecord
  BY <1>1 DEF NewRun, RunRecord
<1>3. NewRun(a, m).home = Len(run) + 1 /\ ~NewRun(a, m).resumed /\ NewRun(a, m).agent = a
  BY DEF NewRun
<1> QED
  BY <1>2, <1>3 DEF IsNew

LEMMA SpawnCreates ==
    ASSUME Base, NEW a \in Agent, NEW m \in ExecutionMode, Spawn(a, m)
    PROVE  \E record, entries : Creates(record, entries)
<1>1. IsNew(NewRun(a, m), registry)
  BY NewRunIsNew DEF Spawn, Create
<1> QED
  BY <1>1 DEF Spawn, Creates

LEMMA ReplyCreates ==
    ASSUME Base, NEW a \in Agent, Reply(a)
    PROVE  \E record, entries : Creates(record, entries)
<1>1. ModeOf(Newest(a)) \in ExecutionMode
  BY NewestFact, CreatedIsRun DEF Reply, MayReply, Base
<1>2. IsNew(NewRun(a, ModeOf(Newest(a))), registry \ Entries(a))
  BY <1>1, NewRunIsNew DEF Reply, Create
<1> QED
  BY <1>2 DEF Reply, MayReply, Creates

LEMMA ContinueCreates ==
    ASSUME Base, NEW a \in Agent, Continue(a)
    PROVE  \E record, entries : Creates(record, entries)
<1> DEFINE record == [run[Newest(a)] EXCEPT !.resumed = TRUE]
<1>1. run[Newest(a)] \in RunRecord /\ AgentOf(Newest(a)) = a
  BY NewestFact, CreatedIsRun DEF Continue, Base
<1>2. /\ record \in RunRecord /\ record.agent = a /\ record.resumed
      /\ record.home = Home(Newest(a))
  BY <1>1 DEF RunRecord, AgentOf, Home
<1>3. Create(record, registry \ Entries(a)) /\ ParentIdle /\ Entries(a) # {}
      /\ ~IsRunning(Newest(a))
  BY DEF Continue, MayContinue
<1> HIDE DEF record
<1>4. IsNew(record, registry \ Entries(a))
  BY <1>2, <1>3 DEF IsNew
<1> QED
  BY <1>3, <1>4 DEF Creates

\* The runs there were stay as they are.
LEMMA CreateFacts ==
    ASSUME Base, NEW record, NEW entries, Creates(record, entries),
           NEW n, n = Len(run) + 1
    PROVE  /\ n \in Run /\ n \notin Created /\ Created' = Created \cup {n}
           /\ \A q \in Created : q < n
           /\ Len(run') = n /\ n <= MaxRuns
           /\ run' \in Seq(RunRecord)
           /\ run'[n] = record /\ \A q \in Created : run'[q] = run[q]
           /\ registry' = entries \cup {n} /\ entries \in SUBSET registry
           /\ result' = [result EXCEPT ![record.agent] = NoResult]
           /\ worker' = [worker EXCEPT ![n].pc = "queued"]
           /\ watchdog' = [watchdog EXCEPT ![n] = "armed"]
           /\ UNCHANGED <<slots, process, ending, cancelOp, parent, told>>
<1>1. /\ Len(run) < MaxRuns /\ run' = Append(run, record)
      /\ registry' = entries \cup {n} /\ entries \in SUBSET registry
      /\ result' = [result EXCEPT ![record.agent] = NoResult]
      /\ worker' = [worker EXCEPT ![n].pc = "queued"]
      /\ watchdog' = [watchdog EXCEPT ![n] = "armed"]
      /\ UNCHANGED <<slots, process, ending, cancelOp, parent, told>>
      /\ record \in RunRecord
  BY DEF Creates, Create, IsNew
<1>2. run \in Seq(RunRecord) /\ Len(run) \in Nat /\ MaxRuns \in Nat
  BY RunAssumption DEF Base, RunTypes
<1>3. /\ Len(run') = n /\ run' \in Seq(RunRecord) /\ run'[n] = record
      /\ \A q \in 1 .. Len(run) : run'[q] = run[q]
  BY <1>1, <1>2
<1>4. n \in Run /\ n <= MaxRuns
  BY <1>1, <1>2 DEF Run
<1>5. n \notin Created /\ Created' = Created \cup {n} /\ \A q \in Created : q < n
  BY <1>2, <1>3 DEF Created
<1> QED
  BY <1>1, <1>3, <1>4, <1>5 DEF Created

LEMMA CreateKeepsBase ==
    ASSUME Base, NEW record, NEW entries, Creates(record, entries)
    PROVE  Base'
<1> DEFINE n == Len(run) + 1
<1>1. /\ n \in Run /\ n \notin Created /\ Created' = Created \cup {n}
      /\ \A q \in Created : q < n
      /\ Len(run') = n /\ n <= MaxRuns
      /\ run' \in Seq(RunRecord)
      /\ run'[n] = record /\ \A q \in Created : run'[q] = run[q]
      /\ registry' = entries \cup {n} /\ entries \in SUBSET registry
      /\ result' = [result EXCEPT ![record.agent] = NoResult]
      /\ worker' = [worker EXCEPT ![n].pc = "queued"]
      /\ watchdog' = [watchdog EXCEPT ![n] = "armed"]
      /\ UNCHANGED <<slots, process, ending, cancelOp, parent, told>>
  BY CreateFacts
<1> HIDE DEF n
<1>2. /\ record \in RunRecord
      /\ entries = registry \/ entries = registry \ Entries(record.agent)
  BY DEF Creates, IsNew
<1>3. RunTypes'
  <2>1. result' \in [Agent -> Result]
    <3>1. NoResult \in Result
      BY DEF Result
    <3>2. result \in [Agent -> Result]
      BY DEF Base, RunTypes
    <3>3. [result EXCEPT ![record.agent] = NoResult] \in [Agent -> Result]
      BY ONLY <3>1, <3>2
    <3> QED
      BY <1>1, <3>3
  <2>2. worker' \in [Run -> WorkerRecord]
    <3>1. worker \in [Run -> WorkerRecord]
      BY DEF Base, RunTypes
    <3>2. [worker EXCEPT ![n].pc = "queued"] \in [Run -> WorkerRecord]
      BY ONLY <3>1 DEF WorkerRecord, WorkerPc
    <3> QED
      BY <1>1, <3>2
  <2>3. watchdog' \in [Run -> WatchdogState]
    BY <1>1 DEF Base, RunTypes, WatchdogState
  <2>4. registry' \subseteq Created'
    BY <1>1 DEF Base, RunTypes
  <2> QED
    BY <1>1, <2>1, <2>2, <2>3, <2>4 DEF Base, RunTypes
<1>4. Anchored'
  <2>1. \A r \in Run : worker'[r] = IF r = n THEN [worker[n] EXCEPT !.pc = "queued"] ELSE worker[r]
    BY <1>1 DEF Base, RunTypes
  <2>2. worker'[n].pc = "queued"
    BY <1>1, <2>1 DEF Base, RunTypes, WorkerRecord
  <2>3. \A r \in Run : worker'[r].pc # "none" <=> r \in Created'
    BY <1>1, <2>1, <2>2 DEF Base, Anchored, Pc
  <2>4. \A r \in Run : /\ worker'[r].pc \in {"read", "rewrite"} => worker'[r].outcome \in Status
                       /\ worker'[r].pc \in {"reread", "rewrite"} => run'[r].resumed
    BY <1>1, <2>1, <2>2 DEF Base, Anchored, Pc
  <2>5. \A r \in Run : watchdog'[r] # "off" => r \in Created'
    BY <1>1 DEF Base, Anchored, RunTypes
  <2>6. run'[n].home \in Created'
    <3>1. Entries(record.agent) # {} => Home(Newest(record.agent)) \in Created
      BY NewestFact DEF Base, Anchored
    <3>2. record.home = n \/ record.home \in Created
      BY <3>1 DEF Creates, IsNew, n
    <3> QED
      BY <1>1, <3>2
  <2>7. \A r \in Created' : run'[r].home \in Created'
    BY <1>1, <2>6 DEF Base, Anchored, Home
  <2> QED
    BY <1>1, <2>3, <2>4, <2>5, <2>7 DEF Base, Anchored, Pc, Home
<1>5. Registered'
  <2> SUFFICES ASSUME NEW q \in Created'
               PROVE  \E r \in registry' : run'[r].agent = run'[q].agent /\ q <= r
    BY DEF Registered, AgentOf
  <2>1. CASE run'[q].agent = record.agent
    <3>1. q <= n
      BY <1>1, CreatedIsRun DEF Base, Run
    <3> QED
      BY <1>1, <2>1, <3>1
  <2>2. CASE run'[q].agent # record.agent
    <3>1. q \in Created /\ run'[q] = run[q]
      BY <1>1, <2>2
    <3>2. PICK r \in registry : AgentOf(r) = AgentOf(q) /\ q <= r
      BY <3>1 DEF Base, Registered
    <3>3. r \in entries /\ r \in Created
      BY <1>2, <2>2, <3>1, <3>2 DEF Entries, AgentOf, Base, RunTypes
    <3> QED
      BY <1>1, <3>1, <3>2, <3>3 DEF AgentOf
  <2> QED
    BY <2>1, <2>2
<1> QED
  BY <1>3, <1>4, <1>5 DEF Base

-----------------------------------------------------------------------------
(* The other steps.                                                        *)

ParentMoves ==
    \/ \E a \in Agent : Cancel(a)
    \/ CancelWritesControl \/ CancelTerminates
    \/ EndSession \/ EndSessionVisits

RunMoves(r) == RunNext(r) \/ RecordOutcome(r) \/ WatchdogTells(r) \/ AfterNotice(r)

LEMMA Steps ==
    ASSUME Base, RunsNext
    PROVE  \/ \E record, entries : Creates(record, entries)
           \/ \E a \in Agent : ReplyFails(a)
           \/ ParentMoves
           \/ \E r \in Run : RunMoves(r)
  BY SpawnCreates, ReplyCreates, ContinueCreates DEF RunsNext, ToolNext,
     SessionEndNext, ParentMoves, RunMoves

\* A change of one run's part of a variable is well typed.
LEMMA OnePart ==
    ASSUME NEW D, NEW S, NEW f \in [D -> S], NEW d \in D, NEW x \in S
    PROVE  /\ [f EXCEPT ![d] = x] \in [D -> S]
           /\ \A e \in D : [f EXCEPT ![d] = x][e] = IF e = d THEN x ELSE f[e]
  OBVIOUS

\* Where the worker of run r goes, and with what outcome.
WorkerGoes(r, pc, outcome) ==
    /\ worker' \in [Run -> WorkerRecord]
    /\ worker'[r].pc = pc /\ worker'[r].outcome = outcome
    /\ \A q \in Run \ {r} : worker'[q] = worker[q]

LEMMA GoesFact ==
    ASSUME RunTypes, NEW r \in Run, NEW pc \in WorkerPc, Goes(r, pc)
    PROVE  WorkerGoes(r, pc, worker[r].outcome)
<1>1. worker[r] \in WorkerRecord
  BY DEF RunTypes
<1>2. /\ [worker[r] EXCEPT !.pc = pc] \in WorkerRecord
      /\ [worker[r] EXCEPT !.pc = pc].pc = pc
      /\ [worker[r] EXCEPT !.pc = pc].outcome = worker[r].outcome
  BY <1>1 DEF WorkerRecord
<1>3. worker' = [worker EXCEPT ![r] = [worker[r] EXCEPT !.pc = pc]]
  BY DEF Goes
<1> QED
  BY <1>2, <1>3, OnePart DEF RunTypes, WorkerGoes

LEMMA GoesWithFact ==
    ASSUME RunTypes, NEW r \in Run, NEW pc \in WorkerPc,
           NEW outcome \in Status \cup {"none", "unread"}, GoesWith(r, pc, outcome)
    PROVE  WorkerGoes(r, pc, outcome)
<1>1. /\ [pc |-> pc, outcome |-> outcome] \in WorkerRecord
      /\ [pc |-> pc, outcome |-> outcome].pc = pc
      /\ [pc |-> pc, outcome |-> outcome].outcome = outcome
  BY DEF WorkerRecord
<1> QED
  BY <1>1, OnePart DEF RunTypes, WorkerGoes, GoesWith

\* What a step writes into the cache, and what it reads there.
ResultBecomes(r, status) ==
    /\ result' \in [Agent -> Result]
    /\ result'[AgentOf(r)] = [status |-> status, by |-> r]
    /\ result'[AgentOf(r)] # NoResult
    /\ \A a \in Agent \ {AgentOf(r)} : result'[a] = result[a]

LEMMA PutFact ==
    ASSUME RunTypes, NEW r \in Created, NEW status \in Status, PutResult(r, status)
    PROVE  ResultBecomes(r, status)
<1>1. r \in Run /\ AgentOf(r) \in Agent
  BY CreatedIsRun
<1>2. [status |-> status, by |-> r] \in Result
  BY <1>1 DEF Result
<1>3. [status |-> status, by |-> r] # NoResult
  <2>1. [status |-> status, by |-> r].by = r /\ NoResult.by = 0 /\ r # 0
    BY <1>1, RunAssumption DEF NoResult, Run
  <2> QED
    BY <2>1
<1> QED
  BY <1>1, <1>2, <1>3, OnePart DEF RunTypes, PutResult, ResultBecomes

LEMMA ReadLogFact ==
    ASSUME RunTypes, NEW r \in Created
    PROVE  ReadLog(r) \in Status
<1>1. AgentOf(r) \in Agent /\ Home(r) \in Run
  BY CreatedIsRun
<1>2. result[AgentOf(r)] \in Result /\ ending[Home(r)] \in Outcome \cup {"empty"}
  BY <1>1 DEF RunTypes
<1>3. Cached(AgentOf(r)) => result[AgentOf(r)].status \in Status
  BY <1>2 DEF Cached, Result
<1> QED
  BY <1>2, <1>3 DEF ReadLog, Status, Outcome

-----------------------------------------------------------------------------
(* What every step of a run, or of the parent for a run, has in common.    *)

\* The child process is a worker's that has started it.
Started(r) == process[r] # "none" => Pc(r) \notin {"queued", "launching"}

Gone == {"reread", "rewrite", "leaving", "ended"}
\* The worker could not read how its conversation ended.
Unread(r) == Pc(r) \in {"leaving", "ended"} /\ worker[r].outcome = "unread"
Holding(r) == Pc(r) \notin {"none", "queued", "ended"}

\* Nothing but run r moves.
OnlyRun(r) ==
    /\ r \in Created
    /\ UNCHANGED <<run, registry>>
    /\ \A q \in Run \ {r} : /\ worker'[q] = worker[q] /\ process'[q] = process[q]
                            /\ watchdog'[q] = watchdog[q]
    /\ \A h \in Run \ {Home(r)} : ending'[h] = ending[h]
    /\ \A a \in Agent \ {AgentOf(r)} : result'[a] = result[a]
    /\ told \subseteq told' /\ \A c \in told' : c \in told \/ c.run = r

\* It does not start again.
GoesOn(r) ==
    /\ Pc(r)' # "none"
    /\ Pc(r)' \in {"read", "rewrite"} => worker'[r].outcome \in Status
    /\ Pc(r)' \in {"reread", "rewrite"} => run[r].resumed
    /\ Started(r) => Started(r)'
    /\ MayWrite(r)' => MayWrite(r)
    /\ Started(r) /\ IsRunning(r)' => IsRunning(r)

\* A result stays, but for the one a continuation overwrites, and a worker has
\* one when it leaves, or could not read its log.
KeepsResult(r) ==
    /\ Cached(AgentOf(r)) => Cached(AgentOf(r))'
    /\ \/ result'[AgentOf(r)] = result[AgentOf(r)]
       \/ ~Cached(AgentOf(r)) \/ run[r].resumed
    /\ Pc(r)' \in Gone =>
         \/ Cached(AgentOf(r))'
         \/ Unread(r)'
         \/ Pc(r) \in Gone /\ ~Unread(r)

\* Whoever wins the race announces what it wrote.
Announces(r) ==
    /\ \/ told' = told
       \/ /\ result'[AgentOf(r)].status = worker[r].outcome /\ Cached(AgentOf(r))'
          /\ told' = told \cup {[run |-> r, by |-> "worker", status |-> worker[r].outcome]}
          /\ run[r].resumed \/ ~Cached(AgentOf(r))
          /\ watchdog'[r] = watchdog[r]
       \/ /\ result' = result /\ watchdog[r] = "marked" /\ watchdog'[r] = "off"
          /\ told' = told \cup {[run |-> r, by |-> "watchdog", status |-> "timeout"]}
    /\ watchdog'[r] = "marked" =>
        \/ watchdog[r] = "marked"
        \/ /\ ~Cached(AgentOf(r)) /\ Cached(AgentOf(r))' /\ told' = told
           /\ result'[AgentOf(r)].status = "timeout"

\* A slot is held from its taking to its release.
CountsSlots(r) ==
    \/ slots' = slots /\ (Holding(r)' <=> Holding(r))
    \/ slots > 0 /\ slots' = slots - 1 /\ ~Holding(r) /\ Holding(r)'
    \/ slots' = slots + 1 /\ Holding(r) /\ ~Holding(r)'

RunGoesOn(r) ==
    /\ RunTypes' /\ OnlyRun(r) /\ GoesOn(r) /\ KeepsResult(r)
    /\ Announces(r) /\ CountsSlots(r)

LEMMA AtCreated ==
    ASSUME Base, NEW r \in Created
    PROVE  /\ r \in Run /\ Pc(r) # "none" /\ worker[r] \in WorkerRecord
           /\ AgentOf(r) \in Agent /\ Home(r) \in Run
           /\ result[AgentOf(r)] \in Result /\ process[r] \in ProcessState
           /\ watchdog[r] \in WatchdogState
  BY CreatedIsRun DEF Base, Anchored, RunTypes

\* Steps of the worker that leave everything but its place, the log and the
\* slots alone.
LEMMA WorkerOnly ==
    ASSUME Base, NEW r \in Created, NEW pc \in WorkerPc, NEW outcome \in Status \cup {"none", "unread"},
           WorkerGoes(r, pc, outcome), pc # "none", pc \in {"read", "rewrite"} => outcome \in Status,
           pc \in {"reread", "rewrite"} => run[r].resumed,
           ending' \in [Run -> Outcome \cup {"empty"}],
           \A h \in Run \ {Home(r)} : ending'[h] = ending[h],
           slots' \in Nat,
           UNCHANGED <<run, registry, result, process, cancelOp, watchdog, parent, told>>
    PROVE  /\ RunTypes' /\ OnlyRun(r)
           /\ Pc(r)' = pc /\ worker'[r].outcome = outcome
           /\ Pc(r)' # "none"
           /\ Pc(r)' \in {"read", "rewrite"} => worker'[r].outcome \in Status
           /\ Pc(r)' \in {"reread", "rewrite"} => run[r].resumed
           /\ Announces(r)
           /\ Cached(AgentOf(r))' = Cached(AgentOf(r))
           /\ result'[AgentOf(r)] = result[AgentOf(r)]
<1>1. RunTypes'
  BY DEF Base, RunTypes, WorkerGoes, Created
<1>2. OnlyRun(r)
  BY DEF OnlyRun, WorkerGoes
<1>3. Pc(r)' = pc /\ worker'[r].outcome = outcome
  BY DEF Pc, WorkerGoes
<1>4. Announces(r)
  BY DEF Announces
<1>5. Cached(AgentOf(r))' = Cached(AgentOf(r)) /\ result'[AgentOf(r)] = result[AgentOf(r)]
  BY DEF Cached, AgentOf
<1> QED
  BY <1>1, <1>2, <1>3, <1>4, <1>5

-----------------------------------------------------------------------------
(* The worker.                                                             *)

LEMMA SkipQueuedMoves ==
    ASSUME Base, NEW r \in Run, SkipQueued(r)
    PROVE  RunGoesOn(r)
<1>1. r \in Created /\ Pc(r) = "queued" /\ slots > 0 /\ slots' = slots - 1 /\ Cached(AgentOf(r))
  BY DEF SkipQueued, TakeSlot, At
<1>2. WorkerGoes(r, "leaving", worker[r].outcome) /\ worker[r].outcome \in Status \cup {"none", "unread"}
  BY <1>1, GoesFact, AtCreated DEF SkipQueued, Base, WorkerPc, WorkerRecord
<1>3. slots' \in Nat /\ ending' = ending
  BY <1>1 DEF SkipQueued, Base, RunTypes
<1>4. /\ RunTypes' /\ OnlyRun(r) /\ Pc(r)' = "leaving" /\ Announces(r)
      /\ Cached(AgentOf(r))' = Cached(AgentOf(r)) /\ result'[AgentOf(r)] = result[AgentOf(r)]
  BY <1>1, <1>2, <1>3, WorkerOnly DEF SkipQueued, WorkerPc, Base, RunTypes
<1>5. process' = process /\ run' = run
  BY DEF SkipQueued
<1>6. GoesOn(r)
  BY <1>1, <1>4, <1>5 DEF GoesOn, Started, MayWrite, IsRunning, ThreadAlive, ModeOf
<1>7. KeepsResult(r) /\ CountsSlots(r)
  BY <1>1, <1>4 DEF KeepsResult, CountsSlots, Holding
<1> QED
  BY <1>4, <1>6, <1>7 DEF RunGoesOn

LEMMA BeginWorkMoves ==
    ASSUME Base, NEW r \in Run, BeginWork(r)
    PROVE  RunGoesOn(r)
<1>1. r \in Created /\ Pc(r) = "queued" /\ slots > 0 /\ slots' = slots - 1
  BY DEF BeginWork, TakeSlot, At
<1>2. Home(r) \in Run /\ worker[r].outcome \in Status \cup {"none", "unread"}
  BY <1>1, AtCreated DEF WorkerRecord
<1>3. /\ ending' \in [Run -> Outcome \cup {"empty"}]
      /\ \A h \in Run \ {Home(r)} : ending'[h] = ending[h]
  BY <1>2, OnePart DEF BeginWork, OpenLog, Base, RunTypes, Outcome
<1>4. PICK pc \in {"launching", "working"} :
         WorkerGoes(r, pc, worker[r].outcome) /\ (pc = "launching" <=> ModeOf(r) = "subprocess")
  BY <1>1, GoesFact DEF BeginWork, Base, WorkerPc
<1>5. slots' \in Nat
  BY <1>1 DEF Base, RunTypes
<1>6. /\ RunTypes' /\ OnlyRun(r) /\ Pc(r)' = pc /\ Announces(r)
      /\ Cached(AgentOf(r))' = Cached(AgentOf(r)) /\ result'[AgentOf(r)] = result[AgentOf(r)]
  BY <1>1, <1>2, <1>3, <1>4, <1>5, WorkerOnly DEF BeginWork, WorkerPc
<1>7. process' = process /\ run' = run
  BY DEF BeginWork
<1>8. GoesOn(r)
  BY <1>1, <1>4, <1>6, <1>7 DEF GoesOn, Started, MayWrite, IsRunning, ThreadAlive, ModeOf
<1>9. KeepsResult(r) /\ CountsSlots(r)
  BY <1>1, <1>4, <1>6 DEF KeepsResult, CountsSlots, Holding, Gone
<1> QED
  BY <1>6, <1>8, <1>9 DEF RunGoesOn

LEMMA LaunchMoves ==
    ASSUME Base, NEW r \in Run, Launch(r)
    PROVE  RunGoesOn(r)
<1>1. r \in Created /\ Pc(r) = "launching"
  BY DEF Launch, At
<1>2. Home(r) \in Run /\ worker[r].outcome \in Status \cup {"none", "unread"}
  BY <1>1, AtCreated DEF WorkerRecord
<1>3. WorkerGoes(r, "working", worker[r].outcome)
  BY <1>1, GoesFact DEF Launch, Base, WorkerPc
<1>4. /\ ending' \in [Run -> Outcome \cup {"empty"}]
      /\ \A h \in Run \ {Home(r)} : ending'[h] = ending[h]
  BY <1>2, OnePart DEF Launch, OpenLog, Base, RunTypes, Outcome
<1>5. /\ process' \in [Run -> ProcessState] /\ process'[r] = "alive"
      /\ \A q \in Run \ {r} : process'[q] = process[q]
  BY OnePart DEF Launch, Base, RunTypes, ProcessState
<1>6. UNCHANGED <<run, registry, result, slots, cancelOp, watchdog, parent, told>>
  BY DEF Launch
<1>7. RunTypes'
  BY <1>3, <1>4, <1>5, <1>6 DEF Base, RunTypes, WorkerGoes, Created
<1>8. OnlyRun(r)
  BY <1>1, <1>3, <1>4, <1>5, <1>6 DEF OnlyRun, WorkerGoes
<1>9. Pc(r)' = "working"
  BY <1>3 DEF Pc, WorkerGoes
<1>10. GoesOn(r)
  BY <1>1, <1>5, <1>6, <1>9 DEF GoesOn, Started, MayWrite, IsRunning, ThreadAlive, ModeOf
<1>11. KeepsResult(r) /\ CountsSlots(r) /\ Announces(r)
  BY <1>1, <1>6, <1>9 DEF KeepsResult, CountsSlots, Announces, Holding, Gone, Cached, AgentOf
<1> QED
  BY <1>7, <1>8, <1>10, <1>11 DEF RunGoesOn

LEMMA WorkRaisesMoves ==
    ASSUME Base, NEW r \in Run, WorkRaises(r)
    PROVE  RunGoesOn(r)
<1>1. r \in Created /\ Pc(r) \in {"launching", "working"}
  BY DEF WorkRaises, At
<1>2. WorkerGoes(r, "read", "failure")
  BY <1>1, GoesWithFact DEF WorkRaises, Base, WorkerPc, Status, Outcome
<1>3. ending' \in [Run -> Outcome \cup {"empty"}] /\ ending' = ending /\ slots' = slots
      /\ slots' \in Nat
  BY DEF WorkRaises, Base, RunTypes
<1>4. /\ RunTypes' /\ OnlyRun(r) /\ Pc(r)' = "read" /\ worker'[r].outcome = "failure"
      /\ Announces(r)
      /\ Cached(AgentOf(r))' = Cached(AgentOf(r)) /\ result'[AgentOf(r)] = result[AgentOf(r)]
  BY <1>1, <1>2, <1>3, WorkerOnly DEF WorkRaises, WorkerPc, Status, Outcome
<1>5. process' = process /\ run' = run
  BY DEF WorkRaises
<1>6. GoesOn(r)
  BY <1>1, <1>4, <1>5 DEF GoesOn, Started, MayWrite, IsRunning, ThreadAlive, ModeOf, Status, Outcome
<1>7. KeepsResult(r) /\ CountsSlots(r)
  BY <1>1, <1>3, <1>4 DEF KeepsResult, CountsSlots, Holding, Gone
<1> QED
  BY <1>4, <1>6, <1>7 DEF RunGoesOn

LEMMA ChatReturnsMoves ==
    ASSUME Base, NEW r \in Run, NEW e \in Outcome, ChatReturns(r, e)
    PROVE  RunGoesOn(r)
<1>1. r \in Created /\ Pc(r) = "working" /\ ModeOf(r) = "thread"
  BY DEF ChatReturns, At
<1>2. Home(r) \in Run /\ worker[r].outcome \in Status \cup {"none", "unread"}
  BY <1>1, AtCreated DEF WorkerRecord
<1>3. WorkerGoes(r, "returned", worker[r].outcome)
  BY <1>1, GoesFact DEF ChatReturns, Base, WorkerPc
<1>4. /\ ending' \in [Run -> Outcome \cup {"empty"}]
      /\ \A h \in Run \ {Home(r)} : ending'[h] = ending[h]
      /\ slots' = slots /\ slots' \in Nat
  BY <1>2, OnePart DEF ChatReturns, Base, RunTypes
<1>5. /\ RunTypes' /\ OnlyRun(r) /\ Pc(r)' = "returned" /\ Announces(r)
      /\ Cached(AgentOf(r))' = Cached(AgentOf(r)) /\ result'[AgentOf(r)] = result[AgentOf(r)]
  BY <1>1, <1>2, <1>3, <1>4, WorkerOnly DEF ChatReturns, WorkerPc
<1>6. process' = process /\ run' = run
  BY DEF ChatReturns
<1>7. GoesOn(r)
  BY <1>1, <1>5, <1>6 DEF GoesOn, Started, MayWrite, IsRunning, ThreadAlive, ModeOf
<1>8. KeepsResult(r) /\ CountsSlots(r)
  BY <1>1, <1>4, <1>5 DEF KeepsResult, CountsSlots, Holding, Gone
<1> QED
  BY <1>5, <1>7, <1>8 DEF RunGoesOn

LEMMA AcpReturnsMoves ==
    ASSUME Base, NEW r \in Run, NEW e \in Outcome, AcpReturns(r, e)
    PROVE  RunGoesOn(r)
<1>1. r \in Created /\ Pc(r) = "working" /\ ModeOf(r) = "acp" /\ e \in Status
  BY DEF AcpReturns, At, Status
<1>2. Home(r) \in Run
  BY <1>1, AtCreated
<1>3. WorkerGoes(r, "read", e)
  BY <1>1, GoesWithFact DEF AcpReturns, Base, WorkerPc
<1>4. /\ ending' \in [Run -> Outcome \cup {"empty"}]
      /\ \A h \in Run \ {Home(r)} : ending'[h] = ending[h]
      /\ slots' = slots /\ slots' \in Nat
  BY <1>2, OnePart DEF AcpReturns, Base, RunTypes
<1>5. /\ RunTypes' /\ OnlyRun(r) /\ Pc(r)' = "read" /\ worker'[r].outcome = e /\ Announces(r)
      /\ Cached(AgentOf(r))' = Cached(AgentOf(r)) /\ result'[AgentOf(r)] = result[AgentOf(r)]
  BY <1>1, <1>3, <1>4, WorkerOnly DEF AcpReturns, WorkerPc
<1>6. process' = process /\ run' = run
  BY DEF AcpReturns
<1>7. GoesOn(r)
  BY <1>1, <1>5, <1>6 DEF GoesOn, Started, MayWrite, IsRunning, ThreadAlive, ModeOf
<1>8. KeepsResult(r) /\ CountsSlots(r)
  BY <1>1, <1>4, <1>5 DEF KeepsResult, CountsSlots, Holding, Gone
<1> QED
  BY <1>5, <1>7, <1>8 DEF RunGoesOn

LEMMA ThreadSeesCancelMoves ==
    ASSUME Base, NEW r \in Run, ThreadSeesCancel(r)
    PROVE  RunGoesOn(r)
<1>1. /\ r \in Created /\ Pc(r) = "working" /\ ModeOf(r) = "thread"
      /\ cancelOp' \subseteq cancelOp /\ ending' = [ending EXCEPT ![Home(r)] = "failure"]
      /\ UNCHANGED <<run, registry, slots, process, watchdog, parent, told>>
  BY DEF ThreadSeesCancel, DrainsCancel, At
<1>2. Home(r) \in Run /\ worker[r].outcome \in Status \cup {"none", "unread"} /\ AgentOf(r) \in Agent
  BY <1>1, AtCreated DEF WorkerRecord
<1>3. WorkerGoes(r, "returned", worker[r].outcome)
  BY <1>1, GoesFact DEF ThreadSeesCancel, Base, WorkerPc
<1>4. /\ ending' \in [Run -> Outcome \cup {"empty"}]
      /\ \A h \in Run \ {Home(r)} : ending'[h] = ending[h]
  BY <1>1, <1>2, OnePart DEF Base, RunTypes, Outcome
<1>5. \/ result' = result
      \/ ~Cached(AgentOf(r)) /\ ResultBecomes(r, "cancelled")
  BY <1>1, PutFact DEF ThreadSeesCancel, Base, Status
<1>6. /\ result' \in [Agent -> Result]
      /\ \A a \in Agent \ {AgentOf(r)} : result'[a] = result[a]
      /\ result'[AgentOf(r)] = result[AgentOf(r)] \/ ~Cached(AgentOf(r))
      /\ Cached(AgentOf(r)) => result'[AgentOf(r)] = result[AgentOf(r)]
  BY <1>5 DEF ResultBecomes, Base, RunTypes
<1>7. RunTypes'
  BY <1>1, <1>3, <1>4, <1>6 DEF Base, RunTypes, WorkerGoes, Created
<1>8. OnlyRun(r)
  BY <1>1, <1>3, <1>4, <1>6 DEF OnlyRun, WorkerGoes
<1>9. Pc(r)' = "returned"
  BY <1>3 DEF Pc, WorkerGoes
<1>10. GoesOn(r)
  BY <1>1, <1>9 DEF GoesOn, Started, MayWrite, IsRunning, ThreadAlive, ModeOf
<1>11. KeepsResult(r) /\ CountsSlots(r) /\ Announces(r)
  BY <1>1, <1>6, <1>9 DEF KeepsResult, CountsSlots, Announces, Holding, Gone, Cached, AgentOf
<1> QED
  BY <1>7, <1>8, <1>10, <1>11 DEF RunGoesOn

LEMMA MonitorReturnsMoves ==
    ASSUME Base, NEW r \in Run, MonitorReturns(r)
    PROVE  RunGoesOn(r)
<1>1. /\ r \in Created /\ Pc(r) = "working" /\ process[r] \in {"zero", "nonzero"}
      /\ process' = [process EXCEPT ![r] = "gone"]
      /\ UNCHANGED <<run, registry, result, slots, ending, cancelOp, watchdog, parent, told>>
  BY DEF MonitorReturns, At
<1>2. PICK e \in Outcome : GoesWith(r, "read", e)
  BY DEF MonitorReturns, ExitOutcomes, Outcome
<1>3. WorkerGoes(r, "read", e) /\ e \in Status
  BY <1>1, <1>2, GoesWithFact DEF Base, WorkerPc, Status
<1>4. /\ process' \in [Run -> ProcessState] /\ process'[r] = "gone"
      /\ \A q \in Run \ {r} : process'[q] = process[q]
  BY <1>1, OnePart DEF Base, RunTypes, ProcessState
<1>5. RunTypes'
  BY <1>1, <1>3, <1>4 DEF Base, RunTypes, WorkerGoes, Created
<1>6. OnlyRun(r)
  BY <1>1, <1>3, <1>4 DEF OnlyRun, WorkerGoes
<1>7. Pc(r)' = "read" /\ worker'[r].outcome = e
  BY <1>3 DEF Pc, WorkerGoes
<1>8. GoesOn(r)
  BY <1>1, <1>3, <1>4, <1>7 DEF GoesOn, Started, MayWrite, IsRunning, ThreadAlive, ModeOf
<1>9. KeepsResult(r) /\ CountsSlots(r) /\ Announces(r)
  BY <1>1, <1>7 DEF KeepsResult, CountsSlots, Announces, Holding, Gone, Cached, AgentOf
<1> QED
  BY <1>5, <1>6, <1>8, <1>9 DEF RunGoesOn

LEMMA ReadOutcomeMoves ==
    ASSUME Base, NEW r \in Run, ReadOutcome(r)
    PROVE  RunGoesOn(r)
<1>1. r \in Created /\ Pc(r) = "returned"
  BY DEF ReadOutcome, At
<1>2. First(AgentOf(r)) \in Created
  BY <1>1, EntriesFact
<1> DEFINE e == ReadLog(First(AgentOf(r)))
<1>3. e \in Status
  BY <1>2, ReadLogFact DEF Base
<1>4. GoesWith(r, "read", e)
  BY DEF ReadOutcome
<1> HIDE DEF e
<1>5. WorkerGoes(r, "read", e)
  BY <1>3, <1>4, GoesWithFact DEF Base, WorkerPc
<1>6. ending' \in [Run -> Outcome \cup {"empty"}] /\ ending' = ending /\ slots' = slots
      /\ slots' \in Nat
  BY DEF ReadOutcome, Base, RunTypes
<1>7. /\ RunTypes' /\ OnlyRun(r) /\ Pc(r)' = "read" /\ worker'[r].outcome = e
      /\ Announces(r)
      /\ Cached(AgentOf(r))' = Cached(AgentOf(r)) /\ result'[AgentOf(r)] = result[AgentOf(r)]
  BY <1>1, <1>3, <1>5, <1>6, WorkerOnly DEF ReadOutcome, WorkerPc
<1>8. process' = process /\ run' = run
  BY DEF ReadOutcome
<1>9. GoesOn(r)
  BY <1>1, <1>3, <1>7, <1>8 DEF GoesOn, Started, MayWrite, IsRunning, ThreadAlive, ModeOf
<1>10. KeepsResult(r) /\ CountsSlots(r)
  BY <1>1, <1>6, <1>7 DEF KeepsResult, CountsSlots, Holding, Gone
<1> QED
  BY <1>7, <1>9, <1>10 DEF RunGoesOn

LEMMA ReadRaisesMoves ==
    ASSUME Base, NEW r \in Run, ReadRaises(r)
    PROVE  RunGoesOn(r)
<1>1. r \in Created /\ Pc(r) = "returned"
  BY DEF ReadRaises, At
<1>2. WorkerGoes(r, "leaving", "unread")
  BY <1>1, GoesWithFact DEF ReadRaises, Base, WorkerPc
<1>3. ending' \in [Run -> Outcome \cup {"empty"}] /\ ending' = ending /\ slots' = slots
      /\ slots' \in Nat
  BY DEF ReadRaises, Base, RunTypes
<1>4. /\ RunTypes' /\ OnlyRun(r) /\ Pc(r)' = "leaving" /\ worker'[r].outcome = "unread"
      /\ Announces(r)
      /\ Cached(AgentOf(r))' = Cached(AgentOf(r)) /\ result'[AgentOf(r)] = result[AgentOf(r)]
  BY <1>1, <1>2, <1>3, WorkerOnly DEF ReadRaises, WorkerPc
<1>5. process' = process /\ run' = run
  BY DEF ReadRaises
<1>6. GoesOn(r)
  BY <1>1, <1>4, <1>5 DEF GoesOn, Started, MayWrite, IsRunning, ThreadAlive, ModeOf
<1>7. KeepsResult(r) /\ CountsSlots(r)
  BY <1>1, <1>3, <1>4 DEF KeepsResult, CountsSlots, Holding, Unread, Pc
<1> QED
  BY <1>4, <1>6, <1>7 DEF RunGoesOn

LEMMA LoseRaceMoves ==
    ASSUME Base, NEW r \in Run, LoseRace(r)
    PROVE  RunGoesOn(r)
<1>1. r \in Created /\ Pc(r) = "read" /\ Cached(AgentOf(r))
  BY DEF LoseRace, At
<1>2. PICK pc \in {"reread", "leaving"} :
         GoesWith(r, pc, "none") /\ (pc = "reread" => run[r].resumed)
  BY DEF LoseRace, AfterRace
<1>3. WorkerGoes(r, pc, "none")
  BY <1>1, <1>2, GoesWithFact DEF Base, WorkerPc
<1>4. ending' \in [Run -> Outcome \cup {"empty"}] /\ ending' = ending /\ slots' = slots
      /\ slots' \in Nat
  BY DEF LoseRace, Base, RunTypes
<1>5. /\ RunTypes' /\ OnlyRun(r) /\ Pc(r)' = pc /\ Announces(r)
      /\ Cached(AgentOf(r))' = Cached(AgentOf(r)) /\ result'[AgentOf(r)] = result[AgentOf(r)]
  BY <1>1, <1>2, <1>3, <1>4, WorkerOnly DEF LoseRace, WorkerPc
<1>6. process' = process /\ run' = run
  BY DEF LoseRace
<1>7. GoesOn(r)
  BY <1>1, <1>2, <1>5, <1>6 DEF GoesOn, Started, MayWrite, IsRunning, ThreadAlive, ModeOf
<1>8. KeepsResult(r) /\ CountsSlots(r)
  BY <1>1, <1>2, <1>4, <1>5 DEF KeepsResult, CountsSlots, Holding
<1> QED
  BY <1>5, <1>7, <1>8 DEF RunGoesOn

LEMMA RereadsMoves ==
    ASSUME Base, NEW r \in Run, Rereads(r)
    PROVE  RunGoesOn(r)
<1>1. r \in Created /\ Pc(r) = "reread"
  BY DEF Rereads, At
<1>2. run[r].resumed /\ result[AgentOf(r)] \in Result
  BY <1>1, AtCreated DEF Base, Anchored
<1>3. PICK e \in Status : GoesWith(r, "rewrite", e)
  BY <1>2 DEF Rereads, Cached, Result, Status, Outcome
<1>4. WorkerGoes(r, "rewrite", e)
  BY <1>1, <1>3, GoesWithFact DEF Base, WorkerPc
<1>5. ending' \in [Run -> Outcome \cup {"empty"}] /\ ending' = ending /\ slots' = slots
      /\ slots' \in Nat
  BY DEF Rereads, Base, RunTypes
<1>6. /\ RunTypes' /\ OnlyRun(r) /\ Pc(r)' = "rewrite" /\ worker'[r].outcome = e
      /\ Announces(r)
      /\ Cached(AgentOf(r))' = Cached(AgentOf(r)) /\ result'[AgentOf(r)] = result[AgentOf(r)]
  BY <1>1, <1>2, <1>4, <1>5, WorkerOnly DEF Rereads, WorkerPc
<1>7. process' = process /\ run' = run
  BY DEF Rereads
<1>8. GoesOn(r)
  BY <1>1, <1>2, <1>6, <1>7 DEF GoesOn, Started, MayWrite, IsRunning, ThreadAlive, ModeOf
<1>9. KeepsResult(r) /\ CountsSlots(r)
  BY <1>1, <1>5, <1>6 DEF KeepsResult, CountsSlots, Holding, Gone, Unread
<1> QED
  BY <1>6, <1>8, <1>9 DEF RunGoesOn

LEMMA RewritesMoves ==
    ASSUME Base, NEW r \in Run, Rewrites(r)
    PROVE  RunGoesOn(r)
<1>1. /\ r \in Created /\ Pc(r) = "rewrite"
      /\ UNCHANGED <<run, registry, slots, process, ending, cancelOp, watchdog, parent, told>>
  BY DEF Rewrites, At
<1>2. worker[r].outcome \in Status /\ run[r].resumed
  BY <1>1 DEF Base, Anchored
<1>3. WorkerGoes(r, "leaving", "none")
  BY <1>1, GoesWithFact DEF Rewrites, Base, WorkerPc
<1>4. ResultBecomes(r, worker[r].outcome)
  BY <1>1, <1>2, PutFact DEF Rewrites, Base
<1>5. RunTypes'
  BY <1>1, <1>3, <1>4 DEF Base, RunTypes, WorkerGoes, ResultBecomes, Created
<1>6. OnlyRun(r)
  BY <1>1, <1>3, <1>4 DEF OnlyRun, WorkerGoes, ResultBecomes
<1>7. Pc(r)' = "leaving"
  BY <1>3 DEF Pc, WorkerGoes
<1>8. GoesOn(r)
  BY <1>1, <1>7 DEF GoesOn, Started, MayWrite, IsRunning, ThreadAlive, ModeOf
<1>9. Cached(AgentOf(r))'
  BY <1>1, <1>4 DEF Cached, ResultBecomes, AgentOf
<1>10. KeepsResult(r) /\ CountsSlots(r) /\ Announces(r)
  BY <1>1, <1>2, <1>7, <1>9 DEF KeepsResult, CountsSlots, Holding, Announces
<1> QED
  BY <1>5, <1>6, <1>8, <1>10 DEF RunGoesOn

LEMMA ReleaseSlotMoves ==
    ASSUME Base, NEW r \in Run, ReleaseSlot(r)
    PROVE  RunGoesOn(r)
<1>1. r \in Created /\ Pc(r) = "leaving" /\ slots' = slots + 1
  BY DEF ReleaseSlot, At
<1>2. WorkerGoes(r, "ended", worker[r].outcome) /\ worker[r].outcome \in Status \cup {"none", "unread"}
  BY <1>1, GoesFact, AtCreated DEF ReleaseSlot, Base, WorkerPc, WorkerRecord
<1>3. slots' \in Nat /\ ending' = ending /\ ending' \in [Run -> Outcome \cup {"empty"}]
  BY <1>1 DEF ReleaseSlot, Base, RunTypes
<1>4. /\ RunTypes' /\ OnlyRun(r) /\ Pc(r)' = "ended" /\ Announces(r)
      /\ worker'[r].outcome = worker[r].outcome
      /\ Cached(AgentOf(r))' = Cached(AgentOf(r)) /\ result'[AgentOf(r)] = result[AgentOf(r)]
  BY <1>1, <1>2, <1>3, WorkerOnly DEF ReleaseSlot, WorkerPc
<1>5. process' = process /\ run' = run
  BY DEF ReleaseSlot
<1>6. GoesOn(r)
  BY <1>1, <1>4, <1>5 DEF GoesOn, Started, MayWrite, IsRunning, ThreadAlive, ModeOf
<1>7. KeepsResult(r) /\ CountsSlots(r)
  BY <1>1, <1>4 DEF KeepsResult, CountsSlots, Holding, Gone, Unread, Pc
<1> QED
  BY <1>4, <1>6, <1>7 DEF RunGoesOn

LEMMA RecordOutcomeMoves ==
    ASSUME Base, NEW r \in Run, RecordOutcome(r)
    PROVE  RunGoesOn(r)
<1>1. /\ r \in Created /\ Pc(r) = "read"
      /\ UNCHANGED <<run, registry, slots, process, ending, cancelOp, watchdog, parent>>
      /\ told' = told \cup {[run |-> r, by |-> "worker", status |-> worker[r].outcome]}
  BY DEF RecordOutcome, At
<1>2. worker[r].outcome \in Status
  BY <1>1 DEF Base, Anchored
<1>3. PICK pc \in {"reread", "leaving"} :
         WorkerGoes(r, pc, "none") /\ (pc = "reread" => run[r].resumed)
  BY <1>1, GoesWithFact DEF RecordOutcome, AfterRace, Base, WorkerPc
<1>4. /\ PutResult(r, worker[r].outcome)
      /\ ~Cached(AgentOf(r)) \/ run[r].resumed
  BY DEF RecordOutcome, SetResultIfAbsent, Overwrites
<1>5. ResultBecomes(r, worker[r].outcome)
  BY <1>1, <1>2, <1>4, PutFact DEF Base
<1>6. [run |-> r, by |-> "worker", status |-> worker[r].outcome] \in Completion
  BY <1>2 DEF Completion, Announcer
<1>7. RunTypes'
  BY <1>1, <1>3, <1>5, <1>6 DEF Base, RunTypes, WorkerGoes, ResultBecomes, Created
<1>8. OnlyRun(r)
  BY <1>1, <1>3, <1>5 DEF OnlyRun, WorkerGoes, ResultBecomes
<1>9. Pc(r)' = pc
  BY <1>3 DEF Pc, WorkerGoes
<1>10. GoesOn(r)
  BY <1>1, <1>3, <1>9 DEF GoesOn, Started, MayWrite, IsRunning, ThreadAlive, ModeOf
<1>11. Cached(AgentOf(r))' /\ result'[AgentOf(r)].status = worker[r].outcome
  BY <1>1, <1>5 DEF Cached, ResultBecomes, AgentOf
<1>12. KeepsResult(r) /\ CountsSlots(r)
  BY <1>1, <1>3, <1>4, <1>9, <1>11 DEF KeepsResult, CountsSlots, Holding
<1>13. Announces(r)
  BY <1>1, <1>4, <1>11 DEF Announces
<1> QED
  BY <1>7, <1>8, <1>10, <1>12, <1>13 DEF RunGoesOn

-----------------------------------------------------------------------------
(* The child process, the watchdog and the parent.                         *)

\* The step that only ends a process, and perhaps the log it wrote.
LEMMA ProcessOnly ==
    ASSUME Base, NEW r \in Created, NEW state \in ProcessState \ {"none", "alive"},
           process[r] = "alive", process' = [process EXCEPT ![r] = state],
           ending' \in [Run -> Outcome \cup {"empty"}],
           \A h \in Run \ {Home(r)} : ending'[h] = ending[h],
           cancelOp' \subseteq Run \X {"file", "event"}, parent' \in ParentRecord,
           UNCHANGED <<run, registry, result, worker, slots, watchdog, told>>
    PROVE  RunGoesOn(r)
<1>1. r \in Run /\ Pc(r) # "none"
  BY AtCreated
<1>2. /\ process' \in [Run -> ProcessState] /\ process'[r] = state
      /\ \A q \in Run \ {r} : process'[q] = process[q]
  BY <1>1, OnePart DEF Base, RunTypes
<1>3. RunTypes'
  BY <1>2 DEF Base, RunTypes, Created
<1>4. OnlyRun(r)
  BY <1>2 DEF OnlyRun
<1>5. GoesOn(r)
  BY <1>1, <1>2 DEF GoesOn, Started, MayWrite, IsRunning, ThreadAlive, ModeOf, Pc, Base, Anchored
<1>6. KeepsResult(r) /\ CountsSlots(r) /\ Announces(r)
  BY DEF KeepsResult, CountsSlots, Announces, Holding, Gone, Unread, Cached, AgentOf, Pc
<1> QED
  BY <1>3, <1>4, <1>5, <1>6 DEF RunGoesOn

LEMMA MonitorKillsMoves ==
    ASSUME Base, NEW r \in Run, MonitorKills(r)
    PROVE  RunGoesOn(r)
<1>1. /\ r \in Created /\ process[r] = "alive"
      /\ process' = [process EXCEPT ![r] = "nonzero"]
      /\ UNCHANGED <<run, registry, result, worker, slots, ending, cancelOp,
                     watchdog, parent, told>>
  BY DEF MonitorKills, At, Killed
<1>2. "nonzero" \in ProcessState \ {"none", "alive"}
  BY DEF ProcessState
<1> QED
  BY <1>1, <1>2, ProcessOnly DEF Base, RunTypes

LEMMA ProcessExitsMoves ==
    ASSUME Base, NEW r \in Run, NEW code \in {"zero", "nonzero"}, NEW e \in Outcome,
           ProcessExits(r, code, e)
    PROVE  RunGoesOn(r)
<1>1. /\ r \in Created /\ process[r] = "alive"
      /\ process' = [process EXCEPT ![r] = code]
      /\ ending' = [ending EXCEPT ![Home(r)] = e]
      /\ UNCHANGED <<run, registry, result, worker, slots, cancelOp, watchdog, parent, told>>
  BY DEF ProcessExits
<1>2. code \in ProcessState \ {"none", "alive"} /\ Home(r) \in Run
  BY <1>1, AtCreated DEF ProcessState
<1>3. /\ ending' \in [Run -> Outcome \cup {"empty"}]
      /\ \A h \in Run \ {Home(r)} : ending'[h] = ending[h]
  BY <1>1, <1>2, OnePart DEF Base, RunTypes
<1> QED
  BY <1>1, <1>2, <1>3, ProcessOnly DEF Base, RunTypes

LEMMA ProcessSeesCancelMoves ==
    ASSUME Base, NEW r \in Run, ProcessSeesCancel(r)
    PROVE  RunGoesOn(r)
<1>1. /\ r \in Created /\ process[r] = "alive"
      /\ process' = [process EXCEPT ![r] = "zero"]
      /\ ending' = [ending EXCEPT ![Home(r)] = "failure"]
      /\ cancelOp' \subseteq cancelOp
      /\ UNCHANGED <<run, registry, result, worker, slots, watchdog, parent, told>>
  BY DEF ProcessSeesCancel, DrainsCancel
<1>2. "zero" \in ProcessState \ {"none", "alive"} /\ Home(r) \in Run
  BY <1>1, AtCreated DEF ProcessState
<1>3. /\ ending' \in [Run -> Outcome \cup {"empty"}]
      /\ \A h \in Run \ {Home(r)} : ending'[h] = ending[h]
  BY <1>1, <1>2, OnePart DEF Base, RunTypes, Outcome
<1> QED
  BY <1>1, <1>2, <1>3, ProcessOnly DEF Base, RunTypes

\* The step that leaves worker, log, process and slots alone: who is told and
\* what is cached is left to show.
LEMMA RaceOnly ==
    ASSUME Base, NEW r \in Created,
           result' = result \/ (~Cached(AgentOf(r)) /\ \E s \in Status : ResultBecomes(r, s)),
           watchdog' \in [Run -> WatchdogState],
           \A q \in Run \ {r} : watchdog'[q] = watchdog[q],
           told \subseteq told', told' \subseteq Completion,
           \A c \in told' : c \in told \/ c.run = r,
           parent' \in ParentRecord,
           UNCHANGED <<run, registry, worker, slots, ending, cancelOp>>,
           process' = process \/ process' = Killed(r),
           Announces(r)
    PROVE  RunGoesOn(r)
<1>1. r \in Run /\ Pc(r) # "none" /\ AgentOf(r) \in Agent
  BY AtCreated
<1>2. /\ process' \in [Run -> ProcessState]
      /\ \A q \in Run \ {r} : process'[q] = process[q]
      /\ process'[r] = process[r] \/ (process[r] = "alive" /\ process'[r] = "nonzero")
  BY <1>1, OnePart DEF Base, RunTypes, Killed, ProcessState
<1>3. /\ result' \in [Agent -> Result]
      /\ \A a \in Agent \ {AgentOf(r)} : result'[a] = result[a]
      /\ result'[AgentOf(r)] = result[AgentOf(r)] \/ ~Cached(AgentOf(r))
      /\ Cached(AgentOf(r)) => result'[AgentOf(r)] = result[AgentOf(r)]
  BY DEF ResultBecomes, Base, RunTypes
<1>4. RunTypes'
  BY <1>2, <1>3 DEF Base, RunTypes, Created
<1>5. OnlyRun(r)
  BY <1>2, <1>3 DEF OnlyRun
<1>6. GoesOn(r)
  BY <1>1, <1>2 DEF GoesOn, Started, MayWrite, IsRunning, ThreadAlive, ModeOf, Pc, Base, Anchored
<1>7. KeepsResult(r) /\ CountsSlots(r)
  BY <1>3 DEF KeepsResult, CountsSlots, Holding, Gone, Unread, Cached, AgentOf, Pc
<1> QED
  BY <1>4, <1>5, <1>6, <1>7 DEF RunGoesOn

LEMMA WatchdogChecksMoves ==
    ASSUME Base, NEW r \in Run, WatchdogChecks(r)
    PROVE  RunGoesOn(r)
<1>1. /\ r \in Created /\ watchdog' = [watchdog EXCEPT ![r] = "checked"]
      /\ UNCHANGED <<run, registry, result, worker, slots, process, ending,
                     cancelOp, parent, told>>
  BY DEF WatchdogChecks
<1>2. /\ watchdog' \in [Run -> WatchdogState] /\ watchdog'[r] = "checked"
      /\ \A q \in Run \ {r} : watchdog'[q] = watchdog[q]
  BY <1>1, OnePart DEF Base, RunTypes, WatchdogState
<1>3. Announces(r)
  BY <1>1, <1>2 DEF Announces
<1> QED
  BY <1>1, <1>2, <1>3, RaceOnly DEF Base, RunTypes

LEMMA WatchdogMarksMoves ==
    ASSUME Base, NEW r \in Run, WatchdogMarks(r)
    PROVE  RunGoesOn(r)
<1>1. /\ r \in Created
      /\ UNCHANGED <<run, registry, worker, slots, process, ending, cancelOp, parent, told>>
  BY DEF WatchdogMarks, Base, Anchored
<1>2. PICK w \in {"marked", "off"} :
         /\ watchdog' = [watchdog EXCEPT ![r] = w]
         /\ w = "marked" => SetResultIfAbsent(r, "timeout")
         /\ w = "off" => result' = result
  BY DEF WatchdogMarks
<1>3. /\ watchdog' \in [Run -> WatchdogState] /\ watchdog'[r] = w
      /\ \A q \in Run \ {r} : watchdog'[q] = watchdog[q]
  BY <1>2, OnePart DEF Base, RunTypes, WatchdogState
<1>4. w = "marked" => ~Cached(AgentOf(r)) /\ ResultBecomes(r, "timeout")
  BY <1>1, <1>2, PutFact DEF SetResultIfAbsent, Base, Status
<1>5. w = "marked" => Cached(AgentOf(r))' /\ result'[AgentOf(r)].status = "timeout"
  BY <1>1, <1>4 DEF Cached, ResultBecomes, AgentOf
<1>6. Announces(r)
  BY <1>1, <1>3, <1>4, <1>5 DEF Announces
<1>7. result' = result \/ (~Cached(AgentOf(r)) /\ \E s \in Status : ResultBecomes(r, s))
  BY <1>2, <1>4 DEF Status
<1> QED
  BY <1>1, <1>3, <1>6, <1>7, RaceOnly DEF Base, RunTypes

LEMMA WatchdogTellsMoves ==
    ASSUME Base, NEW r \in Run, WatchdogTells(r)
    PROVE  RunGoesOn(r)
<1> DEFINE c == [run |-> r, by |-> "watchdog", status |-> "timeout"]
<1>1. /\ r \in Created /\ watchdog[r] = "marked"
      /\ watchdog' = [watchdog EXCEPT ![r] = "off"] /\ process' = Killed(r)
      /\ told' = told \cup {c}
      /\ UNCHANGED <<run, registry, result, worker, slots, ending, cancelOp, parent>>
  BY DEF WatchdogTells, Base, Anchored
<1>2. c \in Completion /\ c.run = r
  BY DEF Completion, Announcer, Status
<1>3. /\ watchdog' \in [Run -> WatchdogState] /\ watchdog'[r] = "off"
      /\ \A q \in Run \ {r} : watchdog'[q] = watchdog[q]
  BY <1>1, OnePart DEF Base, RunTypes, WatchdogState
<1>4. Announces(r)
  BY <1>1, <1>3 DEF Announces
<1>5. told \subseteq told' /\ told' \subseteq Completion /\ \A d \in told' : d \in told \/ d.run = r
  BY <1>1, <1>2 DEF Base, RunTypes
<1> HIDE DEF c
<1> QED
  BY <1>1, <1>3, <1>4, <1>5, RaceOnly DEF Base, RunTypes

LEMMA RunMovesIsMove ==
    ASSUME Base, NEW r \in Run, RunMoves(r)
    PROVE  RunGoesOn(r)
  BY SkipQueuedMoves, BeginWorkMoves, LaunchMoves, WorkRaisesMoves, ChatReturnsMoves,
     AcpReturnsMoves, ThreadSeesCancelMoves, MonitorKillsMoves, MonitorReturnsMoves,
     ReadOutcomeMoves, ReadRaisesMoves, LoseRaceMoves, RereadsMoves, RewritesMoves,
     ProcessExitsMoves, ProcessSeesCancelMoves,
     WatchdogChecksMoves, WatchdogMarksMoves, RecordOutcomeMoves, WatchdogTellsMoves,
     ReleaseSlotMoves
  DEF RunMoves, RunNext, WorkNext, ChildNext, AfterNotice

\* No run moves; a reply that fails may shorten the registry.
RunsStill ==
    /\ RunTypes'
    /\ UNCHANGED <<run, result, worker, slots, process, ending, watchdog, told>>
    /\ registry' \subseteq registry /\ (Registered => Registered')
    /\ registry' = registry \/ ~parent'.left

Points == /\ parent.pc # "idle" => parent.run \in Created
          /\ parent.todo \subseteq Created

LEMMA ParentFields ==
    ASSUME NEW p \in ParentRecord, NEW r \in Run \cup {0}, NEW pc \in {"idle", "control", "terminate"},
           NEW todo \in SUBSET Run, NEW left \in BOOLEAN
    PROVE  /\ [p EXCEPT !.pc = pc, !.run = r] \in ParentRecord
           /\ [p EXCEPT !.pc = pc] \in ParentRecord
           /\ [p EXCEPT !.todo = todo] \in ParentRecord
           /\ [p EXCEPT !.left = left, !.todo = todo] \in ParentRecord
           /\ p.pc \in {"idle", "control", "terminate"} /\ p.todo \subseteq Run
  BY DEF ParentRecord

LEMMA TodoField ==
    ASSUME NEW p \in ParentRecord, NEW todo \in SUBSET Run
    PROVE  /\ [p EXCEPT !.todo = todo] \in ParentRecord
           /\ [p EXCEPT !.todo = todo].pc = p.pc
           /\ [p EXCEPT !.todo = todo].run = p.run
           /\ [p EXCEPT !.todo = todo].todo = todo
  BY DEF ParentRecord

\* A cancellation that finds no result.
LEMMA MarkMoves ==
    ASSUME Base, NEW r \in Created, ~Cached(AgentOf(r)), PutResult(r, "cancelled"),
           parent' \in ParentRecord,
           UNCHANGED <<run, registry, worker, slots, process, ending, cancelOp, watchdog, told>>
    PROVE  RunGoesOn(r)
<1>1. ResultBecomes(r, "cancelled") /\ "cancelled" \in Status
  BY PutFact DEF Base, Status
<1>2. Announces(r)
  BY DEF Announces
<1> QED
  BY <1>1, <1>2, RaceOnly DEF Base, RunTypes

LEMMA CancelMoves ==
    ASSUME Base, NEW a \in Agent, Cancel(a)
    PROVE  (\E r \in Created : RunGoesOn(r)) /\ Points'
<1> DEFINE r == Newest(a)
<1>1. r \in Created /\ AgentOf(r) = a
  BY NewestFact DEF Cancel
<1>2. r \in Run
  BY <1>1, AtCreated
<1>3. /\ ~Cached(AgentOf(r)) /\ PutResult(r, "cancelled")
      /\ parent' = IF Cooperative(r)
                   THEN [parent EXCEPT !.pc = "control", !.run = r] ELSE parent
      /\ UNCHANGED <<run, registry, worker, slots, process, ending, cancelOp, watchdog, told>>
  BY DEF Cancel, CancelMarks, SetResultIfAbsent
<1> HIDE DEF r
<1>4. parent \in ParentRecord /\ Points
  BY DEF Base, RunTypes, Anchored, Points
<1>5. parent' \in ParentRecord
  BY <1>2, <1>3, <1>4, ParentFields
<1>6. Points'
  BY <1>1, <1>3, <1>4 DEF Points, Created, ParentRecord
<1> QED
  BY <1>1, <1>3, <1>5, <1>6, MarkMoves

LEMMA ControlMoves ==
    ASSUME Base, CancelWritesControl
    PROVE  RunsStill /\ Points'
<1>1. /\ parent.pc = "control"
      /\ cancelOp' \subseteq cancelOp \cup {<<Home(parent.run), "file">>, <<parent.run, "event">>}
      /\ parent' = IF ModeOf(parent.run) = "subprocess"
                   THEN [parent EXCEPT !.pc = "terminate"]
                   ELSE [parent EXCEPT !.pc = "idle", !.run = 0]
      /\ UNCHANGED <<run, registry, result, worker, slots, process, ending, watchdog, told>>
  BY DEF CancelWritesControl
<1>2. parent \in ParentRecord /\ Points
  BY DEF Base, RunTypes, Anchored, Points
<1>3. Home(parent.run) \in Run /\ parent.run \in Run
  BY <1>1, <1>2, AtCreated DEF Points
<1>4. parent' \in ParentRecord
  BY <1>1, <1>2, ParentFields
<1>5. Points'
  BY <1>1, <1>2 DEF Points, Created, ParentRecord
<1>6. RunTypes'
  BY <1>1, <1>3, <1>4 DEF Base, RunTypes, Created
<1> QED
  BY <1>1, <1>5, <1>6 DEF RunsStill, Registered, Created, AgentOf

LEMMA TerminateMoves ==
    ASSUME Base, CancelTerminates
    PROVE  (\E r \in Created : RunGoesOn(r)) /\ Points'
<1>1. /\ parent.pc = "terminate" /\ process' = Killed(parent.run)
      /\ parent' = [parent EXCEPT !.pc = "idle", !.run = 0]
      /\ UNCHANGED <<run, registry, result, worker, slots, ending, cancelOp, watchdog, told>>
  BY DEF CancelTerminates
<1>2. parent \in ParentRecord /\ Points
  BY DEF Base, RunTypes, Anchored, Points
<1>3. parent.run \in Created
  BY <1>1, <1>2 DEF Points
<1>4. parent' \in ParentRecord
  BY <1>1, <1>2, ParentFields
<1>5. Points'
  BY <1>1, <1>2 DEF Points, Created, ParentRecord
<1>6. Announces(parent.run)
  BY <1>1 DEF Announces
<1>7. RunGoesOn(parent.run)
  BY <1>1, <1>3, <1>4, <1>6, RaceOnly DEF Base, RunTypes
<1> QED
  BY <1>3, <1>5, <1>7

LEMMA EndSessionMoves ==
    ASSUME Base, EndSession
    PROVE  RunsStill /\ Points'
<1>1. /\ parent' = [parent EXCEPT !.left = TRUE, !.todo = registry]
      /\ UNCHANGED <<run, registry, result, worker, slots, process, ending,
                     cancelOp, watchdog, told>>
  BY DEF EndSession
<1>2. parent \in ParentRecord /\ Points /\ registry \in SUBSET Run /\ registry \subseteq Created
  BY CreatedIsRun DEF Base, RunTypes, Anchored, Points
<1>3. parent' \in ParentRecord
  BY <1>1, <1>2, ParentFields
<1>4. Points'
  BY <1>1, <1>2 DEF Points, Created, ParentRecord
<1>5. RunTypes'
  BY <1>1, <1>3 DEF Base, RunTypes, Created
<1> QED
  BY <1>1, <1>4, <1>5 DEF RunsStill, Registered, Created, AgentOf

\* The run the hook visits, and the one it stands for.
LEMMA Visited ==
    ASSUME Base, EndSessionVisits, NEW r, r = Min(parent.todo)
    PROVE  /\ r \in parent.todo /\ r \in Created
           /\ Newest(AgentOf(r)) \in Created
           /\ AgentOf(Newest(AgentOf(r))) = AgentOf(r)
<1>1. parent.todo # {} /\ parent.todo \in SUBSET Created /\ parent.todo \in SUBSET Nat
  BY CreatedIsRun DEF EndSessionVisits, Base, Anchored
<1>2. r \in parent.todo
  BY <1>1, MinFact
<1>3. r \in Created
  BY <1>1, <1>2
<1>4. Entries(AgentOf(r)) # {}
  BY <1>3, EntriesFact
<1> QED
  BY <1>2, <1>3, <1>4, NewestFact

LEMMA VisitsMoves ==
    ASSUME Base, EndSessionVisits
    PROVE  (RunsStill \/ \E r \in Created : RunGoesOn(r)) /\ Points'
<1> DEFINE r == Min(parent.todo)
           sa == Newest(AgentOf(r))
           rest == [parent EXCEPT !.todo = @ \ {r}]
<1>1. /\ IF NeedsCancel(r) /\ IsRunning(sa)
         THEN /\ PutResult(sa, "cancelled")
              /\ parent' = IF Cooperative(sa)
                           THEN [rest EXCEPT !.pc = "control", !.run = sa]
                           ELSE rest
         ELSE parent' = rest /\ UNCHANGED result
      /\ UNCHANGED <<run, registry, worker, slots, process, ending, cancelOp, watchdog, told>>
  BY DEF EndSessionVisits
<1>2. r \in Created /\ sa \in Created /\ AgentOf(sa) = AgentOf(r)
  BY Visited
<1>3. parent \in ParentRecord /\ Points /\ sa \in Run
  BY <1>2, AtCreated DEF Base, RunTypes, Anchored, Points
<1>4. parent.todo \ {r} \in SUBSET Run
  BY <1>3, ParentFields, CreatedIsRun DEF Points, Base
<1>5. /\ rest \in ParentRecord /\ rest.pc = parent.pc /\ rest.run = parent.run
      /\ rest.todo = parent.todo \ {r}
  BY <1>3, <1>4, TodoField
<1> HIDE DEF r, sa, rest
<1>6. [rest EXCEPT !.pc = "control", !.run = sa] \in ParentRecord
  BY <1>3, <1>5, ParentFields
<1>7. parent' \in ParentRecord
  BY <1>1, <1>5, <1>6
<1>8. Points'
  <2>1. [rest EXCEPT !.pc = "control", !.run = sa].run = sa
        /\ [rest EXCEPT !.pc = "control", !.run = sa].todo = rest.todo
    BY <1>5 DEF ParentRecord
  <2>2. Created' = Created
    BY <1>1 DEF Created
  <2> QED
    BY <1>1, <1>2, <1>3, <1>5, <2>1, <2>2 DEF Points
<1>9. CASE NeedsCancel(r) /\ IsRunning(sa)
  <2>1. ~Cached(AgentOf(sa)) /\ PutResult(sa, "cancelled")
    BY <1>1, <1>2, <1>9 DEF NeedsCancel
  <2>2. RunGoesOn(sa)
    BY <1>1, <1>2, <1>7, <2>1, MarkMoves
  <2> QED
    BY <1>2, <1>8, <2>2
<1>10. CASE ~(NeedsCancel(r) /\ IsRunning(sa))
  <2>1. RunTypes'
    BY <1>1, <1>7, <1>10 DEF Base, RunTypes, Created
  <2> QED
    BY <1>1, <1>8, <1>10, <2>1 DEF RunsStill, Registered, Created, AgentOf
<1> QED
  BY <1>9, <1>10

\* The registry a reply leaves that could not spawn.
LEMMA ReplyFailsStill ==
    ASSUME Base, NEW a \in Agent, ReplyFails(a)
    PROVE  RunsStill /\ Points'
<1>1. /\ Entries(a) # {} /\ ~parent.left
      /\ registry' = (registry \ Entries(a)) \cup {Newest(a)}
      /\ UNCHANGED <<run, result, worker, slots, process, ending, cancelOp,
                     watchdog, parent, told>>
  BY DEF ReplyFails, MayReply, ParentIdle
<1>2. /\ Newest(a) \in registry /\ AgentOf(Newest(a)) = a
      /\ \A r \in Entries(a) : r <= Newest(a)
      /\ Newest(a) \in Nat /\ Created \in SUBSET Nat /\ registry \subseteq Created
  BY <1>1, NewestFact, CreatedIsRun DEF Base, RunTypes
<1>3. Created' = Created /\ \A q \in Created : AgentOf(q)' = AgentOf(q)
  BY <1>1 DEF Created, AgentOf
<1>4. registry' \subseteq registry
  BY <1>1, <1>2
<1>5. Registered'
  <2> SUFFICES ASSUME NEW q \in Created
               PROVE  \E r \in registry' : AgentOf(r) = AgentOf(q) /\ q <= r
    BY <1>2, <1>3, <1>4 DEF Registered
  <2>1. PICK r \in registry : AgentOf(r) = AgentOf(q) /\ q <= r
    BY DEF Base, Registered
  <2>2. CASE AgentOf(q) = a
    BY <1>1, <1>2, <2>1, <2>2 DEF Entries
  <2>3. CASE AgentOf(q) # a
    BY <1>1, <2>1, <2>3 DEF Entries
  <2> QED
    BY <2>2, <2>3
<1>6. RunTypes' /\ Points'
  BY <1>1, <1>3, <1>4 DEF Base, RunTypes, Anchored, Points
<1> QED
  BY <1>1, <1>4, <1>5, <1>6 DEF RunsStill

-----------------------------------------------------------------------------
(* Every step creates a run, moves one, or leaves them all alone.          *)

LEMMA RunMovesPoints ==
    ASSUME Base, NEW r \in Run, RunMoves(r)
    PROVE  parent' = parent
  BY DEF RunMoves, RunNext, WorkNext, ChildNext, SkipQueued, BeginWork, Launch, WorkRaises,
     ChatReturns, AcpReturns, ThreadSeesCancel, MonitorKills, MonitorReturns, ReadOutcome,
     ReadRaises, LoseRace, AfterNotice, Rereads, Rewrites, ProcessExits, ProcessSeesCancel, WatchdogChecks, WatchdogMarks,
     RecordOutcome, WatchdogTells, ReleaseSlot

SomeMoves == \E r \in Created : RunGoesOn(r)

LEMMA Cases ==
    ASSUME Base, [RunsNext]_runVars
    PROVE  \/ \E record, entries : Creates(record, entries)
           \/ SomeMoves /\ Points'
           \/ RunsStill /\ Points'
<1>1. CASE RunsNext
  <2>1. ASSUME ParentMoves
        PROVE  (SomeMoves \/ RunsStill) /\ Points'
    BY <2>1, CancelMoves, ControlMoves, TerminateMoves, EndSessionMoves, VisitsMoves
    DEF ParentMoves, SomeMoves
  <2>2. ASSUME NEW r \in Run, RunMoves(r)
        PROVE  SomeMoves /\ Points'
    <3>1. RunGoesOn(r) /\ parent' = parent
      BY <2>2, RunMovesIsMove, RunMovesPoints
    <3>2. r \in Created /\ run' = run
      BY <3>1 DEF RunGoesOn, OnlyRun
    <3> QED
      BY <3>1, <3>2 DEF SomeMoves, Points, Base, Anchored, Created
  <2> QED
    BY <1>1, <2>1, <2>2, Steps, ReplyFailsStill
<1>2. CASE UNCHANGED runVars
  <2>1. UNCHANGED <<run, registry, result, worker, slots, process, ending, cancelOp,
                    watchdog, parent, told>>
    BY <1>2 DEF runVars
  <2>2. RunTypes' /\ Points'
    BY <2>1 DEF Base, RunTypes, Anchored, Points, Created
  <2> QED
    BY <2>1, <2>2 DEF RunsStill, Registered, Created, AgentOf
<1> QED
  BY <1>1, <1>2

LEMMA MoveKeepsBase ==
    ASSUME Base, NEW r \in Created, RunGoesOn(r), Points'
    PROVE  Base'
<1>1. /\ UNCHANGED <<run, registry>> /\ RunTypes'
      /\ \A q \in Run \ {r} : /\ worker'[q] = worker[q] /\ process'[q] = process[q]
                              /\ watchdog'[q] = watchdog[q]
      /\ \A c \in told' : c \in told \/ c.run = r
      /\ Pc(r)' # "none"
      /\ Pc(r)' \in {"read", "rewrite"} => worker'[r].outcome \in Status
      /\ Pc(r)' \in {"reread", "rewrite"} => run[r].resumed
  BY DEF RunGoesOn, OnlyRun, GoesOn
<1>2. Created' = Created /\ \A q \in Created : Home(q)' = Home(q) /\ AgentOf(q)' = AgentOf(q)
  BY <1>1 DEF Created, Home, AgentOf
<1>3. Registered'
  BY <1>1, <1>2 DEF Base, Registered, AgentOf, Created
<1>4. Anchored'
  <2>1. \A q \in Run : Pc(q)' # "none" <=> q \in Created
    BY <1>1 DEF Base, Anchored, Pc
  <2>2. \A q \in Run : (process'[q] # "none" \/ watchdog'[q] # "off") => q \in Created
    BY <1>1 DEF Base, Anchored
  <2>3. \A q \in Run : /\ Pc(q)' \in {"read", "rewrite"} => worker'[q].outcome \in Status
                       /\ Pc(q)' \in {"reread", "rewrite"} => run'[q].resumed
    BY <1>1, <1>2 DEF Base, Anchored, Pc
  <2>4. \A c \in told' : c.run \in Created
    BY <1>1 DEF Base, Anchored
  <2>5. \A q \in Created : run'[q].home \in Created
    BY <1>1 DEF Base, Anchored, Home
  <2> QED
    BY <1>2, <2>1, <2>2, <2>3, <2>4, <2>5, Zenon DEF Anchored, Pc, Points, Home
<1> QED
  BY <1>1, <1>3, <1>4 DEF Base

LEMMA StillKeepsBase ==
    ASSUME Base, RunsStill, Points'
    PROVE  Base'
<1>1. /\ RunTypes' /\ Registered'
      /\ UNCHANGED <<run, worker, process, watchdog, told>>
  BY DEF RunsStill, Base
<1>2. Anchored'
  BY <1>1 DEF Base, Anchored, Points, Pc, Home, Created
<1> QED
  BY <1>1, <1>2 DEF Base

LEMMA BaseStep ==
    ASSUME Base, [RunsNext]_runVars
    PROVE  Base'
  BY Cases, CreateKeepsBase, MoveKeepsBase, StillKeepsBase DEF SomeMoves

LEMMA BaseInit == RunsInit => Base
<1> SUFFICES ASSUME RunsInit PROVE Base
  OBVIOUS
<1>1. /\ run = <<>> /\ registry = {} /\ result = [a \in Agent |-> NoResult]
      /\ worker = [r \in Run |-> [pc |-> "none", outcome |-> "none"]]
      /\ slots = MaxConcurrent /\ process = [r \in Run |-> "none"]
      /\ ending = [r \in Run |-> "empty"] /\ cancelOp = {}
      /\ watchdog = [r \in Run |-> "off"] /\ parent = IdleParent /\ told = {}
  BY DEF RunsInit
<1>2. Created = {} /\ run \in Seq(RunRecord) /\ Len(run) <= MaxRuns
  BY <1>1, RunAssumption DEF Created
<1>3. RunTypes
  <2>1. [pc |-> "none", outcome |-> "none"] \in WorkerRecord
    BY DEF WorkerRecord, WorkerPc
  <2>2. IdleParent \in ParentRecord
    BY DEF IdleParent, ParentRecord
  <2>3. NoResult \in Result
    BY DEF Result
  <2> QED
    BY <1>1, <1>2, <2>1, <2>2, <2>3, RunAssumption DEF RunTypes, ProcessState, WatchdogState
<1>4. Anchored
  BY <1>1, <1>2 DEF Anchored, Pc, IdleParent
<1>5. Registered
  BY <1>2 DEF Registered
<1> QED
  BY <1>3, <1>4, <1>5 DEF Base

-----------------------------------------------------------------------------
(* One writer for a conversation.                                          *)

\* The runs of one log are runs of one id; only the last of them is in the
\* registry and may write.  A continuation has one before it.
Lineage ==
    /\ \A r \in Created : Started(r)
    /\ \A q, r \in Created : Home(q) = Home(r) => AgentOf(q) = AgentOf(r)
    /\ \A q, r \in Created : q < r /\ Home(q) = Home(r) => q \notin registry /\ ~MayWrite(q)
    /\ \A r \in Created : run[r].resumed =>
          \E q \in Created : q # r /\ AgentOf(q) = AgentOf(r)

LEMMA IdleRunDoesNotWrite ==
    ASSUME Base, Lineage, NEW q \in Created, ~IsRunning(q)
    PROVE  ~MayWrite(q)
<1>1. Pc(q) # "none" /\ ModeOf(q) \in ExecutionMode /\ Started(q)
  BY AtCreated, CreatedIsRun DEF Base, Lineage
<1> QED
  BY <1>1 DEF MayWrite, IsRunning, ThreadAlive, Started

LEMMA CreateKeepsLineage ==
    ASSUME Base, Lineage, NEW record, NEW entries, Creates(record, entries)
    PROVE  Lineage'
<1>0. PICK n : n = Len(run) + 1
  OBVIOUS
<1>1. /\ n \in Run /\ n \notin Created /\ Created' = Created \cup {n}
      /\ \A q \in Created : q < n
      /\ run'[n] = record /\ \A q \in Created : run'[q] = run[q]
      /\ registry' = entries \cup {n} /\ entries \in SUBSET registry
      /\ worker' = [worker EXCEPT ![n].pc = "queued"]
      /\ process' = process
  BY <1>0, CreateFacts
<1>2. n \in Nat /\ \A q \in Created : q \in Nat /\ ~(n < q)
  BY <1>1, CreatedIsRun DEF Base, Run
<1>3. \/ record.home = n /\ ~record.resumed
      \/ /\ Entries(record.agent) # {}
         /\ entries = registry \ Entries(record.agent)
         /\ ~IsRunning(Newest(record.agent))
         /\ record.home = Home(Newest(record.agent))
         /\ record.resumed
  BY <1>0 DEF Creates, IsNew
<1>4. \A q \in Created : Home(q)' = Home(q) /\ AgentOf(q)' = AgentOf(q) /\ ModeOf(q)' = ModeOf(q)
  BY <1>1 DEF Home, AgentOf, ModeOf
<1>5. Home(n)' = record.home /\ AgentOf(n)' = record.agent
  BY <1>1 DEF Home, AgentOf
<1>6. \A q \in Created : worker'[q] = worker[q]
  BY <1>1 DEF Base, RunTypes
<1>7. \A q \in Created : (MayWrite(q)' <=> MayWrite(q)) /\ (Started(q)' <=> Started(q))
  BY <1>1, <1>4, <1>6 DEF MayWrite, Started, Pc, ModeOf
<1>8. \A r \in Created' : Started(r)'
  <2>1. process[n] = "none"
    BY <1>1 DEF Base, Anchored
  <2> QED
    BY <1>1, <1>7, <2>1 DEF Lineage, Started
\* What the new run shares with an older one.
<1>9. \A q \in Created : Home(q) = record.home =>
        /\ AgentOf(q) = record.agent /\ q \notin registry' /\ ~MayWrite(q)
  <2> SUFFICES ASSUME NEW q \in Created, Home(q) = record.home
               PROVE  AgentOf(q) = record.agent /\ q \notin registry' /\ ~MayWrite(q)
    OBVIOUS
  <2>1. Home(q) \in Created
    BY DEF Base, Anchored
  <2>2. /\ Entries(record.agent) # {} /\ entries = registry \ Entries(record.agent)
        /\ ~IsRunning(Newest(record.agent)) /\ record.home = Home(Newest(record.agent))
    BY <1>1, <1>3, <2>1
  <2> DEFINE m == Newest(record.agent)
  <2>3. m \in Created /\ m \in registry /\ AgentOf(m) = record.agent
    BY <2>2, NewestFact
  <2>4. ~IsRunning(m) /\ Home(m) = Home(q)
    BY <2>2
  <2> HIDE DEF m
  <2>5. AgentOf(q) = record.agent
    BY <2>3, <2>4 DEF Lineage
  <2>6. CASE q = m
    <3>1. ~MayWrite(q)
      BY <2>4, <2>6, IdleRunDoesNotWrite
    <3>2. q \in Entries(record.agent)
      BY <2>3, <2>6 DEF Entries
    <3> QED
      BY <1>1, <2>2, <2>5, <3>1, <3>2
  <2>7. CASE q # m
    <3>1. ~(m < q)
      BY <2>3, <2>4 DEF Lineage
    <3>2. q < m
      BY <1>2, <2>3, <2>7, <3>1
    <3>3. q \notin registry /\ ~MayWrite(q)
      BY <2>3, <2>4, <3>2 DEF Lineage
    <3> QED
      BY <1>1, <2>5, <3>3
  <2> QED
    BY <2>6, <2>7
<1>10. \A q, r \in Created' : Home(q)' = Home(r)' => AgentOf(q)' = AgentOf(r)'
  BY <1>1, <1>4, <1>5, <1>9 DEF Lineage
<1>11. \A q, r \in Created' : q < r /\ Home(q)' = Home(r)' => q \notin registry' /\ ~MayWrite(q)'
  <2> SUFFICES ASSUME NEW q \in Created', NEW r \in Created', q < r, Home(q)' = Home(r)'
               PROVE  q \notin registry' /\ ~MayWrite(q)'
    OBVIOUS
  <2>1. q \in Created
    BY <1>1, <1>2
  <2>2. CASE r = n
    BY <1>4, <1>5, <1>7, <1>9, <2>1, <2>2
  <2>3. CASE r \in Created
    BY <1>1, <1>4, <1>7, <2>1, <2>3 DEF Lineage
  <2> QED
    BY <1>1, <2>2, <2>3
<1>12. \A r \in Created' : run'[r].resumed =>
         \E q \in Created' : q # r /\ AgentOf(q)' = AgentOf(r)'
  <2>1. ASSUME record.resumed
        PROVE  \E q \in Created : AgentOf(q) = record.agent
    BY <1>3, <2>1, NewestFact
  <2> QED
    BY <1>1, <1>4, <1>5, <2>1 DEF Lineage
<1> QED
  BY <1>8, <1>10, <1>11, <1>12 DEF Lineage

LEMMA MoveKeepsLineage ==
    ASSUME Base, Lineage, NEW r \in Created, RunGoesOn(r)
    PROVE  Lineage'
<1>1. /\ UNCHANGED <<run, registry>>
      /\ \A q \in Run \ {r} : worker'[q] = worker[q] /\ process'[q] = process[q]
      /\ Started(r)' /\ (MayWrite(r)' => MayWrite(r))
  BY DEF RunGoesOn, OnlyRun, GoesOn, Lineage
<1>2. Created' = Created
  BY <1>1 DEF Created
<1>3. \A q \in Created : Home(q)' = Home(q) /\ AgentOf(q)' = AgentOf(q) /\ ModeOf(q)' = ModeOf(q)
  BY <1>1 DEF Home, AgentOf, ModeOf
<1>4. \A q \in Created : q \in Run
  BY AtCreated
<1>5. \A q \in Created : Started(q)' /\ (MayWrite(q)' => MayWrite(q))
  BY <1>1, <1>3, <1>4 DEF Started, MayWrite, Pc, Lineage
<1> QED
  BY <1>1, <1>2, <1>3, <1>5 DEF Lineage

LEMMA StillKeepsLineage ==
    ASSUME Base, Lineage, RunsStill
    PROVE  Lineage'
<1>1. UNCHANGED <<run, worker, process>> /\ registry' \subseteq registry
  BY DEF RunsStill
<1> QED
  BY <1>1 DEF Lineage, Created, Home, AgentOf, ModeOf, Started, MayWrite, Pc

LEMMA LineageStep ==
    ASSUME Base, Lineage, [RunsNext]_runVars
    PROVE  Lineage'
  BY Cases, CreateKeepsLineage, MoveKeepsLineage, StillKeepsLineage DEF SomeMoves

-----------------------------------------------------------------------------
(* Results.                                                                *)

\* The last run of an id does not leave without a result, unless its log could
\* not be read.
LastHasResult ==
    \A r \in Created :
        Pc(r) \in Gone /\ (\A q \in Created : AgentOf(q) = AgentOf(r) => q <= r)
            => Cached(AgentOf(r)) \/ Unread(r)

LEMMA CreateKeepsLast ==
    ASSUME Base, LastHasResult, NEW record, NEW entries, Creates(record, entries)
    PROVE  LastHasResult'
<1>0. PICK n : n = Len(run) + 1
  OBVIOUS
<1>1. /\ n \in Run /\ n \notin Created /\ Created' = Created \cup {n}
      /\ \A q \in Created : q < n
      /\ run'[n] = record /\ \A q \in Created : run'[q] = run[q]
      /\ result' = [result EXCEPT ![record.agent] = NoResult]
      /\ worker' = [worker EXCEPT ![n].pc = "queued"]
  BY <1>0, CreateFacts
<1>2. n \in Nat /\ \A q \in Created : q \in Nat /\ AgentOf(q) \in Agent
  BY <1>1, CreatedIsRun DEF Base, Run
<1>3. \A q \in Created : worker'[q] = worker[q]
  BY <1>1 DEF Base, RunTypes
<1>4. worker'[n].pc = "queued"
  BY <1>1 DEF Base, RunTypes, WorkerRecord
<1> SUFFICES ASSUME NEW r \in Created', worker'[r].pc \in Gone,
                    \A q \in Created' : run'[q].agent = run'[r].agent => q <= r
             PROVE  result'[run'[r].agent] # NoResult \/ Unread(r)'
  BY DEF LastHasResult, Pc, AgentOf, Cached
<1>5. r \in Created
  BY <1>1, <1>4 DEF Gone
<1>6. record.agent # AgentOf(r)
  BY <1>1, <1>2, <1>5 DEF AgentOf
<1>7. \A q \in Created : AgentOf(q) = AgentOf(r) => q <= r
  BY <1>1, <1>5 DEF AgentOf
<1>8. Cached(AgentOf(r)) \/ Unread(r)'
  BY <1>3, <1>5, <1>7 DEF LastHasResult, Unread, Pc
<1> QED
  BY <1>1, <1>2, <1>5, <1>6, <1>8 DEF Cached, AgentOf, Base, RunTypes

\* What the others keep when run m moves.
LEMMA OthersStay ==
    ASSUME Base, NEW m \in Created, RunGoesOn(m)
    PROVE  /\ Created' = Created
           /\ \A r \in Created : /\ AgentOf(r)' = AgentOf(r) /\ Home(r)' = Home(r)
                                 /\ ModeOf(r)' = ModeOf(r) /\ run'[r] = run[r]
           /\ \A r \in Created \ {m} : worker'[r] = worker[r] /\ watchdog'[r] = watchdog[r]
           /\ \A r \in Created : AgentOf(r) # AgentOf(m) =>
                result'[AgentOf(r)] = result[AgentOf(r)]
           /\ \A r \in Created \ {m} : Completions(r)' = Completions(r)
           /\ \A r \in Created : Cached(AgentOf(r)) => Cached(AgentOf(r))'
           /\ \A r \in Created : Sole(r)' <=> Sole(r)
<1>1. /\ UNCHANGED <<run, registry>>
      /\ \A q \in Run \ {m} : worker'[q] = worker[q] /\ watchdog'[q] = watchdog[q]
      /\ \A a \in Agent \ {AgentOf(m)} : result'[a] = result[a]
      /\ told \subseteq told' /\ \A c \in told' : c \in told \/ c.run = m
      /\ Cached(AgentOf(m)) => Cached(AgentOf(m))'
  BY DEF RunGoesOn, OnlyRun, KeepsResult
<1>2. \A q \in Created : q \in Run /\ AgentOf(q) \in Agent
  BY AtCreated
<1>3. /\ Created' = Created
      /\ \A r \in Created : /\ AgentOf(r)' = AgentOf(r) /\ Home(r)' = Home(r)
                            /\ ModeOf(r)' = ModeOf(r) /\ run'[r] = run[r]
  BY <1>1 DEF Created, AgentOf, Home, ModeOf
<1>4. \A r \in Created \ {m} : Completions(r)' = Completions(r)
  BY <1>1 DEF Completions
<1>5. \A r \in Created : Cached(AgentOf(r)) => Cached(AgentOf(r))'
  BY <1>1, <1>2, <1>3 DEF Cached
<1>6. \A r \in Created : Sole(r)' <=> Sole(r)
  BY <1>3 DEF Sole
<1>7. \A r \in Created \ {m} : worker'[r] = worker[r] /\ watchdog'[r] = watchdog[r]
  BY <1>1, <1>2
<1> QED
  BY <1>1, <1>2, <1>3, <1>4, <1>5, <1>6, <1>7

LEMMA MoveKeepsLast ==
    ASSUME Base, LastHasResult, NEW m \in Created, RunGoesOn(m)
    PROVE  LastHasResult'
<1>1. /\ Created' = Created /\ \A r \in Created : AgentOf(r)' = AgentOf(r)
      /\ \A r \in Created \ {m} : worker'[r] = worker[r]
      /\ \A r \in Created : Cached(AgentOf(r)) => Cached(AgentOf(r))'
  BY OthersStay
<1>2. Pc(m)' \in Gone => Cached(AgentOf(m))' \/ Unread(m)' \/ (Pc(m) \in Gone /\ ~Unread(m))
  BY DEF RunGoesOn, KeepsResult
<1>3. \A r \in Created \ {m} : Pc(r)' = Pc(r) /\ (Unread(r) => Unread(r)')
  BY <1>1 DEF Pc, Unread
<1> QED
  BY <1>1, <1>2, <1>3 DEF LastHasResult

LEMMA StillKeepsLast ==
    ASSUME Base, LastHasResult, RunsStill
    PROVE  LastHasResult'
<1>1. UNCHANGED <<run, worker, result>>
  BY DEF RunsStill
<1> QED
  BY <1>1 DEF LastHasResult, Created, Pc, AgentOf, Cached, Unread

LEMMA LastStep ==
    ASSUME Base, LastHasResult, [RunsNext]_runVars
    PROVE  LastHasResult'
  BY Cases, CreateKeepsLast, MoveKeepsLast, StillKeepsLast DEF SomeMoves

-----------------------------------------------------------------------------
(* What the parent is told.                                                *)

\* Who announced the outcome of a run announced the one in the cache, and
\* nobody else did; a watchdog about to announce has written it.
Told(r) ==
    /\ \A c \in Completions(r) : Cached(AgentOf(r)) /\ result[AgentOf(r)].status = c.status
    /\ \A c, d \in Completions(r) : c.by = d.by
    /\ watchdog[r] = "marked" =>
          /\ Cached(AgentOf(r)) /\ result[AgentOf(r)].status = "timeout"
          /\ Completions(r) = {}

SoleTold == \A r \in Created : Sole(r) => Told(r)

LEMMA CreateKeepsTold ==
    ASSUME Base, SoleTold, NEW record, NEW entries, Creates(record, entries)
    PROVE  SoleTold'
<1>0. PICK n : n = Len(run) + 1
  OBVIOUS
<1>1. /\ n \in Run /\ n \notin Created /\ Created' = Created \cup {n}
      /\ run'[n] = record /\ \A q \in Created : run'[q] = run[q]
      /\ result' = [result EXCEPT ![record.agent] = NoResult]
      /\ watchdog' = [watchdog EXCEPT ![n] = "armed"] /\ told' = told
  BY <1>0, CreateFacts
<1> SUFFICES ASSUME NEW r \in Created', Sole(r)'
             PROVE  Told(r)'
  BY DEF SoleTold
<1>2. Completions(r)' = Completions(r)
  BY <1>1 DEF Completions
<1>3. CASE r = n
  <2>1. Completions(r) = {}
    BY <1>1, <1>3 DEF Completions, Base, Anchored
  <2>2. watchdog'[r] = "armed"
    BY <1>1, <1>3 DEF Base, RunTypes
  <2> QED
    BY <1>2, <2>1, <2>2 DEF Told
<1>4. CASE r \in Created
  <2>1. r # n /\ r \in Run /\ AgentOf(r) \in Agent
    BY <1>1, <1>4, AtCreated
  <2>2. AgentOf(r) # record.agent /\ AgentOf(r)' = AgentOf(r)
    BY <1>1, <1>4, <2>1 DEF Sole, AgentOf
  <2>3. result'[AgentOf(r)] = result[AgentOf(r)] /\ watchdog'[r] = watchdog[r]
    BY <1>1, <2>1, <2>2 DEF Base, RunTypes
  <2>4. \A q \in Created : AgentOf(q)' = AgentOf(q)
    BY <1>1 DEF AgentOf
  <2>5. Told(r)
    BY <1>1, <1>4, <2>4 DEF SoleTold, Sole
  <2> QED
    BY <1>2, <2>2, <2>3, <2>5 DEF Told, Cached
<1> QED
  BY <1>1, <1>3, <1>4

LEMMA MoveKeepsTold ==
    ASSUME Base, Lineage, SoleTold, NEW m \in Created, RunGoesOn(m)
    PROVE  SoleTold'
<1>1. /\ Created' = Created
      /\ \A r \in Created : AgentOf(r)' = AgentOf(r) /\ run'[r] = run[r]
      /\ \A r \in Created \ {m} : watchdog'[r] = watchdog[r]
      /\ \A r \in Created : AgentOf(r) # AgentOf(m) => result'[AgentOf(r)] = result[AgentOf(r)]
      /\ \A r \in Created \ {m} : Completions(r)' = Completions(r)
      /\ \A r \in Created : Sole(r)' <=> Sole(r)
  BY OthersStay
<1> SUFFICES ASSUME NEW r \in Created, Sole(r), Told(r)
             PROVE  Told(r)'
  BY <1>1 DEF SoleTold
<1>2. CASE r # m
  <2>1. AgentOf(r) # AgentOf(m)
    BY <1>2 DEF Sole
  <2> QED
    BY <1>1, <1>2, <2>1 DEF Told, Cached
<1>3. CASE r = m
  <2>1. ~run[r].resumed
    BY DEF Lineage, Sole
  <2>2. /\ AgentOf(r)' = AgentOf(r)
        /\ Cached(AgentOf(r)) =>
             Cached(AgentOf(r))' /\ result'[AgentOf(r)] = result[AgentOf(r)]
    BY <1>1, <1>3, <2>1 DEF RunGoesOn, KeepsResult
  <2>3. ~Cached(AgentOf(r)) => Completions(r) = {} /\ watchdog[r] # "marked"
    BY DEF Told
  <2>4. watchdog'[r] = "marked" =>
          \/ watchdog[r] = "marked"
          \/ /\ ~Cached(AgentOf(r)) /\ Cached(AgentOf(r))' /\ told' = told
             /\ result'[AgentOf(r)].status = "timeout"
    BY <1>3 DEF RunGoesOn, Announces
  <2>5. CASE told' = told
    <3>1. Completions(r)' = Completions(r)
      BY <2>5 DEF Completions
    <3> QED
      BY <2>2, <2>3, <2>4, <3>1 DEF Told
  <2>6. CASE /\ result'[AgentOf(r)].status = worker[r].outcome /\ Cached(AgentOf(r))'
             /\ told' = told \cup {[run |-> r, by |-> "worker", status |-> worker[r].outcome]}
             /\ run[r].resumed \/ ~Cached(AgentOf(r))
             /\ watchdog'[r] = watchdog[r]
    <3>1. Completions(r) = {} /\ watchdog'[r] # "marked"
      BY <2>1, <2>3, <2>6
    <3>2. \A c \in Completions(r)' :
            c = [run |-> r, by |-> "worker", status |-> worker[r].outcome]
      BY <2>6, <3>1 DEF Completions
    <3>3. \A c \in Completions(r)' : c.by = "worker" /\ c.status = worker[r].outcome
      BY <3>2
    <3> QED
      BY <2>2, <2>6, <3>1, <3>3 DEF Told
  <2>7. CASE /\ result' = result /\ watchdog[r] = "marked" /\ watchdog'[r] = "off"
             /\ told' = told \cup {[run |-> r, by |-> "watchdog", status |-> "timeout"]}
    <3>1. Completions(r) = {} /\ Cached(AgentOf(r)) /\ result[AgentOf(r)].status = "timeout"
      BY <2>7 DEF Told
    <3>2. \A c \in Completions(r)' : c = [run |-> r, by |-> "watchdog", status |-> "timeout"]
      BY <2>7, <3>1 DEF Completions
    <3>3. \A c \in Completions(r)' : c.by = "watchdog" /\ c.status = "timeout"
      BY <3>2
    <3> QED
      BY <2>2, <2>7, <3>1, <3>3 DEF Told
  <2> QED
    BY <1>3, <2>5, <2>6, <2>7 DEF RunGoesOn, Announces
<1> QED
  BY <1>2, <1>3

LEMMA StillKeepsTold ==
    ASSUME Base, SoleTold, RunsStill
    PROVE  SoleTold'
<1>1. UNCHANGED <<run, result, watchdog, told>>
  BY DEF RunsStill
<1> QED
  BY <1>1 DEF SoleTold, Told, Sole, Completions, Created, AgentOf, Cached

LEMMA ToldStep ==
    ASSUME Base, Lineage, SoleTold, [RunsNext]_runVars
    PROVE  SoleTold'
  BY Cases, CreateKeepsTold, MoveKeepsTold, StillKeepsTold DEF SomeMoves

-----------------------------------------------------------------------------
(* The end of the session.                                                 *)

\* A run without a result that goes on is still to be visited.
Cleaned ==
    parent.left =>
        \A r \in Created :
            IsRunning(Newest(AgentOf(r))) =>
                Cached(AgentOf(r)) \/ Newest(AgentOf(r)) \in parent.todo

\* Without the creation of a run no run starts, and no result goes.
LEMMA NothingStarts ==
    ASSUME Base, Lineage, SomeMoves \/ RunsStill, registry' = registry
    PROVE  /\ Created' = Created /\ registry' = registry
           /\ \A r \in Created : /\ AgentOf(r)' = AgentOf(r)
                                 /\ Newest(AgentOf(r))' = Newest(AgentOf(r))
                                 /\ IsRunning(r)' => IsRunning(r)
                                 /\ Cached(AgentOf(r)) => Cached(AgentOf(r))'
<1>1. UNCHANGED <<run, registry>>
  BY DEF SomeMoves, RunGoesOn, OnlyRun, RunsStill
<1>2. /\ Created' = Created
      /\ \A r \in Created : AgentOf(r)' = AgentOf(r) /\ ModeOf(r)' = ModeOf(r)
      /\ \A r \in Created : Entries(AgentOf(r))' = Entries(AgentOf(r))
  BY <1>1 DEF Created, AgentOf, ModeOf, Entries
<1>3. \A r \in Created : Newest(AgentOf(r))' = Newest(AgentOf(r))
  BY <1>2 DEF Newest, Min, Max
<1>4. CASE RunsStill
  BY <1>1, <1>2, <1>3, <1>4 DEF RunsStill, IsRunning, ThreadAlive, Pc, ModeOf, Cached, AgentOf
<1>5. CASE SomeMoves
  <2>1. PICK m \in Created : RunGoesOn(m)
    BY <1>5 DEF SomeMoves
  <2>2. \A r \in Created : Cached(AgentOf(r)) => Cached(AgentOf(r))'
    BY <2>1, OthersStay
  <2>3. IsRunning(m)' => IsRunning(m)
    BY <2>1 DEF RunGoesOn, GoesOn, Lineage
  <2>4. ASSUME NEW r \in Created, r # m
        PROVE  IsRunning(r)' <=> IsRunning(r)
    <3>1. worker'[r] = worker[r] /\ process'[r] = process[r]
      BY <2>1, <2>4, AtCreated DEF RunGoesOn, OnlyRun
    <3> QED
      BY <1>2, <2>4, <3>1 DEF IsRunning, ThreadAlive, Pc
  <2> QED
    BY <1>1, <1>2, <1>3, <2>2, <2>3, <2>4
<1> QED
  BY <1>4, <1>5

\* What a step does to the parent's view of the end.
LEMMA ParentSteps ==
    ASSUME Base, [RunsNext]_runVars
    PROVE  \/ parent'.left = parent.left /\ parent'.todo = parent.todo
           \/ EndSession \/ EndSessionVisits
<1>0. parent \in ParentRecord
  BY DEF Base, RunTypes
<1>1. ASSUME \E record, entries : Creates(record, entries)
      PROVE  parent' = parent
  BY <1>1 DEF Creates, Create
<1>2. ASSUME NEW r \in Run, RunMoves(r)
      PROVE  parent' = parent
  BY <1>2, RunMovesPoints
<1>3. ASSUME NEW a \in Agent, Cancel(a)
      PROVE  parent'.left = parent.left /\ parent'.todo = parent.todo
  <2>1. \/ parent' = parent
        \/ parent' = [parent EXCEPT !.pc = "control", !.run = Newest(a)]
    BY <1>3 DEF Cancel, CancelMarks
  <2> QED
    BY <1>0, <2>1 DEF ParentRecord
<1>4. ASSUME CancelWritesControl \/ CancelTerminates
      PROVE  parent'.left = parent.left /\ parent'.todo = parent.todo
  BY <1>0, <1>4 DEF CancelWritesControl, CancelTerminates, ParentRecord
<1>5. ASSUME UNCHANGED runVars \/ \E a \in Agent : ReplyFails(a)
      PROVE  parent' = parent
  BY <1>5 DEF runVars, ReplyFails
<1> QED
  BY <1>1, <1>2, <1>3, <1>4, <1>5, Steps DEF ParentMoves

LEMMA CleanedStep ==
    ASSUME Base, Lineage, Cleaned, [RunsNext]_runVars
    PROVE  Cleaned'
<1>1. ASSUME NEW record, NEW entries, Creates(record, entries)
      PROVE  ~parent'.left
  BY <1>1 DEF Creates, Create, ParentIdle
<1>2. CASE registry' = registry /\ (SomeMoves \/ RunsStill)
  <2>1. /\ Created' = Created
        /\ \A r \in Created : /\ AgentOf(r)' = AgentOf(r)
                              /\ Newest(AgentOf(r))' = Newest(AgentOf(r))
                              /\ IsRunning(r)' => IsRunning(r)
                              /\ Cached(AgentOf(r)) => Cached(AgentOf(r))'
    BY <1>2, NothingStarts
  <2> SUFFICES ASSUME parent'.left, NEW r \in Created,
                      IsRunning(Newest(AgentOf(r)))', ~Cached(AgentOf(r))'
               PROVE  Newest(AgentOf(r)) \in parent'.todo
    BY <2>1 DEF Cleaned
  <2>2. /\ Newest(AgentOf(r)) \in Created /\ Newest(AgentOf(r)) \in registry
        /\ AgentOf(Newest(AgentOf(r))) = AgentOf(r)
    BY EntriesFact, NewestFact
  <2>3. IsRunning(Newest(AgentOf(r))) /\ ~Cached(AgentOf(r))
    <3>1. IsRunning(Newest(AgentOf(r)))' => IsRunning(Newest(AgentOf(r)))
      <4>1. PICK s : s = Newest(AgentOf(r))
        OBVIOUS
      <4>2. s \in Created /\ Newest(AgentOf(r))' = s
        BY <2>1, <2>2, <4>1
      <4>3. IsRunning(s)' => IsRunning(s)
        BY <2>1, <4>2
      <4>4. IsRunning(Newest(AgentOf(r)))' => IsRunning(s)'
        BY <4>2 DEF IsRunning, ThreadAlive, Pc, ModeOf
      <4> QED
        BY <4>1, <4>3, <4>4
    <3> QED
      BY <2>1, <3>1
  <2>4. CASE parent'.left = parent.left /\ parent'.todo = parent.todo
    BY <2>3, <2>4 DEF Cleaned
  <2>5. CASE EndSession
    <3>1. parent'.todo = registry
      BY <2>5 DEF EndSession, Base, RunTypes, ParentRecord
    <3> QED
      BY <2>2, <3>1
  <2>6. CASE EndSessionVisits
    <3> DEFINE v == Min(parent.todo)
               rest == [parent EXCEPT !.todo = @ \ {v}]
    <3>1. /\ parent.left
          /\ IF NeedsCancel(v) /\ IsRunning(Newest(AgentOf(v)))
             THEN /\ PutResult(Newest(AgentOf(v)), "cancelled")
                  /\ parent' = IF Cooperative(Newest(AgentOf(v)))
                               THEN [rest EXCEPT !.pc = "control", !.run = Newest(AgentOf(v))]
                               ELSE rest
             ELSE parent' = rest
      BY <2>6 DEF EndSessionVisits
    <3>2. parent'.todo = parent.todo \ {v}
      <4>1. parent \in ParentRecord
        BY DEF Base, RunTypes
      <4>2. rest.todo = parent.todo \ {v} /\ DOMAIN rest = {"pc", "run", "left", "todo"}
        BY <4>1 DEF ParentRecord
      <4> HIDE DEF rest, v
      <4>3. \A s : [rest EXCEPT !.pc = "control", !.run = s].todo = rest.todo
        BY <4>2
      <4> QED
        BY <3>1, <4>2, <4>3
    <3>3. Newest(AgentOf(r)) \in parent.todo
      BY <2>3, <3>1 DEF Cleaned
    <3> HIDE DEF rest, v
    <3>4. CASE Newest(AgentOf(r)) # v
      BY <3>2, <3>3, <3>4
    <3>5. CASE Newest(AgentOf(r)) = v
      <4>1. AgentOf(v) = AgentOf(r) /\ v \in Created
        BY <2>2, <3>5
      <4>2. NeedsCancel(v) /\ IsRunning(Newest(AgentOf(v)))
        BY <2>3, <3>5, <4>1 DEF NeedsCancel
      <4>3. PutResult(v, "cancelled")
        BY <3>1, <3>5, <4>1, <4>2
      <4>4. ResultBecomes(v, "cancelled")
        BY <4>1, <4>3, PutFact DEF Base, Status
      <4>5. Cached(AgentOf(r))'
        BY <2>1, <4>1, <4>4 DEF Cached, ResultBecomes
      <4> QED
        BY <4>5
    <3> QED
      BY <3>4, <3>5
  <2> QED
    BY <2>4, <2>5, <2>6, ParentSteps
<1>3. SomeMoves => registry' = registry
  BY DEF SomeMoves, RunGoesOn, OnlyRun
<1>4. RunsStill => registry' = registry \/ ~parent'.left
  BY DEF RunsStill
<1> QED
  BY <1>1, <1>2, <1>3, <1>4, Cases DEF Cleaned

-----------------------------------------------------------------------------
(* What a thread or an ACP run announces.                                  *)

\* The outcome on its way from the conversation of r to the parent.
Own(r) ==
    /\ process[r] = "none" /\ Pc(r) # "launching"
    /\ Pc(r) = "working" => ending[Home(r)] = "failure"
    /\ Pc(r) = "returned" => ending[Home(r)] # "empty"
    /\ Pc(r) = "read" /\ ~Cached(AgentOf(r)) => worker[r].outcome = ending[Home(r)]
    /\ \A c \in Completions(r) :
          c.by = "worker" => c.status = ending[Home(r)] /\ Pc(r) \in Gone

SoleOwn == \A r \in Created : Sole(r) /\ ModeOf(r) # "subprocess" => Own(r)

LEMMA CreateKeepsOwn ==
    ASSUME Base, SoleOwn, NEW record, NEW entries, Creates(record, entries)
    PROVE  SoleOwn'
<1>0. PICK n : n = Len(run) + 1
  OBVIOUS
<1>1. /\ n \in Run /\ n \notin Created /\ Created' = Created \cup {n}
      /\ run'[n] = record /\ \A q \in Created : run'[q] = run[q]
      /\ result' = [result EXCEPT ![record.agent] = NoResult]
      /\ worker' = [worker EXCEPT ![n].pc = "queued"]
      /\ UNCHANGED <<process, ending, told>>
  BY <1>0, CreateFacts
<1> SUFFICES ASSUME NEW r \in Created', Sole(r)', ModeOf(r)' # "subprocess"
             PROVE  Own(r)'
  BY DEF SoleOwn
<1>2. Completions(r)' = Completions(r)
  BY <1>1 DEF Completions
<1>3. CASE r = n
  <2>1. Completions(r) = {} /\ process[r] = "none"
    BY <1>1, <1>3 DEF Completions, Base, Anchored
  <2>2. Pc(r)' = "queued"
    BY <1>1, <1>3 DEF Pc, Base, RunTypes, WorkerRecord
  <2> QED
    BY <1>1, <1>2, <2>1, <2>2 DEF Own
<1>4. CASE r \in Created
  <2>1. r # n /\ r \in Run /\ AgentOf(r) \in Agent
    BY <1>1, <1>4, AtCreated
  <2>2. AgentOf(r) # record.agent /\ AgentOf(r)' = AgentOf(r)
        /\ Home(r)' = Home(r) /\ ModeOf(r)' = ModeOf(r)
    BY <1>1, <1>4, <2>1 DEF Sole, AgentOf, Home, ModeOf
  <2>3. result'[AgentOf(r)] = result[AgentOf(r)] /\ worker'[r] = worker[r]
    BY <1>1, <2>1, <2>2 DEF Base, RunTypes
  <2>4. \A q \in Created : AgentOf(q)' = AgentOf(q)
    BY <1>1 DEF AgentOf
  <2>5. Own(r)
    BY <1>1, <1>4, <2>2, <2>4 DEF SoleOwn, Sole
  <2> QED
    BY <1>1, <1>2, <2>2, <2>3, <2>5 DEF Own, Cached, Pc
<1> QED
  BY <1>1, <1>3, <1>4

\* Steps that leave the worker, the log and the completions of r alone.
LEMMA OwnFrame ==
    ASSUME NEW r \in Created, Own(r),
           run' = run, worker'[r] = worker[r], ending'[Home(r)] = ending[Home(r)],
           process'[r] = "none",
           \A c \in Completions(r)' : c \in Completions(r) \/ c.by = "watchdog",
           Cached(AgentOf(r)) => Cached(AgentOf(r))'
    PROVE  Own(r)'
<1>1. AgentOf(r)' = AgentOf(r) /\ Home(r)' = Home(r) /\ Pc(r)' = Pc(r)
  BY DEF AgentOf, Home, Pc
<1> QED
  BY <1>1 DEF Own

LEMMA ElsewhereKeepsOwn ==
    ASSUME Base, Lineage, NEW r \in Created, Sole(r), Own(r),
           NEW m \in Created, m # r, RunGoesOn(m)
    PROVE  Own(r)'
<1>1. /\ run' = run /\ \A q \in Run \ {m} : worker'[q] = worker[q] /\ process'[q] = process[q]
      /\ \A h \in Run \ {Home(m)} : ending'[h] = ending[h]
  BY DEF RunGoesOn, OnlyRun
<1>2. Home(r) # Home(m) /\ Home(r) \in Run /\ r \in Run
  BY AtCreated DEF Sole, Lineage
<1>3. Completions(r)' = Completions(r) /\ (Cached(AgentOf(r)) => Cached(AgentOf(r))')
  BY OthersStay
<1> QED
  BY <1>1, <1>2, <1>3, OwnFrame DEF Own

LEMMA ParentKeepsOwn ==
    ASSUME Base, Lineage, NEW r \in Created, Own(r), ParentMoves
    PROVE  Own(r)'
<1>1. UNCHANGED <<run, registry, worker, ending, told>>
  BY DEF ParentMoves, Cancel, CancelWritesControl, CancelTerminates, EndSession, EndSessionVisits
<1>2. process' = process \/ process' = Killed(parent.run)
  BY DEF ParentMoves, Cancel, CancelWritesControl, CancelTerminates, EndSession, EndSessionVisits
<1>3. process'[r] = "none"
  BY <1>2, AtCreated DEF Killed, Own, Base, RunTypes
<1>4. SomeMoves \/ RunsStill
  BY CancelMoves, ControlMoves, TerminateMoves, EndSessionMoves, VisitsMoves
  DEF ParentMoves, SomeMoves
<1>5. Cached(AgentOf(r)) => Cached(AgentOf(r))'
  BY <1>1, <1>4, NothingStarts
<1>6. Completions(r)' = Completions(r)
  BY <1>1 DEF Completions
<1> QED
  BY <1>1, <1>3, <1>5, <1>6, OwnFrame

LEMMA RunKeepsOwn ==
    ASSUME Base, Lineage, NEW r \in Created, Sole(r), ModeOf(r) # "subprocess",
           Own(r), RunMoves(r)
    PROVE  Own(r)'
<1>1. /\ r \in Run /\ Home(r) \in Run /\ worker[r] \in WorkerRecord
      /\ ending \in [Run -> Outcome \cup {"empty"}] /\ RunTypes
  BY AtCreated DEF Base, RunTypes
<1>2. run' = run /\ AgentOf(r)' = AgentOf(r) /\ Home(r)' = Home(r)
  BY <1>1, RunMovesIsMove DEF RunGoesOn, OnlyRun, AgentOf, Home
<1>3. Cached(AgentOf(r)) => Cached(AgentOf(r))'
  BY <1>1, RunMovesIsMove DEF RunGoesOn, KeepsResult
<1>4. process[r] = "none" /\ Pc(r) # "launching"
  BY DEF Own
<1>5. ASSUME UNCHANGED <<process, ending, told>>, NEW pc \in Gone,
             NEW outcome, WorkerGoes(r, pc, outcome)
      PROVE  Own(r)'
  <2>1. Pc(r)' = pc /\ Completions(r)' = Completions(r)
    BY <1>5 DEF WorkerGoes, Pc, Completions
  <2> QED
    BY <1>2, <1>4, <1>5, <2>1 DEF Own, Gone
<1>6. CASE SkipQueued(r)
  <2>1. WorkerGoes(r, "leaving", worker[r].outcome) /\ UNCHANGED <<process, ending, told>>
    BY <1>1, <1>6, GoesFact DEF SkipQueued, WorkerPc
  <2> QED
    BY <1>5, <2>1 DEF Gone
<1>7. CASE BeginWork(r)
  <2>1. /\ WorkerGoes(r, "working", worker[r].outcome) /\ OpenLog(r)
        /\ UNCHANGED <<process, told>> /\ Pc(r) = "queued"
    BY <1>1, <1>7, GoesFact DEF BeginWork, TakeSlot, At, WorkerPc
  <2>2. Pc(r)' = "working" /\ ending'[Home(r)] = "failure" /\ Completions(r)' = Completions(r)
    BY <1>1, <2>1 DEF WorkerGoes, Pc, OpenLog, Completions
  <2>3. \A c \in Completions(r) : c.by # "worker"
    BY <2>1 DEF Own, Gone
  <2> QED
    BY <1>2, <1>4, <2>1, <2>2, <2>3 DEF Own
<1>8. CASE WorkRaises(r)
  <2>1. /\ WorkerGoes(r, "read", "failure") /\ UNCHANGED <<process, ending, told>>
        /\ Pc(r) = "working"
    BY <1>1, <1>4, <1>8, GoesWithFact DEF WorkRaises, At, WorkerPc, Status, Outcome
  <2>2. Pc(r)' = "read" /\ worker'[r].outcome = "failure" /\ Completions(r)' = Completions(r)
    BY <2>1 DEF WorkerGoes, Pc, Completions
  <2>3. /\ \A c \in Completions(r) : c.by # "worker"
        /\ ending[Home(r)] = "failure"
    BY <2>1 DEF Own, Gone
  <2> QED
    BY <1>2, <1>4, <2>1, <2>2, <2>3 DEF Own
<1>9. ASSUME NEW e \in Outcome, ChatReturns(r, e)
      PROVE  Own(r)'
  <2>1. /\ WorkerGoes(r, "returned", worker[r].outcome) /\ UNCHANGED <<process, told>>
        /\ Pc(r) = "working" /\ ending' = [ending EXCEPT ![Home(r)] = e]
    BY <1>1, <1>9, GoesFact DEF ChatReturns, At, WorkerPc
  <2>2. Pc(r)' = "returned" /\ ending'[Home(r)] = e /\ Completions(r)' = Completions(r)
    BY <1>1, <2>1 DEF WorkerGoes, Pc, Completions
  <2>3. (\A c \in Completions(r) : c.by # "worker") /\ e # "empty"
    BY <2>1 DEF Own, Gone, Outcome
  <2> QED
    BY <1>2, <1>4, <2>1, <2>2, <2>3 DEF Own
<1>10. CASE ThreadSeesCancel(r)
  <2>1. /\ WorkerGoes(r, "returned", worker[r].outcome) /\ UNCHANGED <<process, told>>
        /\ Pc(r) = "working" /\ ending' = [ending EXCEPT ![Home(r)] = "failure"]
    BY <1>1, <1>10, GoesFact DEF ThreadSeesCancel, At, WorkerPc
  <2>2. Pc(r)' = "returned" /\ ending'[Home(r)] = "failure" /\ Completions(r)' = Completions(r)
    BY <1>1, <2>1 DEF WorkerGoes, Pc, Completions
  <2>3. \A c \in Completions(r) : c.by # "worker"
    BY <2>1 DEF Own, Gone
  <2> QED
    BY <1>2, <1>4, <2>1, <2>2, <2>3 DEF Own
<1>11. ASSUME NEW e \in Outcome, AcpReturns(r, e)
       PROVE  Own(r)'
  <2>1. /\ WorkerGoes(r, "read", e) /\ UNCHANGED <<process, told>>
        /\ Pc(r) = "working" /\ ending' = [ending EXCEPT ![Home(r)] = e]
    BY <1>1, <1>11, GoesWithFact DEF AcpReturns, At, WorkerPc, Status
  <2>2. /\ Pc(r)' = "read" /\ worker'[r].outcome = e /\ ending'[Home(r)] = e
        /\ Completions(r)' = Completions(r)
    BY <1>1, <2>1 DEF WorkerGoes, Pc, Completions
  <2>3. \A c \in Completions(r) : c.by # "worker"
    BY <2>1 DEF Own, Gone
  <2> QED
    BY <1>2, <1>4, <2>1, <2>2, <2>3 DEF Own
\* The registry and the cache lead back to the run's own conversation.
<1>12. CASE ReadOutcome(r)
  <2>1. First(AgentOf(r)) = r
    <3>1. First(AgentOf(r)) \in Created /\ AgentOf(First(AgentOf(r))) = AgentOf(r)
      BY EntriesFact DEF Entries
    <3> QED
      BY <3>1 DEF Sole
  <2>2. Pc(r) = "returned" /\ UNCHANGED <<process, ending, told, result>>
        /\ GoesWith(r, "read", ReadLog(r))
    BY <1>12, <2>1 DEF ReadOutcome, At
  <2>3. WorkerGoes(r, "read", ReadLog(r))
    BY <1>1, <2>2, GoesWithFact, ReadLogFact DEF WorkerPc
  <2>4. ~Cached(AgentOf(r)) => ReadLog(r) = ending[Home(r)]
    BY <2>2 DEF ReadLog, Own
  <2>5. /\ Pc(r)' = "read" /\ worker'[r].outcome = ReadLog(r)
        /\ Completions(r)' = Completions(r)
    BY <2>2, <2>3 DEF WorkerGoes, Pc, Completions
  <2>6. \A c \in Completions(r) : c.by # "worker"
    BY <2>2 DEF Own, Gone
  <2> QED
    BY <1>2, <1>3, <1>4, <2>2, <2>4, <2>5, <2>6 DEF Own
<1>19. CASE ReadRaises(r)
  <2>1. WorkerGoes(r, "leaving", "unread") /\ UNCHANGED <<process, ending, told>>
    BY <1>1, <1>19, GoesWithFact DEF ReadRaises, WorkerPc
  <2> QED
    BY <1>5, <2>1 DEF Gone
<1>20. ~run[r].resumed
  BY DEF Lineage, Sole
<1>21. ~Rereads(r) /\ ~Rewrites(r)
  BY <1>1, <1>20 DEF Rereads, Rewrites, At, Base, Anchored
<1>13. CASE LoseRace(r)
  <2>1. WorkerGoes(r, "leaving", "none") /\ UNCHANGED <<process, ending, told>>
    BY <1>1, <1>13, <1>20, GoesWithFact DEF LoseRace, AfterRace, WorkerPc
  <2> QED
    BY <1>5, <2>1 DEF Gone
<1>14. CASE ReleaseSlot(r)
  <2>1. WorkerGoes(r, "ended", worker[r].outcome) /\ UNCHANGED <<process, ending, told>>
    BY <1>1, <1>14, GoesFact DEF ReleaseSlot, WorkerPc
  <2> QED
    BY <1>5, <2>1 DEF Gone
<1>15. CASE RecordOutcome(r)
  <2> DEFINE c == [run |-> r, by |-> "worker", status |-> worker[r].outcome]
  <2>1. /\ WorkerGoes(r, "leaving", "none") /\ UNCHANGED <<process, ending>>
        /\ Pc(r) = "read" /\ told' = told \cup {c}
        /\ run[r].resumed \/ ~Cached(AgentOf(r))
    BY <1>1, <1>15, <1>20, GoesWithFact
    DEF RecordOutcome, AfterRace, At, Overwrites, SetResultIfAbsent, WorkerPc
  <2>2. Pc(r)' = "leaving"
    BY <2>1 DEF WorkerGoes, Pc
  <2>3. \A d \in Completions(r) : d.by # "worker"
    BY <2>1 DEF Own, Gone
  <2>4. worker[r].outcome = ending[Home(r)]
    BY <2>1 DEF Own, Lineage, Sole
  <2>5. \A d \in Completions(r)' : d.by = "worker" => d.status = ending[Home(r)]
    BY <2>1, <2>3, <2>4 DEF Completions
  <2> QED
    BY <1>2, <1>4, <2>1, <2>2, <2>5 DEF Own, Gone
<1>16. CASE WatchdogChecks(r) \/ WatchdogMarks(r)
  <2>1. UNCHANGED <<worker, process, ending, told>>
    BY <1>16 DEF WatchdogChecks, WatchdogMarks
  <2> QED
    BY <1>2, <1>3, <1>4, <2>1, OwnFrame DEF Completions
<1>17. CASE WatchdogTells(r)
  <2>1. /\ UNCHANGED <<worker, ending>> /\ process' = process
        /\ told' = told \cup {[run |-> r, by |-> "watchdog", status |-> "timeout"]}
    BY <1>4, <1>17 DEF WatchdogTells, Killed
  <2>2. \A c \in Completions(r)' : c \in Completions(r) \/ c.by = "watchdog"
    BY <2>1 DEF Completions
  <2> QED
    BY <1>2, <1>3, <1>4, <2>1, <2>2, OwnFrame
<1>18. /\ ~Launch(r) /\ ~MonitorKills(r) /\ ~MonitorReturns(r) /\ ~ProcessSeesCancel(r)
       /\ \A code \in {"zero", "nonzero"}, e \in Outcome : ~ProcessExits(r, code, e)
  BY <1>4 DEF Launch, MonitorKills, MonitorReturns, ProcessSeesCancel, ProcessExits, At
<1> QED
  BY <1>6, <1>7, <1>8, <1>9, <1>10, <1>11, <1>12, <1>13, <1>14, <1>15, <1>16, <1>17, <1>18,
     <1>19, <1>21
  DEF RunMoves, RunNext, WorkNext, ChildNext, AfterNotice

LEMMA OwnStep ==
    ASSUME Base, Lineage, SoleOwn, [RunsNext]_runVars
    PROVE  SoleOwn'
<1>1. ASSUME NEW record, NEW entries, Creates(record, entries)
      PROVE  SoleOwn'
  BY <1>1, CreateKeepsOwn
<1>2. ASSUME run' = run,
             \A r \in Created : Sole(r) /\ ModeOf(r) # "subprocess" /\ Own(r) => Own(r)'
      PROVE  SoleOwn'
  <2>1. /\ Created' = Created
        /\ \A r \in Created : AgentOf(r)' = AgentOf(r) /\ ModeOf(r)' = ModeOf(r)
    BY <1>2 DEF Created, AgentOf, ModeOf
  <2>2. \A r \in Created : Sole(r)' <=> Sole(r)
    BY <2>1 DEF Sole
  <2> QED
    BY <1>2, <2>1, <2>2 DEF SoleOwn
<1>3. CASE ParentMoves
  <2>1. run' = run
    BY <1>3 DEF ParentMoves, Cancel, CancelWritesControl, CancelTerminates,
                EndSession, EndSessionVisits
  <2> QED
    BY <1>2, <1>3, <2>1, ParentKeepsOwn
<1>4. ASSUME NEW m \in Run, RunMoves(m)
      PROVE  SoleOwn'
  <2>1. RunGoesOn(m) /\ m \in Created /\ run' = run
    BY <1>4, RunMovesIsMove DEF RunGoesOn, OnlyRun
  <2> QED
    BY <1>2, <1>4, <2>1, RunKeepsOwn, ElsewhereKeepsOwn
<1>5. CASE UNCHANGED runVars \/ \E a \in Agent : ReplyFails(a)
  <2>1. UNCHANGED <<run, worker, ending, told, process, result>>
    BY <1>5 DEF runVars, ReplyFails
  <2>2. \A r \in Created : Own(r) => Own(r)'
    BY <2>1 DEF Own, Pc, Home, AgentOf, Cached, Completions
  <2> QED
    BY <1>2, <2>1, <2>2
<1> QED
  BY <1>1, <1>3, <1>4, <1>5, Steps

-----------------------------------------------------------------------------
(* The slots.                                                              *)

Holders == {r \in Run : Holding(r)}
SlotsCounted == slots + Cardinality(Holders) = MaxConcurrent

LEMMA HoldersFinite == IsFiniteSet(Holders) /\ Cardinality(Holders) \in Nat
<1>1. IsFiniteSet(Run)
  BY FS_Interval, RunAssumption DEF Run
<1>2. IsFiniteSet(Holders)
  BY <1>1, FS_Subset DEF Holders
<1> QED
  BY <1>2, FS_CardinalityType

LEMMA SlotsStep ==
    ASSUME Base, SlotsCounted, [RunsNext]_runVars
    PROVE  SlotsCounted'
<1>0. slots \in Nat /\ MaxConcurrent \in Nat
  BY RunAssumption DEF Base, RunTypes
<1>1. ASSUME slots' = slots, \A r \in Run : Holding(r)' <=> Holding(r)
      PROVE  SlotsCounted'
  BY <1>1 DEF SlotsCounted, Holders
<1>2. ASSUME NEW record, NEW entries, Creates(record, entries)
      PROVE  SlotsCounted'
  <2>1. PICK n : n = Len(run) + 1
    OBVIOUS
  <2>2. /\ n \in Run /\ n \notin Created /\ slots' = slots
        /\ worker' = [worker EXCEPT ![n].pc = "queued"]
    BY <1>2, <2>1, CreateFacts
  <2>3. Pc(n) = "none"
    BY <2>2 DEF Base, Anchored
  <2>4. Pc(n)' = "queued" /\ \A r \in Run \ {n} : Pc(r)' = Pc(r)
    BY <2>2 DEF Pc, Base, RunTypes, WorkerRecord
  <2> QED
    BY <1>1, <2>2, <2>3, <2>4 DEF Holding
<1>3. ASSUME NEW m \in Created, RunGoesOn(m)
      PROVE  SlotsCounted'
  <2>1. m \in Run /\ \A r \in Run \ {m} : Holding(r)' <=> Holding(r)
    BY <1>3, AtCreated DEF RunGoesOn, OnlyRun, Holding, Pc
  <2>2. CASE slots' = slots /\ (Holding(m)' <=> Holding(m))
    BY <1>1, <2>1, <2>2
  <2>3. CASE slots > 0 /\ slots' = slots - 1 /\ ~Holding(m) /\ Holding(m)'
    <3>1. Holders' = Holders \cup {m} /\ m \notin Holders
      BY <2>1, <2>3 DEF Holders
    <3>2. Cardinality(Holders') = Cardinality(Holders) + 1
      BY <3>1, HoldersFinite, FS_AddElement
    <3>3. Cardinality(Holders)' = Cardinality(Holders')
      OBVIOUS
    <3> QED
      BY <1>0, <2>3, <3>2, <3>3, HoldersFinite DEF SlotsCounted
  <2>4. CASE slots' = slots + 1 /\ Holding(m) /\ ~Holding(m)'
    <3>1. Holders' = Holders \ {m} /\ m \in Holders
      BY <2>1, <2>4 DEF Holders
    <3>2. Cardinality(Holders') = Cardinality(Holders) - 1
      BY <3>1, HoldersFinite, FS_RemoveElement
    <3>3. Cardinality(Holders)' = Cardinality(Holders')
      OBVIOUS
    <3> QED
      BY <1>0, <2>4, <3>2, <3>3, HoldersFinite DEF SlotsCounted
  <2> QED
    BY <1>3, <2>2, <2>3, <2>4 DEF RunGoesOn, CountsSlots
<1>4. CASE RunsStill
  BY <1>1, <1>4 DEF RunsStill, Holding, Pc
<1> QED
  BY <1>2, <1>3, <1>4, Cases DEF SomeMoves

-----------------------------------------------------------------------------
(* The theorems.                                                           *)

RunsInv == /\ Base /\ Lineage /\ LastHasResult /\ SoleTold
           /\ Cleaned /\ SoleOwn /\ SlotsCounted

LEMMA RunsInvInit == RunsInit => RunsInv
<1> SUFFICES ASSUME RunsInit PROVE RunsInv
  OBVIOUS
<1>1. run = <<>> /\ ~parent.left /\ slots = MaxConcurrent
      /\ worker = [r \in Run |-> [pc |-> "none", outcome |-> "none"]]
  BY DEF RunsInit, IdleParent
<1>2. Created = {}
  BY <1>1 DEF Created
<1>3. Holders = {}
  BY <1>1 DEF Holders, Holding, Pc
<1>4. SlotsCounted
  BY <1>1, <1>3, FS_EmptySet, RunAssumption DEF SlotsCounted
<1> QED
  BY <1>1, <1>2, <1>4, BaseInit DEF RunsInv, Lineage, LastHasResult, SoleTold, Cleaned, SoleOwn

LEMMA RunsInvStep == RunsInv /\ [RunsNext]_runVars => RunsInv'
  BY BaseStep, LineageStep, LastStep, ToldStep, CleanedStep, OwnStep, SlotsStep DEF RunsInv

LEMMA RunsInvHolds == RunsSpec => []RunsInv
  BY RunsInvInit, RunsInvStep, PTL DEF RunsSpec

\* Every variable keeps its type; in particular no more slots are released than
\* were taken (the semaphore of _subagent_semaphore).
THEOREM RunsTypeCorrect == RunsSpec => []RunsTypeOK
<1>1. RunsInv => RunsTypeOK
  <2> SUFFICES ASSUME RunsInv PROVE RunsTypeOK
    OBVIOUS
  <2>1. slots \in 0 .. MaxConcurrent
    BY HoldersFinite, RunAssumption DEF RunsInv, SlotsCounted, Base, RunTypes
  <2> QED
    BY <2>1 DEF RunsInv, Base, RunTypes, RunsTypeOK
<1> QED
  BY <1>1, RunsInvHolds, PTL

\* Whoever wins the race for the outcome of a run announces it, once, and the
\* cache says the same (set_subagent_result_if_absent).
THEOREM ToldOnce == RunsSpec => []OneCompletion
<1>1. RunsInv => OneCompletion
  <2> SUFFICES ASSUME RunsInv, NEW r \in Created, Sole(r)
               PROVE  /\ Cardinality(Completions(r)) <= 1
                      /\ \A c \in Completions(r) : result[AgentOf(r)].status = c.status
    BY DEF OneCompletion
  <2>1. Told(r) /\ told \subseteq Completion
    BY DEF RunsInv, SoleTold, Base, RunTypes
  <2>2. \A c, d \in Completions(r) : c = d
    <3> SUFFICES ASSUME NEW c \in Completions(r), NEW d \in Completions(r)
                 PROVE  c = d
      OBVIOUS
    <3>1. c.run = d.run /\ c.by = d.by /\ c.status = d.status
      BY <2>1 DEF Told, Completions
    <3>2. c \in Completion /\ d \in Completion
      BY <2>1 DEF Completions
    <3> QED
      BY <3>1, <3>2 DEF Completion
  <2>3. Cardinality(Completions(r)) <= 1
    <3>1. CASE Completions(r) = {}
      BY <3>1, FS_EmptySet
    <3>2. CASE Completions(r) # {}
      <4>1. PICK c : c \in Completions(r)
        BY <3>2
      <4>2. \A d \in Completions(r) : d = c
        BY <2>2, <4>1, Zenon
      <4>3. Completions(r) = {c}
        BY <4>1, <4>2
      <4>4. Cardinality({c}) = 1
        BY FS_Singleton, Zenon
      <4> QED
        BY <4>3, <4>4
    <3> QED
      BY <3>1, <3>2
  <2> QED
    BY <2>1, <2>3 DEF Told
<1> QED
  BY <1>1, RunsInvHolds, PTL

\* What the worker of a thread or an ACP run announces is how its own
\* conversation ended (Subagent._read_log).
THEOREM ToldTheTruth == RunsSpec => []OwnOutcome
<1>1. RunsInv => OwnOutcome
  BY DEF RunsInv, SoleOwn, Own, OwnOutcome
<1> QED
  BY <1>1, RunsInvHolds, PTL

\* A conversation that is continued has no second writer (subagent_continue).
THEOREM LogHasOneWriter == RunsSpec => []OneWriterPerLog
<1>1. RunsInv => OneWriterPerLog
  BY DEF RunsInv, Lineage, OneWriterPerLog
<1> QED
  BY <1>1, RunsInvHolds, PTL

\* Whoever waits for a run whose worker has ended finds a result, whatever was
\* killed, cancelled or raised, with one exception: its log could not be read when
\* chat() was back (_read_log).
THEOREM WaitersAreAnswered == RunsSpec => []FinishedHasResult
<1>1. RunsInv => FinishedHasResult
  <2> SUFFICES ASSUME RunsInv, NEW r \in Created, Pc(r) = "ended",
                      r = Newest(AgentOf(r))
               PROVE  Cached(AgentOf(r)) \/ worker[r].outcome = "unread"
    BY DEF FinishedHasResult
  <2>1. Base /\ LastHasResult
    BY DEF RunsInv
  <2>2. ASSUME NEW q \in Created, AgentOf(q) = AgentOf(r)
        PROVE  q <= r
    BY <2>1, <2>2, EntriesFact
  <2> QED
    BY <2>1, <2>2 DEF LastHasResult, Gone, Unread
<1> QED
  BY <1>1, RunsInvHolds, PTL

\* After the clean-up at the end of the session no run goes on without a result
\* (_session_end_subagent_cleanup).
THEOREM NoOrphanAfterEnd == RunsSpec => []NoOpenRunAfterEnd
<1>1. RunsInv => NoOpenRunAfterEnd
  BY DEF RunsInv, Cleaned, NoOpenRunAfterEnd
<1> QED
  BY <1>1, RunsInvHolds, PTL
=============================================================================
