--------------------------- MODULE TaskSyncProofs ---------------------------
(***************************************************************************)
(* The synchronisation of an agent, for any number of jobs, substances,    *)
(* versions and cycles, and of changes and failures.                       *)
(***************************************************************************)
EXTENDS TaskSync, FiniteSetTheorems, TLAPS

\* A job that is over keeps nothing.
IdleIsFresh == \A j \in Jobs : job[j].pc = "idle" => job[j] = IdleJob

\* A job that reads or pushes a single substance was started for one.
ReloadNamesSub ==
    \A j \in Jobs :
        /\ job[j].pc \in {"first", "push"} => job[j].kind = "reload"
        /\ job[j].kind = "reload" => job[j].sid \in Sub

\* No diff and no push touches a task the agent has from elsewhere.
OwnKept == \A t \in Own : run[t] = Fresh[t]

\* What a job that nothing overtook has read is still so, at each of its statements.
View(j) ==
    /\ job[j].pc \in {"first", "push"} => minion = "load"
    /\ job[j].pc \in {"status", "tags", "subs"} =>
          minion # "delete" /\ job[j].unload = (minion = "unload")
    /\ job[j].pc \in {"tags", "subs", "spin"} => job[j].report = run
    /\ job[j].pc = "subs" => job[j].known = tagged
    /\ job[j].pc = "spin" => job[j].want = Assigned
    /\ job[j].pc = "del" /\ job[j].kind = "rsync" /\ ~job[j].failed =>
          run = Desired \/ job[j].cycle = Cycle
    /\ (job[j].pc = "del" /\ ~job[j].failed) \/ job[j].pc = "create" => job[j].report = run

Viewed == \A j \in Jobs \ disturbed : View(j)

\* Unless writers overlap there is one at most between its two statements, and it finds no
\* row at the second.
OneWriter ==
    ~mixed =>
        \A j \in Jobs : job[j].pc = "create" =>
            rows = NoRows /\ \A k \in Jobs \ {j} : job[k].pc # "create"

\* The writers between their two statements, and the rows there are and they may still add.
Creators == {j \in Jobs : job[j].pc = "create"}
FewRows ==
    \A x \in Task \X Hash :
        rows[x] + Cardinality(Creators) <= Cardinality(Jobs) + changes

SyncInv == TypeOK /\ IdleIsFresh /\ ReloadNamesSub /\ OwnKept /\ Viewed /\ OneWriter /\ FewRows
-----------------------------------------------------------------------------
(* Types. *)

USE SyncAssumption

\* An idle job and the report of a fresh agent are well-typed.
LEMMA ConstantTypes == IdleJob \in Job /\ Fresh \in Tasks
<1>1. 1 \in Hash /\ None \in Hash \cup {None}
  BY DEF Hash, None
<1> QED BY <1>1 DEF IdleJob, Job, Fresh, Tasks, Wants

\* An agent that carries a diff out runs tasks with hashes.
LEMMA ApplyType ==
    ASSUME NEW now \in Tasks, NEW wanted \in Wants, NEW rep \in Tasks, NEW skip
    PROVE  Apply(now, Diff(rep, wanted), wanted, skip) \in Tasks
  BY DEF Apply, Diff, Tasks, Wants, Task

\* What is assigned, and what a job finds of it, are hashes.
LEMMA WantsType ==
    ASSUME TypeOK
    PROVE  Assigned \in Wants
  BY DEF TypeOK, Assigned, Wants

\* The record of one job changes to another record of a job.
LEMMA JobChange ==
    ASSUME TypeOK, NEW j \in Jobs, NEW r \in Job, job' = [job EXCEPT ![j] = r]
    PROVE  job' \in [Jobs -> Job]
  BY DEF TypeOK

\* The end of a job.
LEMMA StopType ==
    ASSUME TypeOK, NEW j \in Jobs, Stop(j)
    PROVE  job' \in [Jobs -> Job] /\ disturbed' \in SUBSET Jobs
  BY ConstantTypes DEF TypeOK, Stop

\* A failing statement or call is counted.
LEMMA FaultType ==
    ASSUME TypeOK, Fault
    PROVE  changes' \in 0..MaxChanges
  BY DEF TypeOK, Fault

\* A diff or a push that reaches the agent.
LEMMA OvertakeType ==
    ASSUME TypeOK, NEW j \in Jobs, NEW new \in Tasks, Overtake(j, new)
    PROVE  run' \in Tasks /\ disturbed' \in SUBSET Jobs
  BY DEF TypeOK, Overtake, Busy

\* Every statement and call of a job, and every change around it, keeps the types.
LEMMA TypeStep == TypeOK /\ ReloadNamesSub /\ [Next]_vars => TypeOK'
<1> SUFFICES ASSUME TypeOK, ReloadNamesSub, [Next]_vars PROVE TypeOK'
  OBVIOUS
<1>a. \A j \in Jobs : job[j] \in Job
  BY DEF TypeOK
<1>1. ASSUME NEW j \in Jobs, RsyncTask(j) \/ ReloadStartup(j) \/ Status(j) PROVE TypeOK'
  <2>1. job' \in [Jobs -> Job]
    BY <1>1, <1>a DEF RsyncTask, ReloadStartup, Status, Begin, TypeOK, Job
  <2> QED BY <1>1, <2>1 DEF RsyncTask, ReloadStartup, Status, Begin, TypeOK, dbVars, startVars
<1>2. ASSUME NEW j \in Jobs, NEW s \in Sub, ReloadTask(j, s) PROVE TypeOK'
  <2>1. job' \in [Jobs -> Job]
    <3>1. job' = [job EXCEPT ![j] = [job[j] EXCEPT !.pc = "light", !.kind = "reload", !.sid = s]]
      BY <1>2 DEF ReloadTask, TypeOK
    <3>2. [job[j] EXCEPT !.pc = "light", !.kind = "reload", !.sid = s] \in Job
      BY <1>a DEF Job
    <3> QED BY <3>1, <3>2, JobChange
  <2> QED BY <1>2, <2>1 DEF ReloadTask, TypeOK, dbVars, startVars
<1>3. ASSUME NEW j \in Jobs, TagUpdate(j) PROVE TypeOK'
  <2>1. job' \in [Jobs -> Job]
    BY <1>3, <1>a DEF TagUpdate, TypeOK, Job
  <2>2. changes' \in 0..MaxChanges /\ disturbed' \in SUBSET Jobs
    BY <1>3 DEF TagUpdate, TypeOK, Busy
  <2> QED BY <1>3, <2>1, <2>2 DEF TagUpdate, TypeOK, dbVars, startVars
<1>3b. ASSUME NEW j \in Jobs, StartupUpdate(j) PROVE TypeOK'
  <2>1. job' \in [Jobs -> Job]
    <3>1. job' = [job EXCEPT ![j] = [job[j] EXCEPT !.pc = "get", !.kind = "startup"]]
      BY <1>3b DEF StartupUpdate, Begin, TypeOK
    <3>2. [job[j] EXCEPT !.pc = "get", !.kind = "startup"] \in Job
      BY <1>a DEF Job
    <3> QED BY <3>1, <3>2, JobChange
  <2>2. changes' \in 0..MaxChanges /\ logger' \in Hash \cup {None}
    BY <1>3b DEF StartupUpdate, TypeOK, Hash
  <2> QED BY <1>3b, <2>1, <2>2 DEF StartupUpdate, Begin, TypeOK, dbVars
<1>4. ASSUME NEW j \in Jobs, NEW k \in Jobs, Connected(j, k) PROVE TypeOK'
  <2>1. job' \in [Jobs -> Job]
    <3>1. job' = [job EXCEPT ![j] = [job[j] EXCEPT !.pc = "get", !.kind = "startup"],
                             ![k] = [job[k] EXCEPT !.pc = "light"]]
      BY <1>4 DEF Connected, TypeOK
    <3>2. [job[j] EXCEPT !.pc = "get", !.kind = "startup"] \in Job
      BY <1>a DEF Job
    <3>3. [job[k] EXCEPT !.pc = "light"] \in Job
      BY <1>a DEF Job
    <3> QED BY <3>1, <3>2, <3>3 DEF TypeOK
  <2>2. changes' \in 0..MaxChanges /\ disturbed' \in SUBSET Jobs
    BY <1>4 DEF Connected, TypeOK, Busy
  <2> QED BY <1>4, <2>1, <2>2, ConstantTypes DEF Connected, TypeOK, dbVars, startVars
<1>5. ASSUME NEW j \in Jobs, Light(j) PROVE TypeOK'
  <2>1. job' \in [Jobs -> Job] /\ disturbed' \in SUBSET Jobs
    <3>1. CASE Stop(j)
      BY <3>1, StopType
    <3>2. CASE ~Stop(j)
      <4>1. UNCHANGED disturbed
        BY <3>2, <1>5 DEF Light
      <4>2. CASE job' = [job EXCEPT ![j].pc = "first"]
        BY <4>1, <4>2, <1>a DEF TypeOK, Job
      <4>3. CASE job' = [job EXCEPT ![j] = [IdleJob EXCEPT !.pc = "status",
                                                           !.unload = (minion = "unload")]]
        <5>1. [IdleJob EXCEPT !.pc = "status", !.unload = (minion = "unload")] \in Job
          BY ConstantTypes DEF Job
        <5> QED BY <4>1, <4>3, <5>1, JobChange DEF TypeOK
      <4> QED BY <3>2, <1>5, <4>2, <4>3 DEF Light
    <3> QED BY <3>1, <3>2
  <2> QED BY <1>5, <2>1, FaultType DEF Light, Quiet, TypeOK, dbVars, startVars
<1>6. ASSUME NEW j \in Jobs, First(j) PROVE TypeOK'
  <2>1. job[j].sid \in Sub
    BY <1>6 DEF ReloadNamesSub, First
  <2>2. subs[job[j].sid] \in Hash \cup {None}
    BY <2>1 DEF TypeOK, Wants
  <2>3. job' \in [Jobs -> Job]
    BY <1>6, <1>a, <2>2, ConstantTypes DEF First, TypeOK, Job
  <2> QED BY <1>6, <2>3, FaultType DEF First, Quiet, TypeOK, dbVars, startVars
<1>7. ASSUME NEW j \in Jobs, Push(j) PROVE TypeOK'
  <2>1. job[j].sid \in Task /\ job[j].hash \in Hash \cup {None}
    BY <1>7, <1>a DEF ReloadNamesSub, Push, Job, Task
  <2>2. run \in Tasks /\ [run EXCEPT ![job[j].sid] = job[j].hash] \in Tasks
    BY <2>1 DEF TypeOK, Tasks
  <2>3. run' \in Tasks /\ disturbed' \in SUBSET Jobs
    BY <1>7, <2>2, OvertakeType DEF Push
  <2>4. job' \in [Jobs -> Job]
    BY <1>7, ConstantTypes DEF Push, TypeOK, Job
  <2> QED BY <1>7, <2>3, <2>4, FaultType DEF Push, TypeOK, dbVars, startVars
<1>8. ASSUME NEW j \in Jobs, FetchStatus(j) \/ Tags(j) \/ GetStartup(j) \/ Oneway(j) \/ Mark(j)
      PROVE  TypeOK'
  <2>1. job' \in [Jobs -> Job] /\ disturbed' \in SUBSET Jobs
    <3>1. CASE Stop(j)
      BY <3>1, StopType
    <3>2. CASE ~Stop(j)
      <4>1. disturbed' \in SUBSET Jobs
        BY <3>2, <1>8 DEF FetchStatus, Tags, GetStartup, Oneway, Mark, TypeOK, Busy
      <4>2. CASE FetchStatus(j)
        BY <3>2, <4>1, <4>2, <1>a DEF FetchStatus, TypeOK, Job
      <4>3. CASE Tags(j)
        BY <3>2, <4>1, <4>3, <1>a DEF Tags, TypeOK, Job
      <4>4. CASE GetStartup(j)
        BY <3>2, <4>1, <4>4, <1>a DEF GetStartup, TypeOK, Job
      <4>5. CASE Oneway(j)
        BY <4>1, <4>5, <1>a DEF Oneway, TypeOK, Job
      <4>6. CASE Mark(j)
        BY <3>2, <4>6 DEF Mark
      <4> QED BY <1>8, <4>2, <4>3, <4>4, <4>5, <4>6
    <3> QED BY <3>1, <3>2
  <2>2. changes' \in 0..MaxChanges
    BY <1>8, FaultType DEF FetchStatus, Tags, GetStartup, Oneway, Mark, TypeOK
  <2>3. /\ started' \in Hash \cup {None} /\ logger' \in Hash \cup {None}
        /\ outcome' \in {"none", "sent", "failed"}
    BY <1>8, <1>a DEF FetchStatus, Tags, GetStartup, Oneway, Mark, TypeOK, Quiet, Job, startVars
  <2> QED BY <1>8, <2>1, <2>2, <2>3
          DEF FetchStatus, Tags, GetStartup, Oneway, Mark, Quiet, TypeOK, dbVars, startVars
<1>9. ASSUME NEW j \in Jobs, Substances(j) PROVE TypeOK'
  <2> DEFINE Found(out) == [s \in Sub |->
            IF ~job[j].unload /\ s \notin out /\ (s \in Private \/ job[j].known)
            THEN subs[s] ELSE None]
  <2>1. \A out : Found(out) \in Wants
    BY DEF TypeOK, Wants
  <2> HIDE DEF Found
  <2>2. job' \in [Jobs -> Job] /\ disturbed' \in SUBSET Jobs
    <3>1. CASE Stop(j)
      BY <3>1, StopType
    <3>2. CASE ~Stop(j)
      <4>1. PICK out : job' = [job EXCEPT ![j].pc = "spin", ![j].want = Found(out),
                                      ![j].known = FALSE, ![j].unload = FALSE]
        BY <3>2, <1>9 DEF Substances, Found
      <4>2. job' \in [Jobs -> Job]
        <5>1. job' = [job EXCEPT ![j] = [job[j] EXCEPT !.pc = "spin", !.want = Found(out),
                                                       !.known = FALSE, !.unload = FALSE]]
          BY <4>1 DEF TypeOK
        <5>2. [job[j] EXCEPT !.pc = "spin", !.want = Found(out),
                             !.known = FALSE, !.unload = FALSE] \in Job
          BY <2>1, <1>a DEF Job
        <5> QED BY <5>1, <5>2, JobChange
      <4>3. disturbed' \in SUBSET Jobs
        BY <3>2, <1>9 DEF Substances, TypeOK
      <4> QED BY <4>2, <4>3
    <3> QED BY <3>1, <3>2
  <2>3. changes' \in 0..MaxChanges
    BY <1>9, FaultType DEF Substances, TypeOK
  <2> QED BY <1>9, <2>2, <2>3 DEF Substances, Quiet, TypeOK, dbVars, startVars
<1>10. ASSUME NEW j \in Jobs, Spin(j) \/ SpinFault(j) PROVE TypeOK'
  <2> DEFINE d == Diff(job[j].report, job[j].want)
  <2>1. \A skip : Apply(run, d, job[j].want, skip) \in Tasks
    <3>1. run \in Tasks /\ job[j].report \in Tasks /\ job[j].want \in Wants
      BY <1>a DEF TypeOK, Job
    <3> QED BY <3>1, ApplyType
  <2> HIDE DEF d
  <2>2. run \in Tasks
    BY DEF TypeOK
  <2>3. CASE SpinFault(j)
    <3>1. run' \in Tasks /\ disturbed' \in SUBSET Jobs
      BY <2>1, <2>2, <2>3, OvertakeType DEF SpinFault, d
    <3>2. job' \in [Jobs -> Job]
      <4>1. job' = [job EXCEPT ![j] = [job[j] EXCEPT !.pc = "del", !.failed = TRUE]]
        BY <2>3 DEF SpinFault, TypeOK
      <4>2. [job[j] EXCEPT !.pc = "del", !.failed = TRUE] \in Job
        BY <1>a DEF Job
      <4> QED BY <4>1, <4>2, JobChange
    <3> QED BY <2>3, <3>1, <3>2, FaultType DEF SpinFault, TypeOK, dbVars, startVars
  <2>4. CASE Spin(j) /\ (NotModified(d) \/ job[j].cycle = Cycle)
    <3>1. UNCHANGED <<run, disturbed>> /\ job' = [job EXCEPT ![j].pc = "del"]
      BY <2>4 DEF Spin, d
    <3>2. job' \in [Jobs -> Job]
      BY <3>1, <1>a DEF TypeOK, Job
    <3> QED BY <2>4, <3>1, <3>2 DEF Spin, TypeOK, dbVars, startVars
  <2>5. CASE Spin(j) /\ ~(NotModified(d) \/ job[j].cycle = Cycle)
    <3>1. PICK skip \in SUBSET Stubborn :
             /\ Overtake(j, Apply(run, d, job[j].want, skip))
             /\ job' = [job EXCEPT ![j].cycle = @ + 1,
                                   ![j].report = Apply(run, d, job[j].want, skip)]
      BY <2>5 DEF Spin, d
    <3>2. job[j].cycle + 1 \in 0..Cycle
      BY <2>5, <1>a DEF Spin, d, Job
    <3>3. job' \in [Jobs -> Job]
      <4>1. job' = [job EXCEPT ![j] = [job[j] EXCEPT !.cycle = @ + 1,
                                             !.report = Apply(run, d, job[j].want, skip)]]
        BY <3>1 DEF TypeOK
      <4>2. [job[j] EXCEPT !.cycle = @ + 1, !.report = Apply(run, d, job[j].want, skip)] \in Job
        BY <3>2, <2>1, <1>a DEF Job
      <4> QED BY <4>1, <4>2, JobChange
    <3>4. run' \in Tasks /\ disturbed' \in SUBSET Jobs
      BY <3>1, <2>1, OvertakeType
    <3> QED BY <2>5, <3>3, <3>4 DEF Spin, TypeOK, dbVars, startVars
  <2> QED BY <1>10, <2>3, <2>4, <2>5
<1>11. ASSUME NEW j \in Jobs, DeleteRows(j) PROVE TypeOK'
  <2>1. job' \in [Jobs -> Job] /\ disturbed' \in SUBSET Jobs
    <3>1. CASE Stop(j)
      BY <3>1, StopType
    <3>2. CASE ~Stop(j)
      <4>1. /\ job' = [job EXCEPT ![j] = [IdleJob EXCEPT !.pc = "create", !.report = job[j].report]]
            /\ UNCHANGED disturbed
        BY <3>2, <1>11 DEF DeleteRows
      <4>2. [IdleJob EXCEPT !.pc = "create", !.report = job[j].report] \in Job
        BY <1>a, ConstantTypes DEF Job
      <4> QED BY <4>1, <4>2, JobChange DEF TypeOK
    <3> QED BY <3>1, <3>2
  <2>2. NoRows \in [Task \X Hash -> Nat]
    BY DEF NoRows
  <2>3. rows' \in [Task \X Hash -> Nat]
    BY <1>11, <2>2 DEF DeleteRows, TypeOK
  <2>4. mixed' \in BOOLEAN
    BY <1>11, Zenon DEF DeleteRows
  <2> QED BY <1>11, <2>1, <2>3, <2>4, FaultType DEF DeleteRows, TypeOK, dbVars, startVars
<1>12. ASSUME NEW j \in Jobs, CreateRows(j) PROVE TypeOK'
  <2>1. job' \in [Jobs -> Job] /\ disturbed' \in SUBSET Jobs
    BY <1>12, StopType DEF CreateRows
  <2>2. job[j].report \in Tasks
    BY <1>a DEF Job
  <2>3. \A x \in Task \X Hash : RowsOf(job[j].report)[x] \in {0, 1}
    BY DEF RowsOf
  <2>4. rows' \in [Task \X Hash -> Nat]
    BY <1>12, <2>3 DEF CreateRows, TypeOK
  <2> QED BY <1>12, <2>1, <2>4, FaultType DEF CreateRows, TypeOK, dbVars, startVars
<1>13. CASE ManagerEdits
  <2>1. changes' \in 0..MaxChanges /\ disturbed' \in SUBSET Jobs
    BY <1>13 DEF ManagerEdits, Edit, TypeOK, Busy
  <2>2. 1 \in Hash
    BY DEF Hash
  <2> QED BY <1>13, <2>1, <2>2 DEF ManagerEdits, TypeOK, Wants, startVars
<1>14. CASE UNCHANGED vars
  BY <1>14 DEF vars, dbVars, startVars, TypeOK
<1> QED BY <1>1, <1>2, <1>3, <1>3b, <1>4, <1>5, <1>6, <1>7, <1>8, <1>9, <1>10, <1>11, <1>12, <1>13, <1>14
        DEF Next, JobStep
-----------------------------------------------------------------------------
(* What holds of a job and of the agent at any time. *)

\* A step of a job leaves the records of the others alone.
LEMMA OthersSame ==
    ASSUME TypeOK, NEW j \in Jobs,
           \/ RsyncTask(j) \/ ReloadStartup(j) \/ Status(j) \/ TagUpdate(j) \/ StartupUpdate(j)
           \/ \E s \in Sub : ReloadTask(j, s)
           \/ JobStep(j) \/ SpinFault(j)
    PROVE  \A k \in Jobs \ {j} : job'[k] = job[k]
<1> USE DEF TypeOK
<1>1. CASE RsyncTask(j) \/ ReloadStartup(j) \/ Status(j) \/ TagUpdate(j) \/ StartupUpdate(j)
  BY <1>1 DEF RsyncTask, ReloadStartup, Status, TagUpdate, StartupUpdate, Begin
<1>2. CASE \E s \in Sub : ReloadTask(j, s)
  BY <1>2 DEF ReloadTask
<1>3. CASE Light(j) \/ First(j) \/ Push(j) \/ FetchStatus(j)
  BY <1>3 DEF Light, First, Push, FetchStatus, Stop
<1>4. CASE Tags(j) \/ Substances(j)
  BY <1>4 DEF Tags, Substances, Stop
<1>5. CASE Spin(j) \/ SpinFault(j)
  BY <1>5 DEF Spin, SpinFault
<1>6. CASE DeleteRows(j) \/ CreateRows(j) \/ GetStartup(j) \/ Oneway(j) \/ Mark(j)
  BY <1>6 DEF DeleteRows, CreateRows, GetStartup, Oneway, Mark, Stop
<1> QED BY <1>1, <1>2, <1>3, <1>4, <1>5, <1>6 DEF JobStep

\* The agent's own tasks are in no diff.
LEMMA ApplyOwn ==
    ASSUME NEW now \in Tasks, NEW wanted, NEW rep, NEW skip, NEW t \in Own
    PROVE  Apply(now, Diff(rep, wanted), wanted, skip)[t] = now[t]
  BY DEF Apply, Diff, Task

\* agent_rsync.go: no job changes a task that did not come from the tunnel.
LEMMA OwnStep == TypeOK /\ ReloadNamesSub /\ OwnKept /\ [Next]_vars => OwnKept'
<1> SUFFICES ASSUME TypeOK, ReloadNamesSub, OwnKept, [Next]_vars, NEW t \in Own
             PROVE  run'[t] = Fresh[t]
  BY DEF OwnKept, Fresh
<1>0. t \in Task /\ run[t] = Fresh[t] /\ run \in Tasks
  BY DEF OwnKept, TypeOK, Task
<1>1. CASE UNCHANGED run
  BY <1>0, <1>1
<1>2. ASSUME NEW j \in Jobs, NEW k \in Jobs, Connected(j, k) PROVE run'[t] = Fresh[t]
  BY <1>2 DEF Connected
<1>3. ASSUME NEW j \in Jobs, Push(j) PROVE run'[t] = Fresh[t]
  <2>1. job[j].sid \in Sub
    BY <1>3 DEF Push, ReloadNamesSub
  <2>2. job[j].sid # t /\ job[j].sid \in Task
    BY <2>1 DEF Task
  <2> QED BY <1>0, <1>3, <2>2 DEF Push, Overtake, Tasks
<1>4. ASSUME NEW j \in Jobs, Spin(j) \/ SpinFault(j) PROVE run'[t] = Fresh[t]
  <2> DEFINE new(skip) == Apply(run, Diff(job[j].report, job[j].want), job[j].want, skip)
  <2>1. \A skip : new(skip)[t] = run[t]
    BY <1>0, ApplyOwn
  <2>2. run' = run \/ \E skip : run' = new(skip)
    BY <1>4 DEF Spin, SpinFault, Overtake
  <2> HIDE DEF new
  <2> QED BY <1>0, <2>1, <2>2
<1>5. ASSUME NEW j \in Jobs,
             \/ RsyncTask(j) \/ ReloadStartup(j) \/ Status(j) \/ TagUpdate(j) \/ StartupUpdate(j)
             \/ \E s \in Sub : ReloadTask(j, s)
             \/ Light(j) \/ First(j) \/ FetchStatus(j) \/ Tags(j) \/ Substances(j)
             \/ DeleteRows(j) \/ CreateRows(j) \/ GetStartup(j) \/ Oneway(j) \/ Mark(j)
      PROVE  UNCHANGED run
  BY <1>5 DEF RsyncTask, ReloadStartup, Status, TagUpdate, StartupUpdate, ReloadTask, Light, First, FetchStatus,
     Tags, Substances, DeleteRows, CreateRows, GetStartup, Oneway, Mark, Quiet
<1>6. CASE ManagerEdits \/ UNCHANGED vars
  BY <1>1, <1>6 DEF ManagerEdits, vars
<1> QED BY <1>1, <1>2, <1>3, <1>4, <1>5, <1>6 DEF Next, JobStep

\* What a job's own step makes of its record.
LEMMA ShapeStep ==
    TypeOK /\ IdleIsFresh /\ ReloadNamesSub /\ [Next]_vars => IdleIsFresh' /\ ReloadNamesSub'
<1> DEFINE Shaped(r) ==
        /\ r.pc = "idle" => r = IdleJob
        /\ r.pc \in {"first", "push"} => r.kind = "reload"
        /\ r.kind = "reload" => r.sid \in Sub
<1> SUFFICES ASSUME TypeOK, \A k \in Jobs : Shaped(job[k]), [Next]_vars,
                    NEW k \in Jobs
             PROVE  Shaped(job'[k])
  BY DEF IdleIsFresh, ReloadNamesSub
<1>0. Shaped(job[k]) /\ job[k] \in Job
  BY DEF TypeOK
<1>i. IdleJob.kind = "rsync" /\ IdleJob.pc = "idle" /\ Shaped(IdleJob)
  BY DEF IdleJob
<1>s. Stop(k) => Shaped(job'[k])
  BY <1>i DEF Stop, TypeOK
<1>1. CASE job'[k] = job[k]
  BY <1>0, <1>1
<1>2. CASE RsyncTask(k) \/ ReloadStartup(k) \/ Status(k) \/ TagUpdate(k) \/ StartupUpdate(k)
  <2>1. job[k] = IdleJob
    BY <1>0, <1>2 DEF RsyncTask, ReloadStartup, Status, TagUpdate, StartupUpdate, Begin
  <2>2. job'[k].pc \in {"light", "get", "del"} /\ job'[k].kind # "reload"
    BY <1>2, <2>1, <1>i, <1>0 DEF RsyncTask, ReloadStartup, Status, TagUpdate, StartupUpdate, Begin, TypeOK, Job
  <2> QED BY <2>2
<1>3. ASSUME NEW s \in Sub, ReloadTask(k, s) PROVE Shaped(job'[k])
  BY <1>3, <1>0 DEF ReloadTask, TypeOK, Job
<1>4. ASSUME NEW i \in Jobs, NEW j \in Jobs, Connected(i, j) PROVE Shaped(job'[k])
  <2>1. CASE k \notin {i, j}
    BY <1>4, <2>1, <1>1 DEF Connected, TypeOK
  <2>2. CASE k \in {i, j}
    <3>1. job[k] = IdleJob
      BY <1>0, <1>4, <2>2 DEF Connected
    <3>2. job'[k].pc \in {"light", "get"} /\ job'[k].kind # "reload"
      BY <1>4, <2>2, <3>1, <1>i, <1>0 DEF Connected, TypeOK, Job
    <3> QED BY <3>2
  <2> QED BY <2>1, <2>2
<1>5. CASE Light(k)
  <2>1. ~Stop(k) => job'[k].pc \in {"first", "status"}
           /\ (job'[k].pc = "first" => job[k].kind = "reload" /\ job'[k].kind = "reload"
                                        /\ job'[k].sid = job[k].sid)
           /\ (job'[k].pc = "status" => job'[k].kind = "rsync")
    <3>1. ~Stop(k) => \/ job[k].kind = "reload" /\ job'[k] = [job[k] EXCEPT !.pc = "first"]
                      \/ job'[k] = [IdleJob EXCEPT !.pc = "status", !.unload = (minion = "unload")]
      BY <1>5 DEF Light, TypeOK
    <3> QED BY <3>1, <1>0, ConstantTypes, <1>i DEF Job
  <2> QED BY <2>1, <1>s, <1>0
<1>6. CASE First(k)
  <2>1. \/ job'[k].pc = "push" /\ job'[k].kind = job[k].kind /\ job'[k].sid = job[k].sid
        \/ job'[k].pc = "status" /\ job'[k].kind = "rsync"
    BY <1>6, <1>0, <1>i DEF First, TypeOK, Job, IdleJob
  <2> QED BY <2>1, <1>0, <1>6 DEF First
<1>7. CASE Push(k)
  <2>1. job'[k].pc = "status" /\ job'[k].kind = "rsync"
    BY <1>7, <1>0, <1>i DEF Push, TypeOK, Job, IdleJob
  <2> QED BY <2>1
<1>8. CASE FetchStatus(k) \/ Tags(k) \/ GetStartup(k) \/ Oneway(k) \/ Mark(k)
  <2>1. ~Stop(k) => /\ job'[k].pc \in {"tags", "subs", "oneway", "mark"}
                    /\ job'[k].kind = job[k].kind /\ job'[k].sid = job[k].sid
    BY <1>8, <1>0 DEF FetchStatus, Tags, GetStartup, Oneway, Mark, TypeOK, Job
  <2> QED BY <2>1, <1>s, <1>0
<1>9. CASE Substances(k)
  <2>1. ~Stop(k) => /\ job'[k].pc = "spin"
                    /\ job'[k].kind = job[k].kind /\ job'[k].sid = job[k].sid
    <3>1. ~Stop(k) => \E w : job'[k] = [job[k] EXCEPT !.pc = "spin", !.want = w,
                                                      !.known = FALSE, !.unload = FALSE]
      BY <1>9 DEF Substances, TypeOK
    <3> QED BY <3>1, <1>0 DEF Job
  <2> QED BY <2>1, <1>s, <1>0
<1>10. CASE Spin(k) \/ SpinFault(k)
  <2>1. /\ job'[k].pc \in {"spin", "del"}
        /\ job'[k].kind = job[k].kind /\ job'[k].sid = job[k].sid
    BY <1>10, <1>0 DEF Spin, SpinFault, TypeOK, Job
  <2> QED BY <2>1, <1>0
<1>11. CASE DeleteRows(k) \/ CreateRows(k)
  <2>1. ~Stop(k) => job'[k].pc = "create" /\ job'[k].kind = "rsync"
    <3>1. ~Stop(k) => job'[k] = [IdleJob EXCEPT !.pc = "create", !.report = job[k].report]
      BY <1>11 DEF DeleteRows, CreateRows, TypeOK
    <3> QED BY <3>1, ConstantTypes, <1>i DEF Job
  <2> QED BY <2>1, <1>s
<1>12. CASE ManagerEdits \/ UNCHANGED vars
  BY <1>1, <1>12 DEF ManagerEdits, vars
<1> HIDE DEF Shaped
<1> QED BY <1>1, <1>2, <1>3, <1>4, <1>5, <1>6, <1>7, <1>8, <1>9, <1>10, <1>11, <1>12, OthersSame
        DEF Next, JobStep
-----------------------------------------------------------------------------
(* What an undisturbed job has read. *)

\* Nothing is claimed of a job at one of these statements.
LEMMA ViewIdle ==
    ASSUME NEW k \in Jobs, job'[k].pc \in {"idle", "light", "get", "oneway", "mark"}
    PROVE  View(k)'
  BY DEF View

\* A view lasts while the database, the agent and the job stay as they are.
LEMMA ViewFrame ==
    ASSUME NEW k \in Jobs, View(k), job'[k] = job[k], UNCHANGED <<dbVars, run>>
    PROVE  View(k)'
<1>1. Assigned' = Assigned /\ Desired' = Desired
  BY DEF Assigned, Desired, dbVars
<1> QED BY <1>1 DEF View, dbVars

\* A job whose diff is empty, with a view of what is assigned, leaves the agent as desired.
LEMMA NotModifiedSettles ==
    ASSUME TypeOK, OwnKept, NotModified(Diff(run, Assigned))
    PROVE  run = Desired
<1>1. run \in Tasks /\ Assigned \in Wants
  BY WantsType DEF TypeOK
<1>2. \A s \in Sub : run[s] = Assigned[s]
  BY <1>1 DEF NotModified, Diff
<1>3. \A t \in Task : run[t] = Desired[t]
  BY <1>1, <1>2 DEF Desired, OwnKept, Task
<1>4. Desired = [t \in Task |-> Desired[t]]
  BY DEF Desired
<1> QED BY <1>1, <1>3, <1>4 DEF Tasks

\* The steps of one job keep the view of every other job, or disturb it.
LEMMA OthersView ==
    ASSUME TypeOK, Viewed, NEW j \in Jobs, NEW k \in Jobs \ {j}, k \notin disturbed',
           \/ RsyncTask(j) \/ ReloadStartup(j) \/ Status(j) \/ TagUpdate(j) \/ StartupUpdate(j)
           \/ \E s \in Sub : ReloadTask(j, s)
           \/ JobStep(j) \/ SpinFault(j)
    PROVE  View(k)'
<1>0. job'[k] = job[k]
  BY OthersSame
<1>1. CASE job[k].pc = "idle"
  BY <1>0, <1>1, ViewIdle
<1>2. CASE job[k].pc # "idle"
  <2>1. k \in Busy
    BY <1>2 DEF Busy
  <2>2. ASSUME k \notin disturbed, UNCHANGED <<dbVars, run>> PROVE View(k)'
    BY <1>0, <2>2, ViewFrame DEF Viewed
  <2>3. Stop(j) => k \notin disturbed
    BY DEF Stop
  <2>4. ASSUME NEW new, Overtake(j, new) PROVE k \notin disturbed /\ UNCHANGED run
    BY <2>1, <2>4 DEF Overtake
  <2>5. CASE RsyncTask(j) \/ ReloadStartup(j) \/ Status(j) \/ \E s \in Sub : ReloadTask(j, s)
    BY <2>2, <2>5 DEF RsyncTask, ReloadStartup, Status, ReloadTask, Begin
  <2>6. CASE TagUpdate(j) \/ StartupUpdate(j)
    BY <2>1, <2>2, <2>6 DEF TagUpdate, StartupUpdate, Begin
  <2>7. CASE Light(j) \/ First(j) \/ FetchStatus(j) \/ Tags(j) \/ Substances(j) \/ GetStartup(j)
             \/ Mark(j)
    BY <2>2, <2>3, <2>7 DEF Light, First, FetchStatus, Tags, Substances, GetStartup, Mark, Quiet
  <2>8. CASE Push(j) \/ SpinFault(j)
    BY <2>2, <2>4, <2>8 DEF Push, SpinFault
  <2>9. CASE Spin(j)
    <3>1. k \notin disturbed /\ UNCHANGED run
      BY <2>4, <2>9 DEF Spin
    <3> QED BY <2>2, <2>9, <3>1 DEF Spin
  <2>10. CASE DeleteRows(j) \/ CreateRows(j)
    BY <2>2, <2>3, <2>10 DEF DeleteRows, CreateRows
  <2>11. CASE Oneway(j)
    BY <2>1, <2>2, <2>11 DEF Oneway
  <2> QED BY <2>5, <2>6, <2>7, <2>8, <2>9, <2>10, <2>11 DEF JobStep
<1> QED BY <1>1, <1>2

\* A job's own step takes its view to the one of its next statement.
LEMMA OwnView ==
    ASSUME TypeOK, IdleIsFresh, OwnKept, Viewed, NEW k \in Jobs, k \notin disturbed',
           \/ RsyncTask(k) \/ ReloadStartup(k) \/ Status(k) \/ TagUpdate(k) \/ StartupUpdate(k)
           \/ \E s \in Sub : ReloadTask(k, s)
           \/ JobStep(k) \/ SpinFault(k)
    PROVE  View(k)'
<1>0. job[k] \in Job /\ minion \in {"load", "unload", "delete"}
  BY DEF TypeOK
<1>v. k \notin disturbed => View(k)
  BY DEF Viewed
<1>i. IdleJob \in Job /\ IdleJob.unload = FALSE /\ IdleJob.pc = "idle" /\ IdleJob.kind = "rsync"
  BY ConstantTypes DEF IdleJob
<1>s. Stop(k) => View(k)'
  <2>1. Stop(k) => job'[k].pc = "idle"
    BY <1>i DEF Stop, TypeOK
  <2> QED BY <2>1, ViewIdle
<1>1. CASE RsyncTask(k) \/ ReloadStartup(k) \/ TagUpdate(k) \/ StartupUpdate(k) \/ \E s \in Sub : ReloadTask(k, s)
  <2>1. job'[k].pc \in {"light", "get"}
    BY <1>0, <1>1 DEF RsyncTask, ReloadStartup, TagUpdate, StartupUpdate, ReloadTask, Begin, TypeOK, Job
  <2> QED BY <2>1, ViewIdle
<1>2. CASE Status(k)
  <2>1. job'[k].pc = "del" /\ job'[k].kind = "status" /\ job'[k].report = run /\ run' = run
    BY <1>0, <1>2 DEF Status, TypeOK, Job
  <2> QED BY <2>1 DEF View
<1>3. CASE Light(k)
  <2>1. ~Stop(k) =>
           /\ minion # "delete"
           /\ \/ minion = "load" /\ job'[k] = [job[k] EXCEPT !.pc = "first"]
              \/ job'[k] = [IdleJob EXCEPT !.pc = "status", !.unload = (minion = "unload")]
    BY <1>3 DEF Light, TypeOK
  <2>2. ~Stop(k) => \/ minion = "load" /\ job'[k].pc = "first"
                    \/ /\ minion # "delete" /\ job'[k].pc = "status"
                       /\ job'[k].unload = (minion = "unload")
    BY <2>1, <1>0, <1>i DEF Job
  <2> QED BY <2>2, <1>s, <1>3 DEF Light, Quiet, dbVars, View
<1>4. CASE First(k)
  <2>1. minion = "load"
    BY <1>4, <1>v DEF First, View
  <2>2. \/ job'[k].pc = "push"
        \/ job'[k] = [IdleJob EXCEPT !.pc = "status"]
    BY <1>0, <1>4 DEF First, TypeOK, Job
  <2>3. \/ job'[k].pc = "push"
        \/ job'[k].pc = "status" /\ job'[k].unload = FALSE
    BY <2>2, <1>i DEF Job
  <2> QED BY <2>1, <2>3, <1>4 DEF First, Quiet, dbVars, View
<1>5. CASE Push(k)
  <2>1. k \notin disturbed
    BY <1>5 DEF Push, Overtake
  <2>2. minion = "load"
    BY <1>5, <2>1, <1>v DEF Push, View
  <2>3. job'[k] = [IdleJob EXCEPT !.pc = "status"]
    BY <1>5 DEF Push, TypeOK
  <2>4. job'[k].pc = "status" /\ job'[k].unload = FALSE
    BY <2>3, <1>i DEF Job
  <2> QED BY <2>2, <2>4, <1>5 DEF Push, dbVars, View
<1>6. CASE FetchStatus(k)
  <2>1. ~Stop(k) => /\ job'[k] = [job[k] EXCEPT !.pc = "tags", !.report = run]
                    /\ UNCHANGED disturbed
    BY <1>6 DEF FetchStatus, TypeOK
  <2>2. ~Stop(k) => /\ job'[k].pc = "tags" /\ job'[k].report = run
                    /\ job'[k].unload = job[k].unload /\ UNCHANGED disturbed
    BY <2>1, <1>0 DEF Job
  <2> QED BY <2>2, <1>s, <1>v, <1>6 DEF FetchStatus, Quiet, dbVars, View
<1>7. CASE Tags(k)
  <2>1. job'[k] = [job[k] EXCEPT !.pc = "subs", !.known = tagged] /\ UNCHANGED disturbed
    BY <1>7 DEF Tags, TypeOK
  <2>2. /\ job'[k].pc = "subs" /\ job'[k].known = tagged
        /\ job'[k].unload = job[k].unload /\ job'[k].report = job[k].report
    BY <2>1, <1>0 DEF Job
  <2> QED BY <2>1, <2>2, <1>v, <1>7 DEF Tags, Quiet, dbVars, View
<1>8. CASE Substances(k)
  <2> DEFINE Found == [s \in Sub |->
            IF ~job[k].unload /\ s \notin excludes /\ (s \in Private \/ job[k].known)
            THEN subs[s] ELSE None]
  <2>1. CASE ~Stop(k)
    <3>1. /\ job'[k] = [job[k] EXCEPT !.pc = "spin", !.want = Found,
                                      !.known = FALSE, !.unload = FALSE]
          /\ UNCHANGED disturbed
      BY <1>8, <2>1 DEF Substances, TypeOK
    <3>2. View(k) /\ job[k].pc = "subs"
      BY <3>1, <1>v, <1>8 DEF Substances
    <3>3. Found = Assigned
      BY <3>2, <1>0 DEF View, Assigned
    <3> HIDE DEF Found
    <3>4. job'[k].pc = "spin" /\ job'[k].want = Found /\ job'[k].report = job[k].report
      BY <3>1, <1>0 DEF Job
    <3>5. Assigned' = Assigned /\ run' = run
      BY <1>8 DEF Substances, Quiet, Assigned, dbVars
    <3> QED BY <3>2, <3>3, <3>4, <3>5 DEF View
  <2> QED BY <2>1, <1>s
<1>9. CASE SpinFault(k)
  <2>1. job'[k] = [job[k] EXCEPT !.pc = "del", !.failed = TRUE]
    BY <1>9 DEF SpinFault, TypeOK
  <2>2. job'[k].pc = "del" /\ job'[k].failed
    BY <2>1, <1>0 DEF Job
  <2> QED BY <2>2 DEF View
<1>10. CASE Spin(k)
  <2> DEFINE d == Diff(job[k].report, job[k].want)
  <2>1. k \notin disturbed /\ job[k].pc = "spin"
    BY <1>10 DEF Spin, Overtake
  <2>2. job[k].report = run /\ job[k].want = Assigned
    BY <2>1, <1>v DEF View
  <2>3. Assigned' = Assigned
    BY <1>10 DEF Spin, Assigned, dbVars
  <2>4. CASE NotModified(d) \/ job[k].cycle = Cycle
    <3>1. UNCHANGED run /\ job'[k] = [job[k] EXCEPT !.pc = "del"]
      BY <1>10, <2>4 DEF Spin, TypeOK
    <3>2. job'[k].pc = "del" /\ job'[k].cycle = job[k].cycle /\ job'[k].report = job[k].report
      BY <3>1, <1>0 DEF Job
    <3>3. run = Desired \/ job[k].cycle = Cycle
      BY <2>2, <2>4, NotModifiedSettles
    <3>4. Desired' = Desired
      BY <2>3 DEF Desired
    <3> QED BY <2>2, <3>1, <3>2, <3>3, <3>4 DEF View
  <2>5. CASE ~(NotModified(d) \/ job[k].cycle = Cycle)
    <3>1. PICK new : /\ run' = new
                     /\ job'[k] = [job[k] EXCEPT !.cycle = @ + 1, !.report = new]
      BY <1>10, <2>5 DEF Spin, Overtake, TypeOK
    <3>2. job'[k].pc = "spin" /\ job'[k].want = job[k].want /\ job'[k].report = new
      BY <2>1, <3>1, <1>0 DEF Job
    <3> QED BY <2>2, <2>3, <3>1, <3>2 DEF View
  <2> QED BY <2>4, <2>5
<1>11. CASE DeleteRows(k) \/ CreateRows(k)
  <2>1. CASE ~Stop(k)
    <3>1. /\ job'[k] = [IdleJob EXCEPT !.pc = "create", !.report = job[k].report]
          /\ job[k].pc = "del" /\ ~job[k].failed /\ UNCHANGED <<disturbed, run>>
      BY <1>11, <2>1 DEF DeleteRows, CreateRows, TypeOK
    <3>2. job'[k].pc = "create" /\ job'[k].report = job[k].report
      BY <3>1, <1>i, <1>0 DEF Job
    <3>3. job[k].report = run
      BY <3>1, <1>v DEF View
    <3> QED BY <3>1, <3>2, <3>3 DEF View
  <2> QED BY <2>1, <1>s
<1>12. CASE GetStartup(k) \/ Oneway(k)
  <2>1. ~Stop(k) => job'[k].pc \in {"oneway", "mark"}
    BY <1>12, <1>0 DEF GetStartup, Oneway, TypeOK, Job
  <2> QED BY <2>1, <1>s, ViewIdle
<1>14. CASE Mark(k)
  BY <1>14, <1>s DEF Mark
<1> QED BY <1>1, <1>2, <1>3, <1>4, <1>5, <1>6, <1>7, <1>8, <1>9, <1>10, <1>11, <1>12, <1>14
        DEF JobStep

\* What an undisturbed job has read stays true until it acts on it.
LEMMA ViewStep == TypeOK /\ IdleIsFresh /\ OwnKept /\ Viewed /\ [Next]_vars => Viewed'
<1> SUFFICES ASSUME TypeOK, IdleIsFresh, OwnKept, Viewed, [Next]_vars,
                    NEW k \in Jobs, k \notin disturbed'
             PROVE  View(k)'
  BY DEF Viewed
<1>1. ASSUME NEW j \in Jobs,
             \/ RsyncTask(j) \/ ReloadStartup(j) \/ Status(j) \/ TagUpdate(j) \/ StartupUpdate(j)
             \/ \E s \in Sub : ReloadTask(j, s)
             \/ JobStep(j) \/ SpinFault(j)
      PROVE  View(k)'
  <2>1. CASE j = k
    BY <1>1, <2>1, OwnView
  <2>2. CASE j # k
    BY <1>1, <2>2, OthersView
  <2> QED BY <2>1, <2>2
<1>2. ASSUME NEW i \in Jobs, NEW j \in Jobs, Connected(i, j) PROVE View(k)'
  <2>1. job[k].pc = "idle" /\ job[k] \in Job
    BY <1>2 DEF Connected, Busy, TypeOK
  <2>2. job'[k].pc \in {"idle", "get", "light"}
    BY <1>2, <2>1 DEF Connected, TypeOK, Job
  <2> QED BY <2>2, ViewIdle
<1>3. CASE ManagerEdits
  <2>1. job'[k].pc = "idle"
    BY <1>3 DEF ManagerEdits, Edit, Busy
  <2> QED BY <2>1, ViewIdle
<1>4. CASE UNCHANGED vars
  BY <1>4, ViewFrame DEF vars, Viewed
<1> QED BY <1>1, <1>2, <1>3, <1>4 DEF Next
-----------------------------------------------------------------------------
(* The rows of the minion's tasks. *)

\* The statements around the two that write rows start no writer.
LEMMA NoWriter ==
    ASSUME TypeOK, NEW j \in Jobs,
           \/ RsyncTask(j) \/ ReloadStartup(j) \/ Status(j) \/ TagUpdate(j) \/ StartupUpdate(j)
           \/ \E s \in Sub : ReloadTask(j, s)
           \/ Light(j) \/ First(j) \/ Push(j) \/ FetchStatus(j) \/ Tags(j) \/ Substances(j)
           \/ Spin(j) \/ SpinFault(j) \/ GetStartup(j) \/ Oneway(j) \/ Mark(j)
    PROVE  UNCHANGED <<rows, mixed>> /\ job'[j].pc # "create"
<1>0. job[j] \in Job /\ IdleJob \in Job /\ IdleJob.pc = "idle"
  BY ConstantTypes DEF TypeOK, IdleJob
<1>s. Stop(j) => job'[j].pc # "create"
  BY <1>0 DEF Stop, TypeOK
<1>1. CASE RsyncTask(j) \/ ReloadStartup(j) \/ Status(j) \/ TagUpdate(j) \/ StartupUpdate(j)
  <2>1. job'[j].pc \in {"light", "get", "del"}
    BY <1>0, <1>1 DEF RsyncTask, ReloadStartup, Status, TagUpdate, StartupUpdate, Begin, TypeOK, Job
  <2> QED BY <2>1, <1>1 DEF RsyncTask, ReloadStartup, Status, TagUpdate, StartupUpdate
<1>2. CASE \E s \in Sub : ReloadTask(j, s)
  <2>0. \E s : job'[j] = [job[j] EXCEPT !.pc = "light", !.kind = "reload", !.sid = s]
    BY <1>2 DEF ReloadTask, TypeOK
  <2>1. job'[j].pc = "light"
    BY <1>0, <2>0 DEF Job
  <2> QED BY <2>1, <1>2 DEF ReloadTask
<1>3. CASE Light(j)
  <2>1. ~Stop(j) => \/ job'[j] = [job[j] EXCEPT !.pc = "first"]
                    \/ job'[j] = [IdleJob EXCEPT !.pc = "status", !.unload = (minion = "unload")]
    BY <1>3 DEF Light, TypeOK
  <2>2. ~Stop(j) => job'[j].pc # "create"
    BY <2>1, <1>0 DEF Job
  <2> QED BY <2>2, <1>s, <1>3 DEF Light, Quiet
<1>4. CASE First(j) \/ Push(j)
  <2>1. \/ job'[j].pc = "push" \/ job'[j] = [IdleJob EXCEPT !.pc = "status"]
    BY <1>0, <1>4 DEF First, Push, TypeOK, Job
  <2>2. job'[j].pc # "create"
    BY <2>1, <1>0 DEF Job
  <2> QED BY <2>2, <1>4 DEF First, Push, Quiet
<1>5. CASE FetchStatus(j) \/ Tags(j) \/ GetStartup(j) \/ Oneway(j) \/ Mark(j)
  <2>1. ~Stop(j) => job'[j].pc # "create"
    BY <1>0, <1>5 DEF FetchStatus, Tags, GetStartup, Oneway, Mark, TypeOK, Job
  <2> QED BY <2>1, <1>s, <1>5 DEF FetchStatus, Tags, GetStartup, Oneway, Mark, Quiet
<1>6. CASE Substances(j)
  <2>1. ~Stop(j) => \E w : job'[j] = [job[j] EXCEPT !.pc = "spin", !.want = w,
                                                    !.known = FALSE, !.unload = FALSE]
    BY <1>6 DEF Substances, TypeOK
  <2>2. ~Stop(j) => job'[j].pc # "create"
    BY <2>1, <1>0 DEF Job
  <2> QED BY <2>2, <1>s, <1>6 DEF Substances, Quiet
<1>7. CASE Spin(j) \/ SpinFault(j)
  <2>1. job'[j].pc # "create"
    BY <1>0, <1>7 DEF Spin, SpinFault, TypeOK, Job
  <2> QED BY <2>1, <1>7 DEF Spin, SpinFault
<1> QED BY <1>1, <1>2, <1>3, <1>4, <1>5, <1>6, <1>7

\* Every step but the two statements leaves the rows alone and starts no writer.
LEMMA WriterSteps ==
    ASSUME TypeOK, [Next]_vars,
           ~\E j \in Jobs : DeleteRows(j) \/ CreateRows(j)
    PROVE  /\ UNCHANGED <<rows, mixed>>
           /\ \A k \in Jobs : job'[k].pc = "create" => job[k].pc = "create"
<1>1. ASSUME NEW j \in Jobs,
             \/ RsyncTask(j) \/ ReloadStartup(j) \/ Status(j) \/ TagUpdate(j) \/ StartupUpdate(j)
             \/ \E s \in Sub : ReloadTask(j, s)
             \/ Light(j) \/ First(j) \/ Push(j) \/ FetchStatus(j) \/ Tags(j) \/ Substances(j)
             \/ Spin(j) \/ SpinFault(j) \/ GetStartup(j) \/ Oneway(j) \/ Mark(j)
      PROVE  /\ UNCHANGED <<rows, mixed>>
             /\ \A k \in Jobs : job'[k].pc = "create" => job[k].pc = "create"
  <2>1. UNCHANGED <<rows, mixed>> /\ job'[j].pc # "create"
    BY <1>1, NoWriter
  <2>2. \A k \in Jobs \ {j} : job'[k] = job[k]
    BY <1>1, OthersSame DEF JobStep
  <2> QED BY <2>1, <2>2
<1>2. ASSUME NEW i \in Jobs, NEW j \in Jobs, Connected(i, j)
      PROVE  /\ UNCHANGED <<rows, mixed>>
             /\ \A k \in Jobs : job'[k].pc = "create" => job[k].pc = "create"
  <2>1. \A k \in Jobs : job[k] \in Job
    BY DEF TypeOK
  <2> QED BY <1>2, <2>1 DEF Connected, TypeOK, Job
<1>3. CASE ManagerEdits \/ UNCHANGED vars
  BY <1>3 DEF ManagerEdits, vars
<1> QED BY <1>1, <1>2, <1>3 DEF Next, JobStep

\* The DELETE and the INSERT of overlapping writers are noticed as such.
LEMMA WriterStep == TypeOK /\ OneWriter /\ [Next]_vars => OneWriter'
<1> SUFFICES ASSUME TypeOK, OneWriter, [Next]_vars PROVE OneWriter'
  OBVIOUS
<1>1. CASE ~\E j \in Jobs : DeleteRows(j) \/ CreateRows(j)
  BY <1>1, WriterSteps DEF OneWriter, NoRows
<1>2. ASSUME NEW j \in Jobs, DeleteRows(j) PROVE OneWriter'
  <2>1. \A k \in Jobs \ {j} : job'[k] = job[k]
    BY <1>2, OthersSame DEF JobStep
  <2>2. ~mixed' => rows' = NoRows /\ \A k \in Jobs \ {j} : job[k].pc # "create"
    BY <1>2 DEF DeleteRows
  <2> QED BY <2>1, <2>2 DEF OneWriter, NoRows
<1>3. ASSUME NEW j \in Jobs, CreateRows(j) PROVE OneWriter'
  <2>1. \A k \in Jobs \ {j} : job'[k] = job[k]
    BY <1>3, OthersSame DEF JobStep
  <2>2. job'[j].pc = "idle"
    BY <1>3 DEF CreateRows, Stop, TypeOK, IdleJob
  <2>3. ~mixed' => \A k \in Jobs \ {j} : job[k].pc # "create"
    BY <1>3 DEF CreateRows, OneWriter
  <2> QED BY <2>1, <2>2, <2>3 DEF OneWriter
<1> QED BY <1>1, <1>2, <1>3

\* Failures and changes are counted, and never taken back.
LEMMA ChangesGrow ==
    ASSUME TypeOK, [Next]_vars
    PROVE  changes' \in {changes, changes + 1}
<1>1. ASSUME NEW j \in Jobs,
             \/ RsyncTask(j) \/ ReloadStartup(j) \/ Status(j) \/ TagUpdate(j) \/ StartupUpdate(j)
             \/ \E s \in Sub : ReloadTask(j, s)
             \/ \E k \in Jobs : Connected(j, k)
      PROVE  changes' \in {changes, changes + 1}
  BY <1>1 DEF RsyncTask, ReloadStartup, Status, TagUpdate, StartupUpdate, ReloadTask, Connected
<1>2. ASSUME NEW j \in Jobs,
             \/ Light(j) \/ First(j) \/ Push(j) \/ FetchStatus(j) \/ Tags(j) \/ Substances(j)
             \/ Spin(j) \/ SpinFault(j)
      PROVE  changes' \in {changes, changes + 1}
  BY <1>2 DEF Light, First, Push, FetchStatus, Tags, Substances, Spin, SpinFault, Fault
<1>3. ASSUME NEW j \in Jobs,
             DeleteRows(j) \/ CreateRows(j) \/ GetStartup(j) \/ Oneway(j) \/ Mark(j)
      PROVE  changes' \in {changes, changes + 1}
  BY <1>3 DEF DeleteRows, CreateRows, GetStartup, Oneway, Mark, Fault
<1>4. CASE ManagerEdits \/ UNCHANGED vars
  BY <1>4 DEF ManagerEdits, Edit, vars
<1> QED BY <1>1, <1>2, <1>3, <1>4 DEF Next, JobStep

\* agent_rsync.go, task.go: a row that is created stands for a writer that was counted, a
\* DELETE takes all rows away, and one that fails is counted.
LEMMA FewStep == TypeOK /\ FewRows /\ [Next]_vars => FewRows'
<1> SUFFICES ASSUME TypeOK, FewRows, [Next]_vars, NEW x \in Task \X Hash
             PROVE  rows'[x] + Cardinality(Creators') <= Cardinality(Jobs) + changes'
  BY DEF FewRows
<1>0. /\ IsFiniteSet(Creators) /\ IsFiniteSet(Creators')
      /\ Cardinality(Creators) \in Nat /\ Cardinality(Creators') \in Nat
      /\ Cardinality(Jobs) \in Nat /\ Cardinality(Creators') <= Cardinality(Jobs)
      /\ Creators \subseteq Jobs
  BY FS_Subset, FS_CardinalityType DEF Creators
<1>1. changes \in Nat /\ changes' \in {changes, changes + 1} /\ rows[x] \in Nat
  BY ChangesGrow DEF TypeOK
<1>2. rows[x] + Cardinality(Creators) <= Cardinality(Jobs) + changes
  BY DEF FewRows
<1>3. CASE ~\E j \in Jobs : DeleteRows(j) \/ CreateRows(j)
  <2>1. Creators' \subseteq Creators /\ rows' = rows
    BY <1>3, WriterSteps DEF Creators
  <2>2. Cardinality(Creators') <= Cardinality(Creators)
    BY <2>1, <1>0, FS_Subset
  <2> QED BY <2>1, <2>2, <1>0, <1>1, <1>2
<1>4. ASSUME NEW j \in Jobs, DeleteRows(j)
      PROVE  rows'[x] + Cardinality(Creators') <= Cardinality(Jobs) + changes'
  <2>1. CASE rows' = NoRows
    <3>1. rows'[x] = 0
      BY <2>1 DEF NoRows
    <3> QED BY <3>1, <1>0, <1>1
  <2>2. CASE rows' = rows /\ changes' = changes + 1
    <3>1. Creators' \subseteq Creators \cup {j}
      BY <1>4, OthersSame DEF JobStep, Creators
    <3>2. /\ IsFiniteSet(Creators \cup {j})
          /\ Cardinality(Creators \cup {j}) \in {Cardinality(Creators), Cardinality(Creators) + 1}
      BY <1>0, FS_AddElement
    <3>3. Cardinality(Creators') <= Cardinality(Creators \cup {j})
      BY <3>1, <3>2, FS_Subset
    <3> QED BY <2>2, <3>2, <3>3, <1>0, <1>1, <1>2
  <2> QED BY <1>4, <2>1, <2>2 DEF DeleteRows, Fault
<1>5. ASSUME NEW j \in Jobs, CreateRows(j)
      PROVE  rows'[x] + Cardinality(Creators') <= Cardinality(Jobs) + changes'
  <2>1. job'[j].pc = "idle" /\ job[j].pc = "create"
    BY <1>5 DEF CreateRows, Stop, TypeOK, IdleJob
  <2>2. Creators' \subseteq Creators \ {j} /\ j \in Creators
    BY <1>5, <2>1, OthersSame DEF JobStep, Creators
  <2>3. /\ IsFiniteSet(Creators \ {j})
        /\ Cardinality(Creators \ {j}) = Cardinality(Creators) - 1
    BY <1>0, <2>2, FS_RemoveElement
  <2>4. Cardinality(Creators') <= Cardinality(Creators \ {j})
    BY <2>2, <2>3, FS_Subset
  <2>5. rows'[x] \in {rows[x], rows[x] + 1}
    <3>1. RowsOf(job[j].report)[x] \in {0, 1}
      BY DEF RowsOf
    <3> QED BY <1>5, <1>1, <3>1 DEF CreateRows
  <2> QED BY <2>3, <2>4, <2>5, <1>0, <1>1, <1>2
<1> QED BY <1>3, <1>4, <1>5
-----------------------------------------------------------------------------
(* Theorems. *)

\* The invariant of the jobs and writers always holds.
LEMMA SyncInvariant == Spec => []SyncInv
<1>1. Init => SyncInv
  <2> SUFFICES ASSUME Init PROVE SyncInv
    OBVIOUS
  <2>1. 1 \in Hash /\ \A j \in Jobs : job[j] = IdleJob
    BY DEF Init, Hash
  <2>2. TypeOK
    <3>1. job \in [Jobs -> Job] /\ run \in Tasks
      BY ConstantTypes DEF Init
    <3>2. subs \in Wants /\ changes \in 0..MaxChanges /\ rows \in [Task \X Hash -> Nat]
      BY <2>1 DEF Init, Wants, NoRows
    <3> QED BY <3>1, <3>2 DEF Init, TypeOK
  <2>3. IdleJob.pc = "idle" /\ IdleJob.kind = "rsync"
    BY DEF IdleJob
  <2>4. IdleIsFresh /\ ReloadNamesSub /\ Viewed
    BY <2>1, <2>3 DEF IdleIsFresh, ReloadNamesSub, Viewed, View
  <2>5. OneWriter
    BY <2>1, <2>3 DEF OneWriter
  <2>6. FewRows
    <3>1. Creators = {} /\ rows = NoRows /\ changes = 0
      BY <2>1, <2>3 DEF Creators, Init
    <3>2. Cardinality(Creators) = 0 /\ Cardinality(Jobs) \in Nat
      BY <3>1, FS_EmptySet, FS_CardinalityType
    <3>3. \A x \in Task \X Hash : rows[x] = 0
      BY <3>1 DEF NoRows
    <3> QED BY <3>1, <3>2, <3>3 DEF FewRows
  <2> QED BY <2>2, <2>4, <2>5, <2>6 DEF Init, OwnKept, SyncInv
<1>2. SyncInv /\ [Next]_vars => SyncInv'
  BY TypeStep, ShapeStep, OwnStep, ViewStep, WriterStep, FewStep DEF SyncInv
<1> QED BY <1>1, <1>2, PTL DEF Spec

\* agent_rsync.go: a job that found its minion and was not overtaken has brought the agent
\* to what the database assigns, or has used up its cycles, for any substances, versions
\* and number of jobs.
THEOREM JobSettlesProved == Spec => []JobSettles
<1>1. SyncInv => JobSettles
  BY DEF SyncInv, Viewed, View, JobSettles
<1> QED BY <1>1, SyncInvariant, PTL

\* agent_rsync.go, task.go: however many reports were saved, and with overlapping and failing
\* statements, a row is there once per job in flight and failure at most.
THEOREM RowsDoNotPileUpProved == Spec => []RowsDoNotPileUp
<1>1. SyncInv => RowsDoNotPileUp
  <2> SUFFICES ASSUME SyncInv, NEW x \in Task \X Hash
               PROVE  rows[x] <= Cardinality(Jobs) + changes
    BY DEF RowsDoNotPileUp
  <2>1. IsFiniteSet(Creators)
    BY FS_Subset DEF Creators
  <2>2. Cardinality(Creators) \in Nat /\ Cardinality(Jobs) \in Nat
    BY <2>1, FS_CardinalityType
  <2> QED BY <2>2 DEF SyncInv, TypeOK, FewRows
<1> QED BY <1>1, SyncInvariant, PTL

\* agent_rsync.go, task.go: the rows a job or report leaves, when nothing overtook it and no
\* other writer came between its statements, are those of what the agent runs.
THEOREM RowsTellAgentProved == Spec => RowsTellAgent
<1>1. SyncInv /\ [Next]_vars =>
        [\A j \in Jobs :
            /\ job[j].pc = "create" /\ job'[j].pc = "idle"
            /\ j \notin disturbed /\ ~mixed'
            => rows' = RowsOf(run')]_vars
  <2> SUFFICES ASSUME SyncInv, [Next]_vars, NEW j \in Jobs,
                      job[j].pc = "create", job'[j].pc = "idle", j \notin disturbed, ~mixed'
               PROVE  rows' = RowsOf(run')
    OBVIOUS
  <2>1. job[j].report = run
    BY DEF SyncInv, Viewed, View
  <2>2. CreateRows(j)
    <3>1. job[j] \in Job /\ job'[j] # job[j]
      BY DEF SyncInv, TypeOK
    <3>2. \A k \in Jobs \ {j} : ~(\/ RsyncTask(k) \/ ReloadStartup(k) \/ Status(k) \/ TagUpdate(k)
                                  \/ StartupUpdate(k) \/ \E s \in Sub : ReloadTask(k, s)
                                  \/ JobStep(k) \/ SpinFault(k))
      BY <3>1, OthersSame DEF SyncInv
    <3>3. ~ManagerEdits /\ ~UNCHANGED vars
      BY <3>1 DEF ManagerEdits, vars
    <3>4. ~\E i, k \in Jobs : Connected(i, k)
      BY <3>1 DEF Connected, SyncInv, TypeOK
    <3>5. ~(\/ RsyncTask(j) \/ ReloadStartup(j) \/ Status(j) \/ TagUpdate(j)
            \/ StartupUpdate(j) \/ SpinFault(j) \/ \E s \in Sub : ReloadTask(j, s))
      BY DEF RsyncTask, ReloadStartup, Status, TagUpdate, StartupUpdate, ReloadTask, SpinFault, Begin
    <3>6. \E k \in Jobs : \/ RsyncTask(k) \/ ReloadStartup(k) \/ Status(k) \/ TagUpdate(k)
                          \/ StartupUpdate(k) \/ \E s \in Sub : ReloadTask(k, s)
                          \/ JobStep(k) \/ SpinFault(k)
      BY <3>3, <3>4, Zenon DEF Next
    <3>7. JobStep(j)
      BY <3>2, <3>5, <3>6, Zenon
    <3> QED BY <3>7 DEF JobStep, Light, First, Push, FetchStatus, Tags, Substances, Spin,
                        DeleteRows, GetStartup, Oneway, Mark
  <2>3. ~mixed /\ run' = run
        /\ rows' = [x \in Task \X Hash |-> rows[x] + RowsOf(job[j].report)[x]]
    BY <2>2 DEF CreateRows
  <2>4. rows = NoRows
    BY <2>3 DEF SyncInv, OneWriter
  <2>5. \A x \in Task \X Hash : rows[x] + RowsOf(run)[x] = RowsOf(run)[x]
    BY <2>4 DEF NoRows, RowsOf
  <2>6. RowsOf(run) = [x \in Task \X Hash |-> RowsOf(run)[x]]
    BY DEF RowsOf
  <2> HIDE DEF RowsOf
  <2> QED BY <2>1, <2>3, <2>5, <2>6
<1> QED BY <1>1, SyncInvariant, PTL DEF Spec, RowsTellAgent
=============================================================================
