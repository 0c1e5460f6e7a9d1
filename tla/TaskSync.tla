------------------------------ MODULE TaskSync ------------------------------
(***************************************************************************)
(* The synchronisation of one agent with the substances (configurations)   *)
(* the database assigns to it: rsync, reload and startup jobs of           *)
(* app/mgtsvc, and the agent's own report of its tasks (app/agtapi).       *)
(*                                                                         *)
(* Jobs run side by side in a pool.  Each reads the database and the agent *)
(* and then acts on what it read: pc names its next statement or call.     *)
(***************************************************************************)
EXTENDS Naturals, FiniteSets

CONSTANTS
    Jobs,      \* jobs (and agent reports) in flight at a time
    Private,   \* substances that belong to this minion
    Public,    \* substances that an effect gives to minions with a tag
    Own,       \* tasks the agent has from elsewhere (From is not "tunnel")
    Stubborn,  \* substances whose update the agent may fail to apply
    Cycle,     \* biz.cycle
    MaxHash,   \* bound on the versions of a substance
    MaxChanges \* bound on changes by the manager, restarts of the agent, failing
               \* statements and calls, taken together

Sub == Private \cup Public
Task == Sub \cup Own
Hash == 1..MaxHash
None == 0       \* not there, not running; for a startup: the fallback

ASSUME SyncAssumption ==
    /\ IsFiniteSet(Jobs)
    /\ Private \cap Public = {} /\ Own \cap Sub = {}
    /\ Stubborn \subseteq Sub
    /\ Cycle \in Nat \ {0} /\ MaxHash \in Nat \ {0}
    /\ MaxChanges \in Nat

VARIABLES
    minion,     \* the minion's row: "load", "unload" (silent mode) or "delete"
    subs,       \* substance -> hash
    tagged,     \* the minion has the tag of the effect
    excludes,   \* minion_substance_exclude
    run,        \* the agent: task -> hash it runs
    logger,     \* the startup row: a hash, or None where the fallback counts
    started,    \* the agent: the startup it has
    outcome,    \* Failed and Reason of the startup row, while it has a logger
    rows,       \* minion_task: task and hash -> how many rows of the minion say so
    job,        \* job -> its state
    disturbed,  \* (history) jobs whose view was overtaken, or spoilt by an ignored error
    mixed,      \* (history) two writers of rows overlapped, or one of them failed
    changes     \* changes, restarts and failures so far

dbVars == <<minion, subs, tagged, excludes>>
startVars == <<logger, started, outcome>>
vars == <<dbVars, run, startVars, rows, job, disturbed, mixed, changes>>

Tasks == [Task -> Hash \cup {None}]
Wants == [Sub -> Hash \cup {None}]

Job == [pc : {"idle", "light", "first", "push", "status", "tags", "subs", "spin", "del", "create",
              "get", "oneway", "mark"},
        kind : {"rsync", "reload", "startup", "status"},
        hash : Hash \cup {None},   \* the substance to push, or the startup to send
        sid : Sub \cup {None},     \* the substance to reload
        unload : BOOLEAN,          \* light.Unload
        report : Tasks,            \* the last report of the agent
        known : BOOLEAN,           \* the tag and effect queries found the public substances
        want : Wants,              \* Substances
        cycle : 0..Cycle,          \* diffs sent
        failed : BOOLEAN]          \* err

IdleJob == [pc |-> "idle", kind |-> "rsync", hash |-> None, sid |-> None, unload |-> FALSE,
            report |-> [t \in Task |-> None], known |-> FALSE,
            want |-> [s \in Sub |-> None], cycle |-> 0, failed |-> FALSE]

TypeOK ==
    /\ minion \in {"load", "unload", "delete"}
    /\ subs \in Wants
    /\ tagged \in BOOLEAN
    /\ excludes \subseteq Sub
    /\ run \in Tasks
    /\ logger \in Hash \cup {None}
    /\ started \in Hash \cup {None}
    /\ outcome \in {"none", "sent", "failed"}
    /\ rows \in [Task \X Hash -> Nat]
    /\ job \in [Jobs -> Job]
    /\ disturbed \subseteq Jobs
    /\ mixed \in BOOLEAN
    /\ changes \in 0..MaxChanges

\* The rows of a report, one per task: TaskReport.ToModels.
RowsOf(rep) == [x \in Task \X Hash |-> IF rep[x[1]] = x[2] THEN 1 ELSE 0]
NoRows == [x \in Task \X Hash |-> 0]

\* A freshly started agent runs its own tasks only.
Fresh == [t \in Task |-> IF t \in Own THEN 1 ELSE None]

Init ==
    /\ minion = "load"
    /\ subs = [s \in Sub |-> 1]
    /\ tagged = TRUE
    /\ excludes = {}
    /\ run = Fresh
    /\ logger = None /\ started = None /\ outcome = "none"
    /\ rows = NoRows
    /\ job = [j \in Jobs |-> IdleJob]
    /\ disturbed = {} /\ mixed = FALSE
    /\ changes = 0

Busy == {j \in Jobs : job[j].pc # "idle"}

\* A statement fails, or a call to the agent (which may have been carried out).
Fault == changes < MaxChanges /\ changes' = changes + 1
-----------------------------------------------------------------------------
(* param.TaskReport.Diff, TaskDiff.NotModified, and the agent that applies one. *)

\* Variant of Diff that also removes tasks which did not come from the tunnel.
DiffAll(rep, wanted) ==
    [updates |-> {s \in Sub : wanted[s] # None /\ rep[s] # wanted[s]},
     removes |-> {t \in Task : rep[t] # None /\ (t \in Own \/ wanted[t] = None)}]

Diff(rep, wanted) ==
    [updates |-> {s \in Sub : wanted[s] # None /\ rep[s] # wanted[s]},
     removes |-> {s \in Sub : rep[s] # None /\ wanted[s] = None}]

NotModified(d) == d.updates = {} /\ d.removes = {}

\* External: the agent carries a diff out, but for the updates in skip.
Apply(now, d, wanted, skip) ==
    [t \in Task |-> IF t \in d.updates \ skip THEN wanted[t]
                    ELSE IF t \in d.removes THEN None ELSE now[t]]

\* What the database assigns to the minion: minionService.Substances.
Assigned ==
    [s \in Sub |-> IF minion = "load" /\ s \notin excludes /\ (s \in Private \/ tagged)
                   THEN subs[s] ELSE None]
-----------------------------------------------------------------------------
(* Jobs start: RsyncTask, ReloadTask, ReloadStartup, taskREST.Status. *)

Begin(j, k, to) ==
    /\ job[j].pc = "idle"
    /\ job' = [job EXCEPT ![j].pc = to, ![j].kind = k]
    /\ UNCHANGED disturbed

RsyncTask(j) ==
    /\ Begin(j, "rsync", "light")
    /\ UNCHANGED <<dbVars, run, startVars, rows, mixed, changes>>

ReloadTask(j, s) ==
    /\ job[j].pc = "idle"
    /\ job' = [job EXCEPT ![j].pc = "light", ![j].kind = "reload", ![j].sid = s]
    /\ UNCHANGED <<dbVars, run, startVars, rows, disturbed, mixed, changes>>

ReloadStartup(j) ==
    /\ Begin(j, "startup", "get")
    /\ UNCHANGED <<dbVars, run, startVars, rows, mixed, changes>>

\* The agent reports what it runs, unasked.
Status(j) ==
    /\ job[j].pc = "idle"
    /\ job' = [job EXCEPT ![j].pc = "del", ![j].kind = "status", ![j].report = run]
    /\ UNCHANGED <<dbVars, run, startVars, rows, disturbed, mixed, changes>>

\* The agent comes online after a restart: nodeEventService.Connected.
Connected(j, k) ==
    /\ j # k /\ job[j].pc = "idle" /\ job[k].pc = "idle"
    /\ changes < MaxChanges /\ changes' = changes + 1
    /\ run' = Fresh /\ started' = None
    /\ job' = [job EXCEPT ![j].pc = "get", ![j].kind = "startup", ![k].pc = "light"]
    /\ disturbed' = Busy
    /\ UNCHANGED <<dbVars, logger, outcome, rows, mixed>>
-----------------------------------------------------------------------------
(* rsyncTask, reloadTask and rsync. *)

\* The job goes on at another statement; the database and the agent stay as they are.
Quiet == UNCHANGED <<dbVars, run, startVars, rows, mixed>>
Stop(j) == job' = [job EXCEPT ![j] = IdleJob] /\ disturbed' = disturbed \ {j}

\* LightID: a deleted minion, or an error, ends the job.  For a silent minion a reload is
\* an rsync.
Light(j) ==
    /\ job[j].pc = "light"
    /\ \/ minion = "delete" /\ Stop(j) /\ UNCHANGED changes
       \/ Fault /\ Stop(j)
       \/ /\ minion # "delete"
          /\ job' = IF job[j].kind = "reload" /\ minion = "load"
                    THEN [job EXCEPT ![j].pc = "first"]
                    ELSE [job EXCEPT ![j] = [IdleJob EXCEPT !.pc = "status",
                                                            !.unload = (minion = "unload")]]
          /\ UNCHANGED <<disturbed, changes>>
    /\ Quiet

\* reloadTask: read the substance; not found, or an error: rsync.
First(j) ==
    LET s == job[j].sid
        Rsync == job' = [job EXCEPT ![j] = [IdleJob EXCEPT !.pc = "status"]] IN
    /\ job[j].pc = "first"
    /\ \/ subs[s] # None /\ job' = [job EXCEPT ![j].pc = "push", ![j].hash = subs[s]] /\ UNCHANGED changes
       \/ subs[s] = None /\ Rsync /\ UNCHANGED changes
       \/ Fault /\ Rsync
    /\ Quiet /\ UNCHANGED disturbed

\* The job's doing overtakes what the other jobs have read from the agent.
Overtake(j, new) ==
    /\ run' = new
    /\ disturbed' = IF new = run THEN disturbed ELSE disturbed \cup (Busy \ {j})

\* reloadTask: send the one substance, whatever becomes of it.
Push(j) ==
    LET s == job[j].sid IN
    /\ job[j].pc = "push"
    /\ job' = [job EXCEPT ![j] = [IdleJob EXCEPT !.pc = "status"]]
    /\ \/ Overtake(j, [run EXCEPT ![s] = job[j].hash]) /\ UNCHANGED changes
       \/ s \in Stubborn /\ Overtake(j, run) /\ UNCHANGED changes
       \/ Fault /\ Overtake(j, run)
    /\ UNCHANGED <<dbVars, startVars, rows, mixed>>

\* fetchTaskStatus.
FetchStatus(j) ==
    /\ job[j].pc = "status"
    /\ \/ job' = [job EXCEPT ![j].pc = "tags", ![j].report = run] /\ UNCHANGED <<disturbed, changes>>
       \/ Fault /\ Stop(j)
    /\ Quiet

\* Substances: nothing for a silent minion; else its tags and their effects, whose errors
\* are ignored: then the public substances are not found.
Tags(j) ==
    /\ job[j].pc = "tags"
    /\ \/ /\ job' = [job EXCEPT ![j].pc = "subs", ![j].known = tagged]
          /\ UNCHANGED <<disturbed, changes>>
       \/ /\ ~job[j].unload /\ Fault
          /\ job' = [job EXCEPT ![j].pc = "subs", ![j].known = FALSE]
          /\ disturbed' = disturbed \cup {j}
    /\ Quiet

\* Substances: private or found ones without the excluded ones.  An error of the first
\* query ends the job, one of the second is ignored.
Substances(j) ==
    LET Found(out) == [s \in Sub |->
            IF ~job[j].unload /\ s \notin out /\ (s \in Private \/ job[j].known)
            THEN subs[s] ELSE None]
        Go(out) == job' = [job EXCEPT ![j].pc = "spin", ![j].want = Found(out),
                                      ![j].known = FALSE, ![j].unload = FALSE] IN
    /\ job[j].pc = "subs"
    /\ \/ /\ Go(excludes)
          /\ UNCHANGED <<disturbed, changes>>
       \/ /\ ~job[j].unload /\ Fault
          /\ Stop(j)
       \/ /\ ~job[j].unload /\ Fault
          /\ Go({})
          /\ disturbed' = disturbed \cup {j}
    /\ Quiet

\* Variant of Spin whose loop has no bound.
SpinOn(j) ==
    LET d == Diff(job[j].report, job[j].want) IN
    /\ job[j].pc = "spin"
    /\ \/ /\ NotModified(d)
          /\ job' = [job EXCEPT ![j].pc = "del"]
          /\ UNCHANGED <<run, disturbed>>
       \/ /\ ~NotModified(d)
          /\ \E skip \in SUBSET Stubborn :
                LET new == Apply(run, d, job[j].want, skip) IN
                /\ Overtake(j, new)
                /\ job' = [job EXCEPT ![j].report = new]
    /\ UNCHANGED <<dbVars, startVars, rows, mixed, changes>>

\* Variant of Spin that ends with the report of the round before.
SpinOldReport(j) ==
    LET d == Diff(job[j].report, job[j].want) IN
    /\ job[j].pc = "spin"
    /\ \/ /\ NotModified(d) \/ job[j].cycle = Cycle
          /\ job' = [job EXCEPT ![j].pc = "del"]
          /\ UNCHANGED <<run, disturbed>>
       \/ /\ ~NotModified(d) /\ job[j].cycle < Cycle
          /\ \E skip \in SUBSET Stubborn :
                LET new == Apply(run, d, job[j].want, skip) IN
                /\ Overtake(j, new)
                /\ job' = IF NotModified(Diff(new, job[j].want))
                          THEN [job EXCEPT ![j].cycle = @ + 1, ![j].pc = "del"]
                          ELSE [job EXCEPT ![j].cycle = @ + 1, ![j].report = new]
    /\ UNCHANGED <<dbVars, startVars, rows, mixed, changes>>

\* spinRsync: send the difference to the agent and look at what it reports then, until
\* there is none or biz.cycle diffs were sent, which counts as success all the same.
Spin(j) ==
    LET d == Diff(job[j].report, job[j].want) IN
    /\ job[j].pc = "spin"
    /\ \/ /\ NotModified(d) \/ job[j].cycle = Cycle
          /\ job' = [job EXCEPT ![j].pc = "del"]
          /\ UNCHANGED <<run, disturbed>>
       \/ /\ ~NotModified(d) /\ job[j].cycle < Cycle
          /\ \E skip \in SUBSET Stubborn :
                LET new == Apply(run, d, job[j].want, skip) IN
                /\ Overtake(j, new)
                /\ job' = [job EXCEPT ![j].cycle = @ + 1, ![j].report = new]
    /\ UNCHANGED <<dbVars, startVars, rows, mixed, changes>>

\* fetchRsync fails, carried out by the agent or not: there is no report to save.
SpinFault(j) ==
    LET d == Diff(job[j].report, job[j].want) IN
    /\ job[j].pc = "spin" /\ Fault
    /\ ~NotModified(d) /\ job[j].cycle < Cycle
    /\ \E new \in {run, Apply(run, d, job[j].want, {})} : Overtake(j, new)
    /\ job' = [job EXCEPT ![j].pc = "del", ![j].failed = TRUE]
    /\ UNCHANGED <<dbVars, startVars, rows, mixed>>

\* Variant of DeleteRows that leaves it to a writer already under way.
DeleteRowsOnce(j) ==
    LET others == \E k \in Jobs \ {j} : job[k].pc = "create" IN
    /\ job[j].pc = "del"
    /\ IF job[j].failed THEN Stop(j)
       ELSE /\ job' = [job EXCEPT ![j] = [IdleJob EXCEPT !.pc = "create",
                                                        !.report = job[j].report]]
            /\ UNCHANGED disturbed
    /\ rows' = IF others THEN rows ELSE NoRows
    /\ mixed' = others
    /\ UNCHANGED <<dbVars, run, startVars, changes>>

\* rsync and taskREST.Status: the rows of the minion are deleted ...
DeleteRows(j) ==
    /\ job[j].pc = "del"
    /\ IF job[j].failed THEN Stop(j)
       ELSE /\ job' = [job EXCEPT ![j] = [IdleJob EXCEPT !.pc = "create",
                                                        !.report = job[j].report]]
            /\ UNCHANGED disturbed
    /\ \/ /\ rows' = NoRows /\ UNCHANGED changes
          /\ mixed' = \E k \in Jobs \ {j} : job[k].pc = "create"
       \/ Fault /\ rows' = rows /\ mixed' = TRUE
    /\ UNCHANGED <<dbVars, run, startVars>>

\* ... and those of the report created, beside the ones another writer has created since:
\* neither statement looks for a row that is there.
CreateRows(j) ==
    /\ job[j].pc = "create"
    /\ Stop(j)
    /\ \/ /\ rows' = [x \in Task \X Hash |-> rows[x] + RowsOf(job[j].report)[x]]
          /\ UNCHANGED <<mixed, changes>>
       \/ Fault /\ rows' = rows /\ mixed' = TRUE
    /\ UNCHANGED <<dbVars, run, startVars>>
-----------------------------------------------------------------------------
(* startupTask.Run. *)

\* getStartup: the minion's row or, without one and on an error, the fallback; an error of
\* the fallback query ends the job.
GetStartup(j) ==
    /\ job[j].pc = "get"
    /\ \/ job' = [job EXCEPT ![j].pc = "oneway", ![j].hash = logger] /\ UNCHANGED <<disturbed, changes>>
       \/ /\ Fault
          /\ job' = [job EXCEPT ![j].pc = "oneway", ![j].hash = None]
          /\ UNCHANGED disturbed
       \/ Fault /\ Stop(j)
    /\ Quiet

\* Oneway: the agent may have the startup although the call fails.
Oneway(j) ==
    /\ job[j].pc = "oneway"
    /\ \/ /\ started' = job[j].hash
          /\ job' = [job EXCEPT ![j].pc = "mark"]
          /\ UNCHANGED changes
       \/ /\ Fault
          /\ started' \in {started, job[j].hash}
          /\ job' = [job EXCEPT ![j].pc = "mark", ![j].failed = TRUE]
    /\ UNCHANGED <<dbVars, run, logger, outcome, rows, disturbed, mixed>>

\* Failed and Reason of the startup row as it is by now, if there is one; an error is ignored.
Mark(j) ==
    /\ job[j].pc = "mark"
    /\ Stop(j)
    /\ \/ /\ outcome' = IF logger = None THEN "none" ELSE IF job[j].failed THEN "failed" ELSE "sent"
          /\ UNCHANGED changes
       \/ Fault /\ UNCHANGED outcome
    /\ UNCHANGED <<dbVars, run, logger, started, rows, mixed>>
-----------------------------------------------------------------------------
(* External: the manager's changes. *)

\* Those of what is assigned overtake every job under way.
Edit == changes < MaxChanges /\ changes' = changes + 1 /\ disturbed' = Busy

ManagerEdits ==
    /\ Edit
    /\ \/ \E m \in {"load", "unload", "delete"} : minion' = m /\ UNCHANGED <<subs, tagged, excludes>>
       \/ \E s \in Sub, h \in Hash \cup {None} :
             subs' = [subs EXCEPT ![s] = h] /\ UNCHANGED <<minion, tagged, excludes>>
       \/ \E s \in Sub : excludes' = excludes \cup {s} /\ UNCHANGED <<minion, subs, tagged>>
    /\ UNCHANGED <<run, startVars, rows, job, mixed>>

\* The manager gives the minion a startup of its own, or takes it away, and calls /startup,
\* which starts a job.
StartupUpdate(j) ==
    /\ changes < MaxChanges /\ changes' = changes + 1
    /\ logger' = (IF logger = None THEN 1 ELSE None) /\ outcome' = "none"
    /\ Begin(j, "startup", "get")
    /\ UNCHANGED <<dbVars, run, started, rows, mixed>>

\* tagService.Update commits new tags, then starts a job.
TagUpdate(j) ==
    /\ job[j].pc = "idle"
    /\ changes < MaxChanges /\ changes' = changes + 1
    /\ tagged' = ~tagged
    /\ job' = [job EXCEPT ![j].pc = "light"]
    /\ disturbed' = Busy
    /\ UNCHANGED <<minion, subs, excludes, run, startVars, rows, mixed>>
-----------------------------------------------------------------------------
JobStep(j) ==
    \/ Light(j) \/ First(j) \/ Push(j) \/ FetchStatus(j) \/ Tags(j) \/ Substances(j)
    \/ Spin(j) \/ DeleteRows(j) \/ CreateRows(j) \/ GetStartup(j) \/ Oneway(j) \/ Mark(j)

Next ==
    \/ \E j \in Jobs :
          \/ RsyncTask(j) \/ ReloadStartup(j) \/ Status(j) \/ TagUpdate(j) \/ StartupUpdate(j)
          \/ \E s \in Sub : ReloadTask(j, s)
          \/ \E k \in Jobs : Connected(j, k)
          \/ JobStep(j) \/ SpinFault(j)
    \/ ManagerEdits

Spec == Init /\ [][Next]_vars

\* Goroutines are scheduled, and each job has a context with a timeout of a minute.
FairSpec == Spec /\ \A j \in Jobs : WF_vars(JobStep(j))
-----------------------------------------------------------------------------
(* Properties. *)

\* What the agent should run: what is assigned to it, and its own tasks.
Desired == [t \in Task |-> IF t \in Sub THEN Assigned[t] ELSE Fresh[t]]

\* A job that found its minion and that nothing overtook leaves the agent with what the
\* database assigns and the agent's own tasks untouched; or it has used up its cycles.
JobSettles ==
    \A j \in Jobs :
        /\ job[j].pc = "del" /\ job[j].kind = "rsync"
        /\ ~job[j].failed /\ j \notin disturbed
        => run = Desired \/ job[j].cycle = Cycle

\* The two statements that save a report are no transaction, and two jobs of a minion may
\* overlap in them, so a task can have several rows that say the same.  But each writer deletes
\* what it finds: a row is there once per writer in flight and once more per failed statement,
\* however many jobs and reports there have been.
RowsDoNotPileUp ==
    \A x \in Task \X Hash : rows[x] <= Cardinality(Jobs) + changes

\* After a job or report that nothing overtook, and whose two statements neither failed nor
\* overlapped another writer's, the rows are those of what the agent runs now, after the last
\* round of diffs, each once.
RowsTellAgent ==
    [][\A j \in Jobs :
          /\ job[j].pc = "create" /\ job'[j].pc = "idle"
          /\ j \notin disturbed /\ ~mixed'
          => rows' = RowsOf(run')]_vars

\* agentService: "ReloadStartup 重新加载指定节点的 startup 配置" (reloads the startup of the
\* given node).  When no such job is under way and the startup row says that its startup was
\* sent, the agent has the startup of that row.
StartupReloaded ==
    /\ \A j \in Jobs : job[j].pc \notin {"get", "oneway", "mark"}
    /\ logger # None /\ outcome = "sent"
    => started = logger

\* Every job comes to an end, even when the agent never applies a diff.
JobsEnd == \A j \in Jobs : (job[j].pc # "idle") ~> (job[j].pc = "idle")
=============================================================================
