------------------------------ MODULE Sysinfo ------------------------------
(***************************************************************************)
(* The system information of one minion: agtsvc.collectService.Sysinfo     *)
(* answers at once and stores it in a job of the pool, in two tables.      *)
(***************************************************************************)
EXTENDS Requests

CONSTANTS
    Infos,     \* contents of a report
    NoInfo     \* not reported yet

VARIABLES
    sysinfo,    \* the minion's row of sys_info
    osRelease,  \* os_release of the minion's row
    latest,     \* (external) what the agent reported last
    job,        \* job -> its progress
    mixed       \* ghost: a failure, or jobs that overlapped, since a job last ran alone

sysinfoVars == <<sysinfo, osRelease, latest, job, mixed>>

NoJob == [pc |-> "idle", info |-> NoInfo, alone |-> TRUE]

SysinfoInit ==
    /\ sysinfo = NoInfo /\ osRelease = NoInfo /\ latest = NoInfo
    /\ job = [j \in Request |-> NoJob]
    /\ mixed = FALSE
    /\ faults = 0

NoJobRuns == \A j \in Request : job[j].pc = "idle"

\* Sysinfo: the job is handed to the pool, the agent is answered.
SendSysinfo(j, info) ==
    /\ job[j].pc = "idle"
    /\ job' = [x \in Request |->
          IF x = j THEN [pc |-> "save", info |-> info, alone |-> NoJobRuns]
          ELSE IF job[x].pc # "idle" THEN [job[x] EXCEPT !.alone = FALSE] ELSE job[x]]
    /\ latest' = info
    /\ mixed' = (mixed \/ ~NoJobRuns)
    /\ UNCHANGED <<sysinfo, osRelease, faults>>

\* Save of the sys_info row; its error is dropped.
Save(j) ==
    /\ job[j].pc = "save"
    /\ \/ /\ sysinfo' = job[j].info
          /\ job' = [job EXCEPT ![j].pc = "release"]
          /\ UNCHANGED <<mixed, faults>>
       \/ /\ Fails
          /\ job' = [job EXCEPT ![j] = [@ EXCEPT !.pc = "release", !.alone = FALSE]]
          /\ mixed' = TRUE
          /\ UNCHANGED sysinfo
    /\ UNCHANGED <<osRelease, latest>>

\* The release in the minion's row; its error is dropped too.
Release(j) ==
    /\ job[j].pc = "release"
    /\ \/ /\ osRelease' = job[j].info
          /\ mixed' = (mixed /\ ~job[j].alone)
          /\ UNCHANGED faults
       \/ /\ Fails
          /\ mixed' = TRUE
          /\ UNCHANGED osRelease
    /\ job' = [job EXCEPT ![j] = NoJob]
    /\ UNCHANGED <<sysinfo, latest>>

SysinfoStep == \E j \in Request : Save(j) \/ Release(j)

SysinfoNext == SysinfoStep \/ \E j \in Request, info \in Infos : SendSysinfo(j, info)
-----------------------------------------------------------------------------
(* Properties. *)

\* Once no job is left, and since a job last ran alone neither failures nor overlaps, both
\* tables show the agent's last report: a later report repairs what dropped errors and
\* overtaking jobs left.
SysinfoInSync == NoJobRuns /\ ~mixed => sysinfo = latest /\ osRelease = latest
=============================================================================
