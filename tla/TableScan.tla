----------------------------- MODULE TableScan -----------------------------
(***************************************************************************)
(* One row per minion of a table of due synchronisations, which a scan     *)
(* turns into jobs page by page: mgtsvc/agent_table.go.                    *)
(***************************************************************************)
EXTENDS Requests

CONSTANTS
    LastMinion,  \* minions are 1..LastMinion
    PageSize,    \* rows of a page
    MaxScans     \* bound: commands of the manager

VARIABLES
    due,       \* minion -> its row is "none", "due", "done" or "failed"
    scan,      \* request -> its progress
    scans,     \* commands so far
    jobs,      \* jobs of the pool: minion -> number
    promised,  \* ghost: minions whose row was due when a scan began
    partial    \* ghost: a page or an update failed

scanVars == <<due, scan, scans, jobs, promised, partial>>

ASSUME ScanAssumption == LastMinion \in Nat /\ PageSize \in Nat \ {0}

Minion == 1..LastMinion
NoScan == [on |-> FALSE, last |-> 0]

ScanInit ==
    /\ due \in [Minion -> {"none", "due"}]
    /\ scan = [r \in Request |-> NoScan]
    /\ scans = 0
    /\ jobs = [m \in Minion |-> 0]
    /\ promised = {}
    /\ partial = FALSE
    /\ faults = 0

\* TableTask: the scan runs in a goroutine of its own.
TableTask(r) ==
    /\ ~scan[r].on /\ scans < MaxScans /\ scans' = scans + 1
    /\ scan' = [scan EXCEPT ![r].on = TRUE]
    /\ promised' = promised \cup {m \in Minion : due[m] = "due"}
    /\ UNCHANGED <<due, jobs, partial, faults>>

\* The first PageSize of the due minions behind lastID, in order.
Page(last) ==
    LET left == {m \in last + 1..LastMinion : due[m] = "due"} IN
    {m \in left : Cardinality({x \in left : x < m}) < PageSize}

\* Variant of ScanPage that goes on behind the last id of the page plus one.
ScanPageSkips(r) ==
    /\ scan[r].on
    /\ LET page == Page(scan[r].last) IN
       /\ page # {}
       /\ jobs' = [m \in Minion |-> IF m \in page THEN jobs[m] + 1 ELSE jobs[m]]
       /\ \E top \in page :
             /\ \A m \in page : m <= top
             /\ scan' = [scan EXCEPT ![r] = IF top + 1 < LastMinion
                                            THEN [on |-> TRUE, last |-> top + 1] ELSE NoScan]
    /\ UNCHANGED <<due, scans, promised, partial, faults>>

\* scanTableTask: a job for each minion of the page; an empty page ends the scan.
ScanPage(r) ==
    /\ scan[r].on
    /\ LET page == Page(scan[r].last) IN
       /\ jobs' = [m \in Minion |-> IF m \in page THEN jobs[m] + 1 ELSE jobs[m]]
       /\ \/ \E top \in page :
                /\ \A m \in page : m <= top
                /\ scan' = [scan EXCEPT ![r].last = top]
          \/ page = {} /\ scan' = [scan EXCEPT ![r] = NoScan]
    /\ UNCHANGED <<due, scans, promised, partial, faults>>

\* A failing query looks like an empty page.
ScanFails(r) ==
    /\ scan[r].on
    /\ Fails
    /\ scan' = [scan EXCEPT ![r] = NoScan]
    /\ partial' = TRUE
    /\ UNCHANGED <<due, scans, jobs, promised>>

\* tableTask.Run: the synchronisation (TaskSync) succeeds or fails, then the row is marked
\* if it is still due; an error of the mark is dropped.
RunTable(m) ==
    /\ jobs[m] > 0 /\ jobs' = [jobs EXCEPT ![m] = @ - 1]
    /\ \/ /\ \E result \in {"done", "failed"} :
                due' = [due EXCEPT ![m] = IF @ = "due" THEN result ELSE @]
          /\ UNCHANGED <<partial, faults>>
       \/ Fails /\ partial' = TRUE /\ UNCHANGED due
    /\ UNCHANGED <<scan, scans, promised>>

\* External: the manager adds a row.
RowAdded(m) ==
    /\ due[m] = "none" /\ due' = [due EXCEPT ![m] = "due"]
    /\ UNCHANGED <<scan, scans, jobs, promised, partial, faults>>

ScanStep ==
    \/ \E r \in Request : ScanPage(r) \/ ScanFails(r)
    \/ \E m \in Minion : RunTable(m)

ScanNext ==
    \/ ScanStep
    \/ \E r \in Request : TableTask(r)
    \/ \E m \in Minion : RowAdded(m)
-----------------------------------------------------------------------------
(* Properties. *)

\* When every scan and job has ended and nothing failed, each row that was due when a scan
\* began has been handled: pages neither skip nor lose a minion, even when jobs change the
\* rows, or the manager adds some, while the scan goes on.
ScanCovers ==
    (\A r \in Request : ~scan[r].on) /\ (\A m \in Minion : jobs[m] = 0) /\ ~partial
        => \A m \in promised : due[m] \in {"done", "failed"}
=============================================================================
