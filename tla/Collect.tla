------------------------------ MODULE Collect ------------------------------
(***************************************************************************)
(* What an agent reports of its assets: the process, listen, account and   *)
(* group tables of one minion (agtapi/collect.go, agtsvc/collect.go).      *)
(* A history is about one table, `kind`.  A view maps the key of a row     *)
(* (pid, record id, name) to the columns that Model copies from a report   *)
(* (it leaves out the State of a listening port) and, for processes, that  *)
(* ProcessSync returns.                                                    *)
(***************************************************************************)
EXTENDS Requests

CONSTANTS
    Kinds,      \* tables looked at
    Keys, Rows, \* keys, and contents of a row
    Absent      \* no row

VARIABLES
    kind,    \* the table of this history
    table,   \* the minion's rows in it
    told,    \* (external) what the agent believes it has reported
    report,  \* request or job -> its progress
    ok,      \* the last answer was a success
    dirty    \* ghost: a failure or an overlap since the table was last replaced

collectVars == <<kind, table, told, report, ok, dirty>>

ASSUME CollectAssumption ==
    /\ Kinds \subseteq {"process", "listen", "account", "group"}
    /\ Absent \notin Rows

View == [Keys -> Rows \cup {Absent}]
Empty == [k \in Keys |-> Absent]
Present(view) == {k \in Keys : view[k] # Absent}

\* The statements: DELETE by key, and INSERT with OnConflict DoNothing.
Remove(view, keys) == [k \in Keys |-> IF k \in keys THEN Absent ELSE view[k]]
Insert(view, rows) == [k \in Keys |-> IF view[k] = Absent THEN rows[k] ELSE view[k]]

NoReport == [pc |-> "idle", op |-> "none", rows |-> Empty, keys |-> {},
             alone |-> TRUE, sound |-> TRUE]

Progress == [pc : {"idle", "delete", "insert"}, op : {"none", "diff", "full", "job"},
             rows : View, keys : SUBSET Keys, alone : BOOLEAN, sound : BOOLEAN]

CollectInit ==
    /\ kind \in Kinds
    /\ table \in View /\ told = table
    /\ report = [r \in Request |-> NoReport]
    /\ ok = TRUE /\ dirty = FALSE
    /\ faults = 0

Busy(r) == report[r].pc # "idle"
Quiet == \A r \in Request : ~Busy(r)

\* Another request arrives: whatever is under way does not run alone.
Overtaken ==
    [x \in Request |-> IF Busy(x) THEN [report[x] EXCEPT !.alone = FALSE] ELSE report[x]]

Arrive(r, op, rows, keys) ==
    /\ ~Busy(r)
    /\ report' = [Overtaken EXCEPT ![r] =
          [pc |-> "delete", op |-> op, rows |-> rows, keys |-> keys,
           alone |-> Quiet, sound |-> TRUE]]
    /\ dirty' = (dirty \/ ~Quiet)
    /\ UNCHANGED <<kind, table, faults>>

Changed(old, new) == {k \in Present(old) \cap Present(new) : old[k] # new[k]}

\* Variant of Diff that deletes what is gone but not what is rewritten.
DiffKeepsUpdated(r, now) ==
    /\ Arrive(r, "diff",
              [k \in Keys |-> IF k \in Changed(told, now) \/ k \notin Present(told)
                              THEN now[k] ELSE Absent],
              Present(told) \ Present(now))
    /\ told' = now
    /\ UNCHANGED ok

\* ProcessDiff, ListenDiff, AccountDiff, GroupDiff: the keys of deletes and updates are
\* deleted, then creates and updates are inserted.
Diff(r, now) ==
    /\ Arrive(r, "diff",
              [k \in Keys |-> IF k \in Changed(told, now) \/ k \notin Present(told)
                              THEN now[k] ELSE Absent],
              (Present(told) \ Present(now)) \cup Changed(told, now))
    /\ told' = now
    /\ UNCHANGED ok

\* ProcessFull, ListenFull, GroupFull.
Full(r, now) ==
    /\ kind # "account"
    /\ Arrive(r, "full", now, Keys)
    /\ told' = now
    /\ UNCHANGED ok

\* AccountFull: a job of the pool; the agent is answered before it runs.
AccountFull(r, now) ==
    /\ kind = "account"
    /\ Arrive(r, "job", now, Keys)
    /\ told' = now /\ ok' = TRUE

\* ProcessSync: the agent is told the stored rows, none when the query fails.
ProcessSync ==
    /\ kind = "process"
    /\ ok' = TRUE
    /\ \/ /\ told' = table
          /\ dirty' = ~Quiet
          /\ UNCHANGED faults
       \/ /\ Fails
          /\ told' = Empty
          /\ dirty' = TRUE
    /\ report' = Overtaken
    /\ UNCHANGED <<kind, table>>

Finish(r, success) ==
    /\ report' = [report EXCEPT ![r] = NoReport]
    /\ ok' = IF report[r].op = "job" THEN ok ELSE success

\* The DELETE, which a diff without keys leaves out.  A full report of nothing ends here.
Delete(r) ==
    /\ report[r].pc = "delete"
    /\ table' = Remove(table, report[r].keys)
    /\ IF report[r].op # "diff" /\ report[r].rows = Empty
       THEN /\ Finish(r, TRUE)
            /\ dirty' = (dirty /\ ~report[r].alone)
       ELSE /\ report' = [report EXCEPT ![r].pc = "insert"]
            /\ UNCHANGED <<ok, dirty>>
    /\ UNCHANGED <<kind, told, faults>>

\* An error of the DELETE ends a full report; a diff and the job drop it.
DeleteFails(r) ==
    /\ report[r].pc = "delete" /\ report[r].keys # {}
    /\ Fails
    /\ dirty' = TRUE
    /\ IF report[r].op = "full" \/ (report[r].op = "job" /\ report[r].rows = Empty)
       THEN Finish(r, FALSE)
       ELSE /\ report' = [report EXCEPT ![r] = [@ EXCEPT !.pc = "insert", !.sound = FALSE]]
            /\ UNCHANGED ok
    /\ UNCHANGED <<kind, table, told>>

\* CreateInBatches.
InsertRows(r) ==
    /\ report[r].pc = "insert"
    /\ table' = Insert(table, report[r].rows)
    /\ dirty' = (dirty /\ (report[r].op = "diff" \/ ~report[r].alone \/ ~report[r].sound))
    /\ Finish(r, TRUE)
    /\ UNCHANGED <<kind, told, faults>>

\* Variant of InsertFails that logs the error only, for every table.
InsertFailsLogged(r) ==
    /\ report[r].pc = "insert" /\ report[r].rows # Empty
    /\ Fails
    /\ dirty' = TRUE
    /\ Finish(r, report[r].op = "full")
    /\ UNCHANGED <<kind, table, told>>

\* An error of the INSERT is the answer, except that ProcessFull only logs it.
InsertFails(r) ==
    /\ report[r].pc = "insert" /\ report[r].rows # Empty
    /\ Fails
    /\ dirty' = TRUE
    /\ Finish(r, report[r].op = "full" /\ kind = "process")
    /\ UNCHANGED <<kind, table, told>>

CollectStep == \E r \in Request : Delete(r) \/ DeleteFails(r) \/ InsertRows(r) \/ InsertFails(r)

CollectNext ==
    \/ \E r \in Request, now \in View : Diff(r, now) \/ Full(r, now) \/ AccountFull(r, now)
    \/ ProcessSync
    \/ CollectStep
-----------------------------------------------------------------------------
(* Properties. *)

\* With no report under way, and no failing statement and no overlapping reports since the
\* table was last replaced as a whole (or read back), the table holds exactly what the
\* agent reported: a full report repairs whatever failures and overlaps before it left.
AssetsInSync == Quiet /\ ~dirty => table = told

\* A full report of listening ports or groups that ran alone and was answered with success
\* has been stored as a whole (the answer of ProcessFull and AccountFull promises nothing).
SuccessMeansStored ==
    [][\A r \in Request :
          /\ kind \in {"listen", "group"} /\ report[r].op = "full" /\ report[r].alone
          /\ report'[r] = NoReport /\ ok'
          => table' = report[r].rows]_<<collectVars, faults>>
=============================================================================
