---------------------------- MODULE MinionTable ----------------------------
(***************************************************************************)
(* The rows of the minion table of the SQL database that all brokers share *)
(* (external: model.Minion of ssoc-common-mb), as far as the broker reads  *)
(* and writes them: the status and the broker the minion is online at.     *)
(* Every UPDATE of the broker is one guarded statement, so it is one       *)
(* atomic operator on the table here.                                      *)
(***************************************************************************)
CONSTANTS
    Brokers,   \* broker nodes, by broker id
    Minions,   \* agent nodes, by minion id
    NoBroker   \* broker_id of a row no broker has claimed yet

ASSUME NoBrokerAssumption == NoBroker \notin Brokers

\* model.MSInactive, MSOffline, MSOnline, MSDelete, and no row at all.
Status == {"absent", "inactive", "offline", "online", "delete"}

Row == [status : Status, broker : Brokers \cup {NoBroker}]

AbsentRow == [status |-> "absent", broker |-> NoBroker]

\* createNew, findOrCreate: INSERT a row that is offline.
NewRow == [status |-> "offline", broker |-> NoBroker]

OnlineAt(b) == [status |-> "online", broker |-> b]

\* The same UPDATE without its status condition.
MarkOnlineAnyStatus(row, m, b) == [row EXCEPT ![m] = OnlineAt(b)]

\* UPDATE minion SET status = online, broker_id = b WHERE id = m AND status = offline.
MarkOnline(row, m, b) ==
    IF row[m].status = "offline" THEN [row EXCEPT ![m] = OnlineAt(b)] ELSE row

\* The same UPDATE without its broker_id condition.
MarkOfflineAnyBroker(row, m, b) ==
    IF row[m].status = "online" THEN [row EXCEPT ![m].status = "offline"] ELSE row

\* UPDATE minion SET status = offline WHERE broker_id = b AND status = online AND id = m.
MarkOffline(row, m, b) ==
    IF row[m] = OnlineAt(b) THEN [row EXCEPT ![m].status = "offline"] ELSE row

\* UPDATE minion SET status = offline WHERE broker_id = b AND status = online.
MarkAllOffline(row, b) ==
    [m \in Minions |->
        IF row[m] = OnlineAt(b) THEN [row[m] EXCEPT !.status = "offline"] ELSE row[m]]
=============================================================================
