------------------------------ MODULE TaskPush ------------------------------
(***************************************************************************)
(* One execution of an ad-hoc task: the broker pushes it to its minions    *)
(* (mservice/task.go) and the agents report results (agtapi/task.go).      *)
(***************************************************************************)
EXTENDS Requests

CONSTANTS
    Items,      \* ids of the task_execute_items of this broker
    BatchSize,  \* rows that FindInBatches reads at a time
    MaxPushes   \* bound: push commands of the manager

VARIABLES
    limit,     \* Task.limit holds the execution
    item,      \* item -> [status, finished, code]
    push,      \* request -> its progress
    agent,     \* item -> times its agent was given the task
    pushes,    \* commands so far
    orphaned,  \* ghost: the query for the execution failed, the mark stayed
    unsure     \* ghost: a push whose outcome was not recorded, or was delivered with an error

pushVars == <<limit, item, push, agent, pushes, orphaned, unsure>>

ASSUME PushAssumption == Items \subseteq Nat /\ BatchSize \in Nat \ {0}

NoPush == [pc |-> "idle", batch |-> {}, last |-> 0, failed |-> FALSE]

PushInit ==
    /\ limit = FALSE
    /\ item = [i \in Items |-> [status |-> "null", finished |-> FALSE, code |-> "none"]]
    /\ push = [r \in Request |-> NoPush]
    /\ agent = [i \in Items |-> 0]
    /\ pushes = 0
    /\ orphaned = FALSE /\ unsure = {}
    /\ faults = 0

\* The first n of a set of ids, and the first.
FirstOf(n, ids) == {i \in ids : Cardinality({b \in ids : b < i}) < n}
Lowest(ids) == CHOOSE i \in ids : \A other \in ids : i <= other

\* Variant of Push that does not look at the mark.
PushAgain(r) ==
    /\ push[r].pc = "idle" /\ pushes < MaxPushes /\ pushes' = pushes + 1
    /\ limit' = TRUE
    /\ push' = [push EXCEPT ![r].pc = "find"]
    /\ UNCHANGED <<item, agent, orphaned, unsure, faults>>

\* Push: a second command for the execution is refused.
Push(r) ==
    /\ push[r].pc = "idle" /\ pushes < MaxPushes /\ pushes' = pushes + 1
    /\ ~limit /\ limit' = TRUE
    /\ push' = [push EXCEPT ![r].pc = "find"]
    /\ UNCHANGED <<item, agent, orphaned, unsure, faults>>

\* The query for the execution; its error returns without taking the mark away.
FindExecute(r) ==
    /\ push[r].pc = "find"
    /\ \/ push' = [push EXCEPT ![r].pc = "batch"] /\ UNCHANGED <<orphaned, faults>>
       \/ Fails /\ push' = [push EXCEPT ![r] = NoPush] /\ orphaned' = TRUE
    /\ UNCHANGED <<limit, item, agent, pushes, unsure>>

\* The next batch, by id, of the items without a broker status; none, or a failing query,
\* ends execute, which takes the mark away.
FindInBatches(r) ==
    /\ push[r].pc = "batch"
    /\ LET batch == FirstOf(BatchSize, {i \in Items : i > push[r].last /\ item[i].status = "null"})
       IN \/ /\ batch # {}
             /\ push' = [push EXCEPT ![r].pc = "send", ![r].batch = batch]
             /\ UNCHANGED <<limit, faults>>
          \/ /\ (batch = {} /\ UNCHANGED faults) \/ Fails
             /\ limit' = FALSE
             /\ push' = [push EXCEPT ![r] = NoPush]
    /\ UNCHANGED <<item, agent, pushes, orphaned, unsure>>

\* pushTask: the agent got it; the call failed; or it failed although the agent got it.
PushTask(r) ==
    /\ push[r].pc = "send"
    /\ LET i == Lowest(push[r].batch) IN
       \/ /\ agent' = [agent EXCEPT ![i] = @ + 1]
          /\ push' = [push EXCEPT ![r].pc = "update", ![r].failed = FALSE]
          /\ UNCHANGED <<unsure, faults>>
       \/ /\ Fails
          /\ push' = [push EXCEPT ![r].pc = "update", ![r].failed = TRUE]
          /\ UNCHANGED <<agent, unsure>>
       \/ /\ Fails
          /\ agent' = [agent EXCEPT ![i] = @ + 1]
          /\ push' = [push EXCEPT ![r].pc = "update", ![r].failed = TRUE]
          /\ unsure' = unsure \cup {i}
    /\ UNCHANGED <<limit, item, pushes, orphaned>>

\* The update of the item's row; its error is dropped.
UpdateItem(r) ==
    /\ push[r].pc = "update"
    /\ LET i == Lowest(push[r].batch)
           rest == push[r].batch \ {i} IN
       /\ \/ /\ item' = [item EXCEPT ![i] =
                   [status |-> IF push[r].failed THEN "failed" ELSE "sent",
                    finished |-> @.finished \/ push[r].failed,
                    code |-> IF push[r].failed THEN "agent" ELSE @.code]]
             /\ UNCHANGED <<unsure, faults>>
          \/ Fails /\ unsure' = unsure \cup {i} /\ UNCHANGED item
       /\ push' = [push EXCEPT ![r].pc = IF rest = {} THEN "batch" ELSE "send",
                               ![r].batch = rest, ![r].last = i]
    /\ UNCHANGED <<limit, agent, pushes, orphaned>>

\* Report of an agent that was given the task.
Report(i, succeed) ==
    /\ agent[i] > 0 /\ item[i].code \notin {"succeed", "exec"}
    /\ item' = [item EXCEPT ![i].finished = TRUE,
                            ![i].code = IF succeed THEN "succeed" ELSE "exec"]
    /\ UNCHANGED <<limit, push, agent, pushes, orphaned, unsure, faults>>

\* The process ends and is started again: the items that were sent but not recorded are
\* still to do.
PushRestart ==
    /\ \E r \in Request : push[r].pc # "idle"
    /\ limit' = FALSE /\ orphaned' = FALSE
    /\ unsure' = unsure \cup {Lowest(push[r].batch) : r \in {q \in Request : push[q].pc = "update"}}
    /\ push' = [r \in Request |-> NoPush]
    /\ UNCHANGED <<item, agent, pushes, faults>>

PushStep ==
    \E r \in Request : FindExecute(r) \/ FindInBatches(r) \/ PushTask(r) \/ UpdateItem(r)

PushNext ==
    \/ PushStep \/ PushRestart
    \/ \E r \in Request : Push(r)
    \/ \E i \in Items, succeed \in BOOLEAN : Report(i, succeed)
-----------------------------------------------------------------------------
(* Properties. *)

\* Whatever commands are repeated and overlap, no agent is given an execution twice, and a
\* reported result is not overwritten, unless the outcome of its push was not recorded or
\* the call failed after it had been delivered.
PushOnce ==
    \A i \in Items \ unsure :
        /\ agent[i] <= 1
        /\ item[i].code = "agent" => agent[i] = 0

\* The mark is held by a push under way, unless the query for the execution failed (after
\* which the execution is refused until the process is restarted).
PushMarkHeld == limit => orphaned \/ \E r \in Request : push[r].pc # "idle"

\* One push at a time, each item once.
PushSafe == PushOnce /\ PushMarkHeld
=============================================================================
