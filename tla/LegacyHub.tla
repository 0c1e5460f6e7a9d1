----------------------------- MODULE LegacyHub -----------------------------
(***************************************************************************)
(* The endpoint for agents of version 2 (app/temporary/rest.go), which     *)
(* every broker keeps beside the current gateway, and its hub              *)
(* (app/temporary/linkhub/linkhub.go), over the same minion table.  A      *)
(* session is one websocket: a goroutine that runs Endpoint.               *)
(***************************************************************************)
EXTENDS MinionTable, Naturals

CONSTANTS
    LSession,   \* the websockets agents can open, each from one minion to one broker
    NoConn,     \* an empty entry of the hub's map
    MaxFaults   \* bound on failing database calls

ASSUME LegacyAssumption ==
    /\ \A s \in LSession : s.broker \in Brokers /\ s.minion \in Minions
    /\ NoConn \notin LSession
    /\ MaxFaults \in Nat

VARIABLES
    node,     \* broker -> "down", "running" or "stopping"
    row,      \* minion -> its row of the minion table
    minions,  \* broker -> minion -> the connection the hub's map holds
    lpc,      \* session -> where its goroutine is
    agent,    \* session -> what its agent does: "alive", "closed" it, or "vanished"
    faults    \* failed database calls so far

vars == <<node, row, minions, lpc, agent, faults>>

\* "claimed": Authorize has given a claim.  "stored": Connect has put the connection into
\* the map.  "reading": in the receive loop.  "closed": the loop has ended.  "deleted":
\* Disconnect has removed the map entry, the row is next.
LPC == {"idle", "claimed", "stored", "reading", "closed", "deleted"}

TypeOK ==
    /\ node \in [Brokers -> {"down", "running", "stopping"}]
    /\ row \in [Minions -> Row]
    /\ minions \in [Brokers -> [Minions -> LSession \cup {NoConn}]]
    /\ lpc \in [LSession -> LPC]
    /\ agent \in [LSession -> {"alive", "closed", "vanished"}]
    /\ faults \in 0..MaxFaults

\* The hub's own state when its process starts.
HubInit ==
    /\ minions = [b \in Brokers |-> [m \in Minions |-> NoConn]]
    /\ lpc = [s \in LSession |-> "idle"]
    /\ agent = [s \in LSession |-> "alive"]

Init ==
    /\ node = [b \in Brokers |-> "down"]
    /\ row = [m \in Minions |-> AbsentRow]
    /\ HubInit
    /\ faults = 0

Goto(s, from, to) == lpc[s] = from /\ lpc' = [lpc EXCEPT ![s] = to]

\* A statement on the table whose error is ignored: it may fail, applied or not.
Execute(after) ==
    \/ row' = after /\ UNCHANGED faults
    \/ faults < MaxFaults /\ faults' = faults + 1 /\ row' \in {row, after}
-----------------------------------------------------------------------------
(* The session goroutine: Endpoint, Authorize, Connect, Disconnect. *)

\* Authorize: take the row by inet or create it, offline at this broker; a deleted or
\* an online minion is refused, which changes nothing.  An inactive one is accepted.
Authorize(s) ==
    LET m == s.minion IN
    /\ node[s.broker] # "down"
    /\ row[m].status \notin {"delete", "online"}
    /\ Goto(s, "idle", "claimed")
    /\ row' = IF row[m].status = "absent"
              THEN [row EXCEPT ![m] = [status |-> "offline", broker |-> s.broker]]
              ELSE row
    /\ agent' = [agent EXCEPT ![s] = "alive"]
    /\ UNCHANGED <<node, minions, faults>>

\* Endpoint: the claim is invalid or cannot be encrypted, or the upgrade fails.
Abort(s) ==
    /\ Goto(s, "claimed", "idle")
    /\ UNCHANGED <<node, row, minions, agent, faults>>

\* Connect: minions.Store, over whatever was there.
Store(s) ==
    /\ Goto(s, "claimed", "stored")
    /\ minions' = [minions EXCEPT ![s.broker][s.minion] = s]
    /\ UNCHANGED <<node, row, agent, faults>>

\* Connect: the UPDATE, of which neither the error nor the affected rows are looked at,
\* and the order to upgrade, whose error is ignored.
Connect(s) ==
    /\ Goto(s, "stored", "reading")
    /\ Execute(MarkOnline(row, s.minion, s.broker))
    /\ UNCHANGED <<node, minions, agent>>

\* The agent closes the websocket, or is gone without a word.
AgentEnds(s) ==
    /\ lpc[s] \notin {"idle", "claimed"}
    /\ agent[s] = "alive"
    /\ \E a \in {"closed", "vanished"} : agent' = [agent EXCEPT ![s] = a]
    /\ UNCHANGED <<node, row, minions, lpc, faults>>

\* Variant of ReceiveEnds without the deadline of receive.
ReceiveNoDeadline(s) ==
    /\ agent[s] = "closed"
    /\ Goto(s, "reading", "closed")
    /\ UNCHANGED <<node, row, minions, agent, faults>>

\* The receive loop ends on a closed connection, or when nothing came for 15 minutes; then
\* conn.close.
ReceiveEnds(s) ==
    /\ agent[s] # "alive"
    /\ Goto(s, "reading", "closed")
    /\ UNCHANGED <<node, row, minions, agent, faults>>

\* Variant of Delete that forgets the entry.
DeleteNothing(s) ==
    /\ Goto(s, "closed", "deleted")
    /\ UNCHANGED <<node, row, minions, agent, faults>>

\* Disconnect: minions.Delete by the minion's id.
Delete(s) ==
    /\ Goto(s, "closed", "deleted")
    /\ minions' = [minions EXCEPT ![s.broker][s.minion] = NoConn]
    /\ UNCHANGED <<node, row, agent, faults>>

\* Variant of Disconnect whose UPDATE asks for the status the row should get.
DisconnectNoMatch(s) ==
    /\ Goto(s, "deleted", "idle")
    /\ UNCHANGED <<node, row, minions, agent, faults>>

\* Disconnect: the row of this minion, if it is online at this broker, goes offline.
Disconnect(s) ==
    /\ Goto(s, "deleted", "idle")
    /\ Execute(MarkOffline(row, s.minion, s.broker))
    /\ UNCHANGED <<node, minions, agent>>

SessionNext(s) ==
    \/ Authorize(s) \/ Abort(s) \/ Store(s) \/ Connect(s) \/ AgentEnds(s)
    \/ ReceiveEnds(s) \/ Delete(s) \/ Disconnect(s)
-----------------------------------------------------------------------------
(* The broker process, as in MinionHub. *)

Start(b) ==
    /\ node[b] = "down"
    /\ node' = [node EXCEPT ![b] = "running"]
    /\ Execute(MarkAllOffline(row, b))
    /\ UNCHANGED <<minions, lpc, agent>>

Stop(b) ==
    /\ node[b] = "running"
    /\ node' = [node EXCEPT ![b] = "stopping"]
    /\ Execute(MarkAllOffline(row, b))
    /\ UNCHANGED <<minions, lpc, agent>>

\* What the hub kept in memory is gone.
Forget(b) ==
    /\ minions' = [minions EXCEPT ![b] = [m \in Minions |-> NoConn]]
    /\ lpc' = [s \in LSession |-> IF s.broker = b THEN "idle" ELSE lpc[s]]

Exit(b) ==
    /\ node[b] # "down"
    /\ node' = [node EXCEPT ![b] = "down"]
    /\ Forget(b)
    /\ UNCHANGED <<row, agent, faults>>

\* External: the manager deletes, deactivates or restores a minion that is not online.
ManagerSet(m, st) ==
    /\ row[m].status \in {"inactive", "offline", "delete"} \ {st}
    /\ row' = [row EXCEPT ![m].status = st]
    /\ UNCHANGED <<node, minions, lpc, agent, faults>>

Next ==
    \/ \E s \in LSession : SessionNext(s)
    \/ \E b \in Brokers : Start(b) \/ Stop(b) \/ Exit(b)
    \/ \E m \in Minions, st \in {"inactive", "offline", "delete"} : ManagerSet(m, st)

Spec == Init /\ [][Next]_vars

\* Goroutines are scheduled and every read has a deadline; a dead process is started again.
Fairness ==
    /\ \A s \in LSession :
          WF_vars(Store(s) \/ Connect(s) \/ ReceiveEnds(s) \/ Delete(s) \/ Disconnect(s))
    /\ \A b \in Brokers : WF_vars(Start(b))

FairSpec == Spec /\ Fairness
-----------------------------------------------------------------------------
(* Properties. *)

\* Between Store and Delete.
Entered == {"stored", "reading", "closed"}

\* Although Store overwrites and Delete goes by the minion's id, the map never keeps a
\* connection whose session has left: TokenLookup accepts no token of a past session.
EntryLive ==
    \A b \in Brokers, m \in Minions :
        LET s == minions[b][m] IN
        s # NoConn => s.broker = b /\ s.minion = m /\ lpc[s] \in Entered

\* Between the UPDATE of Connect and that of Disconnect.
Holding == {"reading", "closed", "deleted"}

\* Without database errors a row that is online at a running broker has a session there,
\* although Connect does not know whether its UPDATE was the one that changed the row.
OnlineRowHeld ==
    faults = 0 =>
        \A b \in Brokers, m \in Minions :
            node[b] = "running" /\ row[m] = OnlineAt(b)
                => \E s \in LSession : s.broker = b /\ s.minion = m /\ lpc[s] \in Holding

\* A process that is not running has no session goroutines.
DownQuiet == \A s \in LSession : node[s.broker] = "down" => lpc[s] = "idle"

\* An agent that is gone without a word does not keep its minion online for good, unless a
\* database call fails.
VanishedGoesOffline ==
    \A s \in LSession :
        (lpc[s] = "reading" /\ agent[s] = "vanished" /\ row[s.minion] = OnlineAt(s.broker))
            ~> (row[s.minion] # OnlineAt(s.broker) \/ faults > 0)
=============================================================================
