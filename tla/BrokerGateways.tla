-------------------------- MODULE BrokerGateways --------------------------
(***************************************************************************)
(* A broker as launch.Run wires it: the current gateway (MinionHub) and    *)
(* the endpoint for version 2 agents (LegacyHub) in one process, each with *)
(* its own connection map, over the same minion table.                     *)
(***************************************************************************)
EXTENDS MinionHub

CONSTANTS
    LSession,  \* websockets of version 2 agents
    NoConn     \* an empty entry of the legacy hub's map

ASSUME GatewayAssumption ==
    /\ \A s \in LSession : s.broker \in Brokers /\ s.minion \in Minions
    /\ NoConn \notin LSession

VARIABLES minions, lpc, agent  \* the state of LegacyHub

Legacy == INSTANCE LegacyHub

legacyVars == <<minions, lpc, agent>>
allVars == <<vars, legacyVars>>

BothInit == Init /\ Legacy!HubInit

\* A step of an agent session, of Knockout or of the manager; the legacy hub is not involved.
HubStep == HubNext /\ UNCHANGED legacyVars

LegacyStep ==
    /\ \E s \in LSession : Legacy!SessionNext(s)
    /\ UNCHANGED <<tags, section, pc, mux, closing, kicked>>

\* The process: one ResetDB for both, and all of its memory is gone at once.
ProcessStep ==
    \E b \in Brokers :
        \/ (Start(b) \/ Stop(b)) /\ UNCHANGED legacyVars
        \/ Exit(b) /\ Legacy!Forget(b) /\ UNCHANGED agent

BothNext == HubStep \/ LegacyStep \/ ProcessStep

BothSpec == BothInit /\ [][BothNext]_allVars
-----------------------------------------------------------------------------
(* Properties. *)

\* Without database errors a row that is online at a running broker has a session in one of
\* the two hubs of that broker: neither hub's release is missed when the other's claim or
\* release of the same minion comes in between.
OnlineRowServed ==
    faults = 0 =>
        \A b \in Brokers, m \in Minions :
            node[b] = "running" /\ row[m] = OnlineAt(b) =>
                \/ \E s \in Session : Holds(s) /\ s.broker = b /\ s.minion = m
                \/ \E s \in LSession : s.broker = b /\ s.minion = m /\ lpc[s] \in Legacy!Holding

\* Only a legacy session of its own broker can take the row of a served minion away: at a
\* broker without one the row names the holder.
HolderRowWithoutLegacy ==
    \A s \in Session :
        Holds(s) /\ (\A t \in LSession : t.minion = s.minion => t.broker # s.broker)
            => row[s.minion] = OnlineAt(s.broker)
=============================================================================
