--------------------------- MODULE MCAgentServer ---------------------------
(* Small instances of AgentServer for TLC. *)
EXTENDS AgentServer

CONSTANTS b1, b2, m1, m2, s1, s2, s3

Tunnel(b, m, s) == [broker |-> b, minion |-> m, slot |-> s]

\* Three tunnels of one minion to one broker.
OneBroker == {Tunnel(b1, m1, s) : s \in {s1, s2, s3}}

\* One minion that opens a tunnel to each of two brokers (ServedOnce).
TwoBrokers == {Tunnel(b1, m1, s1), Tunnel(b2, m1, s2)}

\* Two minions with a tunnel to one broker each (OwnPeer).
TwoMinions == {Tunnel(b1, m1, s1), Tunnel(b1, m2, s2)}
=============================================================================
