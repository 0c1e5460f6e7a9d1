------------------------- MODULE MCBrokerGateways -------------------------
(* Small instances of BrokerGateways for TLC. *)
EXTENDS BrokerGateways, TLC

CONSTANTS b1, b2, m1, s1, s2, w1

Conn(b, m, s) == [broker |-> b, minion |-> m, slot |-> s]

\* A minion with a current connection to each broker.
HubSessions == {Conn(b1, m1, s1), Conn(b2, m1, s2)}

\* ... and a legacy connection to the first.
LegacySession == {Conn(b1, m1, w1)}
=============================================================================
