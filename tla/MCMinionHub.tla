---------------------------- MODULE MCMinionHub ----------------------------
(* Small instances of MinionHub for TLC. *)
EXTENDS MinionHub, TLC

CONSTANTS b1, b2, m1, s1, s2, s3

Conn(b, m, s) == [broker |-> b, minion |-> m, slot |-> s]

\* One minion that can connect twice to a broker and once to another.
OneMinion == {Conn(b1, m1, s1), Conn(b1, m1, s2), Conn(b2, m1, s3)}

\* One minion that can connect to either of two brokers.
TwoBrokers == {Conn(b1, m1, s1), Conn(b2, m1, s2)}

\* The two connections of m1 to b1 are interchangeable (safety runs only).
Symmetry == Permutations({s1, s2})
=============================================================================
