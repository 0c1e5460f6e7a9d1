---------------------------- MODULE MCLegacyHub ----------------------------
(* A small instance of LegacyHub for TLC. *)
EXTENDS LegacyHub

CONSTANTS b1, m1, w1, w2

\* One minion that can connect twice to one broker.
OneBroker == {[broker |-> b1, minion |-> m1, slot |-> w] : w \in {w1, w2}}
=============================================================================
