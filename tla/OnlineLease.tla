---------------------------- MODULE OnlineLease ----------------------------
(***************************************************************************)
(* What the brokers promise together: a minion is served by at most one    *)
(* session at a time, and a session gets it only after the previous one    *)
(* has let it go.  A broker that ends lets go of all its minions at once.  *)
(***************************************************************************)
CONSTANTS Minions, Session, NoSession

VARIABLE owner  \* minion -> the session that serves it

LeaseInit == owner = [m \in Minions |-> NoSession]

Acquire(m, s) ==
    /\ owner[m] = NoSession
    /\ owner' = [owner EXCEPT ![m] = s]

Release(M) ==
    owner' = [m \in Minions |-> IF m \in M THEN NoSession ELSE owner[m]]

LeaseNext ==
    \/ \E m \in Minions, s \in Session : Acquire(m, s)
    \/ \E M \in SUBSET Minions : Release(M)

LeaseSpec == LeaseInit /\ [][LeaseNext]_owner
=============================================================================
