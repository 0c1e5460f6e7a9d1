---------------------------- MODULE ManagerLink ----------------------------
(***************************************************************************)
(* What a link to the manager promises, whichever client makes it: it is   *)
(* up, or being dialled, or has ended; it holds at most one connection, a  *)
(* connection it gives up is closed before the next one is made, and none  *)
(* is left when it has ended.                                              *)
(***************************************************************************)
EXTENDS Naturals

VARIABLES
    link,  \* "dialing", "up" or "ended"
    open   \* open connections of the client

Init == link = "dialing" /\ open = 0

\* A connection is made.
Connect == link = "dialing" /\ open = 0 /\ open' = 1 /\ link' = link

\* The handshake fails.
Fail == link = "dialing" /\ open = 1 /\ open' = 0 /\ link' = link

\* The handshake succeeds.
Join == link = "dialing" /\ open = 1 /\ link' = "up" /\ open' = open

\* The connection is lost, and closed.
Lose == link = "up" /\ link' = "dialing" /\ open' = 0

\* The link gives up for good.
End == link # "ended" /\ link' = "ended" /\ open' = 0

Next == Connect \/ Fail \/ Join \/ Lose \/ End

Spec == Init /\ [][Next]_<<link, open>>
=============================================================================
