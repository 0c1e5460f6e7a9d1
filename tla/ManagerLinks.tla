---------------------------- MODULE ManagerLinks ----------------------------
(***************************************************************************)
(* A production broker and a next-generation one that dial the same        *)
(* addresses of the manager.                                               *)
(***************************************************************************)
EXTENDS Telecom, Clientd

Address == ToSet(TAddrs) \cup ToSet(Addresses)

vars == <<host, cancelled, tvars, cvars>>

TypeOK ==
    /\ host \in [Address -> Behaviour]
    /\ cancelled \in BOOLEAN
    /\ TTypeOK /\ CTypeOK

Init ==
    /\ host \in [Address -> Behaviour]
    /\ cancelled = FALSE
    /\ TInit /\ CInit

TelecomStep == TStep /\ UNCHANGED <<host, cancelled, cvars>>
ClientdStep == CStep /\ UNCHANGED <<host, cancelled, tvars>>
Breaks == \/ TMuxBroken /\ UNCHANGED <<host, cancelled, cvars>>
          \/ CMuxBroken /\ UNCHANGED <<host, cancelled, tvars>>

\* External: the manager changes its behaviour at an address.
HostChanges ==
    /\ \E a \in Address, v \in Behaviour : v # host[a] /\ host' = [host EXCEPT ![a] = v]
    /\ UNCHANGED <<cancelled, tvars, cvars>>

\* External: the processes are told to stop.
Cancel ==
    /\ ~cancelled /\ cancelled' = TRUE
    /\ UNCHANGED <<host, tvars, cvars>>

Next == TelecomStep \/ ClientdStep \/ Breaks \/ HostChanges \/ Cancel

Spec == Init /\ [][Next]_vars

\* Goroutines are scheduled; dials, handshakes of clientd and back-offs have time limits.
FairSpec == Spec /\ WF_vars(TelecomStep) /\ WF_vars(ClientdStep)
-----------------------------------------------------------------------------
(* Properties. *)

\* Both clients implement the abstract link: however dials, failed handshakes, lost
\* connections and cancellation mix, there is at most one connection, it is closed before
\* the next one is made, and none is left at the end.
TelecomImplementsLink == TLink!Spec
ClientdImplementsLink == CLink!Spec

\* When from some time on one address accepts (and no address is silent for telecom, which
\* waits without a deadline), the links do not stay down: each is up again and again, or
\* has ended for good.
Reconnects ==
    \A a \in Address :
        LET Good == ~cancelled /\ host[a] = "good"
            Answered == \A other \in Address : host[other] # "silent" IN
        /\ <>[](Good /\ Answered) => []<>(tpc \in {"serving", "ended"})
        /\ <>[]Good => []<>(cpc = "serving")

\* A clientd link to a manager that has fallen silent is given up, if the manager stays so.
SilentManagerLeft ==
    \A p \in 1..Len(Addresses) :
        [](cpc = "serving" /\ pos = p => <>(cpc # "serving" \/ host[Addresses[p]] # "silent"))
=============================================================================
