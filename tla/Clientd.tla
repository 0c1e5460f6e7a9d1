------------------------------ MODULE Clientd ------------------------------
(***************************************************************************)
(* The next-generation broker's link to the manager: channel/clientd.      *)
(***************************************************************************)
EXTENDS ManagerHost, Naturals, Sequences, SequencesExt

CONSTANTS
    Servers,  \* Config.Addresses as configured
    HasPort   \* those of them that name a port

VARIABLES
    cpc,        \* where the client is
    pos,        \* the address connects tries or has connected to
    session,    \* the session in safeMuxer is "none", "open" or "broken"
    copen       \* open connections of the client

cvars == <<cpc, pos, session, copen>>

\* Config.preparse: the default port is added, later duplicates are dropped.
Full(addr) == IF addr \in HasPort THEN addr ELSE addr \o ":443"
Preparse(addrs) ==
    FoldLeft(LAMBDA got, addr : IF Contains(got, Full(addr)) THEN got
                                ELSE Append(got, Full(addr)), <<>>, addrs)

Addresses == Preparse(Servers)

ASSUME ClientdAssumption == Servers \in Seq(STRING) /\ Len(Servers) > 0

CTypeOK ==
    /\ cpc \in {"connect", "auth", "serving", "sleep", "ended"}
    /\ pos \in 1..Len(Addresses)
    /\ session \in {"none", "open", "broken"}
    /\ copen \in Nat

CInit == cpc = "connect" /\ pos = 1 /\ session = "none" /\ copen = 0

\* connects: the next address, or after the last one the back-off.
TryNext ==
    IF pos < Len(Addresses) THEN cpc' = "connect" /\ pos' = pos + 1
    ELSE cpc' = "sleep" /\ pos' = 1

\* openSMUX: a websocket to the address, or an error (at once when cancelled).
OpenSMUX ==
    /\ cpc = "connect"
    /\ \/ /\ ~cancelled /\ host[Addresses[pos]] # "down"
          /\ copen' = copen + 1
          /\ cpc' = "auth"
          /\ UNCHANGED pos
       \/ /\ cancelled \/ host[Addresses[pos]] = "down"
          /\ TryNext
          /\ UNCHANGED copen
    /\ UNCHANGED session

\* authentication succeeds: the session replaces the one in safeMuxer, Serve starts.
Authenticated ==
    /\ cpc = "auth" /\ host[Addresses[pos]] = "good"
    /\ cpc' = "serving" /\ session' = "open"
    /\ UNCHANGED <<pos, copen>>

\* Variant of AuthFails that does not close the session.
AuthFailsOpen ==
    /\ cpc = "auth" /\ host[Addresses[pos]] # "good"
    /\ TryNext
    /\ UNCHANGED <<session, copen>>

\* authentication fails, by an answer that is not 2xx, a broken connection or the deadline:
\* the session is closed.
AuthFails ==
    /\ cpc = "auth" /\ host[Addresses[pos]] # "good"
    /\ copen' = copen - 1
    /\ TryNext
    /\ UNCHANGED session

\* open: back off (waitN); a cancelled context ends the link.
Sleep ==
    /\ cpc = "sleep"
    /\ cpc' = IF cancelled THEN "ended" ELSE "connect"
    /\ UNCHANGED <<pos, session, copen>>

\* The connection is closed by the manager or the network ...
CMuxBroken ==
    /\ cpc = "serving" /\ session = "open"
    /\ session' = "broken"
    /\ UNCHANGED <<cpc, pos, copen>>

\* Variant of Keepalive for a session without one.
KeepaliveDisabled == FALSE /\ UNCHANGED cvars

\* ... or its keepalives are not answered.
Keepalive ==
    /\ cpc = "serving" /\ session = "open" /\ host[Addresses[pos]] \in {"silent", "down"}
    /\ session' = "broken"
    /\ UNCHANGED <<cpc, pos, copen>>

\* serve: Serve returns, the listener closes the session in safeMuxer, then open again.
ServeEnds ==
    /\ cpc = "serving" /\ session = "broken"
    /\ session' = "none" /\ copen' = copen - 1
    /\ cpc' = "connect" /\ pos' = 1

CStep == OpenSMUX \/ Authenticated \/ AuthFails \/ Sleep \/ Keepalive \/ ServeEnds

\* The state of the link as ManagerLink sees it.
CState ==
    CASE cpc = "serving" -> "up" [] cpc = "ended" -> "ended" [] OTHER -> "dialing"

CLink == INSTANCE ManagerLink WITH link <- CState, open <- copen
=============================================================================
