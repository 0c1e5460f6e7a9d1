------------------------------ MODULE Telecom ------------------------------
(***************************************************************************)
(* The production broker's link to the manager: bridge/telecom and the     *)
(* loop of daemonClient that serves it (launch/daemon.go).                 *)
(***************************************************************************)
EXTENDS ManagerHost, Integers, Sequences

CONSTANT
    TAddrs    \* hide.Servers.Preformat(): the manager's addresses

ASSUME TelecomAssumption == TAddrs \in Seq(STRING) /\ Len(TAddrs) > 0

VARIABLES
    tpc,        \* where the client is
    index,      \* iterDial.index: the address to dial next
    at,         \* the address of the connection
    mux,        \* the smux session in use is "none", "open" or "broken"
    topen       \* open connections of the client

tvars == <<tpc, index, at, mux, topen>>

TTypeOK ==
    /\ tpc \in {"dial", "consult", "serving", "ended"}
    /\ index \in 0..(Len(TAddrs) - 1)
    /\ at \in 1..Len(TAddrs)
    /\ mux \in {"none", "open", "broken"}
    /\ topen \in Nat

TInit == tpc = "dial" /\ index = 0 /\ at = 1 /\ mux = "none" /\ topen = 0

\* Variant of NextIndex that stays with the first address.
NextIndexNone == index' = 0

\* iterDial: the addresses in turn.
NextIndex == index' = (index + 1) % Len(TAddrs)

\* dial: a TCP or TLS connection to the next address ...
Dial ==
    /\ tpc = "dial" /\ ~cancelled
    /\ host[TAddrs[index + 1]] # "down"
    /\ NextIndex
    /\ at' = index + 1
    /\ topen' = topen + 1
    /\ tpc' = "consult"
    /\ UNCHANGED mux

\* ... or none: dial returns when it was cancelled, else it sleeps (dialSleep) and tries on.
DialFails ==
    /\ tpc = "dial"
    /\ cancelled \/ host[TAddrs[index + 1]] = "down"
    /\ NextIndex
    /\ tpc' = IF cancelled THEN "ended" ELSE "dial"
    /\ UNCHANGED <<at, mux, topen>>

\* consult: the handshake is accepted; smux.Client over the connection.
Consult ==
    /\ tpc = "consult" /\ host[TAddrs[at]] = "good"
    /\ tpc' = "serving" /\ mux' = "open"
    /\ UNCHANGED <<index, at, topen>>

\* Variant of ConsultFails that does not close the connection.
ConsultFailsOpen ==
    /\ tpc = "consult" /\ host[TAddrs[at]] \notin {"good", "silent"}
    /\ tpc' = IF cancelled \/ host[TAddrs[at]] = "notacceptable" THEN "ended" ELSE "dial"
    /\ UNCHANGED <<index, at, mux, topen>>

\* consult fails: the connection is closed; a cancelled parent or 406 ends the link, else
\* dial sleeps and tries on.  There is no deadline: a silent manager is waited for.
ConsultFails ==
    /\ tpc = "consult" /\ host[TAddrs[at]] \notin {"good", "silent"}
    /\ topen' = topen - 1
    /\ tpc' = IF cancelled \/ host[TAddrs[at]] = "notacceptable" THEN "ended" ELSE "dial"
    /\ UNCHANGED <<index, at, mux>>

\* The session breaks: the manager or the network closes the connection.  The session has
\* no keepalive, so a manager that falls silent is not noticed.
TMuxBroken ==
    /\ tpc = "serving" /\ mux = "open" /\ host[TAddrs[at]] # "silent"
    /\ mux' = "broken"
    /\ UNCHANGED <<tpc, index, at, topen>>

\* daemonClient.Run: Serve returns, having closed its listener, the session; a cancelled
\* parent ends the loop, else Reconnect closes again and dials.
Reconnect ==
    /\ tpc = "serving" /\ mux = "broken"
    /\ mux' = "none" /\ topen' = 0
    /\ tpc' = IF cancelled THEN "ended" ELSE "dial"
    /\ UNCHANGED <<index, at>>

\* Run at its end: daemonClient.Close closes the server, and with it the session.
TClose ==
    /\ cancelled /\ tpc = "serving"
    /\ mux' = "broken"
    /\ UNCHANGED <<tpc, index, at, topen>>

TStep == Dial \/ DialFails \/ Consult \/ ConsultFails \/ Reconnect \/ TClose

\* The state of the link as ManagerLink sees it.
TState ==
    CASE tpc = "serving" -> "up" [] tpc = "ended" -> "ended" [] OTHER -> "dialing"

TLink == INSTANCE ManagerLink WITH link <- TState, open <- topen
=============================================================================
