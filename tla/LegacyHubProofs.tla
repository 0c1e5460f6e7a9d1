-------------------------- MODULE LegacyHubProofs --------------------------
(***************************************************************************)
(* Proofs about LegacyHub, for any brokers, minions, websockets and number *)
(* of database faults.                                                     *)
(***************************************************************************)
EXTENDS LegacyHub, TLAPS

(* The statements on the minion table. *)

\* The guarded UPDATEs keep the table well-typed.
LEMMA TableType ==
    ASSUME NEW r \in [Minions -> Row], NEW m \in Minions, NEW b \in Brokers
    PROVE  /\ MarkOnline(r, m, b) \in [Minions -> Row]
           /\ MarkOffline(r, m, b) \in [Minions -> Row]
  BY DEF MarkOnline, MarkOffline, OnlineAt, Row, Status

\* ResetDB's UPDATE over a broker's rows keeps the table well-typed.
LEMMA ResetType ==
    ASSUME NEW r \in [Minions -> Row], NEW b \in Brokers
    PROVE  MarkAllOffline(r, b) \in [Minions -> Row]
  BY DEF MarkAllOffline, OnlineAt, Row, Status

\* Two rows online at different brokers differ, and an online row is not offline.
LEMMA OnlineFacts ==
    ASSUME NEW a \in Brokers, NEW b \in Brokers
    PROVE  /\ OnlineAt(a) = OnlineAt(b) => a = b
           /\ OnlineAt(a).status = "online"
  BY DEF OnlineAt
-----------------------------------------------------------------------------

USE NoBrokerAssumption, LegacyAssumption

\* Setting one entry of the map to a connection, or clearing it, keeps its type.
LEMMA MapType ==
    ASSUME NEW f \in [Brokers -> [Minions -> LSession \cup {NoConn}]],
           NEW b \in Brokers, NEW m \in Minions, NEW e \in LSession \cup {NoConn}
    PROVE  /\ [f EXCEPT ![b][m] = e] \in [Brokers -> [Minions -> LSession \cup {NoConn}]]
           /\ \A c \in Brokers, x \in Minions :
                 [f EXCEPT ![b][m] = e][c][x] = IF c = b /\ x = m THEN e ELSE f[c][x]
  OBVIOUS

\* A statement whose error is ignored leaves a table and a count of faults.
LEMMA ExecuteType ==
    ASSUME TypeOK, NEW after \in [Minions -> Row], Execute(after)
    PROVE  row' \in [Minions -> Row] /\ faults' \in 0..MaxFaults
  BY DEF Execute, TypeOK

\* What Store and Delete do to the map.
LEMMA MapSteps ==
    ASSUME TypeOK, NEW s \in LSession
    PROVE  /\ s.broker \in Brokers /\ s.minion \in Minions
           /\ Store(s) => minions' = [minions EXCEPT ![s.broker][s.minion] = s]
           /\ Delete(s) => minions' = [minions EXCEPT ![s.broker][s.minion] = NoConn]
           /\ Store(s) \/ Delete(s) => minions' \in [Brokers -> [Minions -> LSession \cup {NoConn}]]
<1>1. s.broker \in Brokers /\ s.minion \in Minions
  OBVIOUS
<1>2. s \in LSession \cup {NoConn} /\ NoConn \in LSession \cup {NoConn}
  OBVIOUS
<1>3. Store(s) => minions' = [minions EXCEPT ![s.broker][s.minion] = s]
  BY DEF Store
<1>4. Delete(s) => minions' = [minions EXCEPT ![s.broker][s.minion] = NoConn]
  BY DEF Delete
<1>5. minions \in [Brokers -> [Minions -> LSession \cup {NoConn}]]
  BY DEF TypeOK
<1>6. /\ [minions EXCEPT ![s.broker][s.minion] = s] \in [Brokers -> [Minions -> LSession \cup {NoConn}]]
      /\ [minions EXCEPT ![s.broker][s.minion] = NoConn] \in [Brokers -> [Minions -> LSession \cup {NoConn}]]
  BY ONLY <1>1, <1>2, <1>5, MapType
<1>7. QED
  BY <1>1, <1>3, <1>4, <1>6

\* Every step of Endpoint and of the process keeps the types.
LEMMA TypeStep == TypeOK /\ [Next]_vars => TypeOK'
<1> SUFFICES ASSUME TypeOK, [Next]_vars PROVE TypeOK'
  OBVIOUS
<1> USE DEF TypeOK
<1>0. CASE UNCHANGED vars
  BY <1>0 DEF vars
<1>1. ASSUME NEW s \in LSession, Authorize(s) PROVE TypeOK'
  <2>1. s.broker \in Brokers /\ s.minion \in Minions
    OBVIOUS
  <2>2. row' = row \/ row' = [row EXCEPT ![s.minion] = [status |-> "offline", broker |-> s.broker]]
    BY <1>1 DEF Authorize
  <2>3. row' \in [Minions -> Row]
    BY <2>1, <2>2 DEF Row, Status
  <2>4. QED
    BY <1>1, <2>3 DEF Authorize, Goto, LPC
<1>2. ASSUME NEW s \in LSession, Abort(s) \/ AgentEnds(s) \/ ReceiveEnds(s) PROVE TypeOK'
  BY <1>2 DEF Abort, AgentEnds, ReceiveEnds, Goto, LPC
<1>3. ASSUME NEW s \in LSession, Store(s) \/ Delete(s) PROVE TypeOK'
  <2>1. minions' \in [Brokers -> [Minions -> LSession \cup {NoConn}]]
    BY <1>3, MapSteps
  <2>2. lpc' \in [LSession -> LPC]
    BY <1>3 DEF Store, Delete, Goto, LPC
  <2>3. QED
    BY <1>3, <2>1, <2>2 DEF Store, Delete
<1>4. ASSUME NEW s \in LSession, Connect(s) \/ Disconnect(s) PROVE TypeOK'
  <2>1. /\ MarkOnline(row, s.minion, s.broker) \in [Minions -> Row]
        /\ MarkOffline(row, s.minion, s.broker) \in [Minions -> Row]
    BY TableType
  <2>2. row' \in [Minions -> Row] /\ faults' \in 0..MaxFaults
    BY <1>4, <2>1, ExecuteType DEF Connect, Disconnect
  <2>3. QED
    BY <1>4, <2>2 DEF Connect, Disconnect, Goto, LPC
<1>5. ASSUME NEW b \in Brokers, Start(b) \/ Stop(b) PROVE TypeOK'
  <2>1. row' \in [Minions -> Row] /\ faults' \in 0..MaxFaults
    BY <1>5, ResetType, ExecuteType DEF Start, Stop
  <2>2. QED
    BY <1>5, <2>1 DEF Start, Stop
<1>6. ASSUME NEW b \in Brokers, Exit(b) PROVE TypeOK'
  BY <1>6 DEF Exit, Forget, LPC
<1>7. ASSUME NEW m \in Minions, NEW st \in {"inactive", "offline", "delete"}, ManagerSet(m, st)
      PROVE  TypeOK'
  BY <1>7 DEF ManagerSet, Row, Status
<1>8. QED
  BY <1>0, <1>1, <1>2, <1>3, <1>4, <1>5, <1>6, <1>7 DEF Next, SessionNext

\* Type correctness of the legacy endpoint.
THEOREM TypeCorrect == Spec => []TypeOK
<1>1. Init => TypeOK
  BY DEF Init, HubInit, TypeOK, LPC, AbsentRow, Row, Status
<1>2. QED
  BY <1>1, TypeStep, PTL DEF Spec

\* A session that leaves deletes the entry of its minion, whosever it is, so that no entry
\* outlives its session.
LEMMA EntryStep == TypeOK /\ EntryLive /\ [Next]_vars => EntryLive'
<1> SUFFICES ASSUME TypeOK, EntryLive, [Next]_vars,
                    NEW b \in Brokers, NEW m \in Minions, minions'[b][m] # NoConn
             PROVE  /\ minions'[b][m].broker = b /\ minions'[b][m].minion = m
                    /\ lpc'[minions'[b][m]] \in Entered
  BY DEF EntryLive
<1> USE DEF TypeOK, Entered
<1>a. minions[b][m] # NoConn =>
         /\ minions[b][m] \in LSession
         /\ minions[b][m].broker = b /\ minions[b][m].minion = m
         /\ lpc[minions[b][m]] \in Entered
  BY DEF EntryLive
<1>0. CASE UNCHANGED vars
  BY <1>0, <1>a DEF vars
<1>1. ASSUME NEW s \in LSession,
             Authorize(s) \/ Abort(s) \/ AgentEnds(s) \/ ReceiveEnds(s) \/ Connect(s) \/ Disconnect(s)
      PROVE  minions' = minions /\ (\A t \in LSession : lpc[t] \in Entered => lpc'[t] \in Entered)
  BY <1>1 DEF Authorize, Abort, AgentEnds, ReceiveEnds, Connect, Disconnect, Goto
<1>2. ASSUME NEW s \in LSession, Store(s) \/ Delete(s)
      PROVE  /\ minions'[b][m].broker = b /\ minions'[b][m].minion = m
             /\ lpc'[minions'[b][m]] \in Entered
  <2>1. s.broker \in Brokers /\ s.minion \in Minions
    OBVIOUS
  <2>2. /\ Store(s) => minions'[b][m] = IF b = s.broker /\ m = s.minion THEN s ELSE minions[b][m]
        /\ Delete(s) => minions'[b][m] = IF b = s.broker /\ m = s.minion THEN NoConn ELSE minions[b][m]
    <3>1. minions \in [Brokers -> [Minions -> LSession \cup {NoConn}]]
      OBVIOUS
    <3>2. /\ [minions EXCEPT ![s.broker][s.minion] = s][b][m]
                = IF b = s.broker /\ m = s.minion THEN s ELSE minions[b][m]
          /\ [minions EXCEPT ![s.broker][s.minion] = NoConn][b][m]
                = IF b = s.broker /\ m = s.minion THEN NoConn ELSE minions[b][m]
      <4>1. s \in LSession \cup {NoConn} /\ NoConn \in LSession \cup {NoConn}
        OBVIOUS
      <4>2. b \in Brokers /\ m \in Minions
        OBVIOUS
      <4>3. QED
        BY ONLY <2>1, <3>1, <4>1, <4>2, MapType
    <3>3. QED
      BY <3>2, MapSteps
  <2>3. CASE Store(s)
    <3>1. lpc'[s] = "stored" /\ (\A t \in LSession : t # s => lpc'[t] = lpc[t])
      BY <2>3 DEF Store, Goto
    <3>2. QED
      BY <1>a, <2>2, <2>3, <3>1
  <2>4. CASE Delete(s)
    <3>1. \A t \in LSession : t # s => lpc'[t] = lpc[t]
      BY <2>4 DEF Delete, Goto
    <3>2. ~(b = s.broker /\ m = s.minion) /\ minions'[b][m] = minions[b][m]
      BY <2>2, <2>4
    <3>3. minions[b][m] # s
      BY <1>a, <3>2
    <3>4. QED
      BY <1>a, <3>1, <3>2, <3>3
  <2>5. QED
    BY <1>2, <2>3, <2>4
<1>3. ASSUME NEW c \in Brokers, Start(c) \/ Stop(c) PROVE UNCHANGED <<minions, lpc>>
  BY <1>3 DEF Start, Stop
<1>4. ASSUME NEW c \in Brokers, Exit(c)
      PROVE  b # c /\ minions'[b][m] = minions[b][m] /\ lpc'[minions[b][m]] = lpc[minions[b][m]]
  <2>1. b # c /\ minions'[b] = minions[b]
    BY <1>4 DEF Exit, Forget
  <2>2. QED
    BY <1>4, <1>a, <2>1 DEF Exit, Forget
<1>5. ASSUME NEW x \in Minions, NEW st \in {"inactive", "offline", "delete"}, ManagerSet(x, st)
      PROVE  UNCHANGED <<minions, lpc>>
  BY <1>5 DEF ManagerSet
<1>6. QED
  BY <1>0, <1>1, <1>2, <1>3, <1>4, <1>5, <1>a DEF Next, SessionNext

\* TokenLookup never finds the connection of a session that has left.
THEOREM EntryLiveProved == Spec => []EntryLive
<1>1. Init => EntryLive
  BY DEF Init, HubInit, EntryLive
<1>2. QED
  BY <1>1, TypeCorrect, EntryStep, PTL DEF Spec

\* The UPDATE of Disconnect takes any row of its minion offline that is online at its
\* broker, whichever session of that broker had set it.
LEMMA HeldStep == TypeOK /\ OnlineRowHeld /\ [Next]_vars => OnlineRowHeld'
<1> SUFFICES ASSUME TypeOK, OnlineRowHeld, [Next]_vars, faults' = 0,
                    NEW b \in Brokers, NEW m \in Minions,
                    node'[b] = "running", row'[m] = OnlineAt(b)
             PROVE  \E s \in LSession : s.broker = b /\ s.minion = m /\ lpc'[s] \in Holding
  BY DEF OnlineRowHeld
<1> USE DEF TypeOK, Holding
<1>a. ASSUME faults = 0, node[b] = "running", row[m] = OnlineAt(b)
      PROVE  \E s \in LSession : s.broker = b /\ s.minion = m /\ lpc[s] \in Holding
  BY <1>a DEF OnlineRowHeld
<1>b. \A after : Execute(after) => faults = 0 /\ row' = after
  BY DEF Execute
<1>0. CASE UNCHANGED vars
  BY <1>0, <1>a DEF vars
<1>1. ASSUME NEW s \in LSession,
             Abort(s) \/ Store(s) \/ AgentEnds(s) \/ ReceiveEnds(s) \/ Delete(s)
      PROVE  /\ UNCHANGED <<row, node, faults>>
             /\ \A t \in LSession : lpc[t] \in Holding => lpc'[t] \in Holding
  BY <1>1 DEF Abort, Store, AgentEnds, ReceiveEnds, Delete, Goto
<1>2. ASSUME NEW s \in LSession, Authorize(s)
      PROVE  /\ UNCHANGED <<node, faults>> /\ row'[m] = row[m]
             /\ \A t \in LSession : lpc[t] \in Holding => lpc'[t] \in Holding
  <2>1. row' = row \/ row' = [row EXCEPT ![s.minion] = [status |-> "offline", broker |-> s.broker]]
    BY <1>2 DEF Authorize
  <2>2. row'[m].status = "online"
    BY OnlineFacts
  <2>3. row'[m] = row[m]
    BY <2>1, <2>2
  <2>4. QED
    BY <1>2, <2>3 DEF Authorize, Goto
<1>3. ASSUME NEW s \in LSession, Connect(s)
      PROVE  \E t \in LSession : t.broker = b /\ t.minion = m /\ lpc'[t] \in Holding
  <2>1. s.broker \in Brokers /\ s.minion \in Minions /\ node' = node /\ faults = 0
    BY <1>3, <1>b DEF Connect
  <2>2. row' = MarkOnline(row, s.minion, s.broker)
    BY <1>3, <1>b DEF Connect
  <2>3. row'[m] = IF m = s.minion /\ row[m].status = "offline" THEN OnlineAt(s.broker) ELSE row[m]
    BY <2>1, <2>2 DEF MarkOnline
  <2>4. lpc'[s] = "reading" /\ (\A t \in LSession : lpc[t] \in Holding => lpc'[t] \in Holding)
    BY <1>3 DEF Connect, Goto
  <2>5. CASE m = s.minion /\ row[m].status = "offline"
    <3>1. OnlineAt(s.broker) = OnlineAt(b)
      BY <2>3, <2>5
    <3>2. s.broker = b
      BY <2>1, <3>1, OnlineFacts
    <3>3. QED
      BY <2>4, <2>5, <3>2
  <2>6. CASE ~(m = s.minion /\ row[m].status = "offline")
    BY <1>a, <2>1, <2>3, <2>4, <2>6
  <2>7. QED
    BY <2>5, <2>6
<1>4. ASSUME NEW s \in LSession, Disconnect(s)
      PROVE  \E t \in LSession : t.broker = b /\ t.minion = m /\ lpc'[t] \in Holding
  <2>1. s.broker \in Brokers /\ s.minion \in Minions /\ node' = node /\ faults = 0
    BY <1>4, <1>b DEF Disconnect
  <2>2. row' = MarkOffline(row, s.minion, s.broker)
    BY <1>4, <1>b DEF Disconnect
  <2>3. row'[m] = row[m] /\ ~(b = s.broker /\ m = s.minion)
    BY <2>1, <2>2 DEF MarkOffline, OnlineAt, Row
  <2>4. \A t \in LSession : t # s => lpc'[t] = lpc[t]
    BY <1>4 DEF Disconnect, Goto
  <2>5. QED
    BY <1>a, <2>1, <2>3, <2>4
<1>5. ASSUME NEW c \in Brokers, Start(c) \/ Stop(c)
      PROVE  b # c /\ row'[m] = row[m] /\ node'[b] = node[b] /\ faults = 0 /\ lpc' = lpc
  <2>1. row' = MarkAllOffline(row, c) /\ faults = 0 /\ lpc' = lpc
    BY <1>5, <1>b DEF Start, Stop
  <2>2. row'[m] = row[m] /\ b # c
    BY <2>1 DEF MarkAllOffline, OnlineAt, Row
  <2>3. QED
    BY <1>5, <2>1, <2>2 DEF Start, Stop
<1>6. ASSUME NEW c \in Brokers, Exit(c)
      PROVE  /\ node'[b] = node[b] /\ UNCHANGED <<row, faults>>
             /\ \A t \in LSession : t.broker = b => lpc'[t] = lpc[t]
  BY <1>6 DEF Exit, Forget
<1>7. ASSUME NEW x \in Minions, NEW st \in {"inactive", "offline", "delete"}, ManagerSet(x, st)
      PROVE  row'[m] = row[m] /\ UNCHANGED <<node, faults, lpc>>
  BY <1>7, OnlineFacts DEF ManagerSet, Row
<1>8. QED
  BY <1>0, <1>1, <1>2, <1>3, <1>4, <1>5, <1>6, <1>7, <1>a DEF Next, SessionNext

\* Without database errors no legacy row is left online at a running broker without a
\* session there.
THEOREM OnlineRowHeldProved == Spec => []OnlineRowHeld
<1>1. Init => OnlineRowHeld
  BY DEF Init, OnlineRowHeld
<1>2. QED
  BY <1>1, TypeCorrect, HeldStep, PTL DEF Spec
=============================================================================
