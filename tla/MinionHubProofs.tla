-------------------------- MODULE MinionHubProofs --------------------------
(***************************************************************************)
(* Proofs about MinionHub, alone and beside the legacy endpoint in         *)
(* BrokerGateways, for any brokers, minions, sessions and number of        *)
(* database faults.                                                        *)
(***************************************************************************)
EXTENDS BrokerGateways, TLAPS

(* The statements on the minion table. *)

\* The guarded UPDATEs keep the table well-typed.
LEMMA TableType ==
    ASSUME NEW r \in [Minions -> Row], NEW m \in Minions, NEW b \in Brokers
    PROVE  /\ MarkOnline(r, m, b) \in [Minions -> Row]
           /\ MarkOffline(r, m, b) \in [Minions -> Row]
  BY DEF MarkOnline, MarkOffline, OnlineAt, Row, Status

\* ResetDB's UPDATE over a broker's rows keeps the table well-typed.
LEMMA ResetType ==
    ASSUME NEW r \in [Minions -> Row], NEW b \in Brokers
    PROVE  MarkAllOffline(r, b) \in [Minions -> Row]
  BY DEF MarkAllOffline, OnlineAt, Row, Status

\* Two rows online at different brokers differ, and an online row is not offline.
LEMMA OnlineFacts ==
    ASSUME NEW a \in Brokers, NEW b \in Brokers
    PROVE  /\ OnlineAt(a) = OnlineAt(b) => a = b
           /\ OnlineAt(a).status = "online"
  BY DEF OnlineAt
-----------------------------------------------------------------------------

USE NoBrokerAssumption, HubAssumption

\* Setting one entry of the hub's map to a session, or clearing it, keeps its type.
LEMMA SectionType ==
    ASSUME NEW f \in [Brokers -> [Minions -> Session \cup {NoSession}]],
           NEW b \in Brokers, NEW m \in Minions, NEW e \in Session \cup {NoSession}
    PROVE  [f EXCEPT ![b][m] = e] \in [Brokers -> [Minions -> Session \cup {NoSession}]]
  OBVIOUS

\* A step of the broker changes no type: section entries are sessions, pcs are pcs, and
\* the database calls that fail are counted up to the bound.
LEMMA TypeStep == TypeOK /\ [Next]_vars => TypeOK'
<1> SUFFICES ASSUME TypeOK, [Next]_vars PROVE TypeOK'
  OBVIOUS
<1> USE DEF TypeOK
<1>0. CASE UNCHANGED vars
  BY <1>0 DEF vars
<1>1. ASSUME NEW s \in Session, Auth(s) PROVE TypeOK'
  BY <1>1 DEF Auth, LookupOrCreate, Goto, PC, NewRow, Row, Status
<1>2. ASSUME NEW s \in Session, Abort(s) \/ Connected(s) \/ Disconnected(s) PROVE TypeOK'
  BY <1>2 DEF Abort, Connected, Disconnected, Goto, PC
<1>3. ASSUME NEW s \in Session, Put(s) PROVE TypeOK'
  <2>1. section' \in [Brokers -> [Minions -> Session \cup {NoSession}]]
    <3>1. s.broker \in Brokers /\ s.minion \in Minions
      OBVIOUS
    <3>2. section' = section \/ section' = [section EXCEPT ![s.broker][s.minion] = s]
      BY <1>3 DEF Put
    <3>3. s \in Session \cup {NoSession}
      OBVIOUS
    <3>4. [section EXCEPT ![s.broker][s.minion] = s]
            \in [Brokers -> [Minions -> Session \cup {NoSession}]]
      BY ONLY <3>1, <3>3, SectionType, TypeOK DEF TypeOK
    <3>5. QED
      BY <3>2, <3>4
  <2>2. pc' \in [Session -> PC] /\ mux' \in [Session -> {"open", "closed"}]
    BY <1>3 DEF Put, Goto, PC
  <2>3. UNCHANGED <<node, row, tags, closing, kicked, faults>>
    BY <1>3 DEF Put
  <2>4. QED
    BY <2>1, <2>2, <2>3
<1>4. ASSUME NEW s \in Session, ClaimRow(s) PROVE TypeOK'
  BY <1>4, TableType DEF ClaimRow, Goto, PC
<1>5. ASSUME NEW s \in Session, ClaimRowFault(s) PROVE TypeOK'
  BY <1>5, TableType DEF ClaimRowFault, Fault, Goto, PC
<1>6. ASSUME NEW s \in Session, ResetTags(s) PROVE TypeOK'
  BY <1>6 DEF ResetTags, Fault, Goto, PC
<1>7. ASSUME NEW s \in Session, MuxBroken(s) \/ KnockoutClose(s) PROVE TypeOK'
  BY <1>7 DEF MuxBroken, KnockoutClose
<1>8. ASSUME NEW s \in Session, ReleaseRow(s) PROVE TypeOK'
  <2>1. row' \in [Minions -> Row] /\ faults' \in 0..MaxFaults
    BY <1>8, TableType DEF ReleaseRow, Fault
  <2>2. QED
    BY <1>8, <2>1 DEF ReleaseRow, Goto, PC
<1>9. ASSUME NEW s \in Session, Leave(s) PROVE TypeOK'
  <2>1. s.broker \in Brokers /\ s.minion \in Minions
    OBVIOUS
  <2>2. section' \in [Brokers -> [Minions -> Session \cup {NoSession}]]
    BY <1>9, <2>1, SectionType DEF Leave
  <2>3. QED
    BY <1>9, <2>2 DEF Leave, Goto, PC
<1>10. ASSUME NEW b \in Brokers, NEW m \in Minions, KnockoutDel(b, m) PROVE TypeOK'
  BY <1>10 DEF KnockoutDel
<1>11. ASSUME NEW b \in Brokers, Start(b) \/ Stop(b) PROVE TypeOK'
  <2>1. ResetDB(b) => row' \in [Minions -> Row] /\ faults' \in 0..MaxFaults
    BY ResetType DEF ResetDB, Fault
  <2>2. node' \in [Brokers -> {"down", "running", "stopping"}]
    BY <1>11 DEF Start, Stop
  <2>3. QED
    BY <1>11, <2>1, <2>2 DEF Start, Stop
<1>12. ASSUME NEW b \in Brokers, Exit(b) PROVE TypeOK'
  BY <1>12 DEF Exit, PC
<1>13. ASSUME NEW m \in Minions, NEW st \in {"inactive", "offline", "delete"},
              ManagerSet(m, st)
       PROVE  TypeOK'
  BY <1>13 DEF ManagerSet, Row, Status
<1>14. QED
  BY <1>0, <1>1, <1>2, <1>3, <1>4, <1>5, <1>6, <1>7, <1>8, <1>9, <1>10, <1>11, <1>12,
     <1>13 DEF Next, HubNext

\* Type correctness of the hub.
THEOREM TypeCorrect == Spec => []TypeOK
<1>1. Init => TypeOK
  BY DEF Init, TypeOK, PC, AbsentRow, Row, Status
<1>2. QED
  BY <1>1, TypeStep, PTL DEF Spec
-----------------------------------------------------------------------------
(* The lease: one session per minion, and the row names its broker. *)

\* The lease of the sessions in A: whoever holds a minion is named by its row, and is alone
\* at its broker.
LeaseOn(A) ==
    \A s \in A : Holds(s) =>
        /\ row[s.minion] = OnlineAt(s.broker)
        /\ \A t \in Session :
              Holds(t) /\ t.minion = s.minion /\ t.broker = s.broker => t = s

\* Every step of every process keeps the lease, of all sessions or of all those from some
\* minions to some brokers.
LEMMA LeaseOnStep ==
    ASSUME NEW A \in SUBSET Session,
           \A s \in A, t \in Session : t.broker = s.broker /\ t.minion = s.minion => t \in A,
           TypeOK, DownQuiet, LeaseOn(A), [Next]_vars
    PROVE  DownQuiet' /\ LeaseOn(A)'
<1>r. ASSUME \A x \in Session : Holds(x)' => Holds(x),
             \A x \in A : Holds(x)' => row'[x.minion] = row[x.minion]
      PROVE  LeaseOn(A)'
  BY <1>r DEF LeaseOn
<1>f. \A x \in A : Holds(x) => row[x.minion].status = "online"
  BY OnlineFacts DEF LeaseOn
<1>0. CASE UNCHANGED vars
  BY <1>0 DEF vars, DownQuiet, LeaseOn, Holds
<1>1. ASSUME NEW s \in Session, Auth(s) PROVE DownQuiet' /\ LeaseOn(A)'
  <2>1. \A x \in Session : Holds(x)' => Holds(x)
    BY <1>1 DEF Auth, LookupOrCreate, Goto, Holds, Holding, TypeOK
  <2>2. \A x \in A : Holds(x) => row'[x.minion] = row[x.minion]
    BY <1>1, <1>f DEF Auth, LookupOrCreate, TypeOK
  <2>3. DownQuiet'
    BY <1>1 DEF Auth, LookupOrCreate, Goto, DownQuiet, TypeOK
  <2>4. QED
    BY <1>r, <2>1, <2>2, <2>3
<1>2. ASSUME NEW s \in Session,
             Abort(s) \/ Put(s) \/ ResetTags(s) \/ Connected(s) \/ MuxBroken(s)
               \/ Disconnected(s) \/ Leave(s) \/ KnockoutClose(s)
      PROVE  DownQuiet' /\ LeaseOn(A)'
  <2>1. \A x \in Session : Holds(x)' => Holds(x)
    BY <1>2 DEF Abort, Put, ResetTags, Connected, MuxBroken, Disconnected, Leave,
                KnockoutClose, Goto, Holds, Holding, TypeOK
  <2>2. UNCHANGED row
    BY <1>2 DEF Abort, Put, ResetTags, Connected, MuxBroken, Disconnected, Leave,
                KnockoutClose
  <2>3. DownQuiet'
    BY <1>2 DEF Abort, Put, ResetTags, Connected, MuxBroken, Disconnected, Leave,
                KnockoutClose, Goto, DownQuiet, TypeOK
  <2>4. QED
    BY <1>r, <2>1, <2>2, <2>3
<1>3. ASSUME NEW s \in Session, ClaimRow(s) PROVE DownQuiet' /\ LeaseOn(A)'
  <2>0. s.broker \in Brokers /\ s.minion \in Minions
    OBVIOUS
  <2>1. DownQuiet'
    BY <1>3 DEF ClaimRow, Goto, DownQuiet, TypeOK
  <2>2. \A x \in Session : x # s => (Holds(x)' <=> Holds(x))
    BY <1>3 DEF ClaimRow, Goto, Holds, TypeOK
  <2>3. CASE row[s.minion].status = "offline"
    <3>1. \A x \in A : Holds(x) => x.minion # s.minion
      BY <1>f, <2>3
    <3>2. row' = [row EXCEPT ![s.minion] = OnlineAt(s.broker)]
      BY <1>3, <2>3 DEF ClaimRow, MarkOnline
    <3>3. row'[s.minion] = OnlineAt(s.broker)
          /\ \A x \in A : Holds(x) => row'[x.minion] = row[x.minion]
      BY <2>0, <3>1, <3>2 DEF TypeOK
    <3>4. ASSUME NEW x \in A, Holds(x)'
          PROVE  /\ row'[x.minion] = OnlineAt(x.broker)
                 /\ \A t \in Session :
                       Holds(t)' /\ t.minion = x.minion /\ t.broker = x.broker => t = x
      <4>1. CASE x = s
        BY <2>2, <3>1, <3>3, <4>1
      <4>2. CASE x # s
        BY <2>2, <3>1, <3>3, <3>4, <4>2 DEF LeaseOn
      <4>3. QED
        BY <4>1, <4>2
    <3>5. QED
      BY <2>1, <3>4 DEF LeaseOn
  <2>4. CASE row[s.minion].status # "offline"
    <3>1. UNCHANGED row /\ ~Holds(s)'
      BY <1>3, <2>4 DEF ClaimRow, MarkOnline, Goto, Holds, Holding, TypeOK
    <3>2. QED
      BY <1>r, <2>1, <2>2, <3>1
  <2>5. QED
    BY <2>3, <2>4
<1>4. ASSUME NEW s \in Session, ClaimRowFault(s) PROVE DownQuiet' /\ LeaseOn(A)'
  <2>1. \A x \in Session : Holds(x)' => Holds(x)
    BY <1>4 DEF ClaimRowFault, Goto, Holds, Holding, TypeOK
  <2>2. \A x \in A : Holds(x) => row'[x.minion] = row[x.minion]
    <3>1. row' = row \/ row' = MarkOnline(row, s.minion, s.broker)
      BY <1>4 DEF ClaimRowFault
    <3>2. QED
      BY <1>f, <3>1 DEF MarkOnline, TypeOK
  <2>3. DownQuiet'
    BY <1>4 DEF ClaimRowFault, Goto, DownQuiet, TypeOK
  <2>4. QED
    BY <1>r, <2>1, <2>2, <2>3
<1>5. ASSUME NEW s \in Session, ReleaseRow(s) PROVE DownQuiet' /\ LeaseOn(A)'
  <2>0. s.broker \in Brokers /\ s.minion \in Minions
    OBVIOUS
  <2>1. \A x \in Session : Holds(x)' => Holds(x) /\ x # s
    BY <1>5 DEF ReleaseRow, Goto, Holds, Holding, TypeOK
  <2>2. \A x \in A : Holds(x) /\ x # s => row'[x.minion] = row[x.minion]
    <3> SUFFICES ASSUME NEW x \in A, Holds(x), x # s PROVE row'[x.minion] = row[x.minion]
      OBVIOUS
    <3>1. row' = row \/ row' = MarkOffline(row, s.minion, s.broker)
      BY <1>5 DEF ReleaseRow
    <3>2. x.minion = s.minion /\ x.broker = s.broker => ~Holds(s)
      BY DEF LeaseOn
    <3>3. x.broker = s.broker => Holds(s)
      BY <1>5 DEF ReleaseRow, Goto, Holds, Holding
    <3>4. row[x.minion] = OnlineAt(x.broker)
      BY DEF LeaseOn
    <3>5. QED
      BY <2>0, <3>1, <3>2, <3>3, <3>4, OnlineFacts DEF MarkOffline, TypeOK
  <2>3. DownQuiet'
    BY <1>5 DEF ReleaseRow, Goto, DownQuiet, TypeOK
  <2>4. QED
    BY <1>r, <2>1, <2>2, <2>3
<1>6. ASSUME NEW b \in Brokers, NEW m \in Minions, KnockoutDel(b, m)
      PROVE  DownQuiet' /\ LeaseOn(A)'
  BY <1>6 DEF KnockoutDel, DownQuiet, LeaseOn, Holds
<1>7. ASSUME NEW b \in Brokers, Start(b) \/ Stop(b) PROVE DownQuiet' /\ LeaseOn(A)'
  <2>1. \A x \in Session : Holds(x)' => Holds(x) /\ x.broker # b
    BY <1>7 DEF Start, Stop, Holds, Holding, DownQuiet, TypeOK
  <2>2. \A x \in A : Holds(x) /\ x.broker # b => row'[x.minion] = row[x.minion]
    <3>1. row' = row \/ row' = MarkAllOffline(row, b)
      BY <1>7 DEF Start, Stop, ResetDB
    <3>2. QED
      BY <3>1, OnlineFacts DEF LeaseOn, MarkAllOffline, TypeOK
  <2>3. DownQuiet'
    BY <1>7 DEF Start, Stop, DownQuiet, TypeOK
  <2>4. QED
    BY <1>r, <2>1, <2>2, <2>3
<1>8. ASSUME NEW b \in Brokers, Exit(b) PROVE DownQuiet' /\ LeaseOn(A)'
  <2>1. \A x \in Session : Holds(x)' => Holds(x)
    BY <1>8 DEF Exit, Holds, Holding, TypeOK
  <2>2. DownQuiet' /\ UNCHANGED row
    BY <1>8 DEF Exit, DownQuiet, TypeOK
  <2>3. QED
    BY <1>r, <2>1, <2>2
<1>9. ASSUME NEW m \in Minions, NEW st \in {"inactive", "offline", "delete"},
             ManagerSet(m, st)
      PROVE  DownQuiet' /\ LeaseOn(A)'
  <2>1. \A x \in A : Holds(x) => x.minion # m
    BY <1>9, <1>f DEF ManagerSet
  <2>2. \A x \in A : Holds(x) => row'[x.minion] = row[x.minion]
    BY <1>9, <2>1 DEF ManagerSet, TypeOK
  <2>3. DownQuiet' /\ \A x \in Session : Holds(x)' <=> Holds(x)
    BY <1>9 DEF ManagerSet, DownQuiet, Holds
  <2>4. QED
    BY <1>r, <2>2, <2>3
<1>10. QED
  BY <1>0, <1>1, <1>2, <1>3, <1>4, <1>5, <1>6, <1>7, <1>8, <1>9 DEF Next, HubNext

\* The lease of all sessions is what LeaseInv says: two holders of a minion at different
\* brokers would need two rows.
LEMMA LeaseOfAll == ExclusiveSession /\ HolderRow <=> LeaseOn(Session)
<1>1. ASSUME LeaseOn(Session) PROVE ExclusiveSession /\ HolderRow
  <2>1. HolderRow
    BY <1>1 DEF LeaseOn, HolderRow
  <2>2. \A s, t \in Session : Holds(s) /\ Holds(t) /\ s.minion = t.minion => s.broker = t.broker
    BY <2>1, OnlineFacts DEF HolderRow
  <2>3. QED
    BY <1>1, <2>1, <2>2 DEF LeaseOn, ExclusiveSession
<1>2. QED
  BY <1>1 DEF LeaseOn, ExclusiveSession, HolderRow

\* The same in the next state.
LEMMA LeaseOfAllNext == (ExclusiveSession /\ HolderRow)' <=> LeaseOn(Session)'
  BY LeaseOfAll, PTL

\* The lease of all sessions is inductive.
LEMMA LeaseStep == LeaseInv /\ [Next]_vars => LeaseInv'
<1> SUFFICES ASSUME LeaseInv, [Next]_vars PROVE LeaseInv'
  OBVIOUS
<1>1. DownQuiet' /\ LeaseOn(Session)'
  BY LeaseOnStep, LeaseOfAll DEF LeaseInv
<1>2. QED
  BY <1>1, TypeStep, LeaseOfAllNext DEF LeaseInv

\* The lease holds when no broker has started yet.
LEMMA LeaseInit == Init => LeaseInv
<1>1. Init => TypeOK
  BY DEF Init, TypeOK, PC, AbsentRow, Row, Status
<1>2. Init => \A s \in Session : ~Holds(s)
  BY DEF Init, Holds, Holding
<1>3. QED
  BY <1>1, <1>2 DEF Init, LeaseInv, DownQuiet, ExclusiveSession, HolderRow

\* The inductive invariant LeaseInv holds in every reachable state.
LEMMA LeaseInvariant == Spec => []LeaseInv
  BY LeaseInit, LeaseStep, PTL DEF Spec

\* However many brokers and sessions there are and whichever database calls fail, a
\* minion is held by at most one session of a running broker (minionHub.Join).
THEOREM AtMostOneSession == Spec => []ExclusiveSession
<1>1. LeaseInv => ExclusiveSession
  BY DEF LeaseInv
<1>2. QED
  BY <1>1, LeaseInvariant, PTL

\* The row of a held minion is online at the broker of the session that holds it, so
\* only that broker's UPDATEs can release it.
THEOREM RowNamesHolder == Spec => []HolderRow
<1>1. LeaseInv => HolderRow
  BY DEF LeaseInv
<1>2. QED
  BY <1>1, LeaseInvariant, PTL
-----------------------------------------------------------------------------
(* The hub's map. *)

\* No step leaves an entry of a session that is not in Join.
LEMMA EntryStep == TypeOK /\ HubEntryLive /\ [Next]_vars => HubEntryLive'
<1> SUFFICES ASSUME TypeOK, HubEntryLive, [Next]_vars,
                    NEW b \in Brokers, NEW m \in Minions, section'[b][m] # NoSession
             PROVE  LET e == section'[b][m] IN
                    e.broker = b /\ e.minion = m /\ pc'[e] \in Entered
  BY DEF HubEntryLive
<1> DEFINE e == section'[b][m]
<1>1. e \in Session
  BY TypeStep DEF TypeOK
<1>2. ASSUME section[b][m] = e, pc'[e] \in Entered \/ pc'[e] = pc[e]
      PROVE  e.broker = b /\ e.minion = m /\ pc'[e] \in Entered
  BY <1>2 DEF HubEntryLive
<1>3. ASSUME UNCHANGED section, UNCHANGED pc
      PROVE  e.broker = b /\ e.minion = m /\ pc'[e] \in Entered
  BY <1>2, <1>3
<1>4. ASSUME NEW s \in Session, UNCHANGED section, pc[s] \notin Entered \/ pc'[s] \in Entered,
             \A x \in Session : x # s => pc'[x] = pc[x]
      PROVE  e.broker = b /\ e.minion = m /\ pc'[e] \in Entered
  BY <1>1, <1>4 DEF HubEntryLive
<1>5. ASSUME NEW s \in Session, Put(s) \/ Leave(s)
      PROVE  e.broker = b /\ e.minion = m /\ pc'[e] \in Entered
  <2>0. s.broker \in Brokers /\ s.minion \in Minions
    OBVIOUS
  <2>1. CASE Put(s) /\ section[s.broker][s.minion] = NoSession
    <3>1. section' = [section EXCEPT ![s.broker][s.minion] = s]
      BY <2>1 DEF Put
    <3>2. pc' = [pc EXCEPT ![s] = "put"]
      BY <2>1 DEF Put, Goto
    <3>3. CASE e = s
      <4>1. section[b][m] # s
        BY <2>1 DEF Put, Goto, HubEntryLive, Entered, Holding
      <4>2. b = s.broker /\ m = s.minion
        BY <2>0, <3>1, <3>3, <4>1 DEF TypeOK
      <4>3. QED
        BY <3>2, <3>3, <4>2 DEF TypeOK, Entered
    <3>4. CASE e # s
      <4>1. e = section[b][m]
        BY <2>0, <3>1, <3>4 DEF TypeOK
      <4>2. QED
        BY <1>1, <1>2, <3>2, <3>4, <4>1 DEF TypeOK
    <3>5. QED
      BY <3>3, <3>4
  <2>2. CASE Put(s) /\ section[s.broker][s.minion] # NoSession
    BY <1>4, <2>2 DEF Put, Goto, TypeOK, Entered, Holding
  <2>3. CASE Leave(s)
    <3>1. section' = [section EXCEPT ![s.broker][s.minion] = NoSession]
      BY <2>3 DEF Leave
    <3>2. e = section[b][m] /\ ~(b = s.broker /\ m = s.minion)
      BY <2>0, <3>1 DEF TypeOK
    <3>3. e # s
      BY <3>2 DEF HubEntryLive
    <3>4. pc'[e] = pc[e]
      BY <1>1, <2>3, <3>3 DEF Leave, Goto, TypeOK
    <3>5. QED
      BY <1>2, <3>2, <3>4
  <2>4. QED
    BY <1>5, <2>1, <2>2, <2>3
<1>6. ASSUME NEW s \in Session,
             Auth(s) \/ Abort(s) \/ ClaimRow(s) \/ ClaimRowFault(s) \/ ResetTags(s)
               \/ Connected(s) \/ Disconnected(s) \/ ReleaseRow(s)
      PROVE  e.broker = b /\ e.minion = m /\ pc'[e] \in Entered
  <2>1. UNCHANGED section
    BY <1>6 DEF Auth, LookupOrCreate, Abort, ClaimRow, ClaimRowFault, ResetTags, Connected, Disconnected,
                ReleaseRow
  <2>2. \A x \in Session : x # s => pc'[x] = pc[x]
    BY <1>6 DEF Auth, LookupOrCreate, Abort, ClaimRow, ClaimRowFault, ResetTags, Connected, Disconnected,
                ReleaseRow, Goto, TypeOK
  <2>3. pc[s] \notin Entered \/ pc'[s] \in Entered
    BY <1>6 DEF Auth, LookupOrCreate, Abort, ClaimRow, ClaimRowFault, ResetTags, Connected, Disconnected,
                ReleaseRow, Goto, TypeOK, Entered, Holding
  <2>4. QED
    BY <1>4, <2>1, <2>2, <2>3
<1>7. ASSUME NEW s \in Session, MuxBroken(s) \/ KnockoutClose(s)
      PROVE  e.broker = b /\ e.minion = m /\ pc'[e] \in Entered
  BY <1>3, <1>7 DEF MuxBroken, KnockoutClose
<1>8. ASSUME NEW c \in Brokers, NEW n \in Minions, KnockoutDel(c, n)
      PROVE  e.broker = b /\ e.minion = m /\ pc'[e] \in Entered
  BY <1>2, <1>8 DEF KnockoutDel, TypeOK
<1>9. ASSUME NEW c \in Brokers, Start(c) \/ Stop(c)
      PROVE  e.broker = b /\ e.minion = m /\ pc'[e] \in Entered
  BY <1>3, <1>9 DEF Start, Stop
<1>10. ASSUME NEW c \in Brokers, Exit(c)
       PROVE  e.broker = b /\ e.minion = m /\ pc'[e] \in Entered
  <2>1. b # c /\ e = section[b][m]
    BY <1>10 DEF Exit, TypeOK
  <2>2. e.broker = b
    BY <2>1 DEF HubEntryLive
  <2>3. pc'[e] = pc[e]
    BY <1>1, <1>10, <2>1, <2>2 DEF Exit
  <2>4. QED
    BY <1>2, <2>1, <2>3
<1>11. ASSUME NEW n \in Minions, NEW st \in {"inactive", "offline", "delete"},
              ManagerSet(n, st)
       PROVE  e.broker = b /\ e.minion = m /\ pc'[e] \in Entered
  BY <1>3, <1>11 DEF ManagerSet
<1>12. CASE UNCHANGED vars
  BY <1>3, <1>12 DEF vars
<1>13. QED
  BY <1>5, <1>6, <1>7, <1>8, <1>9, <1>10, <1>11, <1>12 DEF Next, HubNext

\* No entry of the hub's map outlives the Join that put it there, whatever fails and
\* whenever Knockout and the deferred Del run.
THEOREM NoDeadEntry == Spec => []HubEntryLive
<1>1. Init => HubEntryLive
  BY DEF Init, HubEntryLive
<1>2. QED
  BY <1>1, EntryStep, TypeCorrect, PTL DEF Spec

\* Only Knockout takes an entry away from a session that is still in Join.
LEMMA OwnedStep == TypeOK /\ DownQuiet /\ EntryOwned /\ [Next]_vars => EntryOwned'
<1> SUFFICES ASSUME TypeOK, DownQuiet, EntryOwned, [Next]_vars,
                    NEW x \in Session, pc'[x] \in Entered,
                    <<x.broker, x.minion>> \notin kicked'
             PROVE  section'[x.broker][x.minion] = x
  BY DEF EntryOwned
<1>0. x.broker \in Brokers /\ x.minion \in Minions
  OBVIOUS
<1>1. ASSUME pc[x] \in Entered, <<x.broker, x.minion>> \notin kicked
      PROVE  section[x.broker][x.minion] = x
  BY <1>1 DEF EntryOwned
<1>2. ASSUME NEW s \in Session, Put(s) PROVE section'[x.broker][x.minion] = x
  <2>0. s.broker \in Brokers /\ s.minion \in Minions
    OBVIOUS
  <2>1. CASE x = s
    <3>1. pc' # [pc EXCEPT ![s] = "idle"]
      BY <2>1 DEF TypeOK, Entered, Holding
    <3>2. section' = [section EXCEPT ![s.broker][s.minion] = s]
      BY <1>2, <3>1 DEF Put, Goto
    <3>3. QED
      BY <1>0, <2>1, <3>2 DEF TypeOK
  <2>2. CASE x # s
    <3>1. pc'[x] = pc[x] /\ UNCHANGED kicked
      BY <1>2, <2>2 DEF Put, Goto, TypeOK
    <3>2. section[x.broker][x.minion] = x
      BY <1>1, <3>1
    <3>3. CASE UNCHANGED section
      BY <3>2, <3>3
    <3>4. CASE /\ section[s.broker][s.minion] = NoSession
               /\ section' = [section EXCEPT ![s.broker][s.minion] = s]
      BY <1>0, <2>0, <3>2, <3>4 DEF TypeOK
    <3>5. QED
      BY <1>2, <3>3, <3>4 DEF Put
  <2>3. QED
    BY <2>1, <2>2
<1>3. ASSUME NEW s \in Session, Leave(s) PROVE section'[x.broker][x.minion] = x
  <2>0. s.broker \in Brokers /\ s.minion \in Minions
    OBVIOUS
  <2>1. x # s /\ pc'[x] = pc[x] /\ UNCHANGED kicked
    BY <1>3 DEF Leave, Goto, TypeOK, Entered, Holding
  <2>2. section[x.broker][x.minion] = x
    BY <1>1, <2>1
  <2>3. ~(x.broker = s.broker /\ x.minion = s.minion)
    <3>1. pc[s] \in Entered
      BY <1>3 DEF Leave, Goto, Entered
    <3>2. QED
      BY <2>1, <2>2, <3>1 DEF EntryOwned
  <2>4. section' = [section EXCEPT ![s.broker][s.minion] = NoSession]
    BY <1>3 DEF Leave
  <2>5. QED
    BY <1>0, <2>0, <2>2, <2>3, <2>4 DEF TypeOK
<1>4. ASSUME NEW s \in Session,
             Auth(s) \/ Abort(s) \/ ClaimRow(s) \/ ClaimRowFault(s) \/ ResetTags(s)
               \/ Connected(s) \/ Disconnected(s) \/ ReleaseRow(s)
      PROVE  section'[x.broker][x.minion] = x
  <2>1. UNCHANGED <<section, kicked>>
    BY <1>4 DEF Auth, LookupOrCreate, Abort, ClaimRow, ClaimRowFault, ResetTags, Connected, Disconnected,
                ReleaseRow
  <2>2. pc[x] \in Entered
    BY <1>4 DEF Auth, LookupOrCreate, Abort, ClaimRow, ClaimRowFault, ResetTags, Connected, Disconnected,
                ReleaseRow, Goto, TypeOK, Entered, Holding
  <2>3. QED
    BY <1>1, <2>1, <2>2
<1>5. ASSUME NEW s \in Session, MuxBroken(s) \/ KnockoutClose(s)
      PROVE  section'[x.broker][x.minion] = x
  BY <1>1, <1>5 DEF MuxBroken, KnockoutClose
<1>6. ASSUME NEW c \in Brokers, NEW n \in Minions, KnockoutDel(c, n)
      PROVE  section'[x.broker][x.minion] = x
  <2>1. <<x.broker, x.minion>> \notin kicked /\ ~(x.broker = c /\ x.minion = n)
    BY <1>6 DEF KnockoutDel
  <2>2. section[x.broker][x.minion] = x
    BY <1>1, <1>6, <2>1 DEF KnockoutDel
  <2>3. section' = [section EXCEPT ![c][n] = NoSession]
    BY <1>6 DEF KnockoutDel
  <2>4. QED
    BY <1>0, <1>6, <2>1, <2>2, <2>3 DEF TypeOK
<1>7. ASSUME NEW c \in Brokers, Start(c) \/ Stop(c)
      PROVE  section'[x.broker][x.minion] = x
  BY <1>1, <1>7 DEF Start, Stop
<1>8. ASSUME NEW c \in Brokers, Exit(c) PROVE section'[x.broker][x.minion] = x
  <2>1. x.broker # c /\ pc'[x] = pc[x]
    BY <1>8 DEF Exit, Entered, Holding
  <2>2. <<x.broker, x.minion>> \notin kicked
    <3>1. kicked' = {p \in kicked : p[1] # c}
      BY <1>8 DEF Exit
    <3>2. <<x.broker, x.minion>>[1] # c
      BY <2>1
    <3>3. QED
      BY <3>1, <3>2
  <2>3. section[x.broker][x.minion] = x
    BY <1>1, <2>1, <2>2
  <2>4. section' = [section EXCEPT ![c] = [m \in Minions |-> NoSession]]
    BY <1>8 DEF Exit
  <2>5. QED
    BY <1>0, <2>1, <2>3, <2>4 DEF TypeOK
<1>9. ASSUME NEW n \in Minions, NEW st \in {"inactive", "offline", "delete"},
             ManagerSet(n, st)
      PROVE  section'[x.broker][x.minion] = x
  BY <1>1, <1>9 DEF ManagerSet
<1>10. CASE UNCHANGED vars
  BY <1>1, <1>10 DEF vars
<1>11. QED
  BY <1>2, <1>3, <1>4, <1>5, <1>6, <1>7, <1>8, <1>9, <1>10 DEF Next, HubNext

\* A minion that Knockout has not touched is reachable through the hub as long as its
\* session holds it: Put, Del by key and the claim of the row never cross.
THEOREM ReachableProved == Spec => []ReachableUnlessKicked
<1>1. Init => EntryOwned
  BY DEF Init, EntryOwned, Entered, Holding
<1>2. LeaseInv => TypeOK /\ DownQuiet
  BY DEF LeaseInv
<1>3. EntryOwned => ReachableUnlessKicked
  BY DEF EntryOwned, ReachableUnlessKicked, Holds, Entered
<1>4. QED
  BY <1>1, <1>2, <1>3, OwnedStep, LeaseInvariant, PTL DEF Spec
-----------------------------------------------------------------------------
(* Rows that are online are held; the deleted stay out. *)

\* While no database call fails, a row is online at a running broker because a session has
\* just claimed it, or has been so, and whoever held it still does.
LEMMA RowStaysHeld ==
    ASSUME TypeOK, [Next]_vars, faults' = 0,
           NEW b \in Brokers, NEW m \in Minions, node'[b] = "running", row'[m] = OnlineAt(b)
    PROVE  /\ faults = 0
           /\ \/ \E x \in Session : Holds(x)' /\ x.broker = b /\ x.minion = m
              \/ /\ node[b] = "running" /\ row[m] = OnlineAt(b)
                 /\ \A x \in Session : Holds(x) /\ x.broker = b /\ x.minion = m => Holds(x)'
<1> DEFINE Claimed == \E x \in Session : Holds(x)' /\ x.broker = b /\ x.minion = m
           Kept == /\ node[b] = "running" /\ row[m] = OnlineAt(b)
                   /\ \A x \in Session : Holds(x) /\ x.broker = b /\ x.minion = m => Holds(x)'
<1>0. faults = 0
  <2>1. faults' = faults \/ faults' = faults + 1
    BY DEF Next, HubNext, vars, Auth, LookupOrCreate, Abort, Put, ClaimRow, ClaimRowFault, ResetTags, Connected,
           MuxBroken, Disconnected, ReleaseRow, Leave, KnockoutDel, KnockoutClose, Start,
           Stop, ResetDB, Exit, ManagerSet, Fault
  <2>2. faults \in Nat
    BY DEF TypeOK
  <2>3. QED
    BY <2>1, <2>2
<1>3. ASSUME NEW s \in Session, Auth(s) PROVE Kept
  BY <1>3 DEF Auth, LookupOrCreate, NewRow, OnlineAt, Goto, Holds, Holding, TypeOK
<1>4. ASSUME NEW s \in Session, ClaimRow(s) PROVE Claimed \/ Kept
  <2>0. s.broker \in Brokers /\ s.minion \in Minions
    OBVIOUS
  <2>1. UNCHANGED node /\ \A x \in Session : Holds(x) => Holds(x)'
    BY <1>4 DEF ClaimRow, Goto, Holds, Holding, TypeOK
  <2>2. CASE row[m] = OnlineAt(b)
    BY <2>1, <2>2
  <2>3. CASE row[m] # OnlineAt(b)
    <3>1. m = s.minion /\ row[s.minion].status = "offline" /\ row'[m] = OnlineAt(s.broker)
      BY <1>4, <2>0, <2>3 DEF ClaimRow, MarkOnline, TypeOK
    <3>2. b = s.broker
      BY <2>0, <3>1, OnlineFacts
    <3>3. Holds(s)'
      BY <1>4, <3>1, <3>2 DEF ClaimRow, Goto, Holds, Holding, TypeOK
    <3>4. QED
      BY <3>1, <3>2, <3>3
  <2>4. QED
    BY <2>2, <2>3
<1>5. ASSUME NEW s \in Session, ReleaseRow(s) PROVE Kept
  <2>0. s.broker \in Brokers /\ s.minion \in Minions
    OBVIOUS
  <2>1. row' = MarkOffline(row, s.minion, s.broker)
    BY <1>0, <1>5 DEF ReleaseRow, Fault
  <2>2. row[m] = OnlineAt(b) /\ ~(m = s.minion /\ b = s.broker)
    BY <2>0, <2>1 DEF MarkOffline, OnlineAt, TypeOK
  <2>3. UNCHANGED node /\ \A x \in Session : x # s /\ Holds(x) => Holds(x)'
    BY <1>5 DEF ReleaseRow, Goto, Holds, TypeOK
  <2>4. QED
    BY <2>2, <2>3
<1>6. ASSUME NEW s \in Session,
             Abort(s) \/ Put(s) \/ ResetTags(s) \/ Connected(s) \/ MuxBroken(s)
               \/ Disconnected(s) \/ Leave(s) \/ KnockoutClose(s)
      PROVE  Kept
  <2>1. \A x \in Session : Holds(x) => Holds(x)'
    BY <1>6 DEF Abort, Put, ResetTags, Connected, MuxBroken, Disconnected, Leave,
                KnockoutClose, Goto, Holds, Holding, TypeOK
  <2>2. UNCHANGED <<row, node>>
    BY <1>6 DEF Abort, Put, ResetTags, Connected, MuxBroken, Disconnected, Leave,
                KnockoutClose
  <2>3. QED
    BY <2>1, <2>2
<1>7. ASSUME NEW s \in Session, ClaimRowFault(s) PROVE FALSE
  BY <1>0, <1>7 DEF ClaimRowFault, Fault
<1>8. ASSUME NEW c \in Brokers, NEW n \in Minions, KnockoutDel(c, n) PROVE Kept
  BY <1>8 DEF KnockoutDel, Holds
<1>9. ASSUME NEW c \in Brokers, Start(c) \/ Stop(c) PROVE Kept
  <2>1. row' = MarkAllOffline(row, c)
    BY <1>0, <1>9 DEF Start, Stop, ResetDB, Fault
  <2>2. b # c /\ row[m] = OnlineAt(b)
    BY <1>9, <2>1 DEF MarkAllOffline, OnlineAt, TypeOK
  <2>3. node'[b] = node[b] /\ UNCHANGED pc
    BY <1>9, <2>2 DEF Start, Stop, TypeOK
  <2>4. QED
    BY <2>2, <2>3 DEF Holds
<1>10. ASSUME NEW c \in Brokers, Exit(c) PROVE Kept
  <2>1. b # c /\ node[b] = "running" /\ row[m] = OnlineAt(b)
    BY <1>10 DEF Exit, TypeOK
  <2>2. QED
    BY <1>10, <2>1 DEF Exit, Holds, TypeOK
<1>11. ASSUME NEW n \in Minions, NEW st \in {"inactive", "offline", "delete"},
              ManagerSet(n, st)
       PROVE  Kept
  <2>1. row[m] = OnlineAt(b)
    BY <1>11 DEF ManagerSet, OnlineAt, Row, TypeOK
  <2>2. QED
    BY <1>11, <2>1 DEF ManagerSet, Holds
<1>12. CASE UNCHANGED vars
  BY <1>12 DEF vars, Holds
<1>13. QED
  BY <1>0, <1>3, <1>4, <1>5, <1>6, <1>7, <1>8, <1>9, <1>10, <1>11, <1>12 DEF Next, HubNext

\* So a row that was held stays held, or a new session holds it.
LEMMA HeldStep == LeaseInv /\ OnlineRowHeld /\ [Next]_vars => OnlineRowHeld'
<1> SUFFICES ASSUME LeaseInv, OnlineRowHeld, [Next]_vars, faults' = 0,
                    NEW b \in Brokers, NEW m \in Minions, node'[b] = "running",
                    row'[m] = OnlineAt(b)
             PROVE  \E x \in Session : Holds(x)' /\ x.broker = b /\ x.minion = m
  BY DEF OnlineRowHeld
<1>1. QED
  BY RowStaysHeld DEF LeaseInv, OnlineRowHeld

\* Only a failing database call, or a broker that is down, can leave a row online that no
\* session holds.
THEOREM NoStrandedRow == Spec => []OnlineRowHeld
<1>1. Init => OnlineRowHeld
  BY DEF Init, OnlineRowHeld
<1>2. QED
  BY <1>1, HeldStep, LeaseInvariant, PTL DEF Spec

\* A minion deleted or deactivated in the middle of its login stays out.
THEOREM DeletedProved == Spec => DeletedStaysOut
<1>1. TypeOK /\ [Next]_vars
        => [\A m \in Minions :
              row[m].status \in {"delete", "inactive"} => row'[m].status # "online"]_vars
  <2> SUFFICES ASSUME TypeOK, Next, NEW m \in Minions, row[m].status \in {"delete", "inactive"}
               PROVE  row'[m].status # "online"
    BY DEF TypeOK
  <2>1. ASSUME NEW s \in Session, ClaimRow(s) \/ ClaimRowFault(s) \/ ReleaseRow(s)
        PROVE  row'[m].status # "online"
    BY <2>1 DEF ClaimRow, ClaimRowFault, ReleaseRow, MarkOnline, MarkOffline, OnlineAt, TypeOK
  <2>2. ASSUME NEW s \in Session, Auth(s) PROVE row'[m].status # "online"
    BY <2>2 DEF Auth, LookupOrCreate, NewRow, TypeOK
  <2>3. ASSUME NEW b \in Brokers, Start(b) \/ Stop(b) PROVE row'[m].status # "online"
    <3>1. row' = row \/ row' = MarkAllOffline(row, b)
      BY <2>3 DEF Start, Stop, ResetDB
    <3>2. MarkAllOffline(row, b)[m] = row[m]
      BY OnlineFacts DEF MarkAllOffline
    <3>3. QED
      BY <3>1, <3>2
  <2>4. ASSUME NEW n \in Minions, NEW st \in {"inactive", "offline", "delete"},
               ManagerSet(n, st)
        PROVE  row'[m].status # "online"
    BY <2>4 DEF ManagerSet, Row, TypeOK
  <2>5. CASE UNCHANGED row
    BY <2>5
  <2>6. QED
    BY <2>1, <2>2, <2>3, <2>4, <2>5
       DEF Next, HubNext, Abort, Put, ResetTags, Connected, MuxBroken, Disconnected, Leave,
           KnockoutDel, KnockoutClose, Exit
<1>2. QED
  BY <1>1, TypeCorrect, PTL DEF Spec, DeletedStaysOut
-----------------------------------------------------------------------------
(* The tags of a served minion. *)

\* While no database call has failed, no other session of its broker overwrites the tags
\* of the session that holds a minion.
LEMMA TagsStep == LeaseInv /\ TagsOfServed /\ [Next]_vars => TagsOfServed'
<1> DEFINE Own(x) == /\ tags[x.minion] # NoSession
                     /\ tags[x.minion].broker = x.broker => tags[x.minion] = x
<1> SUFFICES ASSUME LeaseInv, TagsOfServed, [Next]_vars, faults' = 0,
                    NEW x \in Session, Holds(x)', pc'[x] # "online"
             PROVE  Own(x)'
  BY DEF TagsOfServed
<1> USE DEF LeaseInv
<1>0. faults = 0 /\ x.minion \in Minions
  <2>1. faults' = faults \/ faults' = faults + 1
    BY DEF Next, HubNext, vars, Auth, LookupOrCreate, Abort, Put, ClaimRow, ClaimRowFault, ResetTags, Connected,
           MuxBroken, Disconnected, ReleaseRow, Leave, KnockoutDel, KnockoutClose, Start,
           Stop, ResetDB, Exit, ManagerSet, Fault
  <2>2. faults \in Nat
    BY DEF TypeOK
  <2>3. QED
    BY <2>1, <2>2
<1>1. Holds(x) /\ pc[x] # "online" => Own(x)
  BY <1>0 DEF TagsOfServed
<1>2. ASSUME NEW s \in Session, ResetTags(s) PROVE Own(x)'
  <2>1. tags' = [tags EXCEPT ![s.minion] = s]
    BY <1>0, <1>2 DEF ResetTags, Fault
  <2>2. CASE x.minion # s.minion
    <3>1. Holds(x) /\ pc[x] # "online"
      BY <1>2, <2>2 DEF ResetTags, Goto, Holds, TypeOK
    <3>2. QED
      BY <1>0, <1>1, <2>1, <2>2, <3>1 DEF TypeOK
  <2>3. CASE x.minion = s.minion
    <3>1. Holds(x)
      BY <1>2 DEF ResetTags, Goto, Holds, Holding, TypeOK
    <3>2. x.broker = s.broker => x = s
      BY <1>2, <2>3, <3>1 DEF ResetTags, Goto, Holds, Holding, ExclusiveSession
    <3>3. tags'[x.minion] = s
      BY <1>0, <2>1, <2>3 DEF TypeOK
    <3>4. QED
      BY <3>2, <3>3
  <2>4. QED
    BY <2>2, <2>3
<1>3. CASE UNCHANGED tags /\ Holds(x) /\ pc[x] # "online"
  BY <1>1, <1>3
<1>4. ASSUME NEW s \in Session,
             Auth(s) \/ Abort(s) \/ Put(s) \/ ClaimRow(s) \/ ClaimRowFault(s) \/ Connected(s)
               \/ MuxBroken(s) \/ Disconnected(s) \/ ReleaseRow(s) \/ Leave(s)
               \/ KnockoutClose(s)
      PROVE  Own(x)'
  <2>1. UNCHANGED tags
    BY <1>4 DEF Auth, LookupOrCreate, Abort, Put, ClaimRow, ClaimRowFault, Connected, MuxBroken,
                Disconnected, ReleaseRow, Leave, KnockoutClose
  <2>2. Holds(x) /\ pc[x] # "online"
    BY <1>4 DEF Auth, LookupOrCreate, Abort, Put, ClaimRow, ClaimRowFault, Connected, MuxBroken,
                Disconnected, ReleaseRow, Leave, KnockoutClose, Goto, Holds, Holding, TypeOK
  <2>3. QED
    BY <1>3, <2>1, <2>2
<1>5. ASSUME NEW b \in Brokers, Start(b) \/ Stop(b) \/ Exit(b) PROVE Own(x)'
  <2>1. Holds(x) /\ pc[x] # "online"
    BY <1>5 DEF Start, Stop, Exit, Holds, Holding, DownQuiet, TypeOK
  <2>2. QED
    BY <1>3, <1>5, <2>1 DEF Start, Stop, Exit
<1>6. CASE \E b \in Brokers, m \in Minions : KnockoutDel(b, m)
  BY <1>3, <1>6 DEF KnockoutDel, Holds
<1>7. CASE \E m \in Minions, st \in {"inactive", "offline", "delete"} : ManagerSet(m, st)
  BY <1>3, <1>7 DEF ManagerSet, Holds
<1>8. CASE UNCHANGED vars
  BY <1>3, <1>8 DEF vars, Holds
<1>9. QED
  BY <1>2, <1>4, <1>5, <1>6, <1>7, <1>8 DEF Next, HubNext

\* The lifelong tags of a held minion are never those of another session of its broker.
THEOREM TagsProved == Spec => []TagsOfServed
<1>1. Init => TagsOfServed
  BY DEF Init, TagsOfServed, Holds, Holding
<1>2. QED
  BY <1>1, TagsStep, LeaseInvariant, PTL DEF Spec
-----------------------------------------------------------------------------
(* The hub implements OnlineLease. *)

\* The mapped owner of a minion is its holder, if it has one.
OwnerIsHolder ==
    /\ Owner \in [Minions -> Session \cup {NoSession}]
    /\ \A s \in Session : Holds(s) => Owner[s.minion] = s
    /\ \A m \in Minions : (\A s \in Session : Holds(s) => s.minion # m)
                            <=> Owner[m] = NoSession

\* The refinement mapping is well defined because holders are unique.
LEMMA OwnerFacts == ExclusiveSession => OwnerIsHolder
<1> SUFFICES ASSUME ExclusiveSession PROVE OwnerIsHolder
  OBVIOUS
<1>1. \A s \in Session : Holds(s) => Owner[s.minion] = s
  <2> SUFFICES ASSUME NEW s \in Session, Holds(s) PROVE Owner[s.minion] = s
    OBVIOUS
  <2>1. s.minion \in Minions
    OBVIOUS
  <2>2. Owner[s.minion] = CHOOSE t \in Session : Holds(t) /\ t.minion = s.minion
    BY <2>1 DEF Owner
  <2>3. \A t \in Session : Holds(t) /\ t.minion = s.minion => t = s
    BY DEF ExclusiveSession
  <2>4. QED
    BY <2>2, <2>3
<1>2. ASSUME NEW m \in Minions, \A s \in Session : Holds(s) => s.minion # m
      PROVE  Owner[m] = NoSession
  BY <1>2 DEF Owner
<1>3. \A m \in Minions : Owner[m] \in Session \cup {NoSession}
  BY <1>1, <1>2
<1>4. QED
  BY <1>1, <1>2, <1>3 DEF Owner, OwnerIsHolder

\* A step gives a minion to at most one session, and only one that nobody holds; any
\* other step only lets sessions go.
LEMMA HoldersStep ==
    ASSUME LeaseInv, [Next]_vars
    PROVE  \/ \A x \in Session : Holds(x)' => Holds(x)
           \/ \E s \in Session : /\ \A x \in Session : Holds(x) => x.minion # s.minion
                                 /\ \A x \in Session : Holds(x)' <=> Holds(x) \/ x = s
<1> USE DEF LeaseInv
<1>1. ASSUME NEW s \in Session, ClaimRow(s), Holds(s)'
      PROVE  /\ \A x \in Session : Holds(x) => x.minion # s.minion
             /\ \A x \in Session : Holds(x)' <=> Holds(x) \/ x = s
  <2>1. row[s.minion].status = "offline"
    BY <1>1 DEF ClaimRow, Goto, Holds, Holding, TypeOK
  <2>2. \A x \in Session : Holds(x) => x.minion # s.minion
    BY <2>1, OnlineFacts DEF HolderRow
  <2>3. \A x \in Session : x # s => (Holds(x)' <=> Holds(x))
    BY <1>1 DEF ClaimRow, Goto, Holds, TypeOK
  <2>4. QED
    BY <1>1, <2>2, <2>3
<1>2. ASSUME NEW s \in Session, ClaimRow(s), ~Holds(s)'
      PROVE  \A x \in Session : Holds(x)' => Holds(x)
  BY <1>2 DEF ClaimRow, Goto, Holds, TypeOK
<1>3. ASSUME NEW s \in Session,
             Auth(s) \/ Abort(s) \/ Put(s) \/ ClaimRowFault(s) \/ ResetTags(s)
               \/ Connected(s) \/ MuxBroken(s) \/ Disconnected(s) \/ ReleaseRow(s)
               \/ Leave(s) \/ KnockoutClose(s)
      PROVE  \A x \in Session : Holds(x)' => Holds(x)
  BY <1>3 DEF Auth, LookupOrCreate, Abort, Put, ClaimRowFault, ResetTags, Connected, MuxBroken,
              Disconnected, ReleaseRow, Leave, KnockoutClose, Goto, Holds, Holding, TypeOK
<1>4. ASSUME NEW b \in Brokers, Start(b) \/ Stop(b) \/ Exit(b)
      PROVE  \A x \in Session : Holds(x)' => Holds(x)
  BY <1>4 DEF Start, Stop, Exit, Holds, Holding, DownQuiet, TypeOK
<1>5. ASSUME \/ \E b \in Brokers, m \in Minions : KnockoutDel(b, m)
             \/ \E m \in Minions, st \in {"inactive", "offline", "delete"} : ManagerSet(m, st)
             \/ UNCHANGED vars
      PROVE  \A x \in Session : Holds(x)' => Holds(x)
  BY <1>5 DEF KnockoutDel, ManagerSet, vars, Holds
<1>6. QED
  BY <1>1, <1>2, <1>3, <1>4, <1>5 DEF Next, HubNext

\* The brokers together implement OnlineLease: a session acquires a minion only when no
\* session of a running broker has it.
THEOREM HubImplementsLease == Spec => ImplementsLease
<1>1. Init => Lease!LeaseInit
  BY DEF Init, Lease!LeaseInit, Owner, Holds, Holding
<1>o. ExclusiveSession' => OwnerIsHolder'
  BY OwnerFacts, PTL
<1>2. LeaseInv /\ LeaseInv' /\ [Next]_vars => [Lease!LeaseNext]_Owner
  <2> SUFFICES ASSUME LeaseInv, LeaseInv', [Next]_vars PROVE Lease!LeaseNext
    OBVIOUS
  <2>1. OwnerIsHolder
    BY OwnerFacts DEF LeaseInv
  <2>2. OwnerIsHolder'
    BY <1>o DEF LeaseInv
  <2> USE DEF OwnerIsHolder
  <2>3. ASSUME \A x \in Session : Holds(x)' => Holds(x) PROVE Lease!LeaseNext
    <3> DEFINE M == {m \in Minions : Owner'[m] = NoSession}
    <3>1. \A m \in Minions : m \notin M => Owner'[m] = Owner[m]
      BY <2>1, <2>2, <2>3
    <3>2. Owner' = [m \in Minions |-> IF m \in M THEN NoSession ELSE Owner[m]]
      BY <2>1, <2>2, <3>1
    <3>3. M \in SUBSET Minions
      OBVIOUS
    <3>4. QED
      BY <3>2, <3>3 DEF Lease!LeaseNext, Lease!Release
  <2>4. ASSUME NEW s \in Session,
               \A x \in Session : Holds(x) => x.minion # s.minion,
               \A x \in Session : Holds(x)' <=> Holds(x) \/ x = s
        PROVE  Lease!LeaseNext
    <3>0. s.minion \in Minions
      OBVIOUS
    <3>1. Owner[s.minion] = NoSession
      BY <2>1, <2>4, <3>0
    <3>2. \A m \in Minions : Owner'[m] = IF m = s.minion THEN s ELSE Owner[m]
      BY <2>1, <2>2, <2>4
    <3>3. Owner' = [Owner EXCEPT ![s.minion] = s]
      BY <2>1, <2>2, <3>2
    <3>4. QED
      BY <3>0, <3>1, <3>3 DEF Lease!LeaseNext, Lease!Acquire
  <2>5. QED
    BY <2>3, <2>4, HoldersStep
<1>3. QED
  BY <1>1, <1>2, LeaseInvariant, PTL DEF Spec, ImplementsLease, Lease!LeaseSpec
-----------------------------------------------------------------------------
(* The hub beside the legacy endpoint. *)

\* The sessions whose minion has no websocket to the same broker.
WithoutLegacy ==
    {s \in Session : \A t \in LSession : t.minion = s.minion => t.broker # s.broker}

\* The lease of all sessions fails here, since the legacy endpoint of a broker releases the
\* row of its hub's session.  The lease of those without a legacy rival is inductive.
BothInv ==
    /\ TypeOK /\ lpc \in [LSession -> Legacy!LPC] /\ DownQuiet
    /\ LeaseOn(WithoutLegacy) /\ OnlineRowServed

\* A legacy session that holds the row of m at b, as its goroutine sees it.
LegacyHolds(t, b, m) == t.broker = b /\ t.minion = m /\ lpc[t] \in Legacy!Holding

\* Both endpoints issue the same statements.
LEMMA SameStatements ==
    ASSUME NEW r, NEW m, NEW b
    PROVE  /\ Legacy!MarkOnline(r, m, b) = MarkOnline(r, m, b)
           /\ Legacy!MarkOffline(r, m, b) = MarkOffline(r, m, b)
  BY DEF Legacy!MarkOnline, MarkOnline, Legacy!MarkOffline, MarkOffline, Legacy!OnlineAt, OnlineAt

\* An UPDATE of the legacy endpoint may fail, applied or not.
LEMMA LegacyExecute ==
    ASSUME TypeOK, NEW after \in [Minions -> Row], Legacy!Execute(after)
    PROVE  /\ row' \in {row, after} /\ row' \in [Minions -> Row]
           /\ faults' \in 0..MaxFaults
           /\ faults' = 0 => faults = 0 /\ row' = after
  BY DEF Legacy!Execute, TypeOK

\* What a step of the legacy endpoint does to the table: it creates a row, takes one that
\* is offline, or releases one that is online at its own broker.
LEMMA LegacyRows ==
    ASSUME TypeOK, NEW s \in LSession, Legacy!SessionNext(s)
    PROVE  /\ row' \in [Minions -> Row] /\ faults' \in 0..MaxFaults /\ UNCHANGED node
           /\ \A m \in Minions :
                 row'[m] = row[m]
                 \/ /\ m = s.minion
                    /\ row[m].status \in {"absent", "offline"} \/ row[m] = OnlineAt(s.broker)
<1>0. s.broker \in Brokers /\ s.minion \in Minions
  BY GatewayAssumption
<1>1. CASE Legacy!Authorize(s)
  <2>1. [row EXCEPT ![s.minion] = [status |-> "offline", broker |-> s.broker]]
           \in [Minions -> Row]
    BY <1>0 DEF TypeOK, Row, Status
  <2>2. QED
    BY <1>0, <1>1, <2>1 DEF Legacy!Authorize, TypeOK
<1>2. CASE Legacy!Connect(s)
  <2>1. row' \in {row, MarkOnline(row, s.minion, s.broker)} /\ row' \in [Minions -> Row]
        /\ faults' \in 0..MaxFaults
    BY <1>0, <1>2, TableType, SameStatements, LegacyExecute DEF Legacy!Connect, TypeOK
  <2>2. QED
    BY <1>0, <1>2, <2>1 DEF Legacy!Connect, MarkOnline, TypeOK
<1>3. CASE Legacy!Disconnect(s)
  <2>1. row' \in {row, MarkOffline(row, s.minion, s.broker)} /\ row' \in [Minions -> Row]
        /\ faults' \in 0..MaxFaults
    BY <1>0, <1>3, TableType, SameStatements, LegacyExecute DEF Legacy!Disconnect, TypeOK
  <2>2. QED
    BY <1>0, <1>3, <2>1 DEF Legacy!Disconnect, MarkOffline, TypeOK
<1>4. CASE Legacy!Abort(s) \/ Legacy!Store(s) \/ Legacy!AgentEnds(s) \/ Legacy!ReceiveEnds(s)
             \/ Legacy!Delete(s)
  BY <1>4 DEF Legacy!Abort, Legacy!Store, Legacy!AgentEnds, Legacy!ReceiveEnds, Legacy!Delete,
     TypeOK
<1>5. QED
  BY <1>1, <1>2, <1>3, <1>4 DEF Legacy!SessionNext

\* What it does to the goroutines: only Disconnect lets a row go.
LEMMA LegacyGoes ==
    ASSUME lpc \in [LSession -> Legacy!LPC], NEW s \in LSession, Legacy!SessionNext(s)
    PROVE  /\ lpc' \in [LSession -> Legacy!LPC]
           /\ Legacy!Disconnect(s) \/ \A t \in LSession : lpc[t] \in Legacy!Holding
                                                            => lpc'[t] \in Legacy!Holding
           /\ \A t \in LSession : t # s => lpc'[t] = lpc[t]
           /\ Legacy!Connect(s) => lpc'[s] \in Legacy!Holding
  BY DEF Legacy!SessionNext, Legacy!Authorize, Legacy!Abort, Legacy!Store, Legacy!Connect,
     Legacy!AgentEnds, Legacy!ReceiveEnds, Legacy!Delete, Legacy!Disconnect, Legacy!Goto,
     Legacy!LPC, Legacy!Holding

\* A step of the legacy endpoint takes no row from a session of another broker, and leaves
\* none online that nobody holds.
LEMMA LegacyStepInv == BothInv /\ LegacyStep => BothInv'
<1> SUFFICES ASSUME BothInv, LegacyStep PROVE BothInv'
  OBVIOUS
<1> USE DEF BothInv
<1>1. PICK s \in LSession : Legacy!SessionNext(s)
  BY DEF LegacyStep
<1>2. s.broker \in Brokers /\ s.minion \in Minions
  BY GatewayAssumption
<1>3. UNCHANGED <<node, tags, section, pc, mux, closing, kicked>>
  BY <1>1, LegacyRows DEF LegacyStep
<1>4. TypeOK' /\ lpc' \in [LSession -> Legacy!LPC] /\ DownQuiet'
  BY <1>1, <1>3, LegacyRows, LegacyGoes DEF TypeOK, DownQuiet
<1>5. \A x \in Session : Holds(x)' <=> Holds(x)
  BY <1>3 DEF Holds
<1>6. LeaseOn(WithoutLegacy)'
  <2>1. ASSUME NEW x \in WithoutLegacy, Holds(x) PROVE row'[x.minion] = row[x.minion]
    <3>1. row[x.minion] = OnlineAt(x.broker) /\ row[x.minion].status = "online"
      BY <2>1, OnlineFacts DEF LeaseOn, WithoutLegacy
    <3>2. x.broker \in Brokers /\ x.minion \in Minions
      BY DEF WithoutLegacy
    <3>3. x.minion = s.minion => row[x.minion] # OnlineAt(s.broker)
      BY <1>2, <3>1, <3>2, OnlineFacts DEF WithoutLegacy
    <3>4. QED
      BY <1>1, <3>1, <3>2, <3>3, LegacyRows
  <2>2. QED
    BY <1>5, <2>1 DEF LeaseOn, WithoutLegacy
<1>7. OnlineRowServed'
  <2> SUFFICES ASSUME faults' = 0, NEW b \in Brokers, NEW m \in Minions,
                      node[b] = "running", row'[m] = OnlineAt(b)
               PROVE  \/ \E x \in Session : Holds(x) /\ x.broker = b /\ x.minion = m
                      \/ \E t \in LSession : LegacyHolds(t, b, m)'
    BY <1>3, <1>5 DEF OnlineRowServed, LegacyHolds
  <2>a. ASSUME faults = 0, row[m] = OnlineAt(b)
        PROVE  \/ \E x \in Session : Holds(x) /\ x.broker = b /\ x.minion = m
               \/ \E t \in LSession : LegacyHolds(t, b, m)
    BY <2>a DEF OnlineRowServed, LegacyHolds
  <2>1. CASE Legacy!Connect(s)
    <3>1. faults = 0 /\ row' = MarkOnline(row, s.minion, s.broker)
      BY <1>2, <2>1, TableType, SameStatements, LegacyExecute DEF Legacy!Connect, TypeOK
    <3>2. row[m] = OnlineAt(b) \/ (m = s.minion /\ row'[m] = OnlineAt(s.broker))
      BY <1>2, <3>1 DEF MarkOnline, TypeOK
    <3>3. row[m] = OnlineAt(b) \/ (m = s.minion /\ b = s.broker)
      BY <1>2, <3>2, OnlineFacts
    <3>4. QED
      BY <1>1, <2>a, <2>1, <3>1, <3>3, LegacyGoes DEF LegacyHolds
  <2>2. CASE Legacy!Disconnect(s)
    <3>1. faults = 0 /\ row' = MarkOffline(row, s.minion, s.broker)
      BY <1>2, <2>2, TableType, SameStatements, LegacyExecute DEF Legacy!Disconnect, TypeOK
    <3>2. row[m] = OnlineAt(b) /\ ~(m = s.minion /\ b = s.broker)
      BY <1>2, <3>1 DEF MarkOffline, OnlineAt, TypeOK
    <3>3. QED
      BY <1>1, <2>a, <3>1, <3>2, LegacyGoes DEF LegacyHolds
  <2>3. CASE ~Legacy!Connect(s) /\ ~Legacy!Disconnect(s)
    <3>1. faults = 0 /\ row[m] = OnlineAt(b)
      BY <1>1, <1>2, <2>3 DEF Legacy!SessionNext, Legacy!Authorize, Legacy!Abort, Legacy!Store,
         Legacy!AgentEnds, Legacy!ReceiveEnds, Legacy!Delete, OnlineAt, TypeOK
    <3>2. QED
      BY <1>1, <2>a, <2>3, <3>1, LegacyGoes DEF LegacyHolds
  <2>4. QED
    BY <2>1, <2>2, <2>3
<1>8. QED
  BY <1>4, <1>6, <1>7

\* A step of the hub or of the process keeps what the legacy endpoint relies on.
LEMMA HubStepInv == BothInv /\ (HubStep \/ ProcessStep) => BothInv'
<1> SUFFICES ASSUME BothInv, HubStep \/ ProcessStep PROVE BothInv'
  OBVIOUS
<1> USE DEF BothInv
<1>1. Next
  BY DEF HubStep, ProcessStep, Next
<1>2. /\ lpc' \in [LSession -> Legacy!LPC]
      /\ \A b \in Brokers, t \in LSession :
            node'[b] = "running" /\ t.broker = b => lpc'[t] = lpc[t]
  <2>1. CASE UNCHANGED lpc
    BY <2>1
  <2>2. ASSUME NEW c \in Brokers, Exit(c), Legacy!Forget(c)
        PROVE  /\ lpc' \in [LSession -> Legacy!LPC]
               /\ \A b \in Brokers, t \in LSession :
                     node'[b] = "running" /\ t.broker = b => lpc'[t] = lpc[t]
    BY <2>2 DEF Exit, Legacy!Forget, Legacy!LPC, TypeOK
  <2>3. QED
    BY <2>1, <2>2 DEF HubStep, ProcessStep, legacyVars
<1>3. TypeOK'
  BY <1>1, TypeStep
<1>4. DownQuiet' /\ LeaseOn(WithoutLegacy)'
  <2>1. WithoutLegacy \in SUBSET Session
    BY DEF WithoutLegacy
  <2>2. \A s \in WithoutLegacy, t \in Session :
           t.broker = s.broker /\ t.minion = s.minion => t \in WithoutLegacy
    BY DEF WithoutLegacy
  <2>3. QED
    BY <1>1, <2>1, <2>2, LeaseOnStep
<1>5. OnlineRowServed'
  <2> SUFFICES ASSUME faults' = 0, NEW b \in Brokers, NEW m \in Minions,
                      node'[b] = "running", row'[m] = OnlineAt(b)
               PROVE  \/ \E x \in Session : Holds(x)' /\ x.broker = b /\ x.minion = m
                      \/ \E t \in LSession : LegacyHolds(t, b, m)'
    BY DEF OnlineRowServed, LegacyHolds
  <2>1. CASE \E x \in Session : Holds(x)' /\ x.broker = b /\ x.minion = m
    BY <2>1
  <2>2. CASE /\ faults = 0 /\ node[b] = "running" /\ row[m] = OnlineAt(b)
             /\ \A x \in Session : Holds(x) /\ x.broker = b /\ x.minion = m => Holds(x)'
    BY <1>2, <2>2 DEF OnlineRowServed, LegacyHolds
  <2>3. QED
    BY <1>1, <2>1, <2>2, RowStaysHeld
<1>6. QED
  BY <1>2, <1>3, <1>4, <1>5

\* BothInv holds in every reachable state of a broker with both endpoints.
LEMMA BothInvariant == BothSpec => []BothInv
<1>1. BothInit => BothInv
  <2> SUFFICES ASSUME BothInit PROVE BothInv
    OBVIOUS
  <2>1. LeaseInv /\ lpc \in [LSession -> Legacy!LPC]
    BY LeaseInit DEF BothInit, Legacy!HubInit, Legacy!LPC
  <2>2. LeaseOn(WithoutLegacy) /\ OnlineRowServed
    BY DEF BothInit, Init, LeaseOn, WithoutLegacy, OnlineRowServed, Holds, Holding
  <2>3. QED
    BY <2>1, <2>2 DEF BothInv, LeaseInv
<1>2. BothInv /\ UNCHANGED allVars => BothInv'
  BY DEF BothInv, allVars, vars, legacyVars, TypeOK, DownQuiet, LeaseOn, OnlineRowServed, Holds
<1>3. QED
  BY <1>1, <1>2, LegacyStepInv, HubStepInv, PTL DEF BothSpec, BothNext

\* launch.Run: with both endpoints in one process, and no failing database call, a row that
\* is online at a running broker is held by a session of one of them.
THEOREM OnlineRowServedProved == BothSpec => []OnlineRowServed
<1>1. BothInv => OnlineRowServed
  BY DEF BothInv
<1>2. QED
  BY <1>1, BothInvariant, PTL

\* minionHub.Join and Endpoint: the row of a served minion is taken away by no session of
\* another broker, legacy or not, and by no failing call.
THEOREM HolderRowProved == BothSpec => []HolderRowWithoutLegacy
<1>1. BothInv => HolderRowWithoutLegacy
  BY DEF BothInv, LeaseOn, WithoutLegacy, HolderRowWithoutLegacy
<1>2. QED
  BY <1>1, BothInvariant, PTL
=============================================================================
