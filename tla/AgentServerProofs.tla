------------------------- MODULE AgentServerProofs -------------------------
(***************************************************************************)
(* Proofs about AgentServer, for any brokers, minions, sessions and number *)
(* of database faults.                                                     *)
(***************************************************************************)
EXTENDS AgentServer, TLAPS

(* The statements on the minion table. *)

\* The guarded UPDATEs keep the table well-typed.
LEMMA TableType ==
    ASSUME NEW r \in [Minions -> Row], NEW m \in Minions, NEW b \in Brokers
    PROVE  /\ MarkOnline(r, m, b) \in [Minions -> Row]
           /\ MarkOffline(r, m, b) \in [Minions -> Row]
  BY DEF MarkOnline, MarkOffline, OnlineAt, Row, Status

\* ResetDB's UPDATE over a broker's rows keeps the table well-typed.
LEMMA ResetType ==
    ASSUME NEW r \in [Minions -> Row], NEW b \in Brokers
    PROVE  MarkAllOffline(r, b) \in [Minions -> Row]
  BY DEF MarkAllOffline, OnlineAt, Row, Status

\* What the guarded UPDATEs do to any row.
LEMMA MarkFacts ==
    ASSUME NEW r \in [Minions -> Row], NEW m \in Minions, NEW b \in Brokers
    PROVE  /\ \A x \in Minions : MarkOnline(r, m, b)[x] =
                 IF x = m /\ r[m].status = "offline" THEN OnlineAt(b) ELSE r[x]
           /\ \A x \in Minions : MarkOffline(r, m, b)[x] # r[x] => x = m /\ r[x] = OnlineAt(b)
  BY DEF MarkOnline, MarkOffline

\* Two rows online at different brokers differ, and an online row is not offline.
LEMMA OnlineFacts ==
    ASSUME NEW a \in Brokers, NEW b \in Brokers
    PROVE  /\ OnlineAt(a) = OnlineAt(b) => a = b
           /\ OnlineAt(a).status = "online"
  BY DEF OnlineAt
-----------------------------------------------------------------------------

USE NoBrokerAssumption, ServerAssumption

\* Setting one entry of the huber to a session, or clearing it, keeps its type.
LEMMA HuberType ==
    ASSUME NEW f \in [Brokers -> [Minions -> Session \cup {NoSession}]],
           NEW b \in Brokers, NEW m \in Minions, NEW e \in Session \cup {NoSession}
    PROVE  [f EXCEPT ![b][m] = e] \in [Brokers -> [Minions -> Session \cup {NoSession}]]
  OBVIOUS

\* Every step of Handle and of the process keeps the types.
LEMMA TypeStep == TypeOK /\ [Next]_vars => TypeOK'
<1> SUFFICES ASSUME TypeOK, [Next]_vars PROVE TypeOK'
  OBVIOUS
<1> USE DEF TypeOK
<1>0. CASE UNCHANGED vars
  BY <1>0 DEF vars
<1>1. ASSUME NEW s \in Session, Open(s) \/ AcceptTimeout(s) \/ Reply(s) \/ MuxBroken(s)
      PROVE  TypeOK'
  BY <1>1 DEF Open, AcceptTimeout, Reply, MuxBroken, Goto, Return, PC
<1>2. ASSUME NEW s \in Session, Find(s) PROVE TypeOK'
  <2>1. row' = row \/ row' = [row EXCEPT ![s.minion] = NewRow]
    BY <1>2 DEF Find, FindOrCreate
  <2>2. row' \in [Minions -> Row]
    BY <2>1 DEF NewRow, Row, Status
  <2>3. pc' \in [Session -> PC] /\ mux' \in [Session -> {"open", "closed"}]
    BY <1>2 DEF Find, Goto, Return, PC
  <2>4. QED
    BY <1>2, <2>2, <2>3 DEF Find
<1>3. ASSUME NEW s \in Session, Put(s) \/ Undo(s) \/ Leave(s) PROVE TypeOK'
  <2>1. s.broker \in Brokers /\ s.minion \in Minions
    OBVIOUS
  <2>2. \/ UNCHANGED huber
        \/ huber' = [huber EXCEPT ![s.broker][s.minion] = s]
        \/ huber' = [huber EXCEPT ![s.broker][s.minion] = NoSession]
    BY <1>3 DEF Put, Undo, Leave, DelByID
  <2>3. huber' \in [Brokers -> [Minions -> Session \cup {NoSession}]]
    <3>1. s \in Session \cup {NoSession} /\ NoSession \in Session \cup {NoSession}
      OBVIOUS
    <3>2. [huber EXCEPT ![s.broker][s.minion] = s]
            \in [Brokers -> [Minions -> Session \cup {NoSession}]]
      BY ONLY <2>1, <3>1, HuberType, TypeOK DEF TypeOK
    <3>3. [huber EXCEPT ![s.broker][s.minion] = NoSession]
            \in [Brokers -> [Minions -> Session \cup {NoSession}]]
      BY ONLY <2>1, <3>1, HuberType, TypeOK DEF TypeOK
    <3>4. QED
      BY <2>2, <3>2, <3>3
  <2>4. pc' \in [Session -> PC] /\ mux' \in [Session -> {"open", "closed"}]
    BY <1>3 DEF Put, Undo, Leave, Goto, Return, PC
  <2>5. UNCHANGED <<node, row, base, peer, faults>>
    BY <1>3 DEF Put, Undo, Leave
  <2>6. QED
    BY <2>3, <2>4, <2>5
<1>4. ASSUME NEW s \in Session, Claim(s) PROVE TypeOK'
  BY <1>4, TableType DEF Claim, Goto, PC
<1>5. ASSUME NEW s \in Session, ClaimFault(s) PROVE TypeOK'
  <2>1. row' \in [Minions -> Row]
    <3>1. MarkOnline(row, s.minion, s.broker) \in [Minions -> Row]
      BY TableType
    <3>2. row' = row \/ row' = MarkOnline(row, s.minion, s.broker)
      BY <1>5 DEF ClaimFault
    <3>3. QED
      BY <3>1, <3>2
  <2>2. faults' \in 0..MaxFaults
    BY <1>5 DEF ClaimFault, Fault
  <2>3. pc' \in [Session -> PC]
    BY <1>5 DEF ClaimFault, Goto, PC
  <2>4. QED
    BY <1>5, <2>1, <2>2, <2>3 DEF ClaimFault
<1>6. ASSUME NEW s \in Session, StoreBase(s) \/ Serve(s) \/ ServeEnds(s) PROVE TypeOK'
  <2>1. s.broker \in Brokers /\ base[s.broker] \in Session \cup {NoSession}
    OBVIOUS
  <2>2. pc' \in [Session -> PC]
    BY <1>6 DEF StoreBase, Serve, ServeEnds, Goto, PC
  <2>3. base' \in [Brokers -> Session \cup {NoSession}]
    BY <1>6, <2>1 DEF StoreBase, Serve, ServeEnds
  <2>4. peer' \in [Session -> Session \cup {NoSession}]
    BY <1>6, <2>1 DEF StoreBase, Serve, ServeEnds
  <2>5. QED
    BY <1>6, <2>2, <2>3, <2>4 DEF StoreBase, Serve, ServeEnds
<1>7. ASSUME NEW s \in Session, Release(s) PROVE TypeOK'
  <2>1. row' \in [Minions -> Row] /\ faults' \in 0..MaxFaults
    BY <1>7, TableType DEF Release, Fault
  <2>2. QED
    BY <1>7, <2>1 DEF Release, Goto, PC
<1>8. ASSUME NEW b \in Brokers, Start(b) \/ Stop(b) PROVE TypeOK'
  <2>1. ResetAgents(b) => row' \in [Minions -> Row] /\ faults' \in 0..MaxFaults
    BY ResetType DEF ResetAgents, Fault
  <2>2. node' \in [Brokers -> {"down", "running", "stopping"}]
    BY <1>8 DEF Start, Stop
  <2>3. QED
    BY <1>8, <2>1, <2>2 DEF Start, Stop
<1>9. ASSUME NEW b \in Brokers, Exit(b) PROVE TypeOK'
  BY <1>9 DEF Exit, PC
<1>10. ASSUME NEW m \in Minions, NEW st \in {"inactive", "offline", "delete"},
              ManagerSet(m, st)
       PROVE  TypeOK'
  BY <1>10 DEF ManagerSet, Row, Status
<1>11. QED
  BY <1>0, <1>1, <1>2, <1>3, <1>4, <1>5, <1>6, <1>7, <1>8, <1>9, <1>10 DEF Next, HandleStep

\* Type correctness of the agent server.
THEOREM TypeCorrect == Spec => []TypeOK
<1>1. Init => TypeOK
  BY DEF Init, TypeOK, PC, AbsentRow, Row, Status
<1>2. QED
  BY <1>1, TypeStep, PTL DEF Spec
-----------------------------------------------------------------------------
(* The huber. *)

\* No step takes the huber's entry away from a session that is between Put and DelByID:
\* only the owner of an entry ever clears it.
LEMMA OwnedStep == TypeOK /\ EntryOwned /\ [Next]_vars => EntryOwned'
<1> SUFFICES ASSUME TypeOK, EntryOwned, [Next]_vars PROVE EntryOwned'
  OBVIOUS
<1> USE DEF TypeOK, Entered
<1>0. CASE UNCHANGED vars
  BY <1>0 DEF vars, EntryOwned
<1>1. ASSUME NEW s \in Session, Put(s) PROVE EntryOwned'
  <2>1. SUFFICES ASSUME NEW x \in Session, pc'[x] \in Entered
                 PROVE  huber'[x.broker][x.minion] = x
    BY DEF EntryOwned
  <2>2. s.broker \in Brokers /\ s.minion \in Minions
        /\ x.broker \in Brokers /\ x.minion \in Minions
    OBVIOUS
  <2>3. CASE x = s
    BY <1>1, <2>1, <2>2, <2>3 DEF Put, Goto, Return
  <2>4. CASE x # s
    <3>1. huber[x.broker][x.minion] = x
      BY <1>1, <2>1, <2>4 DEF Put, Goto, Return, EntryOwned
    <3>2. x # NoSession
      OBVIOUS
    <3>3. huber' = huber \/ (/\ huber[s.broker][s.minion] = NoSession
                             /\ huber' = [huber EXCEPT ![s.broker][s.minion] = s])
      BY <1>1 DEF Put
    <3>4. QED
      BY <2>2, <3>1, <3>2, <3>3
  <2>5. QED
    BY <2>3, <2>4
<1>2. ASSUME NEW s \in Session, Undo(s) \/ Leave(s) PROVE EntryOwned'
  <2>1. SUFFICES ASSUME NEW x \in Session, pc'[x] \in Entered
                 PROVE  huber'[x.broker][x.minion] = x
    BY DEF EntryOwned
  <2>2. s.broker \in Brokers /\ s.minion \in Minions
        /\ x.broker \in Brokers /\ x.minion \in Minions
    OBVIOUS
  <2>3. x # s /\ pc[x] \in Entered /\ pc[s] \in Entered
    BY <1>2, <2>1 DEF Undo, Leave, Goto, Return
  <2>4. huber[x.broker][x.minion] = x /\ huber[s.broker][s.minion] = s
    BY <2>3 DEF EntryOwned
  <2>5. huber' = [huber EXCEPT ![s.broker][s.minion] = NoSession]
    BY <1>2 DEF Undo, Leave, DelByID
  <2>6. QED
    BY <2>2, <2>3, <2>4, <2>5
<1>3. ASSUME NEW s \in Session,
             \/ Open(s) \/ Find(s) \/ ClaimFault(s) \/ MuxBroken(s) \/ AcceptTimeout(s)
             \/ Claim(s) \/ Reply(s) \/ StoreBase(s) \/ Serve(s) \/ ServeEnds(s) \/ Release(s)
      PROVE  EntryOwned'
  <2>1. UNCHANGED huber
    BY <1>3 DEF Open, Find, ClaimFault, MuxBroken, AcceptTimeout, Claim, Reply, StoreBase,
                Serve, ServeEnds, Release
  <2>2. \A x \in Session : pc'[x] \in Entered => pc[x] \in Entered
    BY <1>3 DEF Open, Find, ClaimFault, MuxBroken, AcceptTimeout, Claim, Reply, StoreBase,
                Serve, ServeEnds, Release, Goto, Return
  <2>3. QED
    BY <2>1, <2>2 DEF EntryOwned
<1>4. ASSUME NEW b \in Brokers, Exit(b) PROVE EntryOwned'
  BY <1>4 DEF Exit, EntryOwned
<1>5. ASSUME NEW b \in Brokers, Start(b) \/ Stop(b) PROVE EntryOwned'
  BY <1>5 DEF Start, Stop, EntryOwned
<1>6. ASSUME NEW m \in Minions, NEW st \in {"inactive", "offline", "delete"},
             ManagerSet(m, st)
      PROVE  EntryOwned'
  BY <1>6 DEF ManagerSet, EntryOwned
<1>7. QED
  BY <1>0, <1>1, <1>2, <1>3, <1>4, <1>5, <1>6 DEF Next, HandleStep

\* From huber.Put to DelByID the huber holds the session's own peer under its minion's id.
THEOREM EntryOwnedProved == Spec => []EntryOwned
<1>1. Init => EntryOwned
  BY DEF Init, EntryOwned, Entered
<1>2. QED
  BY <1>1, OwnedStep, TypeCorrect, PTL DEF Spec
-----------------------------------------------------------------------------
(* Online rows can be reached. *)

ReachInv == TypeOK /\ EntryOwned /\ OnlineRowHasEntry /\ LeavingReleased

\* While no database call has failed, an entry is cleared only after its row is released,
\* and a row is claimed only by the session that owns the entry.
LEMMA ReachStep == ReachInv /\ [Next]_vars => ReachInv'
<1> SUFFICES ASSUME ReachInv, [Next]_vars, faults' = 0
             PROVE  /\ \A b \in Brokers, m \in Minions :
                         node'[b] = "running" /\ row'[m] = OnlineAt(b)
                           => huber'[b][m] # NoSession
                    /\ \A x \in Session :
                         /\ pc'[x] # "undo"
                         /\ pc'[x] = "del" => row'[x.minion] # OnlineAt(x.broker)
  BY TypeStep, OwnedStep DEF ReachInv, OnlineRowHasEntry, LeavingReleased
<1> DEFINE P == \A b \in Brokers, m \in Minions :
                   node'[b] = "running" /\ row'[m] = OnlineAt(b) => huber'[b][m] # NoSession
           Q == \A x \in Session :
                   /\ pc'[x] # "undo"
                   /\ pc'[x] = "del" => row'[x.minion] # OnlineAt(x.broker)
<1> USE DEF ReachInv, TypeOK
<1>z. faults = 0
  <2>1. faults' = faults \/ faults' = faults + 1
    BY DEF Next, HandleStep, vars, Open, Find, ClaimFault, MuxBroken, AcceptTimeout, Put,
           Claim, Undo, Reply, StoreBase, Serve, ServeEnds, Release, Leave, Start, Stop,
           Exit, ManagerSet, ResetAgents, Fault
  <2>2. QED
    BY <2>1
<1>p. \A b \in Brokers, m \in Minions :
        node[b] = "running" /\ row[m] = OnlineAt(b) => huber[b][m] # NoSession
  BY <1>z DEF OnlineRowHasEntry
<1>q. \A x \in Session : pc[x] # "undo"
                        /\ (pc[x] = "del" => row[x.minion] # OnlineAt(x.broker))
  BY <1>z DEF LeavingReleased
<1>0. CASE UNCHANGED vars
  BY <1>0, <1>p, <1>q DEF vars
<1>1. ASSUME NEW s \in Session,
             \/ Open(s) \/ MuxBroken(s) \/ AcceptTimeout(s) \/ Reply(s) \/ StoreBase(s)
             \/ Serve(s) \/ ServeEnds(s)
      PROVE  P /\ Q
  <2>1. UNCHANGED <<node, row, huber>>
    BY <1>1 DEF Open, MuxBroken, AcceptTimeout, Reply, StoreBase, Serve, ServeEnds
  <2>2. \A x \in Session : pc'[x] \in {"undo", "del"} => pc'[x] = pc[x]
    BY <1>1 DEF Open, MuxBroken, AcceptTimeout, Reply, StoreBase, Serve, ServeEnds, Goto,
                Return
  <2>3. QED
    BY <2>1, <2>2, <1>p, <1>q
<1>2. ASSUME NEW s \in Session, Find(s) PROVE P /\ Q
  <2>1. \A m \in Minions : row'[m] = row[m] \/ row'[m] = NewRow
    BY <1>2 DEF Find, FindOrCreate
  <2>2. \A m \in Minions, b \in Brokers : row'[m] = OnlineAt(b) => row[m] = OnlineAt(b)
    BY <2>1 DEF NewRow, OnlineAt
  <2>3. \A x \in Session : pc'[x] \in {"undo", "del"} => pc'[x] = pc[x]
    BY <1>2 DEF Find, Goto, Return
  <2>4. UNCHANGED <<node, huber>>
    BY <1>2 DEF Find
  <2>5. QED
    BY <2>2, <2>3, <2>4, <1>p, <1>q
<1>3. ASSUME NEW s \in Session, Put(s) PROVE P /\ Q
  <2>1. UNCHANGED <<node, row>>
    BY <1>3 DEF Put
  <2>2. \A x \in Session : pc'[x] \in {"undo", "del"} => pc'[x] = pc[x]
    BY <1>3 DEF Put, Goto, Return
  <2>3. s.broker \in Brokers /\ s.minion \in Minions /\ s # NoSession
    OBVIOUS
  <2>4. huber' = huber \/ huber' = [huber EXCEPT ![s.broker][s.minion] = s]
    BY <1>3 DEF Put
  <2>5. \A b \in Brokers, m \in Minions : huber'[b][m] = huber[b][m] \/ huber'[b][m] = s
    BY <2>3, <2>4
  <2>6. QED
    BY <2>1, <2>2, <2>3, <2>5, <1>p, <1>q
<1>4. ASSUME NEW s \in Session, Claim(s) PROVE P /\ Q
  <2>1. s.broker \in Brokers /\ s.minion \in Minions /\ s # NoSession
    OBVIOUS
  <2>2. \A m \in Minions : row'[m] = row[m] \/ (m = s.minion /\ row'[m] = OnlineAt(s.broker))
    BY <1>4, <2>1, MarkFacts DEF Claim
  <2>3. huber[s.broker][s.minion] = s
    BY <1>4 DEF Claim, Goto, EntryOwned, Entered
  <2>4. UNCHANGED <<node, huber>> /\ pc[s] = "put" /\ pc' = [pc EXCEPT ![s] = "claimed"]
    BY <1>4 DEF Claim, Goto
  <2>5. P
    BY <2>1, <2>2, <2>3, <2>4, <1>p, OnlineFacts
  <2>6. ASSUME NEW x \in Session, pc'[x] = "del", row'[x.minion] = OnlineAt(x.broker)
        PROVE  FALSE
    <3>1. pc[x] = "del" /\ x # s
      BY <2>4, <2>6
    <3>2. huber[x.broker][x.minion] = x
      BY <3>1 DEF EntryOwned, Entered
    <3>3. x.broker \in Brokers /\ x.minion \in Minions
      OBVIOUS
    <3>4. x.minion = s.minion /\ x.broker = s.broker
      BY <1>q, <2>1, <2>2, <2>6, <3>1, <3>3, OnlineFacts
    <3>5. QED
      BY <2>3, <3>1, <3>2, <3>4
  <2>7. QED
    BY <2>4, <2>5, <2>6, <1>q
<1>5. ASSUME NEW s \in Session, Undo(s) \/ ClaimFault(s) PROVE P /\ Q
  BY <1>5, <1>z, <1>q DEF Undo, ClaimFault, Fault, Return, Goto
<1>6. ASSUME NEW s \in Session, Release(s) PROVE P /\ Q
  <2>1. s.broker \in Brokers /\ s.minion \in Minions
    OBVIOUS
  <2>2. row' = MarkOffline(row, s.minion, s.broker)
    BY <1>6, <1>z DEF Release, Fault
  <2>3. /\ \A m \in Minions, b \in Brokers : row'[m] = OnlineAt(b) => row[m] = OnlineAt(b)
        /\ row'[s.minion] # OnlineAt(s.broker)
    BY <2>1, <2>2 DEF MarkOffline, OnlineAt, Row
  <2>4. UNCHANGED <<node, huber>> /\ pc' = [pc EXCEPT ![s] = "del"]
    BY <1>6 DEF Release, Goto
  <2>5. P
    BY <2>3, <2>4, <1>p
  <2>6. Q
    BY <2>1, <2>3, <2>4, <1>q
  <2>7. QED
    BY <2>5, <2>6
<1>7. ASSUME NEW s \in Session, Leave(s) PROVE P /\ Q
  <2>1. s.broker \in Brokers /\ s.minion \in Minions
    OBVIOUS
  <2>2. UNCHANGED <<node, row>> /\ pc[s] = "del" /\ pc' = [pc EXCEPT ![s] = "idle"]
    BY <1>7 DEF Leave, Return, Goto
  <2>3. huber' = [huber EXCEPT ![s.broker][s.minion] = NoSession]
    BY <1>7 DEF Leave, DelByID
  <2>4. row[s.minion] # OnlineAt(s.broker)
    BY <2>2, <1>q
  <2>5. P
    BY <2>1, <2>2, <2>3, <2>4, <1>p
  <2>6. QED
    BY <2>2, <2>5, <1>q
<1>8. ASSUME NEW b \in Brokers, Start(b) \/ Stop(b) PROVE P /\ Q
  <2>1. row' = MarkAllOffline(row, b)
    BY <1>8, <1>z DEF Start, Stop, ResetAgents, Fault
  <2>2. /\ \A m \in Minions, c \in Brokers : row'[m] = OnlineAt(c) => row[m] = OnlineAt(c)
        /\ \A m \in Minions : row'[m] # OnlineAt(b)
    BY <2>1 DEF MarkAllOffline, OnlineAt, Row
  <2>3. UNCHANGED <<huber, pc>>
    BY <1>8 DEF Start, Stop
  <2>4. \A c \in Brokers : c # b => node'[c] = node[c]
    BY <1>8 DEF Start, Stop
  <2>5. QED
    BY <2>2, <2>3, <2>4, <1>p, <1>q
<1>9. ASSUME NEW b \in Brokers, Exit(b) PROVE P /\ Q
  <2>1. node'[b] = "down" /\ \A c \in Brokers : c # b => /\ node'[c] = node[c]
                                                     /\ huber'[c] = huber[c]
    BY <1>9 DEF Exit
  <2>2. UNCHANGED row /\ \A x \in Session : pc'[x] \in {"undo", "del"} => pc'[x] = pc[x]
    BY <1>9 DEF Exit
  <2>3. QED
    BY <2>1, <2>2, <1>p, <1>q
<1>10. ASSUME NEW m \in Minions, NEW st \in {"inactive", "offline", "delete"},
              ManagerSet(m, st)
       PROVE  P /\ Q
  <2>1. \A n \in Minions, b \in Brokers : row'[n] = OnlineAt(b) => row[n] = OnlineAt(b)
    BY <1>10 DEF ManagerSet, OnlineAt, Row
  <2>2. UNCHANGED <<node, huber, pc>>
    BY <1>10 DEF ManagerSet
  <2>3. QED
    BY <2>1, <2>2, <1>p, <1>q
<1>11. QED
  BY <1>0, <1>1, <1>2, <1>3, <1>4, <1>5, <1>6, <1>7, <1>8, <1>9, <1>10 DEF Next, HandleStep

\* Without database errors, what the table says is online at a running broker is in that
\* broker's huber.
THEOREM ReachableProved == Spec => []OnlineRowHasEntry
<1>1. Init => ReachInv
  <2>1. Init => TypeOK
    BY DEF Init, TypeOK, PC, AbsentRow, Row, Status
  <2>2. QED
    BY <2>1 DEF Init, ReachInv, EntryOwned, Entered, OnlineRowHasEntry, LeavingReleased
<1>2. ReachInv => OnlineRowHasEntry
  BY DEF ReachInv
<1>3. QED
  BY <1>1, <1>2, ReachStep, PTL DEF Spec
=============================================================================
