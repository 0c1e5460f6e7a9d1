------------------------ MODULE SharedStringsProofs ------------------------
(***************************************************************************)
(* Proofs about SharedStrings, for any keys, requests, lifetimes, amounts, *)
(* clock and number of failing statements.                                 *)
(***************************************************************************)
EXTENDS SharedStrings, TLAPS

USE StoreAssumption

\* The values Set and Incr compute from what they were called with and what they found.
LEMMA ValueType ==
    ASSUME TypeOK, NEW r \in Requests
    PROVE  /\ Amount(r) \in Int
           /\ Lifetime(r) \in Nat
           /\ call[r].key \in Keys
           /\ NewRow(r) \in KVData
           /\ old[r] # NoRow => old[r] \in KVData /\ old[r].version \in Nat
<1> USE DEF TypeOK
<1>1. call[r] \in Call
  OBVIOUS
<1>2. /\ call[r].key \in Keys /\ call[r].n \in Int /\ call[r].life \in Int /\ call[r].at \in Nat
  BY <1>1 DEF Call
<1>3. old[r] # NoRow => old[r] \in KVData /\ old[r].version \in Nat /\ old[r].life \in Nat
  BY DEF KVData
<1>4. Clamp(call[r].life) \in Nat
  BY <1>2 DEF Clamp
<1>5. Amount(r) \in Int /\ Lifetime(r) \in Nat
  BY <1>2, <1>3, <1>4 DEF Amount, Lifetime
<1>6. NewRow(r) \in KVData
  BY <1>2, <1>4, <1>5 DEF NewRow, KVData
<1>7. QED
  BY <1>2, <1>3, <1>5, <1>6

\* The row an UPDATE leaves is a row, with the version after the one that was found; a Set
\* does not touch the count, an Incr sets it to what it found plus its amount.
LEMMA ChangedFacts ==
    ASSUME TypeOK, NEW r \in Requests, NEW row \in KVData, old[r] # NoRow
    PROVE  /\ Changed(r, row) \in KVData
           /\ Changed(r, row).version = old[r].version + 1
           /\ call[r].op = "set" => Changed(r, row).count = row.count
           /\ call[r].op # "set" => Changed(r, row).count = old[r].count + Amount(r)
<1>1. /\ Lifetime(r) \in Nat /\ Amount(r) \in Int
      /\ old[r].version \in Nat /\ old[r].count \in Int /\ call[r].at \in Nat
  BY ValueType DEF KVData, TypeOK, Call
<1>2. /\ call[r].at + Lifetime(r) \in Nat
      /\ old[r].version + 1 \in Nat
      /\ old[r].count + Amount(r) \in Int
  BY <1>1
<1>3. CASE call[r].op = "set"
  <2>1. Changed(r, row) = [row EXCEPT !.value = r, !.expires = call[r].at + Lifetime(r),
                                      !.version = old[r].version + 1]
    BY <1>3 DEF Changed
  <2>2. QED
    BY <1>2, <1>3, <2>1 DEF KVData
<1>4. CASE call[r].op # "set"
  <2>1. Changed(r, row) = [row EXCEPT !.count = old[r].count + Amount(r), !.life = Lifetime(r),
                                      !.expires = call[r].at + Lifetime(r),
                                      !.version = old[r].version + 1]
    BY <1>4 DEF Changed
  <2>2. QED
    BY <1>1, <1>2, <1>4, <2>1 DEF KVData
<1>5. QED
  BY <1>3, <1>4

\* What a request may ask for is well-typed.
LEMMA CallsAreCalls == Calls \subseteq Call
<1>1. 0..MaxTime \subseteq Nat /\ Lifetimes \subseteq Int /\ Amounts \subseteq Int
  OBVIOUS
<1>2. ASSUME NEW c \in [op : {"get", "del"}, key : Keys, life : {0}, n : {0}, at : 0..MaxTime]
      PROVE  c \in Call
  BY <1>1 DEF Call
<1>3. ASSUME NEW c \in [op : {"set"}, key : Keys, life : Lifetimes, n : {0}, at : 0..MaxTime]
      PROVE  c \in Call
  <2>1. c.op = "set" /\ c.key \in Keys /\ c.life \in Int /\ c.n = 0 /\ c.at \in Nat
    BY <1>1
  <2>2. c = [op |-> c.op, key |-> c.key, life |-> c.life, n |-> c.n, at |-> c.at]
    OBVIOUS
  <2>3. QED
    BY <2>1, <2>2 DEF Call
<1>4. ASSUME NEW c \in [op : {"incr"}, key : Keys, life : Lifetimes, n : Amounts, at : 0..MaxTime]
      PROVE  c \in Call
  BY <1>1 DEF Call
<1>5. QED
  BY <1>2, <1>3, <1>4 DEF Calls

\* Every statement of every request keeps the types.
LEMMA TypeStep == TypeOK /\ VersionsGrow /\ [Next]_vars => TypeOK'
<1> SUFFICES ASSUME TypeOK, VersionsGrow, [Next]_vars PROVE TypeOK'
  OBVIOUS
<1>0. CASE UNCHANGED vars
  BY <1>0 DEF vars, TypeOK
<1>1. CASE Tick
  BY <1>1 DEF Tick, TypeOK
<1>2. ASSUME NEW r \in Requests, NEW c \in Calls, Begin(r, c) PROVE TypeOK'
  <2>1. c \in Call
    BY CallsAreCalls
  <2>2. pc' = [pc EXCEPT ![r] = "get"] \/ pc' = [pc EXCEPT ![r] = "del"]
        \/ pc' = [pc EXCEPT ![r] = "find"]
    <3>1. CASE c.op = "get"
      BY <1>2, <3>1 DEF Begin, Goto
    <3>2. CASE c.op = "del"
      BY <1>2, <3>2 DEF Begin, Goto
    <3>3. CASE c.op \notin {"get", "del"}
      BY <1>2, <3>3 DEF Begin, Goto
    <3>4. QED
      BY <3>1, <3>2, <3>3
  <2>3. QED
    BY <1>2, <2>1, <2>2 DEF Begin, TypeOK
<1>3. ASSUME NEW r \in Requests, Find(r) PROVE TypeOK'
  BY <1>3, ValueType DEF Find, Goto, TypeOK
<1>4. ASSUME NEW r \in Requests, Purge(r) PROVE TypeOK'
  BY <1>4, ValueType DEF Purge, Goto, TypeOK
<1>5. ASSUME NEW r \in Requests, Create(r) PROVE TypeOK'
  <2>1. NewRow(r).count \in Int /\ call[r].key \in Keys /\ NewRow(r) \in KVData
    BY ValueType DEF KVData
  <2>2. pc' \in [Requests -> {"idle", "find", "purge", "create", "update", "get", "del", "done", "error"}]
    BY <1>5 DEF Create, GotoAny, Goto, After, TypeOK
  <2>3. data' \in [Keys -> KVData \cup {NoRow}]
    BY <1>5, <2>1 DEF Create, TypeOK
  <2>4. born' \in [Keys -> Nat] /\ applied' \in [Keys -> Int] /\ crossed' \subseteq Keys
    BY <1>5, <2>1 DEF Create, TypeOK
  <2>5. QED
    BY <1>5, <2>2, <2>3, <2>4 DEF Create, TypeOK
<1>6. ASSUME NEW r \in Requests, Update(r) PROVE TypeOK'
  <2>1. call[r].key \in Keys /\ Amount(r) \in Int
    BY ValueType
  <2>2. old[r] # NoRow
    BY <1>6 DEF Update, GotoAny, Goto, VersionsGrow
  <2>3. data' \in [Keys -> KVData \cup {NoRow}]
    BY <1>6, <2>1, <2>2, ChangedFacts DEF Update, Matches, TypeOK
  <2>4. pc' \in [Requests -> {"idle", "find", "purge", "create", "update", "get", "del", "done", "error"}]
    BY <1>6 DEF Update, GotoAny, Goto, After, TypeOK
  <2>5. applied' \in [Keys -> Int] /\ crossed' \subseteq Keys
    BY <1>6, <2>1 DEF Update, TypeOK
  <2>6. QED
    BY <1>6, <2>3, <2>4, <2>5 DEF Update, TypeOK
<1>7. ASSUME NEW r \in Requests, Get(r) PROVE TypeOK'
  <2>1. call[r].key \in Keys
    BY ValueType
  <2>2. result' \in [Requests -> [row : KVData \cup {NoRow}, at : Nat]]
    BY <1>7, <2>1 DEF Get, TypeOK
  <2>3. QED
    BY <1>7, <2>2 DEF Get, Goto, TypeOK
<1>8. ASSUME NEW r \in Requests, Del(r) PROVE TypeOK'
  BY <1>8 DEF Del, Goto, TypeOK
<1>9. ASSUME NEW r \in Requests, Fail(r) PROVE TypeOK'
  BY <1>9 DEF Fail, Goto, TypeOK
<1>10. QED
  BY <1>0, <1>1, <1>2, <1>3, <1>4, <1>5, <1>6, <1>7, <1>8, <1>9 DEF Next

\* Every UPDATE that matches raises the version, and every new row is a new incarnation of
\* its key; so a version a request has read identifies the row while the row lives.
LEMMA GrowStep == TypeOK /\ VersionsGrow /\ [Next]_vars => VersionsGrow'
<1> SUFFICES ASSUME TypeOK, VersionsGrow, [Next]_vars PROVE VersionsGrow'
  OBVIOUS
<1> DEFINE Fine(q, k) ==
      pc[q] = "update" =>
          /\ old[q] # NoRow
          /\ seen[q] <= born[k]
          /\ seen[q] = born[k] /\ data[k] # NoRow =>
                /\ old[q].version <= data[k].version
                /\ old[q].version = data[k].version => data[k] = old[q]
<1>a. \A q \in Requests : Fine(q, call[q].key)
  BY DEF VersionsGrow
<1>b. \A q \in Requests : call[q].key \in Keys
  BY ValueType
<1>c. SUFFICES ASSUME NEW q \in Requests PROVE Fine(q, call[q].key)'
  BY DEF VersionsGrow
<1>0. CASE UNCHANGED vars \/ Tick
  BY <1>0, <1>a DEF vars, Tick
<1>1. ASSUME NEW r \in Requests, Get(r) \/ \E c \in Calls : Begin(r, c)
      PROVE  Fine(q, call[q].key)'
  <2>1. pc'[q] = "update" => pc[q] = "update" /\ call'[q] = call[q]
    <3>1. CASE Get(r)
      BY <3>1 DEF Get, Goto, TypeOK
    <3>2. ASSUME NEW c \in Calls, Begin(r, c)
          PROVE  pc'[q] = "update" => pc[q] = "update" /\ call'[q] = call[q]
      <4>1. pc[r] = "idle" /\ \E to \in {"get", "del", "find"} : pc' = [pc EXCEPT ![r] = to]
        BY <3>2 DEF Begin, Goto
      <4>2. QED
        BY <3>2, <4>1 DEF Begin, TypeOK
    <3>3. QED
      BY <1>1, <3>1, <3>2
  <2>2. UNCHANGED <<data, old, born, seen>>
    BY <1>1 DEF Get, Begin
  <2>3. QED
    BY <2>1, <2>2, <1>a
<1>2. ASSUME NEW r \in Requests, Find(r) PROVE Fine(q, call[q].key)'
  <2>1. UNCHANGED <<data, call, born>>
    BY <1>2 DEF Find
  <2>2. CASE q # r
    BY <1>2, <2>1, <2>2, <1>a DEF Find, Goto, TypeOK
  <2>3. CASE q = r
    <3>1. /\ seen'[r] = born[call[r].key]
          /\ old'[r] \in {data[call[r].key], NoRow}
          /\ pc'[r] = "update" => old'[r] # NoRow
      BY <1>2 DEF Find, Goto, TypeOK
    <3>2. data[call[r].key] # NoRow => data[call[r].key].version \in Nat
      BY <1>b DEF TypeOK, KVData
    <3>3. born[call[r].key] \in Nat
      BY <1>b DEF TypeOK
    <3>4. QED
      BY <2>1, <2>3, <3>1, <3>2, <3>3
  <2>4. QED
    BY <2>2, <2>3
<1>3. ASSUME NEW r \in Requests, Purge(r) \/ Del(r) \/ Fail(r) PROVE Fine(q, call[q].key)'
  <2>1. pc'[q] = "update" => pc[q] = "update"
    BY <1>3 DEF Purge, Del, Fail, Goto, TypeOK
  <2>2. UNCHANGED <<call, old, born, seen>>
    BY <1>3 DEF Purge, Del, Fail
  <2>3. \A k \in Keys : data'[k] \in {data[k], NoRow}
    BY <1>3, <1>b DEF Purge, Del, Fail, TypeOK
  <2>4. QED
    BY <2>1, <2>2, <2>3, <1>a, <1>b
<1>4. ASSUME NEW r \in Requests, Create(r) PROVE Fine(q, call[q].key)'
  <2>1. pc'[q] = "update" => pc[q] = "update"
    BY <1>4 DEF Create, GotoAny, Goto, After, TypeOK
  <2>2. UNCHANGED <<call, old, seen>>
    BY <1>4 DEF Create
  <2>3. \A k \in Keys : \/ data'[k] = data[k] /\ born'[k] = born[k]
                        \/ born'[k] = born[k] + 1
    BY <1>4, <1>b DEF Create, TypeOK
  <2>4. \A k \in Keys : born[k] \in Nat /\ seen[q] \in Nat
    BY DEF TypeOK
  <2>5. QED
    BY <2>1, <2>2, <2>3, <2>4, <1>a, <1>b
<1>5. ASSUME NEW r \in Requests, Update(r) PROVE Fine(q, call[q].key)'
  <2>1. pc'[q] = "update" => pc[q] = "update"
    BY <1>5 DEF Update, GotoAny, Goto, After, TypeOK
  <2>2. UNCHANGED <<call, old, born, seen>>
    BY <1>5 DEF Update
  <2>3. old[r] # NoRow /\ old[r].version \in Nat
    BY <1>5, <1>a, ValueType DEF Update, GotoAny, Goto
  <2>4. \A k \in Keys : data[k] # NoRow => data[k] \in KVData /\ data[k].version \in Nat
    BY DEF TypeOK, KVData
  <2>5. \A k \in Keys : \/ data'[k] = data[k]
                        \/ data[k] # NoRow /\ data'[k].version = data[k].version + 1
    <3>1. CASE ~Matches(r, data[call[r].key])
      <4>1. data' = data
        BY <1>5, <3>1 DEF Update, Matches
      <4>2. QED
        BY <4>1
    <3>2. CASE Matches(r, data[call[r].key])
      <4>1. data' = [data EXCEPT ![call[r].key] = Changed(r, data[call[r].key])]
        BY <1>5, <3>2 DEF Update, Matches
      <4>2. data[call[r].key] \in KVData /\ data[call[r].key].version = old[r].version
        BY <1>b, <2>4, <3>2 DEF Matches
      <4>3. Changed(r, data[call[r].key]).version = old[r].version + 1
        BY <2>3, <4>2, ChangedFacts
      <4>4. data[call[r].key] # NoRow
        BY <3>2 DEF Matches
      <4>5. QED
        <5>1. data \in [Keys -> KVData \cup {NoRow}] /\ call[r].key \in Keys
          BY <1>b DEF TypeOK
        <5>2. QED
          BY ONLY <4>1, <4>2, <4>3, <4>4, <5>1
    <3>3. QED
      BY <3>1, <3>2
  <2>6. pc[q] = "update" => old[q].version \in Nat
    BY <1>a, ValueType
  <2>7. QED
    BY <2>1, <2>2, <2>4, <2>5, <2>6, <1>a, <1>b
<1>6. QED
  BY <1>0, <1>1, <1>2, <1>3, <1>4, <1>5 DEF Next

\* Type correctness, and what versions say about rows, in every reachable state.
LEMMA GrowInvariant == Spec => [](TypeOK /\ VersionsGrow)
<1>1. Init => TypeOK /\ VersionsGrow
  <2>1. NoCall \in Call
    BY DEF NoCall, Call
  <2>2. QED
    BY <2>1 DEF Init, TypeOK, VersionsGrow
<1>2. QED
  BY <1>1, TypeStep, GrowStep, PTL DEF Spec

\* Type correctness of the store.
THEOREM TypeCorrect == Spec => []TypeOK
  BY GrowInvariant, PTL

\* An UPDATE that matches finds the row its request has read, unless the row was deleted
\* and created anew in between.
THEOREM VersionProved == Spec => []VersionIdentifiesRow
<1>1. TypeOK /\ VersionsGrow => VersionIdentifiesRow
  BY DEF VersionsGrow, VersionIdentifiesRow, Matches
<1>2. QED
  BY <1>1, GrowInvariant, PTL

\* Every step keeps the counters exact: an increment is added to the count its request has
\* read, which is the count of the row.
LEMMA CountStep == TypeOK /\ VersionsGrow /\ CountExact /\ [Next]_vars => CountExact'
<1> SUFFICES ASSUME TypeOK, VersionsGrow, CountExact, [Next]_vars,
                    NEW k \in Keys, data'[k] # NoRow, k \notin crossed'
             PROVE  data'[k].count = applied'[k]
  BY DEF CountExact
<1>b. \A q \in Requests : call[q].key \in Keys
  BY ValueType
<1>0. CASE UNCHANGED vars \/ Tick
  BY <1>0 DEF vars, Tick, CountExact
<1>1. ASSUME NEW r \in Requests, Get(r) \/ Find(r) \/ \E c \in Calls : Begin(r, c)
      PROVE  data'[k].count = applied'[k]
  BY <1>1 DEF Get, Find, Begin, CountExact
<1>2. ASSUME NEW r \in Requests, Purge(r) \/ Del(r) \/ Fail(r) PROVE data'[k].count = applied'[k]
  <2>1. data'[k] \in {data[k], NoRow}
    BY <1>2, <1>b DEF Purge, Del, Fail, TypeOK
  <2>2. UNCHANGED <<applied, crossed>>
    BY <1>2 DEF Purge, Del, Fail
  <2>3. QED
    BY <2>1, <2>2 DEF CountExact
<1>3. ASSUME NEW r \in Requests, Create(r) PROVE data'[k].count = applied'[k]
  BY <1>3, <1>b DEF Create, CountExact, TypeOK
<1>4. ASSUME NEW r \in Requests, Update(r) PROVE data'[k].count = applied'[k]
  <2>1. CASE call[r].key # k \/ ~Matches(r, data[call[r].key])
    <3>1. data'[k] = data[k] /\ applied'[k] = applied[k] /\ k \notin crossed
      BY <1>4, <1>b, <2>1 DEF Update, TypeOK
    <3>2. QED
      BY <3>1 DEF CountExact
  <2>2. CASE call[r].key = k /\ Matches(r, data[k])
    <3>1. /\ data'[k] = Changed(r, data[k])
          /\ applied'[k] = IF call[r].op = "set" THEN applied[k] ELSE applied[k] + Amount(r)
          /\ seen[r] = born[k] /\ k \notin crossed /\ pc[r] = "update"
      BY <1>4, <2>2 DEF Update, GotoAny, Goto, TypeOK
    <3>2. data[k] = old[r] /\ old[r] # NoRow /\ data[k] \in KVData
      BY <2>2, <3>1 DEF VersionsGrow, Matches, TypeOK
    <3>3. data[k].count = applied[k]
      BY <3>1, <3>2 DEF CountExact
    <3>4. QED
      BY <3>1, <3>2, <3>3, ChangedFacts
  <2>3. QED
    BY <2>1, <2>2
<1>5. QED
  BY <1>0, <1>1, <1>2, <1>3, <1>4 DEF Next

\* No increment that was applied is lost or counted twice, unless an UPDATE meant for an
\* earlier row hit the counter.
THEOREM CountProved == Spec => []CountExact
<1>1. Init => CountExact
  BY DEF Init, CountExact
<1>2. QED
  BY <1>1, CountStep, GrowInvariant, PTL DEF Spec
=============================================================================
