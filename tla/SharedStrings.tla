--------------------------- MODULE SharedStrings ---------------------------
(***************************************************************************)
(* The key-value store the brokers offer to agents (app/agtsvc/shared_     *)
(* strings.go): rows of one bucket of the kv_data table, read and written  *)
(* by concurrent requests, each a sequence of single SQL statements        *)
(* without a transaction.                                                  *)
(***************************************************************************)
EXTENDS Integers

CONSTANTS
    Keys,       \* the keys of the bucket
    Requests,   \* HTTP requests, each makes one call
    Lifetimes,  \* lifetimes a request may ask for (none if not positive)
    Amounts,    \* amounts an Incr may ask for (0: the default)
    NoRow,      \* no row under a key
    MaxTime,    \* bound on the clock
    MaxFaults   \* bound on failing statements

\* model.KVData; value is the request that set it, expires is expired_at.
KVData == [value : Requests \cup {NoRow}, count : Int, life : Nat, expires : Nat, version : Nat]

ASSUME StoreAssumption ==
    /\ Lifetimes \subseteq Int /\ Amounts \subseteq Int
    /\ Keys # {} /\ MaxTime \in Nat /\ MaxFaults \in Nat
    /\ NoRow \notin KVData

VARIABLES
    data,     \* key -> its row
    clock,    \* time.Now()
    pc,       \* request -> its next statement
    call,     \* request -> what it was called with, and the `now` it took at the start
    old,      \* request -> the row find returned
    result,   \* request -> the row Get returned, and when
    faults,   \* failed statements so far
    born,     \* (history) key -> rows created under it so far
    seen,     \* (history) request -> the value of born its old belongs to
    applied,  \* (history) key -> sum of the increments applied to the current row
    crossed   \* (history) keys whose row was written by an UPDATE meant for an earlier row

vars == <<data, clock, pc, call, old, result, faults, born, seen, applied, crossed>>

Call == [op : {"none", "get", "set", "incr", "del"}, key : Keys, life : Int, n : Int, at : Nat]

TypeOK ==
    /\ data \in [Keys -> KVData \cup {NoRow}]
    /\ clock \in 0..MaxTime
    /\ pc \in [Requests -> {"idle", "find", "purge", "create", "update", "get", "del", "done", "error"}]
    /\ call \in [Requests -> Call]
    /\ old \in [Requests -> KVData \cup {NoRow}]
    /\ result \in [Requests -> [row : KVData \cup {NoRow}, at : Nat]]
    /\ faults \in 0..MaxFaults
    /\ born \in [Keys -> Nat]
    /\ seen \in [Requests -> Nat]
    /\ applied \in [Keys -> Int]
    /\ crossed \subseteq Keys

NoCall == [op |-> "none", key |-> CHOOSE k \in Keys : TRUE, life |-> 0, n |-> 0, at |-> 0]

Init ==
    /\ data = [k \in Keys |-> NoRow]
    /\ clock = 0
    /\ pc = [r \in Requests |-> "idle"]
    /\ call = [r \in Requests |-> NoCall]
    /\ old = [r \in Requests |-> NoRow]
    /\ result = [r \in Requests |-> [row |-> NoRow, at |-> 0]]
    /\ faults = 0
    /\ born = [k \in Keys |-> 0]
    /\ seen = [r \in Requests |-> 0]
    /\ applied = [k \in Keys |-> 0]
    /\ crossed = {}

Goto(r, from, to) == pc[r] = from /\ pc' = [pc EXCEPT ![r] = to]

GotoAny(r, from, To) == \E to \in To : Goto(r, from, to)

\* External: model.KVData.Expired.
Expired(row, now) == row.life > 0 /\ row.expires < now

\* The condition of Get's query as the code builds it.
Survival(row, now) == row.life >= 0 \/ (row.life > 0 /\ row.expires >= now)

\* Incr: an amount of 0 means 1.
Amount(r) == IF call[r].n = 0 THEN 1 ELSE call[r].n

\* Set: if lifetime < 0 { lifetime = 0 }
Clamp(life) == IF life < 0 THEN 0 ELSE life

\* Set and Incr: a lifetime that is not asked for is the one of the row that was found.
Lifetime(r) ==
    IF call[r].life <= 0 /\ old[r] # NoRow THEN old[r].life ELSE Clamp(call[r].life)

\* Where a call goes on after its write: Incr, and Set if asked to, read the row again.
After(r) == IF call[r].op = "incr" THEN {"get"} ELSE {"get", "done"}
-----------------------------------------------------------------------------
Tick ==
    /\ clock < MaxTime
    /\ clock' = clock + 1
    /\ UNCHANGED <<data, pc, call, old, result, faults, born, seen, applied, crossed>>

\* A request arrives (sharedAPI binds it) and takes its `now`.
Begin(r, c) ==
    /\ Goto(r, "idle", CASE c.op = "get" -> "get" [] c.op = "del" -> "del" [] OTHER -> "find")
    /\ c.at = clock
    /\ call' = [call EXCEPT ![r] = c]
    /\ UNCHANGED <<data, clock, old, result, faults, born, seen, applied, crossed>>

\* find and the choice the caller makes with it; an error is taken for no row.
Find(r) ==
    LET k == call[r].key IN
    \E row \in {data[k], NoRow} :
        /\ \/ row = data[k] /\ UNCHANGED faults
           \/ row # data[k] /\ faults < MaxFaults /\ faults' = faults + 1
        /\ old' = [old EXCEPT ![r] = row]
        /\ seen' = [seen EXCEPT ![r] = born[k]]
        /\ Goto(r, "find", IF row = NoRow THEN "create"
                           ELSE IF Expired(row, call[r].at) THEN "purge" ELSE "update")
        /\ UNCHANGED <<data, clock, call, result, born, applied, crossed>>

\* Delete the expired row: Set only in the version it found, Incr in any.
Purge(r) ==
    LET k == call[r].key IN
    /\ Goto(r, "purge", "create")
    /\ data' = IF data[k] # NoRow /\ (call[r].op = "incr" \/ data[k].version = old[r].version)
               THEN [data EXCEPT ![k] = NoRow] ELSE data
    /\ UNCHANGED <<clock, call, old, result, faults, born, seen, applied, crossed>>

\* The row Set or Incr inserts: an Incr stores no lifetime.
NewRow(r) ==
    LET c == call[r] IN
    IF c.op = "set"
    THEN [value |-> r, count |-> 0, life |-> Clamp(c.life), expires |-> c.at + Clamp(c.life),
          version |-> 1]
    ELSE [value |-> NoRow, count |-> Amount(r), life |-> 0,
          expires |-> c.at + Lifetime(r), version |-> 1]

\* Create; bucket and key are unique, so that a row somebody else created is an error.
Create(r) ==
    LET k == call[r].key IN
    \/ /\ data[k] = NoRow
       /\ GotoAny(r, "create", After(r))
       /\ data' = [data EXCEPT ![k] = NewRow(r)]
       /\ born' = [born EXCEPT ![k] = @ + 1]
       /\ applied' = [applied EXCEPT ![k] = NewRow(r).count]
       /\ crossed' = crossed \ {k}
       /\ UNCHANGED <<clock, call, old, result, faults, seen>>
    \/ /\ data[k] # NoRow
       /\ Goto(r, "create", "error")
       /\ UNCHANGED <<data, clock, call, old, result, faults, born, seen, applied, crossed>>

\* Variant of Changed that leaves the version as it was.
ChangedSameVersion(r, row) ==
    LET c == call[r]  exp == c.at + Lifetime(r) IN
    IF c.op = "set"
    THEN [row EXCEPT !.value = r, !.expires = exp]
    ELSE [row EXCEPT !.count = old[r].count + Amount(r), !.life = Lifetime(r), !.expires = exp]

\* The columns the UPDATE of Set or Incr writes.
Changed(r, row) ==
    LET c == call[r]  exp == c.at + Lifetime(r)  ver == old[r].version + 1 IN
    IF c.op = "set"
    THEN [row EXCEPT !.value = r, !.expires = exp, !.version = ver]
    ELSE [row EXCEPT !.count = old[r].count + Amount(r), !.life = Lifetime(r),
                     !.expires = exp, !.version = ver]

\* Variant of Matches without the condition on the version.
MatchesKey(r, row) == row # NoRow

\* WHERE bucket = ? AND key = ? AND version = old.version
Matches(r, row) == row # NoRow /\ row.version = old[r].version

\* UPDATE; the number of rows it changed is not looked at.
Update(r) ==
    LET k == call[r].key IN
    /\ GotoAny(r, "update", After(r))
    /\ \/ /\ Matches(r, data[k])
          /\ data' = [data EXCEPT ![k] = Changed(r, data[k])]
          /\ applied' = IF call[r].op = "set" THEN applied
                        ELSE [applied EXCEPT ![k] = @ + Amount(r)]
          /\ crossed' = IF seen[r] = born[k] THEN crossed ELSE crossed \cup {k}
       \/ /\ ~Matches(r, data[k])
          /\ UNCHANGED <<data, applied, crossed>>
    /\ UNCHANGED <<clock, call, old, result, faults, born, seen>>

\* Get, by itself or at the end of another call, with a `now` of its own.
Get(r) ==
    LET row == data[call[r].key] IN
    /\ \/ /\ row # NoRow /\ Survival(row, clock)
          /\ Goto(r, "get", "done")
          /\ result' = [result EXCEPT ![r] = [row |-> row, at |-> clock]]
       \/ /\ row = NoRow
          /\ Goto(r, "get", "error")
          /\ UNCHANGED result
    /\ UNCHANGED <<data, clock, call, old, faults, born, seen, applied, crossed>>

\* Del of one key, or, without a key, of the whole bucket.
Del(r) ==
    /\ Goto(r, "del", "done")
    /\ \E K \in {{call[r].key}, Keys} :
          data' = [k \in Keys |-> IF k \in K THEN NoRow ELSE data[k]]
    /\ UNCHANGED <<clock, call, old, result, faults, born, seen, applied, crossed>>

\* Any statement but find's may fail, and the call returns its error (an error after the
\* statement took effect ends the call in the same state as a success).
Fail(r) ==
    /\ faults < MaxFaults
    /\ faults' = faults + 1
    /\ \E from \in {"purge", "create", "update", "get", "del"} : Goto(r, from, "error")
    /\ UNCHANGED <<data, clock, call, old, result, born, seen, applied, crossed>>

\* What a request may ask for (param.SharedKey, SharedKeyValue, SharedKeyIncr).
Calls ==
    [op : {"get", "del"}, key : Keys, life : {0}, n : {0}, at : 0..MaxTime]
    \cup [op : {"set"}, key : Keys, life : Lifetimes, n : {0}, at : 0..MaxTime]
    \cup [op : {"incr"}, key : Keys, life : Lifetimes, n : Amounts, at : 0..MaxTime]

Next ==
    \/ Tick
    \/ \E r \in Requests :
          \/ \E c \in Calls : Begin(r, c)
          \/ Find(r) \/ Purge(r) \/ Create(r) \/ Update(r) \/ Get(r) \/ Del(r) \/ Fail(r)

Spec == Init /\ [][Next]_vars
-----------------------------------------------------------------------------
(* Properties. *)

\* The version column does its work as long as the row was not deleted and created anew
\* (a new row starts at version 1 again): an UPDATE that matches finds the very row its
\* request has read.
VersionIdentifiesRow ==
    \A r \in Requests :
        LET k == call[r].key IN
        pc[r] = "update" /\ seen[r] = born[k] /\ Matches(r, data[k]) => data[k] = old[r]

\* What makes it inductive: versions only grow while a row lives.
VersionsGrow ==
    \A r \in Requests :
        LET k == call[r].key IN
        pc[r] = "update" =>
            /\ old[r] # NoRow
            /\ seen[r] <= born[k]
            /\ seen[r] = born[k] /\ data[k] # NoRow =>
                  /\ old[r].version <= data[k].version
                  /\ old[r].version = data[k].version => data[k] = old[r]

\* A counter is the sum of the increments that were applied to it, none lost and none
\* counted twice, unless an UPDATE meant for an earlier row under its key hit it.
CountExact ==
    \A k \in Keys : data[k] # NoRow /\ k \notin crossed => data[k].count = applied[k]

\* "AND (lifetime <= 0 OR (lifetime > 0 AND expired_at >= now))": Get returns no row that
\* has expired.
GetReturnsLive ==
    \A r \in Requests : result[r].row # NoRow => ~Expired(result[r].row, result[r].at)
=============================================================================
