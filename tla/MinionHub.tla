----------------------------- MODULE MinionHub -----------------------------
(***************************************************************************)
(* The agent gateway of a broker (bridge/gateway/join.go) and the hub that *)
(* holds its agent connections (bridge/mlink/hub.go), for several brokers  *)
(* over one minion table.                                                  *)
(*                                                                         *)
(* A session is one agent connection: a goroutine that runs ServeHTTP,     *)
(* Auth and Join.  Its pc names the next access to shared state (the table *)
(* or the hub's connection map), so that all interleavings of sessions, of *)
(* Knockout and of broker start, stop and crash are explored.              *)
(***************************************************************************)
EXTENDS MinionTable, Naturals

CONSTANTS
    Session,    \* the connections agents can make, each from one minion to one broker
    NoSession,  \* an empty entry of the hub's connection map
    MaxFaults   \* bound on failing database calls

ASSUME HubAssumption ==
    /\ \A s \in Session : s.broker \in Brokers /\ s.minion \in Minions
    /\ NoSession \notin Session
    /\ MaxFaults \in Nat

VARIABLES
    node,     \* broker -> "down", "running", or "stopping" (after the ResetDB at exit)
    row,      \* minion -> its row of the minion table
    tags,     \* minion -> the session whose ident its lifelong tags describe
    section,  \* broker -> minion -> the connection the hub's map holds
    pc,       \* session -> where its goroutine is
    mux,      \* session -> its smux session is "open" or "closed"
    closing,  \* sessions Knockout removed from the map and has yet to close
    kicked,   \* (history) broker, minion pairs hit by Knockout since the broker started
    faults    \* failed database calls so far

vars == <<node, row, tags, section, pc, mux, closing, kicked, faults>>

\* "authed": Auth accepted.  "put": in the map.  "online": won the row.  "tagged":
\* tags written.  "serving": in srv.Serve.  "gone": Serve returned, row still to be
\* released.  "del": the deferred section.Del and mux.Close are next.
PC == {"idle", "authed", "put", "online", "tagged", "serving", "gone", "del"}

TypeOK ==
    /\ node \in [Brokers -> {"down", "running", "stopping"}]
    /\ row \in [Minions -> Row]
    /\ tags \in [Minions -> Session \cup {NoSession}]
    /\ section \in [Brokers -> [Minions -> Session \cup {NoSession}]]
    /\ pc \in [Session -> PC]
    /\ mux \in [Session -> {"open", "closed"}]
    /\ closing \subseteq Session
    /\ kicked \subseteq Brokers \X Minions
    /\ faults \in 0..MaxFaults

Init ==
    /\ node = [b \in Brokers |-> "down"]
    /\ row = [m \in Minions |-> AbsentRow]
    /\ tags = [m \in Minions |-> NoSession]
    /\ section = [b \in Brokers |-> [m \in Minions |-> NoSession]]
    /\ pc = [s \in Session |-> "idle"]
    /\ mux = [s \in Session |-> "closed"]
    /\ closing = {}
    /\ kicked = {}
    /\ faults = 0

Goto(s, from, to) == pc[s] = from /\ pc' = [pc EXCEPT ![s] = to]

\* A database call fails (timeout, lost connection).
Fault == faults < MaxFaults /\ faults' = faults + 1
-----------------------------------------------------------------------------
(* The session goroutine: minionGateway.ServeHTTP, minionHub.Auth and Join. *)

\* lookupOrCreate: by machine id or inet; an unknown minion gets a row that is offline.
LookupOrCreate(m) == IF row[m].status = "absent" THEN [row EXCEPT ![m] = NewRow] ELSE row

\* Auth: look the row up or create it; an online or a deleted minion is refused, which
\* changes nothing (so is a failing lookup).  An inactive one is not refused.
Auth(s) ==
    LET m == s.minion IN
    /\ node[s.broker] # "down"
    /\ row[m].status \notin {"online", "delete"}
    /\ Goto(s, "idle", "authed")
    /\ row' = LookupOrCreate(m)
    /\ UNCHANGED <<node, tags, section, mux, closing, kicked, faults>>

\* ServeHTTP after Auth: encrypting, hijacking or writing the response fails.
Abort(s) ==
    /\ Goto(s, "authed", "idle")
    /\ UNCHANGED <<node, row, tags, section, mux, closing, kicked, faults>>

\* Variant of Put that stores over the entry of another session.
PutOverwrite(s) ==
    /\ Goto(s, "authed", "put")
    /\ section' = [section EXCEPT ![s.broker][s.minion] = s]
    /\ mux' = [mux EXCEPT ![s] = "open"]
    /\ UNCHANGED <<node, row, tags, closing, kicked, faults>>

\* Variant of Put after which the tags are written before the row is won.
PutTagsFirst(s) ==
    /\ section[s.broker][s.minion] = NoSession
    /\ Goto(s, "authed", "put")
    /\ section' = [section EXCEPT ![s.broker][s.minion] = s]
    /\ mux' = [mux EXCEPT ![s] = "open"]
    /\ tags' = [tags EXCEPT ![s.minion] = s]
    /\ UNCHANGED <<node, row, closing, kicked, faults>>

\* Join: smux.Server, then section.Put; an occupied entry ends the session
\* (ErrMinionOnline).
Put(s) ==
    LET b == s.broker  m == s.minion IN
    \/ /\ section[b][m] = NoSession
       /\ Goto(s, "authed", "put")
       /\ section' = [section EXCEPT ![b][m] = s]
       /\ mux' = [mux EXCEPT ![s] = "open"]
       /\ UNCHANGED <<node, row, tags, closing, kicked, faults>>
    \/ /\ section[b][m] # NoSession
       /\ Goto(s, "authed", "idle")
       /\ UNCHANGED <<node, row, tags, section, mux, closing, kicked, faults>>

\* Variant of ClaimRow whose UPDATE has no status condition.
ClaimRowUnguarded(s) ==
    /\ Goto(s, "put", "online")
    /\ row' = [row EXCEPT ![s.minion] = OnlineAt(s.broker)]
    /\ UNCHANGED <<node, tags, section, mux, closing, kicked, faults>>

\* Join: claim the row.  No row affected: return, running the deferred Del and Close.
ClaimRow(s) ==
    /\ Goto(s, "put", IF row[s.minion].status = "offline" THEN "online" ELSE "del")
    /\ row' = MarkOnline(row, s.minion, s.broker)
    /\ UNCHANGED <<node, tags, section, mux, closing, kicked, faults>>

\* The claim returns an error: whether or not the database applied it, Join returns
\* before it has deferred the release of the row.
ClaimRowFault(s) ==
    /\ Fault
    /\ Goto(s, "put", "del")
    /\ row' \in {row, MarkOnline(row, s.minion, s.broker)}
    /\ UNCHANGED <<node, tags, section, mux, closing, kicked>>

\* Join: replace the minion's lifelong tags, in a transaction whose errors are ignored:
\* a failing one leaves the tags as they were, deleted, or replaced.
ResetTags(s) ==
    /\ Goto(s, "online", "tagged")
    /\ \/ tags' = [tags EXCEPT ![s.minion] = s] /\ UNCHANGED faults
       \/ Fault /\ \E t \in {tags[s.minion], NoSession, s} : tags' = [tags EXCEPT ![s.minion] = t]
    /\ UNCHANGED <<node, row, section, mux, closing, kicked>>

\* Join: phase.Connected, then srv.Serve(mux).
Connected(s) ==
    /\ Goto(s, "tagged", "serving")
    /\ UNCHANGED <<node, row, tags, section, mux, closing, kicked, faults>>

\* The agent closes the connection, the network drops it, or no heartbeat came for
\* ReadTimeout (three intervals).
MuxBroken(s) ==
    /\ mux[s] = "open"
    /\ mux' = [mux EXCEPT ![s] = "closed"]
    /\ UNCHANGED <<node, row, tags, section, pc, closing, kicked, faults>>

\* Join: Serve returns because the mux is closed; phase.Disconnected.
Disconnected(s) ==
    /\ mux[s] = "closed"
    /\ Goto(s, "serving", "gone")
    /\ UNCHANGED <<node, row, tags, section, mux, closing, kicked, faults>>

\* Join, deferred: give the row back; an error, or no row affected, is only logged.
ReleaseRow(s) ==
    /\ Goto(s, "gone", "del")
    /\ \/ row' = MarkOffline(row, s.minion, s.broker) /\ UNCHANGED faults
       \/ Fault /\ row' \in {row, MarkOffline(row, s.minion, s.broker)}
    /\ UNCHANGED <<node, tags, section, mux, closing, kicked>>

\* Join, deferred: section.Del(sid), which removes whatever the map holds under the
\* minion's id, and mux.Close.
Leave(s) ==
    /\ Goto(s, "del", "idle")
    /\ section' = [section EXCEPT ![s.broker][s.minion] = NoSession]
    /\ mux' = [mux EXCEPT ![s] = "closed"]
    /\ closing' = closing \ {s}
    /\ UNCHANGED <<node, row, tags, kicked, faults>>
-----------------------------------------------------------------------------
(* Knockout, called by the manager's "offline" and "restart" commands. *)

\* conn := section.Del(id)
KnockoutDel(b, m) ==
    /\ node[b] # "down"
    /\ section[b][m] # NoSession
    /\ section' = [section EXCEPT ![b][m] = NoSession]
    /\ closing' = closing \cup {section[b][m]}
    /\ kicked' = kicked \cup {<<b, m>>}
    /\ UNCHANGED <<node, row, tags, pc, mux, faults>>

\* Variant of KnockoutClose that forgets the connection without closing it.
KnockoutForget(s) ==
    /\ s \in closing
    /\ closing' = closing \ {s}
    /\ UNCHANGED <<node, row, tags, section, pc, mux, kicked, faults>>

\* conn.mux.Close()
KnockoutClose(s) ==
    /\ s \in closing
    /\ mux' = [mux EXCEPT ![s] = "closed"]
    /\ closing' = closing \ {s}
    /\ UNCHANGED <<node, row, tags, section, pc, kicked, faults>>
-----------------------------------------------------------------------------
(* The broker process: launch.Run. *)

\* ResetDB, whose error both callers ignore.
ResetDB(b) ==
    \/ row' = MarkAllOffline(row, b) /\ UNCHANGED faults
    \/ Fault /\ row' \in {row, MarkAllOffline(row, b)}

\* Variant of Start that does not reset the rows of the previous process.
StartNoReset(b) ==
    /\ node[b] = "down"
    /\ node' = [node EXCEPT ![b] = "running"]
    /\ UNCHANGED <<row, tags, section, pc, mux, closing, kicked, faults>>

\* Run: ResetDB before the gateway listens.
Start(b) ==
    /\ node[b] = "down"
    /\ node' = [node EXCEPT ![b] = "running"]
    /\ ResetDB(b)
    /\ UNCHANGED <<tags, section, pc, mux, closing, kicked>>

\* Run after errCh or parent.Done: ResetDB.  daemonServer.Close closes nothing (its
\* server field is never set), so sessions and listener go on until the process exits.
Stop(b) ==
    /\ node[b] = "running"
    /\ node' = [node EXCEPT ![b] = "stopping"]
    /\ ResetDB(b)
    /\ UNCHANGED <<tags, section, pc, mux, closing, kicked>>

\* The process ends, after Stop or by a crash: what it kept in memory is gone.
Exit(b) ==
    /\ node[b] # "down"
    /\ node' = [node EXCEPT ![b] = "down"]
    /\ section' = [section EXCEPT ![b] = [m \in Minions |-> NoSession]]
    /\ pc' = [s \in Session |-> IF s.broker = b THEN "idle" ELSE pc[s]]
    /\ mux' = [s \in Session |-> IF s.broker = b THEN "closed" ELSE mux[s]]
    /\ closing' = {s \in closing : s.broker # b}
    /\ kicked' = {p \in kicked : p[1] # b}
    /\ UNCHANGED <<row, tags, faults>>

\* External: the manager deletes, deactivates or restores a minion that is not online.
ManagerSet(m, st) ==
    /\ row[m].status \in {"inactive", "offline", "delete"} \ {st}
    /\ row' = [row EXCEPT ![m].status = st]
    /\ UNCHANGED <<node, tags, section, pc, mux, closing, kicked, faults>>
-----------------------------------------------------------------------------
\* The steps a session goroutine takes by itself.
SessionStep(s) ==
    \/ Put(s) \/ ClaimRow(s) \/ ResetTags(s) \/ Connected(s)
    \/ Disconnected(s) \/ ReleaseRow(s) \/ Leave(s)

\* What happens while the broker processes run.
HubNext ==
    \/ \E s \in Session :
          \/ Auth(s) \/ Abort(s) \/ Put(s) \/ ClaimRow(s) \/ ClaimRowFault(s)
          \/ ResetTags(s) \/ Connected(s) \/ MuxBroken(s) \/ Disconnected(s)
          \/ ReleaseRow(s) \/ Leave(s) \/ KnockoutClose(s)
    \/ \E b \in Brokers, m \in Minions : KnockoutDel(b, m)
    \/ \E m \in Minions, st \in {"inactive", "offline", "delete"} : ManagerSet(m, st)

Next == HubNext \/ \E b \in Brokers : Start(b) \/ Stop(b) \/ Exit(b)

Spec == Init /\ [][Next]_vars

\* Goroutines are scheduled and their database calls time out; a killed process is
\* started again.  Nothing makes an agent connect or disconnect.
Fairness ==
    /\ \A s \in Session : WF_vars(SessionStep(s)) /\ WF_vars(KnockoutClose(s))
    /\ \A b \in Brokers : WF_vars(Start(b))

FairSpec == Spec /\ Fairness
-----------------------------------------------------------------------------
(* Properties. *)

Holding == {"online", "tagged", "serving", "gone"}

\* Between section.Put and the deferred section.Del.
Entered == {"put", "del"} \cup Holding

\* A session of a live broker that has won its minion's row and not yet released it.
Holds(s) == node[s.broker] = "running" /\ pc[s] \in Holding

\* The hub's map never keeps an entry of a session that has left (section.Put in Join
\* is always paired with a Del): no minion is refused because of a dead connection.
HubEntryLive ==
    \A b \in Brokers, m \in Minions :
        LET s == section[b][m] IN
        s # NoSession => /\ s.broker = b /\ s.minion = m
                         /\ pc[s] \in Entered

\* The guarded UPDATE of Join keeps a minion from being served twice, at one broker or
\* at two, as long as no broker is shutting down.
ExclusiveSession ==
    \A s, t \in Session : Holds(s) /\ Holds(t) /\ s.minion = t.minion => s = t

\* The table tells the truth about a served minion: it is online, at the broker that
\* serves it, whatever other sessions and brokers are starting, ending or failing.
HolderRow == \A s \in Session : Holds(s) => row[s.minion] = OnlineAt(s.broker)

\* A process that is not running has no session goroutines.
DownQuiet == \A s \in Session : node[s.broker] = "down" => pc[s] = "idle"

\* The inductive invariant behind ExclusiveSession: whoever is past the claim of Join is
\* alone, and the row says so.
LeaseInv == TypeOK /\ DownQuiet /\ ExclusiveSession /\ HolderRow

\* Without database errors no row is left online at a running broker that has no session
\* for it (such a row would have Auth refuse the minion with 409 for good).
OnlineRowHeld ==
    faults = 0 =>
        \A b \in Brokers, m \in Minions :
            node[b] = "running" /\ row[m] = OnlineAt(b)
                => \E s \in Session : Holds(s) /\ s.broker = b /\ s.minion = m

\* dialContext finds the connection of every minion the broker serves, unless Knockout
\* was used on that minion since the broker started.
ReachableUnlessKicked ==
    \A s \in Session :
        Holds(s) /\ <<s.broker, s.minion>> \notin kicked
            => section[s.broker][s.minion] = s

\* The strengthening of ReachableUnlessKicked that is inductive: a session owns its entry
\* from Put to Leave.
EntryOwned ==
    \A s \in Session :
        pc[s] \in Entered /\ <<s.broker, s.minion>> \notin kicked
            => section[s.broker][s.minion] = s

\* Without database errors the lifelong tags of a served minion are those its current
\* session announced, not those of a session of the same broker that lost or has gone.
\* (A broker that is shutting down can still overwrite another's.)
TagsOfServed ==
    faults = 0 =>
        \A s \in Session :
            Holds(s) /\ pc[s] # "online"
                => /\ tags[s.minion] # NoSession
                   /\ tags[s.minion].broker = s.broker => tags[s.minion] = s

\* A minion the manager has deleted or deactivated after Auth accepted it does not come
\* online: Join checks the status again.
DeletedStaysOut ==
    [][\A m \in Minions :
          row[m].status \in {"delete", "inactive"} => row'[m].status # "online"]_vars

\* The abstract owner of a minion is the session of a running broker that holds its row.
Owner ==
    [m \in Minions |->
        IF \E s \in Session : Holds(s) /\ s.minion = m
        THEN CHOOSE s \in Session : Holds(s) /\ s.minion = m
        ELSE NoSession]

Lease == INSTANCE OnlineLease WITH owner <- Owner

\* The brokers implement OnlineLease: no session takes a minion over from another.
ImplementsLease == Lease!LeaseSpec

\* "Knockout disconnects the node by minion id": the session it took out of the map ends.
KnockoutDisconnects == \A s \in Session : s \in closing ~> pc[s] = "idle"

\* A row stranded online by a broker that died is freed, or served, once it is back, unless
\* a database call fails.
StrandedRowFreed ==
    \A b \in Brokers, m \in Minions :
        (node[b] = "down" /\ row[m] = OnlineAt(b))
            ~> \/ row[m] # OnlineAt(b)
               \/ \E s \in Session : Holds(s) /\ s.minion = m
               \/ faults > 0

\* dialContext answers ErrMinionOffline ("the node is not online") only of a minion that
\* this broker is not serving (a session that Knockout is closing is not counted).
OfflineAnswerIsTrue ==
    \A b \in Brokers, m \in Minions :
        section[b][m] = NoSession =>
            ~ \E s \in Session : /\ s.broker = b /\ s.minion = m
                                 /\ pc[s] = "serving" /\ mux[s] = "open"
                                 /\ node[b] = "running" /\ s \notin closing
=============================================================================
