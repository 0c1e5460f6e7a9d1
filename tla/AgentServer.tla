---------------------------- MODULE AgentServer ----------------------------
(***************************************************************************)
(* The next-generation agent server (channel/serverd/server.go, wired by   *)
(* launch2/exec.go), for several brokers over one minion table.  A session *)
(* is one tunnel: a goroutine that runs agentServer.Handle.  Its pc names  *)
(* the next access to shared state: the table, the huber (the map of the   *)
(* connected agents) and the one http.Server that all sessions of a broker *)
(* share.                                                                  *)
(***************************************************************************)
EXTENDS MinionTable, Naturals

CONSTANTS
    Session,    \* the tunnels agents can open, each from one minion to one broker
    NoSession,  \* an empty entry of the huber, a BaseContext that was never set
    MaxFaults   \* bound on failing database calls

ASSUME ServerAssumption ==
    /\ \A s \in Session : s.broker \in Brokers /\ s.minion \in Minions
    /\ NoSession \notin Session
    /\ MaxFaults \in Nat

VARIABLES
    node,     \* broker -> "down", "running", or "stopping" (after the ResetAgents at exit)
    row,      \* minion -> its row of the minion table
    huber,    \* broker -> minion -> the session whose peer the huber holds
    pc,       \* session -> where its goroutine is
    mux,      \* session -> its smux session is "open" or "closed"
    base,     \* broker -> the session whose peer srv.BaseContext yields
    peer,     \* session -> the session whose peer its requests find in their context
    faults    \* failed database calls so far

vars == <<node, row, huber, pc, mux, base, peer, faults>>

\* "accept": waiting for the authentication stream.  "found": status checked.  "put": in
\* the huber.  "undo": the claim failed, DelByID is next.  "claimed": the claim returned
\* no error.  "joined": the answer is written.  "based": BaseContext stored.  "serving":
\* in srv.Serve.  "gone": Serve returned.  "del": row released, DelByID is next.
PC == {"idle", "accept", "found", "put", "undo", "claimed", "joined", "based", "serving",
       "gone", "del"}

TypeOK ==
    /\ node \in [Brokers -> {"down", "running", "stopping"}]
    /\ row \in [Minions -> Row]
    /\ huber \in [Brokers -> [Minions -> Session \cup {NoSession}]]
    /\ pc \in [Session -> PC]
    /\ mux \in [Session -> {"open", "closed"}]
    /\ base \in [Brokers -> Session \cup {NoSession}]
    /\ peer \in [Session -> Session \cup {NoSession}]
    /\ faults \in 0..MaxFaults

Init ==
    /\ node = [b \in Brokers |-> "down"]
    /\ row = [m \in Minions |-> AbsentRow]
    /\ huber = [b \in Brokers |-> [m \in Minions |-> NoSession]]
    /\ pc = [s \in Session |-> "idle"]
    /\ mux = [s \in Session |-> "closed"]
    /\ base = [b \in Brokers |-> NoSession]
    /\ peer = [s \in Session |-> NoSession]
    /\ faults = 0

Goto(s, from, to) == pc[s] = from /\ pc' = [pc EXCEPT ![s] = to]

\* A database call fails (timeout, lost connection).
Fault == faults < MaxFaults /\ faults' = faults + 1

\* The huber's DelByID removes whatever is stored under the minion's id.
DelByID(s) == huber' = [huber EXCEPT ![s.broker][s.minion] = NoSession]

\* Handle returns: its deferred sess.Close.
Return(s, from) == Goto(s, from, "idle") /\ mux' = [mux EXCEPT ![s] = "closed"]
-----------------------------------------------------------------------------
(* agentServer.Handle. *)

\* Tunnel.open: the websocket becomes a smux session, Handle starts.
Open(s) ==
    /\ node[s.broker] # "down"
    /\ Goto(s, "idle", "accept")
    /\ mux' = [mux EXCEPT ![s] = "open"]
    /\ UNCHANGED <<node, row, huber, base, peer, faults>>

\* Variant of AcceptTimeout: the read deadline and the timer are not set.
AcceptNoTimeout(s) ==
    /\ mux[s] = "closed"
    /\ Return(s, "accept")
    /\ UNCHANGED <<node, row, huber, base, peer, faults>>

\* authentication: the timer closes a session on which no stream came, or its read runs
\* into the deadline, or the stream breaks, or the request is not valid.
AcceptTimeout(s) ==
    /\ Return(s, "accept")
    /\ UNCHANGED <<node, row, huber, base, peer, faults>>

\* findOrCreate: by machine id; an unknown minion gets a row that is offline.
FindOrCreate(m) == IF row[m].status = "absent" THEN [row EXCEPT ![m] = NewRow] ELSE row

\* join: find or create the row and check its status; an online or deleted minion is
\* answered 409 or 403 (so is, with 500, one whose lookup fails) and the session ends.
Find(s) ==
    LET m == s.minion IN
    /\ mux[s] = "open"
    /\ \/ /\ row[m].status \notin {"online", "delete"}
          /\ row' = FindOrCreate(m)
          /\ Goto(s, "accept", "found")
          /\ UNCHANGED mux
       \/ /\ row[m].status \in {"online", "delete"}
          /\ Return(s, "accept")
          /\ UNCHANGED row
    /\ UNCHANGED <<node, huber, base, peer, faults>>

\* Variant of Put that replaces the peer of another session.
PutOverwrite(s) ==
    /\ huber' = [huber EXCEPT ![s.broker][s.minion] = s]
    /\ Goto(s, "found", "put")
    /\ UNCHANGED <<node, row, mux, base, peer, faults>>

\* join: huber.Put; an occupied entry ends the session (409).
Put(s) ==
    LET b == s.broker  m == s.minion IN
    /\ \/ /\ huber[b][m] = NoSession
          /\ huber' = [huber EXCEPT ![b][m] = s]
          /\ Goto(s, "found", "put")
          /\ UNCHANGED mux
       \/ /\ huber[b][m] # NoSession
          /\ Return(s, "found")
          /\ UNCHANGED huber
    /\ UNCHANGED <<node, row, base, peer, faults>>

\* join: the claim of the row.  Whether it changed the row is not looked at.
Claim(s) ==
    /\ Goto(s, "put", "claimed")
    /\ row' = MarkOnline(row, s.minion, s.broker)
    /\ UNCHANGED <<node, huber, mux, base, peer, faults>>

\* The claim returns an error, applied or not.
ClaimFault(s) ==
    /\ Fault
    /\ Goto(s, "put", "undo")
    /\ row' \in {row, MarkOnline(row, s.minion, s.broker)}
    /\ UNCHANGED <<node, huber, mux, base, peer>>

\* join after a failed claim: DelByID, answer 500.
Undo(s) ==
    /\ DelByID(s)
    /\ Return(s, "undo")
    /\ UNCHANGED <<node, row, base, peer, faults>>
-----------------------------------------------------------------------------

\* join writes the lifelong tags (their errors are ignored), authentication the answer.
\* When the answer cannot be written (connection or deadline gone) Handle returns at
\* once: what join stored in the huber and in the row stays.
Reply(s) ==
    /\ \/ mux[s] = "open" /\ Goto(s, "claimed", "joined") /\ UNCHANGED mux
       \/ Return(s, "claimed")
    /\ UNCHANGED <<node, row, huber, base, peer, faults>>

\* Handle: AgentConnected, then wrap the shared server's BaseContext: the peer stored
\* last is the one linkhub.FromContext finds.
StoreBase(s) ==
    LET b == s.broker IN
    /\ Goto(s, "joined", "based")
    /\ base' = [base EXCEPT ![b] = s]
    /\ UNCHANGED <<node, row, huber, mux, peer, faults>>

\* srv.Serve reads BaseContext once for the listener.
Serve(s) ==
    /\ Goto(s, "based", "serving")
    /\ peer' = [peer EXCEPT ![s] = base[s.broker]]
    /\ UNCHANGED <<node, row, huber, mux, base, faults>>

\* The agent closes the connection, the network drops it, or smux misses keepalives.
MuxBroken(s) ==
    /\ mux[s] = "open"
    /\ mux' = [mux EXCEPT ![s] = "closed"]
    /\ UNCHANGED <<node, row, huber, pc, base, peer, faults>>

\* Serve returns because Accept fails.
ServeEnds(s) ==
    /\ mux[s] = "closed"
    /\ Goto(s, "serving", "gone")
    /\ peer' = [peer EXCEPT ![s] = NoSession]
    /\ UNCHANGED <<node, row, huber, mux, base, faults>>

\* Variant of Release that leaves the huber before it releases the row.
ReleaseAfterDel(s) ==
    /\ Goto(s, "gone", "del")
    /\ DelByID(s)
    /\ UNCHANGED <<node, row, mux, base, peer, faults>>

\* disconnect: release the row; an error is only logged.
Release(s) ==
    /\ Goto(s, "gone", "del")
    /\ \/ row' = MarkOffline(row, s.minion, s.broker) /\ UNCHANGED faults
       \/ Fault /\ row' \in {row, MarkOffline(row, s.minion, s.broker)}
    /\ UNCHANGED <<node, huber, mux, base, peer>>

\* disconnect: DelByID, AgentDisconnected; Handle returns.
Leave(s) ==
    /\ DelByID(s)
    /\ Return(s, "del")
    /\ UNCHANGED <<node, row, base, peer, faults>>
-----------------------------------------------------------------------------
(* The broker process: launch2.Exec. *)

\* ResetAgents, whose error both callers only log.
ResetAgents(b) ==
    \/ row' = MarkAllOffline(row, b) /\ UNCHANGED faults
    \/ Fault /\ row' \in {row, MarkAllOffline(row, b)}

\* Exec: ResetAgents before the servers accept.
Start(b) ==
    /\ node[b] = "down"
    /\ node' = [node EXCEPT ![b] = "running"]
    /\ ResetAgents(b)
    /\ UNCHANGED <<huber, pc, mux, base, peer>>

\* Exec at its end: the servers are closed, which leaves the upgraded connections alone,
\* then ResetAgents.
Stop(b) ==
    /\ node[b] = "running"
    /\ node' = [node EXCEPT ![b] = "stopping"]
    /\ ResetAgents(b)
    /\ UNCHANGED <<huber, pc, mux, base, peer>>

\* The process ends, after Stop or by a crash: what it kept in memory is gone.
Exit(b) ==
    LET Mine == {s \in Session : s.broker = b} IN
    /\ node[b] # "down"
    /\ node' = [node EXCEPT ![b] = "down"]
    /\ huber' = [huber EXCEPT ![b] = [m \in Minions |-> NoSession]]
    /\ pc' = [s \in Session |-> IF s \in Mine THEN "idle" ELSE pc[s]]
    /\ mux' = [s \in Session |-> IF s \in Mine THEN "closed" ELSE mux[s]]
    /\ base' = [base EXCEPT ![b] = NoSession]
    /\ peer' = [s \in Session |-> IF s \in Mine THEN NoSession ELSE peer[s]]
    /\ UNCHANGED <<row, faults>>

\* External: the manager deletes, deactivates or restores a minion that is not online.
ManagerSet(m, st) ==
    /\ row[m].status \in {"inactive", "offline", "delete"} \ {st}
    /\ row' = [row EXCEPT ![m].status = st]
    /\ UNCHANGED <<node, huber, pc, mux, base, peer, faults>>
-----------------------------------------------------------------------------
\* The steps a session goroutine takes whatever the agent does: every wait for the agent
\* before it serves has a deadline.
HandleStep(s) ==
    \/ AcceptTimeout(s) \/ Put(s) \/ Claim(s) \/ Undo(s) \/ Reply(s) \/ StoreBase(s)
    \/ Serve(s) \/ ServeEnds(s) \/ Release(s) \/ Leave(s)

Next ==
    \/ \E s \in Session :
          \/ Open(s) \/ Find(s) \/ ClaimFault(s) \/ MuxBroken(s) \/ HandleStep(s)
    \/ \E b \in Brokers : Start(b) \/ Stop(b) \/ Exit(b)
    \/ \E m \in Minions, st \in {"inactive", "offline", "delete"} : ManagerSet(m, st)

Spec == Init /\ [][Next]_vars

\* Goroutines are scheduled, and timers and deadlines fire.
FairSpec == Spec /\ \A s \in Session : WF_vars(HandleStep(s))
-----------------------------------------------------------------------------
(* Properties. *)

\* Between huber.Put and DelByID.
Entered == {"put", "undo", "claimed", "joined", "based", "serving", "gone", "del"}

\* From huber.Put to DelByID a session owns its entry: at one broker no two sessions
\* serve one minion, and no session's cleanup removes the entry of another.
EntryOwned ==
    \A s \in Session : pc[s] \in Entered => huber[s.broker][s.minion] = s

\* Without database errors a row that is online at a running broker has its minion in that
\* broker's huber: a message for it finds an entry.  (The entry may be of a session that has
\* ended: see RefusedOnlyIfOnline.)
OnlineRowHasEntry ==
    faults = 0 =>
        \A b \in Brokers, m \in Minions :
            node[b] = "running" /\ row[m] = OnlineAt(b) => huber[b][m] # NoSession

\* What makes it inductive: a session about to call DelByID has released its row, and
\* nobody can claim the row for its broker while its entry is there.
LeavingReleased ==
    faults = 0 =>
        \A s \in Session :
            /\ pc[s] # "undo"
            /\ pc[s] = "del" => row[s.minion] # OnlineAt(s.broker)

\* Authentication comes to an end whatever the agent does or fails to do: the session is
\* dropped or it serves.
AuthenticationEnds ==
    \A s \in Session :
        pc[s] \in {"accept", "found", "put", "claimed"} ~> pc[s] \in {"idle", "serving"}

\* "Those already online may not come online" (server.go, the status check of join): a minion
\* is not served by two sessions of running brokers at a time.  False with two brokers.
ServedOnce ==
    \A s, t \in Session :
        /\ s.minion = t.minion
        /\ \A x \in {s, t} :
              node[x.broker] = "running" /\ pc[x] = "serving" /\ mux[x] = "open"
        => s = t

\* "The agent is already online (memory check)" (server.go, huber.Put): the entry that makes
\* join refuse an agent belongs to a session that is joining, serving or leaving.  False when
\* the answer to an agent cannot be written.
RefusedOnlyIfOnline ==
    \A b \in Brokers, m \in Minions :
        LET s == huber[b][m] IN s # NoSession => pc[s] \in Entered

\* "The node sent a heartbeat", with the id of the peer in the request's context (ping.go): the
\* requests of a session find its own peer there, although all sessions of a broker keep
\* theirs in the BaseContext of one http.Server.  False with two agents at a broker.
OwnPeer == \A s \in Session : pc[s] = "serving" => peer[s] = s
=============================================================================
