---------------------------- MODULE AgentUpgrade ----------------------------
(***************************************************************************)
(* Binaries for agents: the upgrade download with its limit of downloads   *)
(* (agtapi/upgrade.go), the installation package (agtsvc/deploy.go) and    *)
(* the legacy hub's Upgrade (linkhub.go).                                  *)
(***************************************************************************)
EXTENDS Requests

CONSTANTS
    Bins,       \* rows of minion_bin: [id, weight, customized, unstable, platform]
    Agents,     \* what an agent says of itself, the same fields but id
    NoBin,
    MaxSize     \* downloads that may be under way

VARIABLES
    deprecated, \* (external) binaries the manager has marked as deprecated
    count,      \* upgradeREST.count
    download,   \* request -> its progress
    handed      \* ghost: the binary that was matched last, for whom and by which endpoint

upgradeVars == <<deprecated, count, download, handed>>

ASSUME UpgradeAssumption == MaxSize \in Nat \ {0}

NoDownload == [pc |-> "idle", via |-> "none", bin |-> NoBin]
NoHand == [via |-> "none", bin |-> NoBin, agent |-> NoBin, stale |-> FALSE]

UpgradeInit ==
    /\ deprecated \in SUBSET Bins
    /\ count = 0
    /\ download = [r \in Request |-> NoDownload]
    /\ handed = NoHand
    /\ faults = 0

Newest(set) == {b \in set : \A other \in set : other.weight <= b.weight}
Fits(agent) == {b \in Bins : b.platform = agent.platform}

\* matchBinary of a push to all (no version): agents on a test version are left alone.
PushedBin(agent) ==
    IF agent.unstable THEN {}
    ELSE Newest({b \in Fits(agent) \ deprecated :
                    /\ b.weight > agent.weight
                    /\ b.customized = agent.customized
                    /\ ~b.unstable})

\* matchBinary of a version that was asked for.
AskedBin(agent, weight, customized) ==
    {b \in Fits(agent) \ deprecated : b.weight = weight /\ b.customized = customized}

\* matchBinary of deployService: by id, or by the conditions of the request.  When those name a
\* version too, the row found is one that DeployedById finds.
DeployedById(id) == {b \in Bins \ deprecated : b.id = id}
DeployedBin(like) ==
    Newest({b \in Fits(like) \ deprecated :
               b.customized = like.customized /\ b.unstable = like.unstable})

\* minionHub.Upgrade: neither the mark, the channel nor the customisation is looked at.
LegacyBin(agent) == Newest({b \in Fits(agent) : b.weight > agent.weight})
LegacyAskedBin(agent, weight) ==
    {b \in Fits(agent) : b.weight = weight /\ weight # agent.weight}

\* Download: a free place is taken, or the answer is 429.
TryLock(r) ==
    /\ download[r].pc = "idle"
    /\ count < MaxSize /\ count' = count + 1
    /\ download' = [download EXCEPT ![r] = [NoDownload EXCEPT !.pc = "match", !.via = "download"]]
    /\ UNCHANGED <<deprecated, handed, faults>>

\* The other two endpoints have no limit.
OpenUnlimited(r, via) ==
    /\ download[r].pc = "idle"
    /\ download' = [download EXCEPT ![r] = [NoDownload EXCEPT !.pc = "match", !.via = via]]
    /\ UNCHANGED <<deprecated, count, handed, faults>>

\* unlock, deferred by Download for every return.
Unlock(r) == count' = IF download[r].via = "download" /\ count > 0 THEN count - 1 ELSE count

Leave(r) ==
    /\ download' = [download EXCEPT ![r] = NoDownload]
    /\ Unlock(r)

\* What the endpoints may match for an agent, each with the rule it followed.
Found(via, agent) ==
    CASE via = "download" ->
           {<<b, "push">> : b \in PushedBin(agent)} \cup
           {<<b, "ask">> : b \in UNION {AskedBin(agent, like.weight, like.customized) : like \in Bins}}
      [] via = "deploy" ->
           {<<b, via>> : b \in DeployedBin(agent) \cup UNION {DeployedById(like.id) : like \in Bins}}
      [] via = "legacy" ->
           {<<b, via>> : b \in LegacyBin(agent) \cup
                               UNION {LegacyAskedBin(agent, like.weight) : like \in Bins}}

\* matchBinary: a binary, none (304 or 204, an error for deploy), or a failing query.
Match(r) ==
    /\ download[r].pc = "match"
    /\ \E agent \in Agents :
         \/ \E hit \in Found(download[r].via, agent) :
               /\ download' = [download EXCEPT ![r] = [@ EXCEPT !.pc = "broker", !.bin = hit[1]]]
               /\ handed' = [via |-> hit[2], bin |-> hit[1], agent |-> agent,
                             stale |-> hit[1] \in deprecated]
               /\ UNCHANGED <<count, faults>>
         \/ Leave(r) /\ UNCHANGED <<handed, faults>>
         \/ Leave(r) /\ Fails /\ UNCHANGED handed
    /\ UNCHANGED deprecated

\* Variant of Broker that gives the place back itself, in addition to the deferred unlock.
BrokerUnlocks(r) ==
    /\ download[r].pc = "broker"
    /\ download' = [download EXCEPT ![r].pc = "stream"]
    /\ Unlock(r)
    /\ UNCHANGED <<deprecated, handed, faults>>

\* The broker row, the file and the hidden payload: each may fail, then the body is sent.
Broker(r) ==
    /\ download[r].pc = "broker"
    /\ \/ /\ download' = [download EXCEPT ![r].pc = "stream"]
          /\ UNCHANGED <<count, faults>>
       \/ Fails /\ Leave(r)
    /\ UNCHANGED <<deprecated, handed>>

\* The stream ends, or the agent leaves.
Stream(r) ==
    /\ download[r].pc = "stream"
    /\ Leave(r)
    /\ UNCHANGED <<deprecated, handed, faults>>

\* External: the manager marks a binary as deprecated.
Deprecate(b) ==
    /\ b \notin deprecated /\ deprecated' = deprecated \cup {b}
    /\ UNCHANGED <<count, download, handed, faults>>

UpgradeNext ==
    \/ \E r \in Request :
          \/ TryLock(r) \/ OpenUnlimited(r, "deploy") \/ OpenUnlimited(r, "legacy")
          \/ Match(r) \/ Broker(r) \/ Stream(r)
    \/ \E b \in Bins : Deprecate(b)
-----------------------------------------------------------------------------
(* Properties. *)

\* On every path, failures included, the count is the number of downloads under way, and
\* never above the limit: no place is lost and none is given back twice.
SlotsExact ==
    /\ count = Cardinality({r \in Request : download[r].via = "download"})
    /\ count <= MaxSize

\* A push to all never moves an agent to another customisation or to a test version, never
\* back and never to a deprecated binary; deploy does not hand out deprecated ones either.
\* (The legacy endpoint is exempt: it looks at none of these.)
SafeHand ==
    /\ handed.via # "legacy" => ~handed.stale
    /\ handed.via = "push" =>
          /\ handed.bin.weight > handed.agent.weight
          /\ handed.bin.customized = handed.agent.customized
          /\ ~handed.bin.unstable /\ ~handed.agent.unstable

\* Upgrade downloads keep their limit exactly, and hand out binaries that fit.
UpgradeSafe == SlotsExact /\ SafeHand
=============================================================================
