# A TLA+ verification project for ssoc-broker

ssoc-broker is the node that stands between the manager (the "center") and the
agents ("minions") that run on servers. Several brokers share one SQL database.
An agent connects to a broker, is authenticated, and keeps one connection over
which both sides send HTTP requests. The minion table says which agent is online
and at which broker. `launch.Run` is the production program (`bridge/`, `app/`,
`appv2/`); `launch2.Exec` wires a next-generation one (`channel/`,
`application/`).

The repository has no tests. What it promises is in comments, error texts and
the shape of its SQL statements; the properties below are taken from there.

## 1. Inventory

| Component | State | Operations | Why it is hard |
|---|---|---|---|
| agent gateway and minion hub (`bridge/gateway`, `bridge/mlink`) | minion table, lifelong tags, one connection map per broker, smux sessions | Auth, Join, Knockout, ResetDB, relay of requests | sessions of one minion race at one broker and at two; deferred cleanups; crash and restart; failing statements |
| broker process (`launch/run.go`, `daemon.go`) | the two daemons, error channel | start, stop, exit | resets the table at both ends while sessions still run |
| legacy endpoint (`app/temporary`) | map of websockets per broker, the same minion table | Authorize, Connect, Receive, Disconnect, TokenLookup, Upgrade | unconditional store, deletion by id, results of statements dropped, runs beside the gateway |
| next-generation agent server (`channel/serverd`, `launch2`) | minion table, huber, one shared `http.Server` | Handle (authentication, join, serve, disconnect), ResetAgents | claim whose effect is not looked at, shared BaseContext, deadlines |
| shared strings (`app/agtsvc/shared_strings.go`) | kv_data rows with lifetime and version | Get, Set, Incr, Del (Store is not routed) | several statements per call, no transaction, optimistic versions, expiry |
| substance synchronisation (`app/mgtsvc/agent_rsync.go`, `param/diff.go`, ...) | substances, agent's reported tasks, minion_task rows, pool of jobs | rsync, reload, table scan, startup | jobs of one minion overlap with stale reads; bounded retry cycle; delete-then-insert |
| push of ad-hoc tasks (`appv2/.../mservice/task.go`, `app/agtapi/task.go`) | set of running pushes, task items | Push, execute, Report | early error return leaks the running mark; report races with the item's update |
| broker self-update (`mservice/system.go`) | atomic flag, files, link | Update, Exit | compare-and-swap failure only logged; remove-then-link; crash in between |
| link to the manager (`bridge/telecom`, `channel/clientd`) | address index, connection, mux | dial loop, handshake, Reconnect, serve loop | retries, back-off, connections to close on every failing path, silent peers |
| console log files (`library/pipelog`) | open files with size limits, subscribers | Write, Subscribe, Remove, auto-close | a writer may hold a file that was removed; notification outside the lock |
| agent upgrade and deployment (`app/agtapi/upgrade.go`, `agtsvc/deploy.go`) | limiter, binaries | tryLock/unlock, matchBinary | places on error paths; three endpoints with three rules |
| elkeid cache (`foreign/bytedance`) | map of downloads, files | Open, Read, Close | one writer, broken-off copies, marks on error paths, restarts |
| asset collection, tags (`app/agtapi/collect.go`, `app/agtsvc/tag.go`) | tables | delete-then-insert, jobs answered before they run | no transaction, dropped errors, overlapping reports |
| commands and broadcast (`agent_command.go`) | none | relay, Knockout | Knockout is part of the hub's races |
| streams, proxies, reports, routing, configuration | none of their own | copying, one statement per request | not modelled: pure I/O or wiring |

Interactions. The gateway calls `Auth` and `Join` of the hub; `Join` calls the
phase listener (`phase.Connected`), which starts the synchronisation jobs, which
call back into the hub to reach the agent. The manager reaches agents through
the hub (`Forward`, `Unicast`, `Oneway`) and disconnects them (`Knockout`). The
gateway, the legacy endpoint and all brokers meet in the minion table: the
guarded UPDATEs on it are the only mutual exclusion between them. A change of
tags commits and then starts a synchronisation job. The remaining services
(reports, downloads, caches, pushes, scans) share no state with one another.

What makes each part correct:

* gateway and hub: a minion is served by at most one session; the table names
  the broker that serves it; the connection map follows the sessions; nothing
  stays online without a session; a dead broker's rows are freed;
* legacy endpoint: the same for its own map and rows, and no interference with
  the gateway;
* agent server: a session owns its huber entry, online rows have an entry,
  authentication ends; requests should run as their own agent (they may not, §4);
* shared strings: no applied increment is lost, a stale version writes nothing;
* console logs: a follower misses no line, files keep their limit, removed
  handles are closed;
* synchronisation: an undisturbed job leaves the agent with what the database
  assigns and rows that say so, rows do not pile up, jobs end, a scan skips no
  minion;
* links: at most one connection, closed before the next; they come up again;
* reports: what was reported is stored, up to named failures and overlaps;
* downloads, cache, update, push: limits and marks are exact on every path,
  no truncated file is used, a stopped broker can be started, no agent is given
  an execution twice.

`PROJECT.json` lists the hazards at their lines, with the properties aimed at
each.

## 2. Modules

| Module | Models |
|---|---|
| `MinionTable` | the minion table's rows and the guarded UPDATEs on them, as operators |
| `OnlineLease` | abstract: a minion changes hands only by being released first |
| `MinionHub` | gateway and hub of several brokers over one table |
| `LegacyHub` | the version 2 endpoint |
| `BrokerGateways` | both gateways in one process (composition of the two) |
| `AgentServer` | the next-generation agent server |
| `SharedStrings` | the key-value store |
| `PipeLog` | console log files, their writers and followers |
| `TaskSync` | rsync, reload and startup jobs of one minion, the agent's own report, node events, tag changes |
| `ManagerHost` | external: the manager as the links meet it |
| `ManagerLink` | abstract: what a link to the manager promises |
| `Telecom`, `Clientd` | the two clients that implement it |
| `ManagerLinks` | both dialling the same manager |
| `Requests` | what the services below share: requests under way, failing statements |
| `Collect` | process, port, account and group tables of one minion |
| `Sysinfo`, `Sbom`, `MinionTags` | system information, software bill of a file, tags |
| `AgentUpgrade` | the limit of downloads and the choice of a binary, for three endpoints |
| `ElkeidFS` | the cache of kernel modules, for one file |
| `SystemUpdate` | the broker replaces its executable |
| `TaskPush`, `TableScan` | push of an execution, scan of due synchronisations |
| `BrokerServices` | the nine services above side by side |
| `MC*` | instances for TLC |
| `*Proofs` | theorems, checked by TLAPS |

### MinionTable, MinionHub, OnlineLease

A session is one agent connection, i.e. one goroutine in `ServeHTTP`. `pc` names
its next access to shared state, so one action is one statement on the database
or one operation on the map:
`Auth` (idle to authed), `Abort`, `Put` (the map), `ClaimRow` (the UPDATE that
claims the row), `ResetTags`, `Connected`, then `Disconnected`, `ReleaseRow` and
`Leave` for the return of `Serve` and the deferred functions in the order in
which Go runs them. `MuxBroken` is the network or the agent. `KnockoutDel` and
`KnockoutClose` are the two steps of `Knockout`. `Start`, `Stop` and `Exit` are
the process: `Stop` is the end of `Run`, where `daemonServer.Close` closes
nothing because its `server` field is never set, so that sessions go on until
`Exit`; `Exit` alone is a crash. `ManagerSet` is external.
A failing statement (`Fault`) may have been applied or not; in `ClaimRowFault`
`Join` returns before it has deferred the release.

Abstractions: a minion is its row (lookup by machine id or inet, and creation,
is one step; two rows for one agent are out of scope); of a row only status and
broker are kept; tags are represented by the session that wrote them; the rate
limiter and the wire format of the identity are left out; the segmented map is
one map.

### LegacyHub and BrokerGateways

The same style: `Authorize`, `Store` and `Connect` (the two halves of
`Connect`), `ReceiveEnds` (closed connection or 15 minutes of silence), `Delete`
and `Disconnect`. `Execute` is a statement whose result is dropped.
`BrokerGateways` extends `MinionHub` and instantiates `LegacyHub` over the same
`row`, `node` and `faults`; a process step concerns both. `minions.Store` writes
a Go map under a read lock; the runtime ends the process when it notices, which
the model allows at any step.

### AgentServer

`Open`, `AcceptTimeout` or `Find`, `Put`, `Claim`/`ClaimFault`/`Undo`, `Reply`,
`StoreBase`, `Serve`, `ServeEnds`, `Release`, `Leave` follow `Handle`. `base` is
the peer that the shared server's `BaseContext` yields, `peer` what a session's
`Serve` read from it. Tags and the rate limiter are left out.

### SharedStrings

A request makes one call; each SQL statement is one action (`Find`, `Purge`,
`Create`, `Update`, `Get`, `Del`), with `Fail` for its error. `find` takes an
error for "no row". The primary key (bucket, key) of the external table is
assumed unique. The value of a row is the request that wrote it. `born`, `seen`,
`applied` and `crossed` are history variables: which incarnation of a row a
request has read, the sum of the increments applied, and whether an UPDATE meant
for an earlier incarnation hit the row. `Store` has no route and the audit
records are written after the fact: both are left out.

### PipeLog

The file of one name. A handle is a `limitedFile`, an inode a file on disk:
`Remove` drops the handle from the map and unlinks the inode in two steps, while
a writer that has the old handle opens the path again. A file is a sequence of
pieces, each a line or the part of it that a short write stored, with its number
of bytes, so that `tailN` is computed over blocks as the code does it, and
truncation at `maxsize` happens at the same write. `WriteFails` is a write that
stores nothing or some of its bytes: these are counted and may truncate the file,
but nobody is notified. `Subscriber` registers before it reads; `ReadFails` is an
open or a read whose error `Subscriber` drops (`_ = pf.readN`), after which the
follower streams without the stored lines it has not read; the history variable
`cut` names such followers. `Snapshot` and `Notify` are the two halves of
`notifyAll`. The unlink of `Remove` may fail. The idle timer may fire at any time
(`AutoClose`).

### TaskSync

One minion. `pc` of a job names its next statement or call to the agent.
`Diff`, `NotModified` and `Substances` are translated as operators; the agent
(external) applies a diff except for the updates it fails at (`Stubborn`).
Errors that the code ignores (the queries for tags, effects and exclusions) give
the job a wrong target; the history variable `disturbed` names jobs that met one
or that a change, a restart or another job overtook; `mixed` says that writers of
the minion_task rows overlapped. `DeleteRows` and `CreateRows` are the two
statements that rewrite those rows, for jobs and for the agent's own report; the
table has no key over task and hash, so `rows` counts how often each row is there.
A startup job is three steps, `GetStartup`, `Oneway` and `Mark`; `logger` is the
startup the database holds, `started` what the agent was given last and `outcome`
what the row says of it (`Failed`). `StartupUpdate` is the manager's edit, which
starts such a job.

### Telecom, Clientd, ManagerLinks, ManagerLink

Each client is a small state machine: dial, handshake, serve, back-off. The
manager's behaviour at an address changes freely. `topen` and `copen` count open
connections. `Preparse` is the address list of clientd, computed. `ManagerLink`
is the abstract specification; the refinement mapping is in each client's module.

### The services: Collect to TableScan

Each module holds the state of one service as one minion, file or execution sees
it, `Request` requests or pool jobs under way at a time, and one action per
statement, file operation or call. `Fails` (from `Requests`) takes one of
`MaxFaults` failures. `BrokerServices` composes them: they share no variable but
`faults`, so a history follows one of them, chosen in `Init`.

* `Collect`: a view maps keys to contents; `Diff` and `Full` are the four pairs
  of handlers, which differ only in table and error handling: `AccountFull` runs
  as a job after its answer, `ProcessFull` logs the error of its INSERT.
  `CollectStep` is the statements of a report in their order.
* `Sysinfo`: two tables written by a job whose errors are dropped.
* `Sbom`: find, two DELETEs whose errors are dropped, two INSERTs. `Components`
  normalises versions and drops duplicates.
* `MinionTags`: the check, the read outside the transaction, the transaction.
* `AgentUpgrade`: `Found` gives what each endpoint may hand out; `Leave` is the
  deferred unlock.
* `ElkeidFS`: `Mark`, `Do`, `Create`, `ReadEOF`, `Close` in the order of `Open`
  and `copyFile`; `ElkeidRestart` keeps the files and loses the marks.
* `SystemUpdate`: two file names per version as in `saveFile`; an update may lose
  its open file to another one (`mine`). Processes end at any step.
* `TaskPush`: `FindInBatches` by id, then call and row per item.
* `TableScan`: `Page` is the query, `RunTable` a job, which the pool runs at any
  time.

## 3. Runs

| Run | Instance | Shows |
|---|---|---|
| `hub_safety` | 1 minion, 2 connections to one broker and 1 to another, no database errors | exclusion, truthful rows, map, tags, deleted minions stay out |
| `hub_live` | 1 minion, 2 brokers, 1 failing statement, fairness | refinement of `OnlineLease`; Knockout ends its session; stranded rows are freed |
| `hub_knockout` | as `hub_safety` | **violated**: after Knockout and a reconnect, the old session's deferred `Del` removes the new session's entry; the broker says a minion it serves is offline |
| `legacy` | 1 minion, 2 websockets, 1 failing statement, fairness | the map keeps no dead connection, rows are released, a vanished agent goes offline |
| `gateways_safety` | 2 brokers, 1 current connection to each and 1 legacy connection | rows that are online are served by one of the gateways; rows are not lost while no legacy session interferes |
| `server` | 1 broker, 3 tunnels of one minion, 1 failing statement, fairness | a session owns its huber entry, online rows have entries, authentication ends |
| `strings_safety` | 3 requests on 1 key, clock 0..2, 1 failing statement | versions identify rows, counters are exact |
| `pipelog` | 2 writers, 1 follower, 3 lines, 1 removal, 1 failing or short file operation, fairness of the idle timer of removed handles (870,000 states, two to three minutes) | a follower of the whole file whose own reading did not fail misses no stored line; the file keeps its limit; `tailN` sends exactly n lines; removed handles are closed |
| `sync` | 2 jobs, a private and a public substance, a task of the agent's own, 1 change or failure, fairness | an undisturbed job leaves the agent with what is assigned, or has used up its cycles; its rows then are those of what the agent runs; rows do not pile up however their writers overlap; jobs end (550,000 states, two minutes) |
| `sync_startup` | as `sync`; the trace needs 2 startup jobs and 1 edit | **violated**: the older job sends last, the row says its startup was sent although the agent has the one before |
| `links` | 2 addresses (one configured twice), any behaviour of the manager, cancellation, fairness | both clients implement `ManagerLink`; links come up again when an address accepts; clientd leaves a silent manager |
| `services` | nine services, 2 requests each, 2 failures | reports are stored up to named losses; limits, cache, link, push and scan are safe (1.5 million states, about a minute) |

Bounds. All races of sessions are between sessions of one minion, so one minion
is enough; in the hub two sessions at one broker and one at another give every
pair of positions, including a session that starts while another one cleans up;
the agent server, whose sessions meet in the huber of one broker, has three
tunnels to it. `MaxFaults` bounds failing statements; one is enough to reach
every error path of a session, two let a service fail, retry and fail again, and
the properties that are stated "without database errors" are false with one.
Sessions go back to `idle` and reconnect, so behaviours are unbounded. In
`SharedStrings` three requests allow an expiry, a deletion and a stale update
around one row; a request is used once, therefore behaviours end and deadlock is
not checked there. Lifetimes -1 and 1 and a clock up to 2 reach "not asked for",
"alive" and "expired". In `PipeLog` three lines of one or two bytes, a limit of
four and blocks of two reach truncation, a block that begins inside a line, a
line broken off by a short write in front of a whole one, and one removal with
re-creation between two writers. In `TaskSync` two jobs overlap in every pair of
positions, one change, restart or failure happens anywhere, and two cycles are
fewer than a stubborn agent needs. In `BrokerServices` the capped counters
(project rows, pushes, scans) and failures are used up, so behaviours may end
and deadlock is not checked; keys are independent of each other in every
statement, so one key with two contents tells creation, update and deletion
apart.
Symmetry is used only over interchangeable connections or requests, in runs
without temporal properties that need fairness.

Fairness. Weak fairness of a session's own steps: goroutines are scheduled, and
every statement has a context with a timeout or returns an error. Weak fairness
of `KnockoutClose` (the caller goes on), of `Start` (a broker that died is
started again by its supervisor; without it a stranded row stays), of the
legacy receive loop when the agent has vanished (`SetReadDeadline` before every
read), of `AcceptTimeout` (a timer and a deadline in `authentication`), of the
idle timer of a handle that is no longer in the map, of a synchronisation job
(a context of a minute), and of each manager link's own steps (dial and
back-off have time limits; telecom's handshake has none and is not enabled while
the manager is silent).
Nothing is assumed of agents or of the manager: they may never connect, never
speak, never close. A session that goes on serving is not forced to end.

## 4. Where code and comments disagree

Two runs show one each by a counterexample of TLC:

* `hub_knockout`: the deferred `Del` of an old session removes the entry of the
  new one, and the broker answers "not online" for a minion it serves
  (`bridge/mlink/hub.go:173`).
* `sync_startup`, `TaskSync!StartupReloaded` is false: of two startup jobs the one
  that read the older startup may send last, and nothing corrects it
  (`agent_startup.go:33`).

Four properties of the modules say what a comment or message of the code says and
are false; to see the trace, make the property the only INVARIANT of the module's
cfg, with `Session <- TwoBrokers` or `TwoMinions` and their brokers and minions for
the first and the third:

* `AgentServer!ServedOnce` is false with two brokers: both `Find` the row
  offline, the first `Claim` sets it, the second changes no row, nobody looks at
  RowsAffected, and both serve (`channel/serverd/server.go:162`; line 121 says
  that a minion which is online may not come online).
* `AgentServer!RefusedOnlyIfOnline` is false: `Put`, `Claim`, then the answer
  cannot be written and `Handle` returns before it deferred `disconnect`; entry
  and row stay and the agent is refused until the broker restarts
  (`server.go:103`).
* `AgentServer!OwnPeer` is false: all sessions share one
  `http.Server`; a second session stores its `BaseContext` before the first one's
  `Serve` reads it, and the first agent's requests carry the second one's id
  (`server.go:67`).
* `SharedStrings!GetReturnsLive` is false: `Get` has `Gte(0)`
  where the comment (`shared_strings.go:36`) says `<= 0`, so expired rows are
  returned.

The others are exceptions named in a property or noted with a hazard:

* `ExclusiveSession` is false in `BrokerGateways`: a legacy session whose own
  UPDATE never won the row releases it, because both gateways of a broker write
  the same broker id; the current gateway goes on serving and another broker
  claims the minion (`linkhub.go:212`).
* `Set` with a lifetime on a row without one does not store the lifetime
  (`shared_strings.go:57` says it renews the row).
* `Authorize` never answers 425 to an inactive minion (`rest.go:45`); two
  websockets of a minion can pass `Authorize` together, so that 429
  (`rest.go:46`) is not answered and the first to leave deletes the other's entry.
* `AgentUpgrade!LegacyBin`: the legacy upgrade offers deprecated, test and
  customised binaries (`SafeHand` exempts it).
* `ElkeidFS!Do` and `TaskPush!FindExecute` return on an error without taking
  their mark away: the file is no longer cached, the execution is refused, until
  the process restarts (`MarkHeld`, `PushMarkHeld` name the case).
* `SystemUpdate`: a second update is only logged and runs; between `Remove` and
  `Symlink` there is nothing to start (`together` and `cut` in `LinkBootable`).
* `Sbom!InsertComponents`: components that fail after their project are never
  stored, the unchanged checksum makes every later report skip them (`lost`).
* `MinionTags`: overlapping edits undo each other (`raced`);
  `Collect!AccountFull` is answered before it runs, `ProcessFull` answers success
  when its INSERT failed.
* `PipeLog!ReadFails`: the error of reading the stored lines is dropped, the
  follower goes on with a gap (`fs.go:87`; `cut` in `NoGap`). A short write stores
  bytes that no follower is sent (`file.go:82`).
* `TaskSync!DeleteRows` and `CreateRows` are no transaction: overlapping jobs can
  leave a task with several equal rows, `RowsDoNotPileUp` says how many at most.
* `Telecom!ConsultFails` has no deadline: a silent address holds the client.

## 5. Proofs

The theorems hold for any sets of brokers, minions, sessions, keys and requests
and any number of faults, from the named assumptions of the modules: sessions
refer to existing brokers and minions, the "none" values are not members of the
sets they stand beside, requests are finitely many, bounds are naturals.

* `MinionHubProofs`. `LeaseInv` is `TypeOK`, `DownQuiet` (a process that is down
  has no goroutine), `ExclusiveSession` and `HolderRow` together. Exclusion is
  not inductive by itself: the claim UPDATE is guarded by the row's status, so
  one needs that the row of a served minion is online, and that only a session
  of the same broker could release it, of which exclusion says there is no
  second. From it: `AtMostOneSession`, `RowNamesHolder`, and `HubImplementsLease`
  (the owner of a minion changes only through "none", so every step is an
  `Acquire`, a `Release` of a set, or a stutter). `NoDeadEntry` is inductive
  with the types. `ReachableProved` rests on `EntryOwned`: up to the first
  Knockout, from `Put` to `Leave` the entry is the session's own.
  `NoStrandedRow` and `TagsProved` build on `LeaseInv`; `DeletedProved` is an
  action property that follows from the guard of the claim and the types.
* `LegacyHubProofs`. `EntryLiveProved`: although `Store` overwrites, every
  session that leaves clears the entry of its minion, so no entry outlives its
  session. `OnlineRowHeldProved`: the release does not ask who set the row.
* `AgentServerProofs`. `EntryOwnedProved`; `ReachableProved` from `ReachInv`
  (types, `EntryOwned`, the property and `LeavingReleased`: a session about to
  call `DelByID` has released its row, and no other can claim it for the broker
  while the entry is there).
* `SharedStringsProofs`. `VersionsGrow`: while a row lives its version only
  grows, and equal versions mean equal rows; a row created anew has a new
  `born`. From it `VersionProved` and, with it, `CountProved`.
* `MinionHubProofs`, second part: the hub beside the legacy endpoint
  (`BrokerGateways`). The lease of all sessions fails there, because a legacy
  session releases the row of its own broker's hub. `LeaseOn(A)` restricts it to
  a set of sessions that is closed under "same minion, same broker"; it is
  inductive for `WithoutLegacy`, the sessions with no legacy rival, and
  `HolderRowProved` follows. `OnlineRowServedProved` needs in addition that
  whoever sets a row online holds it from then on in one of the two hubs, and
  that either hub's release sets it offline for both.
* `PipeLogProofs`. `PipeInv` has three parts. `Shape`: types, a writer has a
  handle and a line, inodes are made one per unlink and start empty, a follower
  is registered before it reads. `Complete`: the property `NoGap` speaks of
  followers that stream; what makes it inductive is that a follower which is
  still reading, and whose reading has not failed, has been sent, or is about to
  be sent, every whole line it has passed, and all of a file that took the place
  of the one it reads. `Counted`: as long as no request outlived a Remove and
  nothing failed, only the handle in the map has a file open, that file has the
  name, and the handle's count is its size. From these `NoGapProved`,
  `SizeBoundProved`, `PipeTypeCorrect`. `TailNProved` is about the operator:
  offsets increase strictly (`OffsetsIncrease`), the starts in a buffer from
  line t on are as many as the lines (`StartsAbove`), and a buffer that begins
  behind line t has fewer (`StartsWithin`), so the first of the last n starts is
  where the last n lines begin, wherever blocks fall and whatever a short write
  broke off.
* `TaskSyncProofs`. `SyncInv`: an idle job keeps nothing, a reload names a
  substance, no step touches the agent's own tasks (`OwnKept`), and what a job
  that nothing overtook has read still is so at each later statement (`Viewed`).
  The last is what turns the final comparison of `rsync` into a statement about
  the agent: `JobSettlesProved`. `FewRows` counts copies of a row and writers
  between their two statements together: they are at most the jobs and the failures
  so far, which a DELETE restores and an INSERT keeps; the bound on the rows alone,
  `RowsDoNotPileUpProved`, is not inductive. `OneWriter` (between the DELETE and
  the INSERT of an unmixed writer there are no rows and no other writer) together
  with `Viewed` (the report it saves is what the agent runs) gives
  `RowsTellAgentProved`, for any report and any rows left by earlier writers.
* `ManagerLinksProofs`. `TelecomInv` and `ClientdInv` tie the count of open
  connections to the client's place; with them every step of either client, of
  the manager and of the other client is a step of `ManagerLink` or a stutter:
  `TelecomLinkProved`, `ClientdLinkProved`.
* `BrokerServicesProofs`. One inductive invariant per service.
  Reports: the invariant says what a report which runs alone still has to do.
  `CollectInv`: a report is "alone" only
  if it is the only one (`AloneIsOnly`); a full report has emptied the table
  before its INSERT (`FullReplaces`); what is left of a diff, applied to the
  table as it is, gives the agent's view (`DiffCompletes`). The property says
  only what holds between reports; these say it at every statement.
  `SysinfoInv`, `SbomInv` (`Stage`: the tables a report finds at each of its five
  statements) and `TagInv` follow the same idea.
  Files: `UpgradeInv` (the count is the cardinality of the downloads with
  a place: `RequestAssumption` makes it a natural number), `ElkeidInv` (a writer
  is the owner of the mark, there is one owner, and the temporary file is what
  the writer's state says), `UpdateInv` (while updates do not overlap, the link
  names a whole file or its removal is the current step of the one update).
  Dispatch: `PushInv` (one push is under way and holds the mark, the items of its
  batch are still to do, and an item whose row is not written has not been sent,
  the current one excepted), `ScanInv` (a minion that was promised
  is handled, queued, or still ahead of some scan; a page is empty only when
  nothing is left and otherwise holds the first rows, `PageIsFirst`).
  `StepOfEach` says that a step of the composition is,
  for each service, one of its own steps or leaves its variables alone; with it
  the nine invariants hold together, and `AssetsProved`, `StoredProved`,
  `ReportsProved`, `UpgradeProved`, `CacheProved`, `LinkProved`, `PushProved` and
  `ScanProved` follow for the composed specification.

Lemmas about the UPDATEs on the minion table stand at the head of each of the
three modules that use them. Facts for every length of a sequence or every
number are proved from the least counterexample (`LeastNumber`, from the
well-foundedness of the naturals): `Bytes` is a recursive function, and the
lemmas `SumsExist`, `BytesAppend` and `OffsetsIncrease` are obtained that way.

Every invariant and every refinement that a passing run checks is the subject of a
theorem. Only model-checked is liveness (`KnockoutDisconnects`,
`StrandedRowFreed`, `VanishedGoesOffline`, `AuthenticationEnds`, `StaleClosed`,
`JobsEnd`, `Reconnects`, `SilentManagerLeft`), which needs fairness and ENABLED.
The theorems are about the specifications without fairness, which the fair ones
imply.

## 6. Not modelled

* streams and proxies: bytes copied between two connections;
* reports stored in one statement (risks, events, audits, logons, heartbeats,
  third-party files), and CPU reports, which are not stored;
* relay of commands and broadcasts: one call to an agent, no
  state; a Knockout they end with is in `MinionHub`;
* alarms and CMDB calls that follow a node event;
* routing, middleware, parsing of configuration and of the identity;
* the wiring in `launch/run.go` and `launch2/exec.go` beyond start, stop and the
  services themselves.

## 7. Further work

1. Which sessions of both gateways together exclude each other: a lease over the
   union of the two maps, with the legacy releases as named exceptions.
2. `Store` of the shared strings, once it has a route.
