# SysManage: TLA+ models, checks and proofs

SysManage is a server (Python, FastAPI, one asyncio process) that manages hosts through agents.
Each agent keeps a WebSocket open to the server. Nothing is sent or processed directly: commands
to agents and reports from agents pass through one table, `message_queue`, that a background loop
drains once a second. Servers form federations: a coordinator sends commands and policies to its
sites, and a site reports back through a queue of its own. This directory models that core and the
components around it that keep state of their own, and proves what matters most about them.

Paths below are relative to `src/backend/`.

## The system

### Components, their state and how they interact

| component | code | state | operations |
|---|---|---|---|
| message rows | `websocket/queue_operations.py`, `queue_maintenance.py` | `message_queue`: status, retry_count, scheduled_at, started_at, created_at | enqueue, mark_processing, mark_sent, mark_completed, mark_acknowledged, mark_failed, retry_unacknowledged, expire_old, cleanup |
| message processor | `websocket/message_processor.py` | one database session per pass and per database | a pass: expire, inbound, outbound, retry, purge, commit; or rollback |
| outbound processor | `websocket/outbound_processor.py` | the rows it selected, in memory across awaits | select 20, group by host, gate, send, settle |
| inbound processor and router | `websocket/inbound_processor.py`, `message_router.py` | the rows it selected; the drain's session, shared with every handler | reset stuck rows, select 10, find the host, run the handler, settle |
| connection | `api/agent.py`, `api/message_handlers_core.py` | hostname of a connection, the buffer of reports from before the registration | connect, SYSTEM_INFO, heartbeat, enqueue a report, flush, disconnect |
| acknowledgments | `api/message_handlers.py` | the connection's own, long-lived session | handled at once, committed at once |
| connection manager | `websocket/connection_manager.py` | `active_connections`, `hostname_to_agent` | connect, register, disconnect, send |
| package catalog | `api/package_handlers.py`, `services/package_catalog_refresh.py` | `available_packages` rows, `host.available_packages_fingerprint`, `_batch_sessions` in memory | batch start, chunk, end, delta; request with the known fingerprint |
| reboot orchestration | `api/reboot_orchestration.py`, `services/reboot_orchestration_service.py`, `services/child_host_result_handlers.py` | one row per reboot with a snapshot of the children, their restart statuses and a deadline; the children's records | request, progress of the shutdown, heartbeat, progress of the restart; results of plans and of plain commands, listings |
| federation, coordinator | `services/federation_dispatch_service.py`, `federation_policy_service.py`, `federation_site_service.py`, `federation_rollup_service.py` | sites, dispatched commands with a status machine and push attempts, versioned policies and their assignments, rollups | dispatch, push failed, update; edit, assign, unassign, requeue, pushed, push failed; suspend, resume, remove; ingest |
| federation, site | `services/federation_inbox_service.py`, `federation_actuation_service.py`, `federation_policy_apply_service.py`, `federation_sync_queue_service.py`, `proplus_dispatch.py` | received commands with results per host, received policies, the sync queue, correlations in memory | receive, fan out, route an answer, settle; apply; enqueue, peek, sent, failed, purge |
| heartbeat monitor | `monitoring/heartbeat_monitor.py` | host.status | mark stale hosts down, every minute |

The rest of the repository (accounts, secrets, air gap, licensing, enrollment, rollups, the
front end, installers, migrations, several hundred REST handlers) is listed in `PROJECT.json`
with the reason it is left out: single-row requests, calls to external services, files, or
results that only closed-source engines read. Some of the federation's workers (the one that pushes
to a site, the one that drains a site's sync queue) are in such an engine too: what they call is here,
and they are modelled from the repository's tests that drive these services the way they do
(`tests/services/test_federation_push_worker.py` and its neighbours).

```
 REST request --enqueue--> message_queue (OUTBOUND) --drain--> websocket --> agent
                               ^   ^                                          |
       mark_acknowledged ------+   +-- drain: retry, expire, fail             |
       (own session, at once) <------------------- acknowledgment ------------+
                                                                              |
 handlers <--drain-- message_queue (INBOUND, host_id NULL) <-- buffer <-- report

 operator --dispatch--> command --push--> site's inbox --fan-out--> message_queue --> agents
    ^                      ^                                                            |
    +---- status ----------+--- ingest <--drain-- sync queue <-- settle <-- answers ----+
```

### What is hard about it

* **One transaction spans many awaits.** A pass selects rows, sends them one after the other, each
  send an await, and commits at the very end, after the inbound phase, the sends, the retries and the
  purge. Between two awaits other tasks run on other sessions: acknowledgments, enqueues,
  deletions. PostgreSQL's READ COMMITTED hides from each what the other has not committed. There
  are no row locks and no versions.
* **Handlers share the drain's session.** A handler that commits in the middle of a pass commits
  whatever the pass has done so far; one that rolls back takes back the COMPLETED of other reports.
* **Sending is not transactional.** A rollback or restart after a send forgets the send.
* **Timers race.** Acknowledgment timeout, backoff, expiry, the reset of stuck rows, the daily purge.
* **State in memory and in the database.** Connections, buffers, batch sessions and the correlations of
  commands die with the process; the rows they belong to do not.
* **Nothing is sent exactly once.** A push, its answer, a row of the sync queue and its answer are each lost
  or repeated on their own; the eighth failure of a push changes a command that may be done already.
* **Rows are changed by id while somebody has their old contents in flight**: a payload replaced under the
  same key, a policy renewed while its older version is applied.
* **Handlers infer the phase they are in.** A heartbeat or a listing of children says nothing about the
  reboot it is taken for, and what is recorded of a child is what some answer or listing said, however old.
* **Who follows up depends on the path.** A command that went out as the plan of an engine has its result
  recorded by its correlation and no handler after it; the same command sent plainly has one.

### What makes each component correct

* Outbound: a row is never stuck; it is sent a bounded number of times, never sooner than its timers
  allow; a command is COMPLETED only when the agent has it; a settled row stays settled; the drain
  overwrites nobody's change; every row settles; without disturbances everything is delivered.
* Inbound: no report is forgotten in a buffer; a handler runs again on a report of which it has stored anything only
  when a rollback took its completion back or it broke off half-way; every row settles whatever the handlers do to
  the session.
* Catalog: what the server holds for a host is what its recorded fingerprint says.
* Orchestration: a reboot takes down no running child; a child that counts as restarted was started after
  it; an orchestration ends. Each with exceptions, which the properties name.
* Commands of a federation: a host gets a command once; the verdict the operator is shown is what became of
  it; no verdict is lost; a command that waits has an answer to wait for; only giving the site up changes a
  closed command.
* Policies of a federation: what counts as pushed is at the site, what counts as applied is in the local
  tables, and an assigned policy converges.
* Registry (not modelled yet): a registered agent is reachable through its hostname.

## The modules

| module | models | rests on |
|---|---|---|
| `MessageQueue` | one row and the operations on it, as pure operators | |
| `OutboundDelivery` | the drain's outbound pass, the agents and the acknowledgments | `MessageQueue` |
| `DeliveryContract` | what the outbound queue promises: no transactions, timers, retries | |
| `MCOutboundDelivery` | instances for TLC | `OutboundDelivery` |
| `OutboundDelivery_proofs` | the inductive invariant, the safety theorems | `OutboundDelivery` |
| `OutboundDelivery_refines` | the refinement theorem | `OutboundDelivery_proofs` |
| `MessageQueue_proofs` | lemmas about rows | `MessageQueue` |
| `InboundProcessing` | connection, buffer, the drain's inbound pass with the shared session | `MessageQueue` |
| `InboundProcessing_proofs` | the inductive invariant, the safety theorems | `InboundProcessing`, `MessageQueue_proofs` |
| `PackageCatalog` | ingestion of package catalogs | |
| `MCPackageCatalog` | instances for TLC | `PackageCatalog` |
| `PackageCatalog_proofs` | the inductive invariant, the safety theorems | `PackageCatalog` |
| `RebootOrchestration` | reboots of a parent with its children, their records, the agent, what is in flight between them | |
| `RebootOrchestration_proofs` | the inductive invariant, the safety theorems | `RebootOrchestration` |
| `SyncQueue` | the site's queue for the coordinator, as pure operators | |
| `FederationCommands` | a command from its dispatch to its verdict: coordinator, site, hosts, sync queue | `SyncQueue` |
| `CommandContract` | what the federation promises of a command: no requests, queues, retries | |
| `MCFederationCommands` | an instance for TLC | `FederationCommands` |
| `FederationCommands_proofs` | the inductive invariant, the safety theorems, the refinement | `FederationCommands` |
| `FederationPolicies` | versioned policies, their pushes and their application | |
| `MCFederationPolicies` | an instance for TLC | `FederationPolicies` |
| `FederationPolicies_proofs` | the inductive invariant, the safety theorems | `FederationPolicies` |

### MessageQueue

A row is `[status, retries, timer, age]`. The code compares three datetimes with the current time and
only ever asks whether a threshold has passed, so the datetimes become timers in minutes that saturate
one past their threshold: `age` for `created_at` (expiry), `timer` for whichever of `scheduled_at`,
`started_at`, `completed_at` is read in the row's current status. A timer that nothing reads any more
is kept at 0. Each operation is an operator from rows to rows with the code's status guard; the modules
above decide which session runs it and when it is committed.

### OutboundDelivery

`db` is the committed table; `tx` and `touched` are the drain's uncommitted version of the rows it
changed; `View` is what a query of the drain's session returns. The steps of a pass are the stretches
between two awaits:

| action | code |
|---|---|
| `Enqueue`, `DeleteExpired` | `enqueue_message` for an existing host; deletion on the queue page |
| `BeginDrain` | `process_pending_messages` up to its first await: old rows expire, uncommitted |
| `InboundCommit`, `InboundRollback` | what an inbound handler does to the shared session |
| `SelectBatch` | the query: due, PENDING, by priority (as strings) and age, LIMIT |
| `RejectGroup`, `AdmitGroup` | host missing or not approved: all its rows fail; else the rows the maintenance window lets through |
| `StartSend`, `AfterSend` | `mark_processing`, the awaited send; then SENT, COMPLETED or failed |
| `FailUnknown` | a message type without a branch |
| `CommitDrain`, `RollbackDrain`, `Restart` | retry, purge and commit without an await in between; exception; crash |
| `Acknowledge` | `handle_command_acknowledgment`, which reads and writes committed rows |
| `AgentReceive`, `LoseMessage`, `LoseAck`, `Drop`, `Register`, `ChangeHost`, `ToggleWindow`, `Minute` | the environment |

`sends`, `recv`, `acked`, `quiet` are history variables that only the properties read. Disturbances are
switched by `Env`. The send takes one of two outcomes: handed to the socket, or failed (no connection, or
one that is breaking).

`DeliveryContract` is the abstract specification:
`none -> queued -> awaiting -> done | dead -> gone`, with `queued` re-entered by retries, `awaiting` only
after a hand-over and `done` only after the agent has the message (or, for a push nobody acknowledges,
after the hand-over). `OutboundDelivery` instantiates it through `PhaseOf`; a pass that commits many
rows at once is one `Pass` of the contract, because the commit is the only step that others see.

### InboundProcessing

One agent and its reports. `link` and `buffer` are the connection, `tenant` says whether the host's data
lives in a tenant database, in which case the handler has a session of its own. A handler can leave the
session in six ways, each an action: it stores the report and commits (`Applies`); it refuses without
touching the session (`Refuses`); it catches an error, rolls back and answers with an error
(`CatchesError`); an exception leaves it (`Raises`); a database error leaves it and every later
statement of the pass fails (`BreaksSession`); or the process stops (`Restart`). Before any of them it may
commit a part of what it does, once or several times (`StoresPart`; the software inventory commits its
deletions before its insertions, for one), and with that, on the server's database, all the pass has done so
far. What a handler stores is left out. A report may be sent again by its agent; the unique message id keeps
the row single while it exists.

### PackageCatalog

`rows` counts the rows for each package of each host (the table has no unique constraint, so a repeated chunk leaves
two). Messages of a host arrive in a queue, and the faults of the inbound path appear as actions: a handler's error
that counts as processed (`HandlerFails`), a message handled once more after its completion was rolled back
(`HandleUncompleted`), a message handled before an older one (`HandleOutOfOrder`), a restart that loses the batch
sessions (`Restart`), and a batch that comes without a fingerprint (`AnswerUnsigned`), whose end replaces nothing of
what is recorded (`if fingerprint`). `hints` are the fingerprints handed out with requests: an agent may answer a
request made long ago, which is how stale deltas arise. Simplifications: a fingerprint stands for its catalog, a
host has one package manager, a chunk carries one package, no rows without a host remain from older versions, the
agent reports its own operating system, and a delta names the fingerprint it leads to: an agent that is told a
fingerprint computes them. A put updates any one of the rows of its name, as the query does not say which.

### RebootOrchestration

What happens, what is under way and what is recorded are apart. `child` and `parentUp` are what the machines are,
and only the agent's actions change them. `commands` are those the agent has not carried out, `answers` what it said
of them and the server has still to handle, `listings` what it saw of the children: the inbound queue keeps no
order, may lose a message and may handle one twice. `status` is what the server has recorded, and only the
handlers of answers and listings change it.

| action | code |
|---|---|
| `Initiate` | `orchestrated_reboot`: the children recorded as running are the snapshot; each stop is queued, as a plan or plainly |
| `PlanAnswer` | `route_proplus_command_result` and `_apply_child_host_op_result`: a stop's result is recorded, and nothing else happens |
| `StopAnswer`, `StartAnswer` | the closed handlers of plain commands: the result is recorded and the progress checked |
| `RecordListing` | `_apply_list_child_hosts_result`: the children are recorded as they were seen, whenever that was |
| `CheckShutdown`, `CheckRestart` | `check_shutdown_progress`, `check_restart_progress` |
| `Expire` | the deadline, which the code looks at only inside `check_shutdown_progress` |
| `Heartbeat` | `handle_agent_reconnect`, called for every heartbeat, one sent before the reboot too |
| `Stop`, `Start`, `DoReboot`, `ParentBoots`, `Observe` | the agent and its host |
| `Lose` | a command that expires, an answer or a correlation that is lost |

Whether an engine takes a child's command as a plan is a choice of `Initiate` and `Heartbeat`; `planned` and
`correlated` remember it. The plan of a stop is correlated with its child, that of a start is not, as
`handle_agent_reconnect` passes no id of a child: its result is routed nowhere. `Initiate` asks for a host that is
recorded as active, which it stays for some time when its agent is gone, so the guard is left out. Several orchestrations
of one parent may be under way, since nothing looks for one, and each step picks by status, as the queries do.

Nothing in this repository calls `check_shutdown_progress` and `check_restart_progress`. Their docstrings say that
they are called when a child was stopped or started, and the handlers of these results that `message_handlers.py`
routes to are in a closed engine: they are taken to call them. A listing may lead to `CheckRestart` or not. None of
them is reached by the result of a plan, for which `route_proplus_command_result` returns True.

History, for the properties and the proofs: `early` (the restart began before the reboot), `overlapped` (another
orchestration was under way), `repeated` (a command was carried out, or an answer handled, and kept), `unstopped`
(recorded as running when the reboot was ordered), `misled` (recorded otherwise than it was, during the
orchestration), `started`, `hit`, `rebooted`, `troubled` (a command failed, or it or its answer was lost).

### SyncQueue and FederationCommands

A row of the sync queue is `[value, attempts, at]` under its deduplication key: the value stands for the
payload, `at` for `created_at`. The back-off only delays a row and is left to the scheduling.
`FederationCommands` is the composition of both servers and what lies between them:

| action | code |
|---|---|
| `Suspend`, `Resume`, `Remove` | the states of `FederationSite` |
| `Dispatch`, `PushStart`, `PushOk`, `PushFail` | `dispatch_command`; the push worker's request and what it records |
| `SiteReceive` | `receive_command`; the answer arrives or is lost |
| `FanOut`, `FanOutRefused` | a tick over a queued command: unknown targets fail at once, the others get a message each |
| `HostResult`, `ResultLost` | an answer is routed by its correlation and settles the command if it is the last |
| `PullPlan`, `PullCommit`, `PullAbort`, `PullResult` | a content-view pull, whose plan is queued in a transaction of its own |
| `PullRefused`, `PullRaises` | a pull that cannot be carried out fails at the site; one whose dispatch raises is also reported |
| `Snapshot` | a host rollup, queued under a fixed key |
| `DrainStart`, `Ingest`, `DrainOk`, `DrainFail`, `Purge` | the drain worker sends a row, the coordinator takes it or not, the row is deleted or counted |
| `CoordRestart`, `SiteRestart` | requests under way, correlations and an open tick are gone |

A request is handled, if ever, before its sender gives it up; there is one push and one drain worker.
`CommandContract` has three variables: what was asked, the outcome at the site, what the operator was told.

### FederationPolicies

`assignment` is the coordinator's row for a policy and the site, `sending` the push worker's request,
`inbox` the site's row, `before` the order of `received_at` by which the apply worker takes a batch of
`Limit`, `local` the local object (a firewall role) with the version it was made from. `flawed` are versions
that no applier can materialise. `UpdatePolicy`, `Deactivate`, `Assign`, `Unassign` and `Requeue` happen at
any time, also during a push or an application.

## What is checked

| run | question | result |
|---|---|---|
| `outbound_safety` | one message of each type, all disturbances, one rollback or restart | 177,552 states, all hold |
| `outbound_batch` | two messages in one batch, no disturbances | 220,664 states, all hold |
| `outbound_ack_race` | is an acknowledged command never sent again? | violated |
| `outbound_offline_push` | does a push wait for an offline agent? | violated |
| `outbound_broadcast` | does a broadcast reach a connected agent? | violated |
| `inbound_pass` | two reports, every behaviour of handlers, commits half-way, one abort | 371,916 states, all hold |
| `inbound_error_answer` | is a COMPLETED report one that was stored? | violated |
| `catalog_faults` | two hosts, three batches or deltas, one fault of any kind | 751,970 states, all hold |
| `catalog_claims` | does a failed chunk keep the fingerprint from being recorded? | violated |
| `federation_commands` | one command of every kind with rollups beside it, all faults once | 193,641 states, all hold |
| `federation_policies` | two policies of one role, edits, unappliable versions | 293,656 states, all hold |
| `reboot_orchestration` | two reboots of a parent, late answers and listings, plans, heartbeats | 284,831 states, all hold |

**outbound_safety** checks `TypeOK`; `NeverStuck` (no OUTBOUND row is committed IN_PROGRESS: only INBOUND
rows are ever reset); `CompletedWasReceived`; `SendsBounded` (`max_retries` copies, plus one for every
rolled-back drain); `TerminalStable`; `RedeliverySpacing` (between two sends of a row lie the
acknowledgment timeout and the backoff); `ImplementsContract`; `Settles` (every row ends).
**outbound_batch** checks `NoLostUpdate` (rows the drain holds are still committed PENDING, so its commit
overwrites nothing) and `Delivered`.
**inbound_pass** checks `RegisteredHasNoBuffer`, `AppliedOnce` (a handler runs again on a report it has stored, or a
part of it, only after a rollback of its COMPLETED or an exit half-way), `NoLostUpdate`, `Settles` and `TypeOK`.
**catalog_faults** checks `WholeIsFaithful` (an untouched batch leaves exactly its catalog, whatever was
there before and whatever the other host does, until the next batch, through any deltas),
`OnlyBatchesBreak` (a true fingerprint becomes false only while a batch is under way) and `TypeOK`.
**federation_commands** checks `VerdictHonest` (completed means that every host it was meant for succeeded, failed
that the site failed or was given up); `OneOrderPerTarget` (a host gets a command once for every time it is listed,
whatever is repeated); `SettledIsReported` (a verdict that is to be reported is in the queue until the coordinator
has closed the command); `SomeoneWillAnswer` (a command under way has an answer to come that will be routed);
`NewestRollupKept` (the newest rollup has arrived or is queued); `OnlyGivingUpOverwrites` (only the last failed push
changes a closed command); `SettledIsHeard` (a verdict closes the command in the end, or its row is dead or purged);
`KeepsContract` and `TypeOK`.
**federation_policies** checks `PushedIsReceived`, `AppliedIsMirror`, `Converges` and `TypeOK`.
**reboot_orchestration** checks `RebootSparesChildren` (a reboot takes down no child of its snapshot that is up),
`RestartedWasStarted` (a child that counts as restarted was started after the reboot), `Concludes` (an orchestration
that shuts down is completed in the end) and `TypeOK`, the first three with the exceptions below.

### What the properties' exceptions say of the code

A property that holds only with an exception names a behaviour the code has. TLC finds each of these: without
the exception the property is violated.

* *Reboots.* The restart begins at the first heartbeat after the reboot was ordered, which may have been sent
  before the agent went down: the docstring (`reboot_orchestration_service.py:108-109`) takes it for the
  reconnection. The reboot then takes the children down again (`early`). The deadline is looked at only when the
  progress is checked: a child whose stop fails or is never answered leaves the orchestration in `shutting_down`
  (`troubled`), and after the deadline the reboot hits children that are up (`expired`) and a record that still says
  "running" counts as restarted (`unstopped`). A stop that went out as a plan is recorded and not followed up: when
  the last one does, the orchestration stays in `shutting_down`; a start that went out as a plan has no correlation,
  and its child is awaited until a listing reports it (`planned`). Answers and listings are recorded however old they
  are: a listing made while a child was down, or a stop's answer handled late or twice, lets the reboot be ordered with
  that child up, and a listing made before the stops and handled after the reboot was ordered makes a child count as
  restarted that nobody started (`misled`). A reboot that is sent twice takes down the children started in between
  (`repeated`). Two orchestrations at a time confuse each other (`overlapped`).
* *Commands.* `federation_retry_policy.py` says commands are never dead-lettered, `mark_push_failed` makes them
  failed at the eighth failure, also a command that is closed; a result that comes later is refused and its row
  retried until it is dead. A command whose list names a host twice waits for ever: the list is counted with its
  repetitions, the results by host. Correlations are in memory: an answer after a restart is lost, and so is one to
  a pull that comes before the tick commits. Of pulls, the coordinator hears only when the dispatch raised:
  `_try_content_view_sync` catches the exception and reports the command as failed (`raised`). A pull that
  `handle_content_view_sync` itself refuses, or that was carried out, well or not, is not reported at all. A pull is
  planned again if the tick fails later. `mark_sent` deletes a row whose payload was replaced while the old one was
  sent, and `purge_oldest` also takes verdicts, and more rows than asked when rows share an instant: both are what
  `dropped` records.
* *Policies.* The attempts of a push count until they are renewed, not "consecutive" ones. A policy that is
  deactivated is not pushed any more, so a site never learns of it, and one that is unassigned stays at the site.
  A version that arrives while the older one is applied counts as applied (`overtaken`) and never is. Two
  policies of one role overwrite each other (`Sharing`). Rows that can never be applied stay first in the list:
  `Limit` of them keep every other row from being applied (`Starved`).

### What the violated runs show

* **ack_race.** An agent that answers faster than the drain finishes its batch has its acknowledgment
  ignored: the committed row is still PENDING. The drain then commits SENT and nobody will ever
  acknowledge the row: it is sent again after the timeout, and becomes FAILED if this happens on every
  attempt. `SendsBounded` says how often, `RedeliverySpacing` how soon.
* **offline_push.** A failed send counts as an attempt. Three attempts pass in about three minutes, then
  the row is FAILED, although `websocket/messages.py` promises delivery on reconnection.
* **broadcast.** `process_outbound_message` has no branch for the type that `api/broadcast.py` enqueues.
* **error_answer.** The router ignores what a handler answers, so an error answer completes the row.
* **catalog_claims.** The failed chunk of a batch counts as processed and leaves the session open; the end
  records the fingerprint, which the comment at that place says must not happen.

### Bounds, and why they are enough

* *Messages and reports.* The operations look at one row at a time; rows interact only through the shared
  transaction (one commits or rolls back the other) and the batch limit. Two rows show both. One row with
  all disturbances shows the whole life cycle. The theorems cover any number.
* *Times.* Thresholds are shrunk (expiry 3 or 4 minutes, acknowledgment timeout 1, purge after 0 or 1) but
  keep their order: a row can be retried, time out and be failed before it expires, and can expire first.
* *Retries.* `MaxRetries` 2 in the passing runs: one attempt that is followed by another and one that is the
  last. 3, the code's value, in the violated runs.
* *Aborts and faults.* `MaxAborts` 1, `MaxFaults` 1: a second one starts from a state the first has led to.
  `catalog_faults` was also run with two faults (4.9 million states) with the same result. The outbound
  theorems hold for any number of aborts.
* *Packages.* Two names, one in two versions: a delta can add, remove and upgrade. Three batches or deltas:
  a batch, a delta to it, and another that makes the delta stale.
* *Commands.* One command per behaviour, of any kind: commands share only the sync queue, where a row of another
  command is like the rollup's row, the workers, and the tick, whose failure at another command is `PullAbort`.
  Two rollups, so that one replaces another in flight. `MaxAttempts` 2: a failure that is retried and one that
  is the last. `MaxFaults` 1: one restart or one failed transaction, anywhere. The theorems hold for any number.
  Two hosts, one of which may be unknown, unlisted or listed twice.
* *Policies.* Two, of one role, so that they can overwrite each other; one is edited once, so that a push or an
  application can be overtaken. `Limit` 1: one unappliable row fills a batch.
* *Reboots.* Two children, of which one can be stopped while the other is not; `MaxTargets` 2, the children of all
  snapshots together: one orchestration of both, or two of one each, or of the same one. `PlanChoices` lets the
  engine take no child or the second one, so that plain and planned commands meet. `MaxIncidents` 1: one listing,
  failed, lost or repeated command or answer, or one overlap, at any time: each exception of the properties needs
  one of them, and the theorems hold for any number.
* *Hosts.* Two interchangeable hosts in the catalog, where one could delete the rows of the other. The
  outbound drain treats hosts one after the other, and the theorems cover any number.
* `wire`, `acks`, `sends` need no bound: a message is sent at most `MaxRetries + MaxAborts` times.
* The catalog run ends when the agents have sent all their batches, the commands of a federation when the site is
  removed and nothing is under way, the reboots when no target is left: hence `CHECK_DEADLOCK FALSE` there.

### Fairness

`WF(Drain)`: the loop of `MessageProcessor.start` catches every exception of a pass and never returns, and a
WebSocket send that is awaited ends, with success or failure. `SF(Minute)`: time passes; `Minute` waits for
the pass to end (`PromptDrain`, and `pc = "idle"` in `InboundProcessing`), as a pass takes seconds, and is
disabled and enabled over and over, hence strong fairness. `Delivered` also assumes an agent that receives and
answers (`AgentFair`). Nothing is assumed of disturbances, handlers or maintenance windows. In
`outbound_ack_race` minutes pass freely, also in the middle of a pass.

`federation_commands`: `WF` of the drain worker's steps, which peeks at every ready row, tick after tick; nothing of
the push worker, the network, the agents or the operators. `federation_policies`: `SF` of a push and of the
application of each policy, since a single worker goes round a list and other policies' rows disable a step for a
while, and `WF` of the ends of what a worker started; `Converges` assumes that operators do not renew the attempts
for ever (`AttemptsCount`), without which pushes may fail for ever. `reboot_orchestration`: an agent that is up
carries out its commands and sends heartbeats, a rebooted parent comes back, and the queues hand out what they hold
and are done with it in the end, as their retries are limited. Nothing is assumed of listings, which nobody has to
ask for, nor of `CheckShutdown` and `CheckRestart`, which are parts of the steps that call them.

## What is proved

Every safety invariant and action property of a passing run, both refinements, and a number of properties that no
run states, are proved by TLAPS for every value of the constants that satisfies the named assumptions of the
modules: any number of messages, hosts, reports, packages, commands, policies, children, retries and faults, any
batch limit. The assumptions say that limits are natural numbers (`MaxRetries`, `MaxAttempts` at least 1), that
hosts, packages and reports are finite sets, and that the markers of absence (`None`, `NoRow`) are nothing else.

| theorem | states |
|---|---|
| `Invariant` | `Spec => []IInv` |
| `TypeCorrect` | `Spec => []TypeOK` |
| `NoUpdateIsLost` | `Spec => []NoLostUpdate` |
| `NoRowIsStuck` | `Spec => []NeverStuck` |
| `CopiesAreBounded` | `Spec => []SendsBounded` |
| `CompletionIsEarned` | `Spec => []CompletedWasReceived` |
| `CopiesAreSpaced` | `Spec => RedeliverySpacing` |
| `Refinement` | `Spec => ImplementsContract` |
| `FinishedStaysFinished` | `Spec => TerminalStable` |
| `PassesEnd`, `PassesCanGoOn` | a pass ends within `3 * BatchLimit + 3` steps of its own, and always has one |
| `BatchIsFirst`, `HostsAreServedInOrder` | a batch is the first rows of the query; a host's messages leave in its order |
| `SettledIsNotSent`, `FailuresAreExhausted` | only rows committed PENDING and due are sent; FAILED means `MaxRetries` attempts |
| `ExecutionsAreBounded` | an agent gets a message at most `MaxRetries` times, and once more for each abort |
| in `InboundProcessing_proofs`: | |
| `BuffersAreFlushed`, `StoredReportsAreNotRepeated`, `NoUpdateIsLost` | `Spec => []RegisteredHasNoBuffer`, `[]AppliedOnce`, `[]NoLostUpdate` |
| `PassesEnd`, `PassesCanGoOn` | a pass ends within `2 * BatchLimit` steps of its own, and always has one |
| `FinishedStaysFinished` | a COMPLETED, FAILED or EXPIRED report never changes again except to be deleted |
| `ResetOnlyRepeats` | the reset of stuck rows only ever repeats reports of which something was stored, and finds none for a tenant's hosts |
| in `PackageCatalog_proofs`: | |
| `WholeBatchesAreFaithful`, `DeltasKeepFaith` | `Spec => []WholeIsFaithful`, `Spec => OnlyBatchesBreak` |
| `OnlyFaultsMakeFalseClaims` | without a fault the server claims no catalog that it does not have |
| `WithoutFaultsBatchesRunThrough` | without a fault no chunk or end is refused and no batch session is left behind |
| in `RebootOrchestration_proofs`: | |
| `ChildrenAreSpared`, `RestartsAreEarned` | `Spec => []RebootSparesChildren`, `[]RestartedWasStarted` |
| `OrchestrationsGoOn` | the safety half of `Concludes`: the stop or start that is awaited is still to come, or is excused |
| `OrchestrationsRunOnce` | one pass through the phases, one reboot, one start for each child |
| in `FederationCommands_proofs`: | |
| `VerdictsAreHonest`, `OrdersAreNotRepeated` | `Spec => []VerdictHonest`, `[]OneOrderPerTarget` |
| `VerdictsAreKept`, `RollupsAreKept`, `AnswersAreAwaited` | `Spec => []SettledIsReported`, `[]NewestRollupKept`, `[]SomeoneWillAnswer` |
| `OnlyGivingUpReopens`, `ContractIsKept` | `Spec => OnlyGivingUpOverwrites`, `Spec => KeepsContract` |
| `NothingIsTakenBack` | no state, verdict, result or rollup goes back; hosts get orders only while the command is queued |
| `VerdictsAreWelcome` | the safety half of `SettledIsHeard`: an unheard verdict is queued and would be accepted |
| `PurgeKeepsTheNewest` | `purge_oldest` leaves at most `keep` rows, each newer than every row it took |
| in `FederationPolicies_proofs`: | |
| `PushedHasArrived`, `AppliedIsMirrored` | `Spec => []PushedIsReceived`, `[]AppliedIsMirror` |
| `VersionsAreFollowed` | local, held, sent and pushed versions ascend to the coordinator's; nothing unappliable is made |
| `SiteOnlyMovesForward` | no row, local object or pushed version goes back; settled stays settled until it is edited |
| `RowsAreAppliedInTurn` | a batch is the rows that wait longest, and is not empty while one waits |
| `PoliciesAreCarriedOn` | the safety half of `Converges`: what is not settled is still to be pushed or applied |

Each of these modules also has its `Invariant` (`Spec => []IInv`) and `TypeCorrect` (`Spec => []TypeOK`).

**Outbound.** None of the invariants is inductive alone. `IInv` adds what relates them: ids are enqueued in order
(`Numbering`); a row still to be sent has retries left (`Retriable`); which sets the drain can hold in which
phase (`DrainOrder`); what it holds is committed PENDING, and its own copy is one the operations could have
made (`NoLostUpdate`, `NeverStuck`, `Holding`); the sends of a row are at most its retries, plus the one under
way, plus the aborts (`Budget`); and an acknowledgment in flight is evidence that the agent has the message
(`Evidence`). `NoLostUpdate` is the pivot: it holds because an acknowledgment changes only SENT rows and the
queue page deletes only EXPIRED ones, while the drain selects only PENDING ones; the other invariants use it
to know that a commit writes onto the rows it read. The induction has one lemma per action that changes the
rows and one for the rest. The refinement uses `IInv`: the commit of a pass is one `Pass` of the contract.
`RedeliverySpacing` takes a second invariant on top of `IInv`. `Spaced`: as long as no drain was rolled back, the
minutes since the last copy of a message and those its row has still to wait make up the acknowledgment timeout and
the backoff of its attempts, a minute that passes moving one from the second to the first; `Waits`: what the drain
has selected is due, so that nothing is left to wait for when it is sent.
That a pass ends follows from a variant, `StepsLeft`: three steps for a row of the batch, two for an admitted one, one
for a send under way; every step of the drain lowers it and nobody else's changes it upwards. That a batch is the first
rows of the query order rests on the order being total and on a least-number principle (`Least` in
`MessageQueue_proofs`), which gives a non-empty set of rows its first. `ExecutionsAreBounded` is `SendsBounded` and a
ledger of copies: what an agent has received and what is in flight was sent.

**Inbound.** A report a handler has stored is COMPLETED as the drain sees it, or a rollback took that back or only a
part was stored (`StoredOnce`); to keep this when a handler's commit or rollback settles other rows of the pass one
has to know where these rows are (`PassOrder`: in the batch, current, or touched) and that a live row has a retry
left. Passes end and go on as in the outbound drain. `ResetOnlyRepeats` follows how a row can be committed
IN_PROGRESS: one handler runs at a time (`Serial`), and what it commits on the shared session it has stored, wholly
or in part (`InProgress`).

**Catalog.** `WholeIsFaithful` speaks of a batch that is finished; the induction needs to know what one under way
will still do. `QueueOK`: the messages of a batch that no fault has touched are, in the host's queue, an
uninterrupted rest of the batch, with one chunk for each package that is left. `SessionOK`: while it is open, the
rows of the host are those of the packages that are not left, once each. The start of a batch establishes the second
from the first, each chunk moves one package, the end finds none left. Without faults (`Calm`) every batch names its
fingerprint (`Signed`), every chunk and end finds its batch open, and so a recorded catalog is there or a batch is
under way: this is the comment that `catalog_claims` refutes, and the theorem says that it takes a fault to refute
it.

**Reboots.** Two orchestrations that are under way together are both recorded (`Alone`), so that otherwise there is
one; which commands there can be in which phase, and after which history (`Ordered`); while children are stopped,
one that is up is recorded as running, or was misrecorded (`Recorded`), so that a reboot that is ordered with no
record left hits nobody; and from the order of the reboot on, a child that is up *or recorded as running* was
started again, or was never stopped, or was misrecorded (`Accounted`). Since records follow answers and listings of
any age, both are about what is recorded as much as about what is so: a record changes to what is true, or `misled`
says so. `OrchestrationsGoOn` takes `Waiting` on top: during the shutdown the stop of every child recorded as
running is to come, as a command or as an answer that says it succeeded (`StopsAwaited`), hence some stop is
(`ShutdownGoesOn`), because the answer that removes the last of them checks the progress and orders the reboot; a
start is to come for each child awaited (`RestartGoesOn`). Each is excused by a loss or failure, an overlap, a
misleading record, or a plan: without the last exception the step `PlanAnswer` breaks `ShutdownGoesOn`, which is the
shutdown that nobody follows up.

**Commands.** The invariant follows a command around. `Pushed`: nothing is pushed, received or planned that was not
dispatched. `Orders`: a host may still answer at most what it was ordered. `Waiting` and `Answers`: only hosts it is
meant for have reported, the number awaited is that of the hosts unless one is listed twice, and those that have not
reported are awaited unless an answer was lost: so a complete command has heard of all, and an incomplete one has
somebody to wait for. This rests on a lemma about lists: a sequence is as long as it has elements if it names none
twice. `RowOK`, `SendingOK`: a queued row says what the site says now, and what the drain worker was told to be
taken is known to the coordinator. `Verdicts`: what the coordinator shows is the outcome at the site, which never
changes. `Raised`: a pull whose dispatch raised has failed for good and its tick is over, so that the answer to a
plan an earlier tick left behind changes nothing of what was reported. The refinement maps a status that is closed
to what was told, unless the pushes are exhausted, which is "given up" whatever the status was before; the last
failed push is the contract's `GiveUp`, a row that is taken its `Tell`, the last answer, or a refusal or a pull that
raises, its `Settle`. `NothingIsTakenBack` adds that a rollup in flight is not older than the last one taken and
that nothing is reported before the fan-out; `PurgeKeepsTheNewest` uses the least-number principle to find the
oldest row a purge leaves, which at most `keep` rows are as new as.

**Policies.** `AttemptsLeft`: only a dead assignment has no attempt left; `Delivered`: an answered push has reached
the site, in that version or a newer one; `Applying`: what the apply worker has read is still in its row, or the row
was renewed. A second invariant (`Course`) orders the versions from the local object up to the coordinator
(`VersionsFollow`), with `SentIsNewest`, which keeps a late answer from setting back what counts as pushed
(`SiteOnlyMovesForward`), and `ReceiptOrder`, by which there is a row that waits longest. `PoliciesAreCarriedOn` follows
from the first and the last: a version that counts as pushed and is the newest is in the row, and no batch is empty.

### Only model-checked

Liveness (`Settles`, `Delivered`, `SettledIsHeard`, `Converges`, `Concludes`): the prover has no rule for fairness.
Their safety halves are proved: passes end and can go on (`PassesEnd`, `PassesCanGoOn`), and in the states in which
something must still happen the step that makes it happen is in the queue (`VerdictsAreWelcome`, `PoliciesAreCarriedOn`,
`OrchestrationsGoOn`). That the step can be taken is stated as the existence of a row, message or command with the
guard's properties, and not with ENABLED; that it is taken is left to TLC and fairness.
`Minute` is in the theorems' specification like any other step.

## Not modelled

* The contents of messages, what handlers store, and the capability check and de-duplication of script
  commands at enqueue, which only refuse a row.
* `update_request` rows: gated like commands, and without a branch like broadcasts.
* The path of the inbound processor for rows with a `host_id`: the WebSocket never makes such rows.
* The evaluation of maintenance windows: calendar arithmetic, only its answer matters.
* Several databases: they are drained one after the other, each like the one modelled.
* The hostname table of the connection manager: only whether a host is connected. A disconnect deletes the
  mapping of a hostname even if a newer connection has registered it (a hazard in `PROJECT.json`).
* The progress of sends when maintenance windows defer more rows than a batch holds (a hazard, too).
* Flushing the buffer of a connection that fails half-way loses the rest: it is in `InboundProcessing` as the
  fault of a flush, and no property is about it.
* The applier of update profiles, secret leases, alerts, enrollment of sites, sync events; the reports computed
  from rollups. Compliance and vulnerability rollups take the way of the host rollup.
* The starts and stops of children by other requests, and creation, deletion and updates of children. A request for an
  orchestrated reboot that fails half-way: stops that are queued as plans are committed in sessions of their own before
  the orchestration is, and stay.
* The heartbeat monitor: its overwriting of a heartbeat committed in between is repaired by the next heartbeat.
* A delta without a fingerprint, which would change the catalog and keep the recorded one.
* Most of the repository by size, which is why the mapped lines are a small share of it: installers and
  translation scripts, several hundred REST handlers that read or write single rows, calls to the package, virtual
  machine, secret and certificate tools of the hosts, air-gap media, licensing, accounts, migrations. They keep no
  state that outlives a request other than rows no other component waits for; `PROJECT.json` lists them with
  their reasons.

## Plan

Done: outbound and inbound delivery, package catalog, reboots, commands and policies of a federation, with
proofs of their safety.

1. `ConnectionRegistry`: `active_connections` and `hostname_to_agent` under connect, register, disconnect of an
   older connection, rename, heartbeat clearing a hostname; a registered, open connection is the one its hostname
   finds.
2. A run with a batch smaller than the rows a maintenance window defers, over the progress of sends (the order of
   batches and of sends to a host is proved).
3. Secret leases and alerts of a federation, on `SyncQueue`.
