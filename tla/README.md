# Canopy, specified in TLA+

TLA+ modules of the parts of Canopy where steps of several processes, crashes
and lost answers meet, the TLC configurations that check them, and TLAPS proofs
of the results that matter most. Paths are relative to the repository root; in
the tables `svc/` stands for `crates/canopy-service/src/`.

    tlc -workers 2 -config MCDelivery_stable.cfg MCDelivery   # one run
    tlapm DeliveryProofs.tla                                  # one proof module

`PROJECT.json` lists the components, the hazards with the properties that
answer them, every run, the source lines behind every definition, and for every
property a plausible bug that would break it.

## 1. The system

Canopy is a desktop application (Tauri: a React front end in `src/`, a Rust
core in `src-tauri/`) that runs coding agents in terminals. Projects can also
live in a cloud workspace: a container on a host (`packages/remote-host`), whose
agents talk to a daemon, `canopy-serviced` (`crates/canopy-service`, with the
stores of `crates/canopy-core`). A control plane (`packages/control-plane`)
relays sealed envelopes between devices and workspaces.

### 1.1 Components at the core

| component | state it keeps | operations | talks to |
|---|---|---|---|
| **Delivery ledger** `svc/workspace.rs`, `svc/ledger.rs` | SQLite rows `deliveries`, `jobs`, `inbox`, `outbox`; one queue lock per terminal | `deliver`, `run_delivery`, `recover_deliveries`, `job_transition` | types through the runner (HTTP); mesh log, attention, outbox |
| **Terminal registry** `svc/terminals.rs`, `canopy-core/src/terminals.rs` | credentials with session id and child pid; the runner's address | mint, bind, revoke, reconcile, the generation checked at each write | runner; claims (released at revoke) |
| **Service lifecycle** `svc/service.rs`, `svc/admin.rs` | open workspaces, `workspaces.json` | register (PUT, repeated every 30 s), unregister, restart | starts recovery, hand-off, reconcile |
| **Host relay** `svc/relay/mod.rs` | none of its own: inbox and outbox rows | `relay_once` (poll, admit, ack, flush), `hand_off`, `resume_admitted` | control plane; delivery |
| **Desktop mesh client** `src/meshJobs.ts`, `src/teamMessaging/` | jobs submitted, sends in progress, seen envelopes | `submitRemote`, `sendMessage`, `once`, status handlers | control plane |
| **Peer queue** `control-plane/lib/peer-messaging.mjs` | envelopes per device with caps and expiry | enqueue, poll, ack | both ends |
| **Access** `svc/relay/access.rs` | the newest signed snapshot | `store_access`, `decide` | admission |
| **Attention** `svc/attention.rs` | one file per fyi or question | ask, rejoin, answer, expire, wait, prune | agents, IDE, event stream |
| **Event stream** `svc/stream.rs` | epoch, sequence number, ring of 4096 | publish, subscribe, resume | every store publishes |
| **Claims** `svc/workspace.rs`, `canopy-core/src/claims.rs` | claims per owner with their history | claim, hotspot claim, (partial) release, prune | agents |
| **Collaborative editing** `src/collab.ts`, `src/collab-ot.ts` | owner: text, history; guest: text, revision, operation in flight, queue | share, open, snapshot, edit, transform, resync, close | LAN relay `src-tauri/src/relay.rs` |
| **Task ledger and workflows** `src-tauri/src/tasks.rs`, `workflow.rs`, `src/workflowExecutor.ts` | task rows, attempts, run steps | create, claim, settle, resume after restart | agents, IDE |
| **PTY** `src-tauri/src/pty.rs` | scrollback, one attachment with its generation and unacknowledged bytes | attach, ack, detach, flush, exit | page, child |
| **Host supervision** `remote-host/runtime-supervisor.mjs`, `migration-*.mjs`, `image-upgrade.mjs` | recovery budgets and journals on disk | observe, reserve, recover, resume | Docker |

`PROJECT.json` names some thirty more (gates, governor, git orchestration, cloud
billing, the user interface, ...) with the reason each is not modelled.

### 1.2 How they interact

A desktop seals a job or a message and posts it to the relay (`meshJobs.ts`).
The workspace's daemon polls, admits the envelope in one commit (inbox row, job
row, status reply), acknowledges it, and spawns `hand_off`, which commits a
delivery row. A `run_delivery` task waits for its terminal's lock, resolves the
terminal, writes the text, waits 250 ms and writes Return, each under the
child's generation, and records how far it is before and after. The outcome
moves the job, which queues a status in the outbox; the relay loop posts it and
the client shows it. A restart reads what was left: cut deliveries become
`uncertain` and are reported, queued ones run, accepted envelopes are handed off.

### 1.3 What is hard, and what would make it correct

| behaviour | correct when |
|---|---|
| a crash between the ledger's commit and the terminal write | no message is typed twice; what was cut is reported; what was not begun is done |
| two messages to one terminal, the terminal replaced between the two writes | no Return submits another message's text; the ledger says what the child read |
| a write or post whose answer is lost | a retry repeats nothing that landed, or says so |
| hand-off, delivery, `job_done` and the relay loop moving one job | what the sender is told is true |
| admission, ack, crash | no envelope leaves the relay before it is durable; none is handed off twice; every one ends |
| a full mailbox, a team that was left, a long outbox | the other replies still leave |
| several members editing one text | copies converge, no edit is lost, no operation is applied to a text it does not fit |
| joins, offers, snapshots and edits that cross | a session never loses an operation it sent |
| a change stream that is cut, overrun, restarted, or raced by the writes a snapshot reads | a window never lacks an announced write without something on its way that brings it |
| a terminal bound while the list of live sessions is being fetched | it is not taken for a dead one |
| overlapping claims, widened, split, released and pruned by several parties | two keys never hold overlapping paths; none loses a path to a call under another key |
| a question answered as it expires, asked again, restarted under or pruned | one answer, the same for everyone, and it comes |
| a workflow driven by async calls that overtake one another, over crashes and reloads | one agent works for the run, for the step it is at; no step passes unearned or is done twice |
| late settlements, retries, cancellations and sweeps of one attempt | what ended stays ended; envelope and attempts tell one story |
| access snapshots out of order, PTY attachments, recovery budgets | not modelled yet: section 6 |

## 2. Modules

| module | models | lines it stands for |
|---|---|---|
| `AtMostOnce` | the promise of a delivery: typed at most once, then settled | abstract |
| `Delivery` | ledger, tasks, recovery, registration, terminals | `workspace.rs`, `ledger.rs`, `terminals.rs`, `service.rs`, `agent.rs` |
| `HostRelay` | client, relay queue, poll, admission, hand-off, outbox | `relay/mod.rs`, `meshJobs.ts`, `ledger.rs` |
| `CollabSession` | the owner's and guests' sessions over ordered links | `collab.ts`, `ProjectView/index.tsx` |
| `CollabOT` | operations, their application and transformation | `collab-ot.ts` |
| `TaskLedger` | envelopes, attempts, the terminals that run them, the start-up sweep | `src-tauri/src/tasks.rs`, `pty.rs`, `taskHistory.ts`, `ProjectView/index.tsx` |
| `Workflow` | a run's rows and the drivers that move it; extends `TaskLedger` | `src-tauri/src/workflow.rs`, `workflowExecutor.ts`, `workflowAttempt.ts`, `workflow.ts` |
| `EventStream` | the change stream and the window that mirrors the stores | `stream.rs`, `service.rs`, `remoteExecution/harnessStream.ts` |
| `Claims` | terminal credentials, reconciliation, file claims; extends `EventStream` | `terminals.rs`, `workspace.rs`, `service.rs`, `canopy-core/src/claims.rs`, `remote-host/service-harness.mjs` |
| `Attention` | questions and fyis; extends `EventStream` | `attention.rs`, `agent.rs` |
| `Aged` | what is kept oldest first and cut at the old end: the claims file, attention's items | `workspace.rs`, `attention.rs` |
| `Workspace` | the last three composed in one daemon that may die | |
| `MCDelivery`, `MCHostRelay`, `MCCollab`, `MCWorkflow`, `MCWorkspace` | symmetry, bounded inputs, a workflow definition, and in `MCCollab` the two collaboration modules joined | |
| `DeliveryProofs`, `DeliveryLedgerProofs`, `HostRelayProofs`, `WorkflowProofs`, `WorkflowRunProofs`, `WorkspaceProofs`, `WorkspaceFilesProofs`, `CollabProofs` | theorems: section 4 | |

### 2.1 Delivery

State: `dstate/dpty/djob` are the ledger's rows, `jstate/jpty/told` the jobs and
the statuses queued for their senders, `task` the live `run_delivery` tasks with
the place each has reached, `rec/rstep` what a running recovery has read and not
handled, `svc/endpoint/saved` the daemon and the runner's address in memory and
on disk, `creds/child` the bound credentials and the live child of each
terminal, `input` what every child has read.

| code | actions |
|---|---|
| `deliver` (workspace.rs) | `Deliver` |
| `run_delivery`: lock, resolve, body, note, sleep, Return, mesh mark, outcome, job | `TakeTurn`, `Resolve`, `Write`, `NoteWritten`, `WriteReturn`, `MarkSubmitted`, `SetSubmitted`, `Settle`, `Report` |
| `recover_deliveries`: read, spawn, mark, fyi, job | `UnfinishedDeliveries` (at `Restart`/`Put`), `RecoverQueued`, `MarkUncertain`, `ReportUncertain`, `SettleUncertainJob`, `EndRecovery` |
| `register` with a changed registration | `Put` |
| bind, exit, revoke, container restart | `NewTerminal`, `ChildExits`, `Revoke`, `ContainerRestarts` |
| admission of a job, `job_done` | `AdmitJob`, `JobDone` |

A ledger call is one step, because the code runs each in one transaction under
the connection's lock. Every await point of `run_delivery` separates two
actions. A runner write may be refused, land, or land with its answer lost;
whether it is accepted depends on the generation the runner checks. A crash may
come between any two steps: memory is lost, tables and saved registration stay.

`AtMostOnce` says of each delivery only that each of its two writes reaches
some child at most once and that it then settles for good. `PromiseKept`
checks that `Delivery`, under a stable registration, implements it
(`INSTANCE AtMostOnce WITH ...`).

### 2.2 HostRelay

State: `post/try/route/shown` are the client's requests and what it shows,
`queue/mailbox/gone` the relay, `phase/batch/acks/page` the position and the
local snapshots of `relay_once`, `inbox/job/jobTeam/rows/outbox` the ledger,
`run/handing/failing` the live tasks (`run` has a place for each task a row may
have: the hand-off's or the restart's, and one for each changed registration),
`cut` the rows a recovery still has to mark or report. `puts`, `touched` and
`been` are bookkeeping: the changed registrations, the rows one of them found
unfinished, the outcomes each row has had.

| code | actions |
|---|---|
| `submitRemote`, `sendMessage`, `once` (meshJobs.ts) | `Ask`, `RelayTakes`, `Answered`, `Unanswered` |
| status handlers | `Hear` |
| `relay_once`: poll, admit, ack, flush | `Poll`, `PollFails`, `Admit`/`Duplicate`/`Keep`, `Ack`, `ReadPage`, `PostOk`, `PostFails`, `RecordSent` |
| `hand_off` | `HandOff`, `HandOffFails`, `ReportFailure` |
| `run_delivery`, seen from the ledger | `StartTyping`, `EndTyping`, `ReportJob` |
| `job_done` | `JobDone` |
| restart | `Crash`, `Restart`, `MarkUncertain`, `ReportUncertain`, `RecoveryEnds` |
| `register` with a changed registration: `recover_deliveries` beside live tasks | `Reregister`, `MarkUncertain`, `ReportUncertain` |
| the control plane ending a membership | `Leaves` |

A delivery is followed through its ledger states only; `Delivery` models how it
is typed. Two tasks of one row take the lock of its terminal in turn and neither
looks at the row again. A registration is repeated when the one before has been
worked off; one that finds every row settled changes nothing here and is left
out. The decision of `access::decide` is a choice at admission. Left out:
payloads that do not parse (they are acknowledged and forgotten), the roster,
chat, an agent's own reply, ledger failures elsewhere than at admission, expiry
and pruning, unregistering, a reload of the client. The queue is a set: no
property depends on the order in which the relay hands envelopes out.

### 2.3 CollabSession and CollabOT

`CollabOT` translates `collab-ot.ts`: an operation is a sequence of unit
primitives (keep, drop, a character to insert) instead of run-length ones,
`TransformOps` is `transform` with its rule that the first argument's insertion
goes first, `ApplyToModel` clamps as `applyToModel` does, `ChangesOf` are the
operations `opsFromChanges` makes of one change. It is recursive, so only TLC
reads it.

`CollabSession` takes these as constant operators (`Apply`, `Transform`,
`BaseLen`, `Changes`), which keeps it open to proof. The owner's revision is the
length of `history`; a guest has a text, a revision, one operation
`outstanding` and others `queued`; `toOwner` and `toGuest` are ordered links.
What the sessions need of their operations is one formula, `Operations`: an edit
is about the text it is made in, an operation about a text makes a text, and TP1
(`Converges`). The proofs assume it of any operations; `MCCollab` checks it of
those of `CollabOT`.

| code | actions |
|---|---|
| `OwnerSession.localEdit`, `close` | `OwnerEdits`, `OwnerCloses` |
| `onServeFile`, `accept`, `handleOps` of the owner | `ServeFile`, `SendSnapshot`, `Sequence`, `Forget`, `Ignore` |
| a click in the project's tree, typing, closing the tab | `GuestAsks`, `GuestEdits`, `GuestLeaves` |
| a guest's frame handlers | `HearOffer`, `HearSnapshot`, `HearOps` (own: `HearAck`, others': `HearOthers`, else `AskResync`), `HearClose`, `Drop` |

The hash of a text stands for the text. Left out: cursors, the project
invitation and tree, several documents, a document shared again after closing
(it gets another id), a relay connection that drops, Monaco's undo and line
endings. The wait inside `onServeFile` is not modelled: the offer is sent when
the request is read. Order on the links is what `collab.ts` assumes;
`relay_send_collab` being an async command does not give it by itself, which is
listed as a hazard.

### 2.4 TaskLedger and Workflow

`TaskLedger` keeps the two tables `task_envelopes` and `task_attempts` in `env`
(an envelope's status, the number of its attempts, each attempt's state, and of
the metadata whether it still names the step and round), the terminals in
`agents` and `spawning`, and of the window `tracked` (its micro-task runs),
`writes` (history rows on their way) and `pulse`. `sweep` is what the start-up
sweep has listed. `Workflow` adds `wf` (the rows of one run), `drv` (each
driver's place and the copy of the run its last call returned), and two
bookkeeping variables, `hasty` and `faults`.

| code | actions |
|---|---|
| `reserve`, `reserve_again`, `bind`, `mark_running`, `mark_waiting`, `settle`, `update_metadata` (tasks.rs) | `Reserve`, `ReserveAgain`, `Bind`, `SpawnSucceeds`, `JobBlocked`, `Settle`, `Persist` |
| `pty_spawn_detached`, exit, stop, `job_done` | `Bind`, `SpawnSucceeds`, `SpawnFails`, `AgentExits`, `StopRun`, `JobDone` |
| the sweep of the next start, `cancel_run` | `LedgerCrash`, `SweepOne`, `CancelRun` |
| `startWorkflow`, `resumeWorkflow`, `answerWorkflowHuman`, `deliverWorkflowEvent` | `Create`, `Resume`, `Answer`, `Deliver` |
| `continueWorkflow` and `executeAgent`, await by await | `Read`, `Inspect`, `ReserveTask`, `RecordAttempt`, `Launch`, `Spawn`, `NotStarted`, `Track`, `Look`, `Returned`, `Failover`, `TryAgain`, `Advance`, `Finish` |
| gate, git operation, human and watch steps | `Gate`, `GitOp`, `Pause` |
| `advance`, `record_attempt`, `reconcile_interrupted` (workflow.rs) | `Advanced`, `Recorded`, `Reconciled` |

Every command of the two stores is one transaction; every await of a driver
separates two actions, so that an answer, a crash, a reload or another driver
may come between any two. A driver decides from its own copy and the store
refuses a write for a step that is not current any more. A throw ends a driver
and leaves the run as it is, `running` included: nothing else would move it, and
the model does the same. `waitForWorkflowAttempt` is `Look`, the read, and
`Returned`, its answer: a pulse (`Announce`) begins a read for a driver that
waits, and is dropped where one is under way (`overtaken`), whose driver then
waits for the next pulse whatever has become of its attempt (`deaf`). A gate on
anything but an attempt or a step, the outcome of a git operation and
`failoverDecision` are choices. Left out: routes and artifacts, an agent
launched in a tab (`startMicroTask`'s other path, ProjectView/index.tsx
4207-4233; workflows launch detached), a read that is rejected because the
call itself fails.

### 2.5 EventStream, Claims, Attention, Workspace

A store is written first and its change published afterwards: `pubs` counts the
changes committed and not yet published, `log` is the ring with its epoch and
last number, `sub` the window's subscription with the queue behind it, `cursor`
the window's place, `stale` the stores written since the window's copy of them
was read. One write has no publication: the line typed for a message, which
`note_delivery` adds to the mesh store (canopy-core/src/mesh.rs:319). The
window's copy of mesh is therefore in two parts, the line (`Notice`) and the
rest, and one publication of mesh renews both. `sending` is what is still to be
done of the message on its way. `terms/children/gateway` are the three views of
a terminal (the registry's, the runner's, the gateway's), `recon` and `swept`
what reconcile and the gateway's sweep hold while they act, `ending` the
terminals revoked whose claims are not released yet, `calls` the claim calls
between lookup and transaction, `rows` the claims file. Claims and attention's
files have ages: both are functions from natural numbers, to whose end a new
entry is added and whose old entries are cut (`Aged`). `items` are attention's
files, `asks` the calls that wait; `won`, `told` and `pruned` are history.

| code | actions |
|---|---|
| `publish`, `subscribe`, `resume` (stream.rs) | `Publish`, `Subscribe` |
| the events handler and `harnessStream.ts` | `BuildSnapshot`, `TakeSnapshot`, `Ask`, `Apply`, `Refuse`, `Resnapshot`, `Drop` |
| mint, spawn, exit, bind, revoke | `Mint`, `Age`, `Spawn`, `Exit`, `Spawned`, `Bind`, `Answered`, `BindFails`, `Revoke`, `Release` |
| `observeSessions` of the gateway, entry by entry | `Sweep`, `Observe`, `ObserveOne`, `Observed` |
| `Service::reconcile` | `Reconcile`, `ListSessions`, `Judge`, `Doom`, `Reconciled` |
| claim, `hotspot_claim`, release, the user's release | `Call`, `Hotspot`, `Free`, then `Transact` |
| ask, answer, deadline, wait, fyi | `AskUser`, `Answer`, `Deadline`, `Expire`, `Tell`, `Fyi` |
| `mesh_send`, `user_send`: recorded, typed, noted by the caller; the restart's recovery of it | `Send`, `Submit`, `Fail`, `NoteDelivery`, `Recover` |
| another store's write, another name announced, restart | `Write`, `Note`, `Restart` |

A terminal is named by its spawn request; the runner never uses a session id
twice, so one name serves. Before bind every record has pty id 0, and claims
made then share one key. The gateway's entry of a terminal is `minted`,
`binding` (the session known, bind not answered) or `known`; a bind that is
refused, or fails on its way whether or not it was done, has the terminal
revoked while its child runs (`BindFails`). The user may release any key, that
of pty 0 included. One message at a time is on its way. Left out: several
windows and the gateway between (it passes bytes and may close, `Drop`),
describe, structured runners, refusals and notes on claims, the prune of ended
terminals, approvals, a file that cannot be written, a revocation the gateway
asks for and the daemon never gets, the fyi of a failed relay hand-off.

## 3. What TLC checks

States are the distinct states of one run with two workers.

| run | instance | checks | states |
|---|---|---|---|
| `delivery_stable` | 2 messages, 1 terminal, 2 children, 1 job, 2 tasks, 1 crash, fair | `TypeOK`, `AtMostOncePerKey`, `WholeLine`, `ReportsTrue`, `SenderToldTrue`, `SettledStays`, `PromiseKept`, `QueueDrains`, `CutRowsReported` | 264,285 |
| `delivery_reregister` | no job, 3 tasks, 1 crash, 1 changed registration | `WholeLine`, `ReportsTrue`, `QuietRowsStay` | 863,062 |
| `delivery_retyped` | 3 tasks, no crash, 1 changed registration | refutes `AtMostOncePerKey` | |
| `relay_job` | 1 job, 1 crash, 1 changed registration, at most 3 statuses queued | `TypeOK`, `HandedOnce`, `UpdatesTrue`, `NothingLost` | 2,167,060 |
| `relay_mail` | 1 message, 2 posts, 2 teams, mailbox of 1, 1 crash, fair | `UpdatesTrue`, `RepliesLeave`, `MailEnds` | 212,714 |
| `relay_unanswered` | 1 message, no crash | refutes `FailureAnswered` | |
| `collab_fifo` | 2 guests, 3 edits, 2 asks, 1 waiting | `TypeOK`, `Converged`, `EditsArrive`, `AckMatches`, `NoResync` | 518,257 |
| `collab_twice` | 1 guest, 3 edits, 2 asks waiting | refutes `AckMatches` | |
| `workflow_run` | 5 steps, 2 envelopes of 2 attempts, 2 drivers, 1 fault, fair | `TypeOK`, `LedgerTrue`, `RunTrue`, `OneAgentWorks`, `SuccessEarned`, `NoDoubleWork`, `SettledStays`, `DriverReturns` | 385,075 |
| `workflow_revised` | the same without faults | refutes `RoundsKnown` | |
| `workspace_run` | 8 budgets (below), ring of 2, queue of 3, 2 terminals, 3 paths, 2 questions, fair | `TypeOK`, `NoHiddenGap`, `Disjoint`, `LiveSpared`, `OneAnswer`, `HeldStays`, `CatchesUp`, `AskerTold` | 402,946 |
| `workspace_wedged` | 2 writes, 1 note, fair | refutes `Mirrors` | |

**Why these bounds.** Two messages to one terminal are the least for which
turns, the lock and the order of two writes matter; a second terminal only adds
independent copies, because every lock, credential and generation is a
terminal's own (the proofs cover any number). Two children let a terminal be
replaced between the two writes. Three tasks let a re-registration give one row
a second task while another row holds the turn. One crash meets every state; a
crash during a recovery is left to the proofs. One job is enough for the
client's and the ledger's views to part; two posts through two teams are the
least for a retry to take another way than its first attempt; a mailbox of one
is full after one reply. In `relay_job` one changed registration gives a row two
tasks with a recovery beside them, before or after a crash, which is where its
outcomes may follow one another; three statuses (`ShortOutbox`) are what such a
row's admission and two of its outcomes queue, and a longer outbox only adds to
them. `MailEnds` is checked of messages, since a bound on the outbox has no
place in a run with fairness; what a job adds is the report after its row's end.
In `collab_fifo` two guests and three edits make every pair of concurrent
operations and each one's transformation over an operation that was itself
transformed; `HashEvery` is 2 instead of 16 so that hashes are sent and
compared. The text starts empty, and the owner's and each guest's letters
differ, so texts that differ in order are told apart.

The workflow of `MCWorkflow` has every kind of step and one loop: an agent
drafts, a gate reads its attempt, the user may send it back once, the change is
opened and its merge awaited. Two envelopes are what two rounds need; two
attempts let a failure be retried and the cap be reached; two drivers are the
least that can race. One fault is a crash, a reload, a cancelled task or an
early answer, at any moment; of the properties of this run all but
`DriverReturns` are theorems for any number of them.

A behaviour of `Workspace` starts with one budget of operations: claims between
two agents; a terminal made beside a reconcile, a sweep and a fault; questions
with a fyi and a restart; a window that falls behind and is cut; a window that
meets a change it does not know; a message beside a write; terminals that end
under a window; a question under a window. The parts meet in the stream and in
the restart, and each budget pairs what can disturb each other; all at once
would only multiply states that do not interact. Four writes overrun a queue of
three and a ring of two; `MaxEnded` and `MaxResolved` of 1 make the prune take
something. A directory, a file in it and a file elsewhere are the three ways
paths can lie. A budget without a window leaves the stream out, since nobody
reads it.

`TransformConverges` in `MCCollab` is evaluated before the run: for every text
of up to two characters over two letters and every pair of operations about it
of up to four primitives, `Converges` holds, and what a member types is among
these operations.

Deadlock checking is off in every run because each bounded system really stops:
all rows are settled, the child processes are used up, the edits are made, the
run has ended, the window is up to date. That nothing stops too early is what
`QueueDrains`, `MailEnds`, `RepliesLeave`, `EditsArrive`, `DriverReturns`,
`CatchesUp` and `AskerTold` say.

**Symmetry** is declared for children and tasks, and for guests; both occur in
those modules only through equality. Rows and jobs are numbers, whose order the
code uses, and are not symmetric. No run with a liveness property uses symmetry.

**Fairness.** `Delivery`: weak fairness of each task's steps, of the recovery
and of the restart. A task is a tokio task whose awaits all end (lock, timer,
HTTP with a timeout), and the daemon runs under a supervisor. Nothing is assumed
of agents, children or senders. `HostRelay`: weak fairness of the poller, the
tasks, the recovery, the restart and the client's poll, which are loops; strong
fairness of a poll that succeeds, of a commit at admission, and of a post that
succeeds, which are calls made again and again of which some are assumed to
succeed. The client's attempts and `job_done` are not fair. `CollabSession`
states no fairness: `EditsArrive` says with safety alone that when the links
are empty nothing is left waiting, and a frame on a link can always be read.
`Workflow`: weak fairness of each driver's steps, of the making of a terminal
and of the pulse, which are calls that return and an event that was sent; one
pulse stands for all that are owed, and a driver that missed it is promised no
other; an agent may work for
ever, a user may never answer and the sweep may never come. `Workspace`: weak
fairness of the window's steps (it reconnects for as long as it is open), of
each pending publication, and of a question's deadline, expiry and answer, which
are tasks and timers; nothing of agents, the gateway or the user.

### 3.1 What the properties say

* `AtMostOncePerKey`, `WholeLine`: of what children read, never of what the
  ledger believes. The first holds while the registration does not change.
* `ReportsTrue`, `SenderToldTrue`: what the ledger, the mesh log and the job's
  sender are told is what a child read. `SenderToldTrue` is about delivery
  only: `job_done` finds a job by terminal (`open_job_for_pty`) and can report
  on a job still queued there.
* `SettledStays`, `QuietRowsStay`: no late task, crash or recovery moves a
  settled row. With re-registration this holds only of rows that no task holds.
* `CutRowsReported`: by the next start, unless the daemon dies again before the
  report. The proviso is needed: `uncertain` is committed before the fyi is
  raised, and the next recovery no longer sees the row.
* `NothingLost`, `HandedOnce`, `MailEnds`: an envelope leaves the relay only
  when durable, gets one delivery row at most, and ends.
* `UpdatesTrue`: whatever is repeated, lost or reordered, an update the client
  shows is true of the ledger. A changed registration may move a row it found
  unfinished from `uncertain` to `submitted` after its sender was told "failed";
  of such a row the property says that it has had the outcome that is shown.
* `RepliesLeave`: a reply leaves unless its team was left. It needs a page
  larger than the rows that can never go: with `PageSize = 1` the run fails,
  because the page (100 in the code) is filled by the oldest unsent rows,
  undeliverable ones included.
* `Converged`, `EditsArrive`, `AckMatches`, `NoResync`: copies agree when
  nothing is on its way, no edit stays behind, an operation returns to its
  author as the one the author holds, and the repair paths are never needed
  over links that keep order.
* `LedgerTrue`, `RunTrue`: tables that several transactions write in pairs never
  tell two stories: an envelope's status against its attempts, a run's against
  its steps.
* `OneAgentWorks`, `SuccessEarned`, `NoDoubleWork`: at most one agent works for
  a run, and for the step and round it is at; a step leaves by a success only as
  often as a round of it was completed; a fresh task replaces a failed or
  cancelled attempt only. All three hold as long as no answer moved a run that
  was not waiting for it (`hasty`, see 3.2).
* `SettledStays` (of `Workflow`): neither the terminal being made for a
  cancelled attempt nor a late report or sweep brings it back.
* `DriverReturns`: a driver ends, or waits for an attempt that is active, unless
  a pulse met it in the middle of a read. A settlement that comes before its
  driver listens is not missed; one that comes during a read may be (3.2).
* `NoHiddenGap`: whatever announced write the window's copy lacks, something is
  coming that brings it: a publication, a change in its queue or in the ring
  ahead of its cursor, or a snapshot. The line typed for a message is the one
  write without an announcement, and is excepted (3.2); everything else of the
  mesh store is not. `CatchesUp` adds that it arrives, unless the window meets a
  change it refuses.
* `Disjoint`, `HeldStays`: two keys never hold overlapping paths, and a key loses
  no path by a call under another key, a hotspot or the prune. A key is a bound
  terminal, or pty 0 for all that are not bound yet: among those, one agent's
  claim does replace another's.
* `LiveSpared`: what reconcile revokes as dead has really ended.
* `OneAnswer`, `AskerTold`: a question has one resolution, every caller is told
  it and nothing else, and is told in the end. A question that was pruned is
  excepted: its caller may be told nothing (see 3.2).

### 3.2 Where the code and what it says of itself differ

Five runs refute a sentence of the repository; `PROJECT.json` quotes each.

* `delivery_retyped`: a PUT that changes the registration runs
  `recover_deliveries` beside live tasks, and a row waiting for its terminal's
  turn gets a second task. It is typed twice (`svc/service.rs:123`).
* `relay_unanswered`: a message whose delivery row fails is answered by nobody
  (`svc/relay/mod.rs:564`).
* `collab_twice`: two clicks on a shared file before the first is answered
  bring two snapshots; the second wipes an edit in flight which the owner then
  applies (`src/collab.ts:757`). With two asks waiting `Converged` and
  `NoResync` fail as well.
* `workflow_revised`: once a task has reached the task history, its metadata no
  longer names the step's round, so a step entered a second time throws instead
  of running, and the run stays `running` with no driver
  (`src/workflowExecutor.ts:222`).
* `workspace_wedged`: a change of `terminals`, `access` or `deliveries` makes
  the window close the stream with its cursor before that change; it resumes
  there and meets it again. Until the ring has moved past it, or the daemon is
  started again, nothing reaches the window
  (`src/remoteExecution/harnessStream.ts:109`).

Seen while modelling, without a run of its own:

* `answerWorkflowHuman` looks at the step and not at the run's status
  (`src/workflowExecutor.ts:400-415`), and the card is offered whatever that
  status is. An answer to a run that is `running` (a resume, or the previous
  answer, has not read it yet) leaves two drivers on the next step, and both
  launch its agent. `hasty` marks such behaviours.
* A retry of a message after a lost answer is sealed again under a new envelope
  (`src/meshJobs.ts:560`), and the host recognises envelopes only: the message
  is typed twice.
* A pulse that arrives while `waitForWorkflowAttempt` is reading is dropped and
  no read follows it (`src/workflowAttempt.ts:47`). When that pulse was the
  settlement's, the driver waits for an attempt that has ended until some other
  change of the history pulses; the comment over it says "Resolve when the
  managed task attempt backing a workflow step settles". The model reaches this
  (`deaf`), and `DriverReturns` excepts it.
* `note_delivery` writes the typed line into the mesh store and publishes
  nothing (`canopy-core/src/mesh.rs:319`). When the Return then fails, only
  `deliveries` is published, and the window's copy lacks the line with nothing
  coming; so it does when the caller is slower than the task that submits. The
  model reaches both, and `NoHiddenGap` excepts that line.
* The gateway judges its sessions after an await against a list fetched before
  it (`packages/remote-host/service-harness.mjs:95`), without the provision
  that `reconcile` makes; a terminal made meanwhile is revoked, at once or while
  the entries before it are being revoked (`ObserveOne`).
* A job told `failed` by the recovery of a changed registration may be typed and
  told `started` afterwards (`svc/service.rs:123`); both updates are shown.
* A daemon that dies between revoking a terminal and releasing its claims
  leaves claims nobody ends but the user (`svc/workspace.rs:418`).
* `resolve` prunes right after resolving (`svc/attention.rs:217`): behind many
  newer resolved items the question goes at once, and its waiter answers with an
  empty string.

## 4. What is proved

The theorems hold for every value of the constants that the modules' assumptions
allow. `DeliveryAssumption` and `HostRelayAssumption`: any number of rows,
terminals, children, jobs, tasks, items, teams, crashes and registrations.
`LedgerAssumption` and `WorkflowAssumption`: any number of envelopes, drivers,
faults and attempts, and any definition in which every edge leads somewhere and
every outcome of a step has an edge, as `validateWorkflowDefinition` demands.
`StreamAssumption`, `ClaimsAssumption`, `AttentionAssumption`: any ring of at
least one change and a queue larger than it, any terminals, paths, questions,
budgets and caps, with at least one resolved item kept (`MAX_RESOLVED` is 500).
`CollabAssumption`: any guests, texts, operations, edits and asks. The
collaboration's theorems have two hypotheses besides: `Operations`, and
`MaxWaiting <= 1`, a guest that asks again only when its last ask was answered.
Without the second they are false, which is the run `collab_twice`.

| theorem | states | inductive invariant |
|---|---|---|
| `DeliveryProofs!TypeCorrect` | `Spec => []TypeOK` | `TypeInv`: `TypeOK`, and a live task and a recovery hold rows that were committed (`RefOK`) |
| `NothingTypedTwice` | `StableSpec => []AtMostOncePerKey` | `OnceInv` |
| `LinesStayWhole` | `Spec => []WholeLine` | `WholeInv` |
| `DeliveryLedgerProofs!LedgerTellsTruth` | `Spec => []ReportsTrue` | `TruthInv`: `TypeInv`, `JobOK`, `HeldTrue`, `CutBegun` |
| `QuietStaysQuiet` | `Spec => QuietRowsStay` | `TypeInv`, `JobOK` |
| `SettledIsFinal` | `StableSpec => SettledStays` | `StableInv`: `OnceInv`, `WholeInv`, `HeldPending`, `CutInTurn` |
| `LedgerImplementsPromise` | `StableSpec => PromiseKept` | `StableInv` |
| `SendersToldTrue` | `StableSpec => []SenderToldTrue` | `SenderInv`: `StableInv`, `TruthInv`, `JobOnce`, `ToldOutcome` |
| `HostRelayProofs!TypeCorrect` | `Spec => []TypeOK` | `TypeInv`: `TypeOK`, `Asked`, `Routed`, `Held` |
| `DeliveredOnce` | `Spec => []HandedOnce` | `OnceInv`: `RowLabel`, `HandedOnce` |
| `LeavesOnceDurable` | `Spec => NothingLost` | `KeptInv`: `RowLabel`, `AcksDurable` |
| `ShownIsTrue` | `Spec => []UpdatesTrue` | `TruthInv`: `TypeInv`, `RowLabel`, `OutTrue`, `MailTrue`, `UpdatesTrue` |
| `WorkflowProofs!TypeCorrect` | `Spec => []TypeOK` | `Inv` |
| `LedgerStaysTrue` | `Spec => []LedgerTrue` | `Inv`: `LedgerShape`, `LedgerTrue`, `RunTrue`, `DriversSound` |
| `RunStaysTrue` | `Spec => []RunTrue` | `Inv` |
| `EndsForGood` | `Spec => SettledStays` | `Inv` |
| `OneAgentAtATime` | `Spec => []OneAgentWorks` | `Inv`, `OneInv` |
| `WorkflowRunProofs!NothingTwice` | `Spec => NoDoubleWork` | `Inv`, `OneInv`, `KnownInv` |
| `SuccessesEarned` | `Spec => []SuccessEarned` | the same, and that the envelopes used are finitely many |
| `WorkspaceProofs!NoGapHidden` | `Spec => []NoHiddenGap` | `StreamInv`: `StreamTypes`, `Connected`, `NoGap` |
| `LiveOnesSpared` | `Spec => []LiveSpared` | `ReconInv` |
| `WorkspaceFilesProofs!AgentsApart` | `Spec => []Disjoint` | `ClaimsInv`: `FileOK`, `CallsOK` |
| `HeldUntilLetGo` | `Spec => HeldStays` | `ClaimsInv` |
| `OneResolution` | `Spec => []OneAnswer` | `AskInv`: `ItemsOK`, `AskTypes`, `Questions` |
| `TypeCorrect` | `Spec => []TypeOK` | all of these and `TypeInv` |
| `CollabProofs!Convergence` | `Spec => []Converged` | `CollabInv`: `OwnerOK`, and for each guest `LinkOK` |
| `NoEditIsLeft` | `Spec => []EditsArrive` | `CollabInv` |
| `AcksAreTheirs` | `Spec => []AckMatches` | `CollabInv` |
| `NobodyResyncs` | `Spec => []NoResync` | `CollabInv` |
| `TypeCorrect` | `Spec => []TypeOK` | `CollabInv` |

* **Nothing typed twice.** Children's input only grows, so the argument is that
  what is about to be written is not there yet. `OneTask`: two tasks never hold
  one row. `RecoveryApart`: a row the recovery will start or mark has no task.
  `TurnOrder`: where a task is fixes its row's state. `Untyped`: a queued row
  has nothing in any child, one being written no Return. Under a changed
  registration `RecoveryApart` breaks at once, which is the run
  `delivery_retyped`; hence `StableSpec`.
* **Lines stay whole.** `OneHolder`: of the tasks of one terminal one is past
  the lock. `OneTerminal`: a child lives in one terminal. `AfterBody`: when a
  task has written its body and not its Return, the last thing its child read
  is that body. `AimedWrite`: the Return goes to the child that took the body.
  None of it needs the registration to be stable.
* **The ledger tells the truth.** A row is never put back to `queued`, a task
  turns it to `writing` before any byte and goes on to `written`, to the mark
  and to `submitted` only after a write that landed (`HeldTrue`); what the
  recovery reads as cut was begun (`CutBegun`). Two tasks on one row do not
  disturb this, so the theorem needs no stable registration.
* **Settled is final, and the promise is kept.** Under one registration a task
  that can still type or settle holds a row that is unfinished (`HeldPending`),
  and the recovery marks what nobody holds, one row at a time (`CutInTurn`).
  With `OnceInv` every step of `Delivery` is then a step of `AtMostOnce` under
  the mapping of `PromiseKept`, or a stutter of it.
* **Senders are told the truth.** A job is delivered by one row (`JobOnce`), and
  a status was queued after that row's outcome (`ToldOutcome`), which is final.
* **Handed once.** `Held`, a part of `TypeInv`, ties each delivery row to its
  inbox row: a row's envelope is marked handed in the commit that adds the row,
  and only an accepted envelope is held by a hand-off.
* **Leaves once durable.** The acknowledgements collected during a poll all
  have an inbox row, which a crash keeps.
* **Shown is true.** `TrueOf` is stable (`TruthStays`): verdicts are final, a
  settled row that no changed registration has touched does not move, and the
  outcomes a row has had are only added to. Each reply is true when queued
  (`RepliesTrue`), and is copied unchanged into the mailbox and onto the screen.
  `RowLabel` is what a task and a recovery know of their row: of an untouched
  one its state, of any other an outcome it has had. Without `touched` this is
  false of the code, since a task begins on a row another task or a recovery has
  settled; that a row is touched only while unfinished keeps the exception to
  the rows it is about.

* **The workflow's tables.** Every step of `Workflow` writes the ledger by one
  of its transactions or not at all, so it is enough that each transaction keeps
  `LedgerTrue` and leaves settled attempts alone. `DriversSound` says what a
  driver's place promises: a step of the right kind, an attempt that exists, an
  outcome that has an edge.
* **One agent.** `OneInv` is `hasty \/ Calm`. Calm: one driver is under way
  (`OneDriver`: a call begins only when the run waits, was interrupted or does
  not exist, and then nobody is); it knows where the run is (`DriverKnows`); the
  attempt it holds was made for that step and round (`HeldTrue`); and an attempt
  that is active in a terminal is the one it launched and waits for, or there is
  no driver (`LiveTrue`). A second agent would need `Fresh`, which looks at the
  last attempt of the step, and `Calm` says the live one is that attempt.
* **Nothing twice, successes earned.** `KnownInv` is `hasty \/ RunKnown`. The
  one driver's copy is the run (`CopyTrue`); a step's last attempt was made for
  it in a round it has had (`LastTrue`); a driver about to make a task has seen
  that what it would repeat failed or was cancelled (`NextTrue`); a success it
  is about to write was read off a completed envelope of the round (`OutTrue`).
  `EarnedTrue` then counts: for each edge there is a set of past rounds, as many
  as the edge was taken, each with a completed envelope, and rounds map one to
  one into envelopes. The number of envelopes is not bounded; that those in use
  are finitely many is an invariant of its own.
* **No gap hidden.** The statement is of announced writes, all but that of the
  typed line. The queue behind the window's subscription is a run of
  consecutive changes that begins at its cursor (`Connected`), so a change not
  yet applied is in the queue, or the queue has overflowed and a snapshot will
  follow. `Ahead` and `Owed` say it per store for a connected and a
  disconnected window; the writes between a read and its answer are covered by
  `since`. A restart changes the epoch, which makes every old cursor lead to a
  snapshot.
* **Live ones spared.** A terminal is bound only after its child was started
  (`ReconInv`), so one that was bound before the list was asked for and is not
  on it has exited, and one bound since is in `late`.
* **Claims and questions.** `HasAges` says that a file's ages are finitely many
  numbers, so that an entry added is newer than all and a cut keeps the newest.
  Each transaction of the claims file is shown to keep `Apart` and every key's
  paths but its own; a call holds no more than its key and paths, so nothing
  goes stale between lookup and transaction. `Questions` ties what was won and
  told to the item a question still has; a pruned question is excepted, as in
  the property.
* **Convergence.** `LinkOK` is about one guest and its two links, with a
  function `T` from revisions to the texts the owner had. What comes to the
  guest takes it revision by revision to the present (`DownOK`); its text is
  `T` at its revision with `outstanding` and `queued` applied (`TextOK`); the
  operation in flight is on one link only, and either was sequenced as what it
  becomes over the frames that come before it (`Sequenced`) or was sent as what
  it was before those heard since (`Sent`). The owner's `Forward` and the
  guest's rebasing are the same recursion cut at different places, so what comes
  back is what is held. `Rebasing` is the lemma that carries one operation past a
  list and the list past it by repeated TP1. The other conjuncts keep a snapshot
  from meeting a session: one ask is under way (`AskOK`), and nothing of the
  guest's own can follow the snapshot that answers it (`SnapshotOK`).

The last proof needs induction over numbers. The library's induction theorems
take an operator as a parameter and cannot be cited here; `LeastNumber` (from
`WFMin`) and `Counting` state it for sets instead, and with them the recursive
functions `Forward` and `OverOwn` are shown to exist and to do what they say.

Only model-checked: liveness (`QueueDrains`, `CutRowsReported`, `MailEnds`,
`RepliesLeave`, `DriverReturns`, `CatchesUp`, `AskerTold`), fairness and
`ENABLED` being out of the prover's reach; and that the operations of `CollabOT`
satisfy `Operations`, since its operators are RECURSIVE and the prover has no
SMT backend in a module that reaches one. Every invariant and every action
property of the passing runs is a theorem.

## 5. What is not modelled, and the limits of what is

* Ledger calls in `Delivery` succeed; a disk that fails there is not modelled.
* The daemon may die between a Return that landed and `mark_submitted`; the row
  is then reported uncertain, which `ReportsTrue` allows: it never says a
  message was not typed.
* A row's outcome and its job's transition are two commits; a crash between
  them leaves the sender untold. Listed as a hazard without a property.
* There are no clocks: expiry, pruning and timeouts are choices or left out.
* The window mirrors whole stores: what a copy says is abstracted to whether
  its store was written since the copy was read.
* Of a workflow one run is modelled; runs share nothing but the ledger, whose
  envelopes are a task's own. Parallel branches do not exist in the code.
* Cryptography, transport, parsing and rendering are left out everywhere.
* Components outside the table in 1.1 are listed in `PROJECT.json` with the
  reason: state that belongs to git, Docker or a database outside the
  repository, heuristics whose difficulty is in data, or pure input and output.

## 6. Plan

Done, in this order: `Delivery` with `AtMostOnce` and its proofs; `HostRelay`
and its proofs; `CollabOT`, `CollabSession`; `TaskLedger`, `Workflow` and their
proofs; `EventStream`, `Claims`, `Attention`, `Workspace` and the proofs of the
stream and of reconcile; then the refinement of `AtMostOnce`, what the ledger
and the senders are told, claims and questions, the workflow's successes, and
the collaboration; then the changed registration in `HostRelay`, the read and
its dropped pulse in `Workflow`, and in `Workspace` the messages, the bind that
fails and the gateway's sweep entry by entry.

Next, the most important first:

1. **TP1 of `TransformOps`.** Its loop written as a recursive function over two
   positions would come within reach of `Counting`; `Operations` would then be a
   theorem about `collab-ot.ts` instead of a hypothesis.
2. **`HostRelay` over `Delivery`**: the typing that `HostRelay` sees only in the
   ledger's states, shown to be what `Delivery` does.
3. Further components: `Access` (accepted revisions only grow, one revision
   grants one thing), `PtyAttachment` (outstanding bytes are exactly those sent
   to the present page and not acknowledged), `RecoveryBudget` (attempts never
   exceed the budget through crashes).
