------------------------------ MODULE Delivery ------------------------------
(***************************************************************************)
(* The canopy-service delivery ledger and the tasks that type messages     *)
(* into agents' terminals: `Workspace::deliver`, `run_delivery`,           *)
(* `recover_deliveries`, `job_transition` (workspace.rs), the terminal     *)
(* target with its generation (canopy-core terminals.rs, terminals.rs) and *)
(* the registration that starts a recovery (service.rs).                   *)
(*                                                                         *)
(* The ledger, the job table, the status outbox, the mesh log, the         *)
(* attention items, the credentials and the saved registration survive a   *)
(* crash; tasks, the registered endpoint and a running recovery do not.    *)
(* A ledger call is one step and succeeds.  A write to the runner may be   *)
(* refused, may land, and may land while its answer is lost.               *)
(***************************************************************************)
EXTENDS Naturals, Sequences, FiniteSets, Functions

CONSTANTS
    Rows,        \* delivery ids, in creation order
    Ptys,        \* terminal ids, the runner's session ids
    Children,    \* child processes; a child's pid is the terminal's generation
    Jobs,        \* relay job keys, in creation order
    Tasks,       \* spawned run_delivery tasks that may exist at one time
    NoRow, NoPty, NoChild, NoJob,
    MaxCrashes,  \* bound on crashes of the service
    MaxPuts      \* bound on registrations that change the runner

ASSUME DeliveryAssumption ==
    /\ Rows \subseteq Nat /\ Jobs \subseteq Nat
    /\ NoRow \notin Rows /\ NoJob \notin Jobs
    /\ NoPty \notin Ptys /\ NoChild \notin Children
    /\ MaxCrashes \in Nat /\ MaxPuts \in Nat

VARIABLES
    dstate, dpty, djob,  \* deliveries: state, pty_id, job_key of each row
    jstate, jpty,        \* jobs: state, target_pty of each key
    told,                \* outbox: the job states queued for the sender, by job
    mesh,                \* rows whose mesh record is marked submitted
    fyis,                \* rows an fyi reported as uncertain
    task,                \* the live run_delivery tasks
    svc,                 \* the daemon: down, starting, open, or in a changed PUT
    endpoint, saved,     \* the runner endpoint in memory, and in workspaces.json
    rec,                 \* the rows recover_deliveries has read and not handled
    rstep,               \* how far it is with a row that was cut
    crashes, puts,
    creds,               \* live bound credentials of a pty, oldest first
    child,               \* the live child of each runner session
    input                \* what each child has read: <<row, "body" | "return">>

rowVars  == <<dstate, dpty, djob>>
jobVars  == <<jstate, jpty, told>>
svcVars  == <<svc, endpoint, saved, rec, rstep, crashes, puts>>
termVars == <<creds, child, input>>
vars     == <<rowVars, jobVars, mesh, fyis, task, svcVars, termVars>>

Settled    == {"submitted", "failed", "uncertain"}
Unfinished == {"queued", "writing", "written"}
JobStates  == {"none", "accepted", "started", "done", "blocked", "failed",
               "uncertain"}
Labels     == {"idle", "wait", "begin", "body", "noted", "sleep", "mark",
               "submit", "started", "failing", "failjob"}
Endpoints  == {"null", "current", "stale"}

TaskRecords == [pc : Labels, row : Rows \union {NoRow},
                child : Children \union {NoChild}]

Idle == [pc |-> "idle", row |-> NoRow, child |-> NoChild]

At(t, label) == task[t].pc = label
Live(t)      == task[t].pc # "idle"
Holding(t)   == task[t].pc \notin {"idle", "wait"}
PtyOf(t)     == dpty[task[t].row]
JobOf(t)     == djob[task[t].row]
Goto(t, label) == task' = [task EXCEPT ![t].pc = label]
Finish(t)      == task' = [task EXCEPT ![t] = Idle]
SetDelivery(d, state) == dstate' = [dstate EXCEPT ![d] = state]

Up == svc \in {"open", "putting"}

TypeOK ==
    /\ dstate \in [Rows -> {"none"} \union Unfinished \union Settled]
    /\ dpty \in [Rows -> Ptys \union {NoPty}]
    /\ djob \in [Rows -> Jobs \union {NoJob}]
    /\ jstate \in [Jobs -> JobStates]
    /\ jpty \in [Jobs -> Ptys \union {NoPty}]
    /\ told \in [Jobs -> Seq(JobStates)]
    /\ mesh \subseteq Rows /\ fyis \subseteq Rows
    /\ task \in [Tasks -> TaskRecords]
    /\ svc \in {"down", "starting", "open", "putting"}
    /\ endpoint \in Endpoints /\ saved \in Endpoints
    /\ rec \in [queued : SUBSET Rows, cut : SUBSET Rows]
    /\ rstep \in {"row", "fyi", "job"}
    /\ crashes \in Nat /\ puts \in Nat
    /\ creds \in [Ptys -> Seq(Children)]
    /\ child \in [Ptys -> Children \union {NoChild}]
    /\ input \in [Children -> Seq(Rows \X {"body", "return"})]

Init ==
    /\ dstate = [d \in Rows |-> "none"]
    /\ dpty = [d \in Rows |-> NoPty]
    /\ djob = [d \in Rows |-> NoJob]
    /\ jstate = [j \in Jobs |-> "none"]
    /\ jpty = [j \in Jobs |-> NoPty]
    /\ told = [j \in Jobs |-> <<>>]
    /\ mesh = {} /\ fyis = {}
    /\ task = [t \in Tasks |-> Idle]
    /\ svc = "open" /\ endpoint = "current" /\ saved = "current"
    /\ rec = [queued |-> {}, cut |-> {}] /\ rstep = "row"
    /\ crashes = 0 /\ puts = 0
    /\ creds = [p \in Ptys |-> <<>>]
    /\ child = [p \in Ptys |-> NoChild]
    /\ input = [c \in Children |-> <<>>]

-----------------------------------------------------------------------------
(* Terminals: the runner's children and the service's record of them.      *)

\* The record by_pty finds: the oldest live credential bound to the pty.
ByPty(p) == IF creds[p] = <<>> THEN NoChild ELSE Head(creds[p])

Resolvable(p) == endpoint # "null" /\ ByPty(p) # NoChild

\* The runner takes a write when the registry still maps the pty to the same
\* pid, the endpoint is the running container's, and that child is alive.
Accepts(p, c) == /\ c # NoChild /\ child[p] = c
                 /\ ByPty(p) = c /\ endpoint = "current"

Unborn == {c \in Children : \A p \in Ptys :
                child[p] # c /\ \A i \in DOMAIN creds[p] : creds[p][i] # c}

\* The runner spawns a child in an empty session and the gateway binds it.
NewTerminal(p, c) ==
    /\ Up /\ endpoint = "current" /\ child[p] = NoChild
    /\ c \in Unborn /\ input[c] = <<>>
    /\ child' = [child EXCEPT ![p] = c]
    /\ creds' = [creds EXCEPT ![p] = Append(@, c)]
    /\ UNCHANGED <<rowVars, jobVars, mesh, fyis, task, svcVars, input>>

ChildExits(p) ==
    /\ child[p] # NoChild
    /\ child' = [child EXCEPT ![p] = NoChild]
    /\ UNCHANGED <<rowVars, jobVars, mesh, fyis, task, svcVars, creds, input>>

\* The gateway's exit report, or the service's reconcile, ends a credential
\* whose child is gone.
Revoke(p, c) ==
    /\ Up /\ child[p] # c
    /\ \E i \in DOMAIN creds[p] :
         /\ creds[p][i] = c
         /\ creds' = [creds EXCEPT ![p] = SubSeq(@, 1, i - 1)
                                             \o SubSeq(@, i + 1, Len(@))]
    /\ UNCHANGED <<rowVars, jobVars, mesh, fyis, task, svcVars, child, input>>

\* A new container: every session is gone, and its address may have changed.
ContainerRestarts(moved) ==
    LET moves(e) == IF moved /\ e = "current" THEN "stale" ELSE e IN
    /\ child' = [p \in Ptys |-> NoChild]
    /\ child' # child \/ moves(endpoint) # endpoint
    /\ endpoint' = moves(endpoint) /\ saved' = moves(saved)
    /\ UNCHANGED <<rowVars, jobVars, mesh, fyis, task, svc, rec, rstep,
                   crashes, puts, creds, input>>

-----------------------------------------------------------------------------
(* Jobs and their statuses.                                                *)

Wire(state) == IF state = "uncertain" THEN "failed" ELSE state

\* One commit: the job's state and the status its sender will see.
JobTransition(j, state) ==
    /\ jstate' = [jstate EXCEPT ![j] = state]
    /\ told' = [told EXCEPT ![j] = Append(@, Wire(state))]
    /\ UNCHANGED jpty

\* The relay admits a job: the row and its "accepted" status in one commit.
AdmitJob(j) ==
    /\ Up /\ jstate[j] = "none"
    /\ \A k \in Jobs : jstate[k] = "none" => j <= k
    /\ JobTransition(j, "accepted")
    /\ UNCHANGED <<rowVars, mesh, fyis, task, svcVars, termVars>>

\* open_job_for_pty: the newest unsettled job aimed at the terminal.
OpenJobs(p) == {j \in Jobs : jpty[j] = p /\ jstate[j] \in {"accepted", "started"}}

\* The agent in terminal p calls canopy_job_done.
JobDone(p, status) ==
    /\ Up /\ child[p] # NoChild /\ ByPty(p) = child[p]
    /\ \E j \in OpenJobs(p) :
         /\ \A k \in OpenJobs(p) : k <= j
         /\ JobTransition(j, status)
    /\ UNCHANGED <<rowVars, mesh, fyis, task, svcVars, termVars>>

-----------------------------------------------------------------------------
(* Workspace::deliver and run_delivery.                                    *)

Spawn(d) == \E t \in Tasks :
    /\ ~Live(t)
    /\ task' = [task EXCEPT ![t] = [pc |-> "wait", row |-> d, child |-> NoChild]]

\* Resolve, then one commit: the queued row, and the job's target.
Deliver(d, p, j) ==
    /\ Up /\ Resolvable(p)
    /\ dstate[d] = "none" /\ \A e \in Rows : dstate[e] = "none" => d <= e
    /\ SetDelivery(d, "queued")
    /\ dpty' = [dpty EXCEPT ![d] = p]
    /\ djob' = [djob EXCEPT ![d] = j]
    /\ IF j = NoJob THEN UNCHANGED jobVars
       ELSE /\ jstate' = [jstate EXCEPT ![j] = "accepted"]
            /\ jpty' = [jpty EXCEPT ![j] = p]
            /\ UNCHANGED told
    /\ Spawn(d)
    /\ UNCHANGED <<mesh, fyis, svcVars, termVars>>

\* Fault: the turn is taken without the terminal's mutex.
TakeTurnUnlocked(t) ==
    /\ At(t, "wait")
    /\ SetDelivery(task[t].row, "writing")
    /\ Goto(t, "begin")
    /\ UNCHANGED <<dpty, djob, jobVars, mesh, fyis, svcVars, termVars>>

\* The per-terminal mutex is free; `writing` is recorded before any byte.
TakeTurn(t) ==
    /\ At(t, "wait")
    /\ \A u \in Tasks : Holding(u) => PtyOf(u) # PtyOf(t)
    /\ SetDelivery(task[t].row, "writing")
    /\ Goto(t, "begin")
    /\ UNCHANGED <<dpty, djob, jobVars, mesh, fyis, svcVars, termVars>>

\* PendingDelivery::begin resolves the terminal to its current generation ...
Resolve(t) ==
    /\ At(t, "begin")
    /\ task' = [task EXCEPT ![t] =
         IF Resolvable(PtyOf(t))
         THEN [@ EXCEPT !.pc = "body", !.child = ByPty(PtyOf(t))]
         ELSE [@ EXCEPT !.pc = "failing"]]
    /\ UNCHANGED <<rowVars, jobVars, mesh, fyis, svcVars, termVars>>

Lands(t, key) ==
    /\ Accepts(PtyOf(t), task[t].child)
    /\ input' = [input EXCEPT ![task[t].child] = Append(@, <<task[t].row, key>>)]

\* ... and writes to it: success, or an error that tells nothing of the bytes.
Write(t, key, next) ==
    /\ \/ Lands(t, key) /\ Goto(t, next)
       \/ Lands(t, key) /\ Goto(t, "failing")
       \/ UNCHANGED input /\ Goto(t, "failing")
    /\ UNCHANGED <<rowVars, jobVars, mesh, fyis, svcVars, creds, child>>

\* Fault: the result of writing the Return is not looked at.
WriteReturnBlind(t) ==
    /\ At(t, "sleep")
    /\ Lands(t, "return") \/ UNCHANGED input
    /\ Goto(t, "mark")
    /\ UNCHANGED <<rowVars, jobVars, mesh, fyis, svcVars, creds, child>>

WriteBody(t)   == At(t, "body") /\ Write(t, "body", "noted")
WriteReturn(t) == At(t, "sleep") /\ Write(t, "return", "mark")

NoteWritten(t) ==
    /\ At(t, "noted")
    /\ SetDelivery(task[t].row, "written")
    /\ Goto(t, "sleep")
    /\ UNCHANGED <<dpty, djob, jobVars, mesh, fyis, svcVars, termVars>>

\* Fault: the mark is made under the terminal's id, not the message's.
MarkTerminal(t) ==
    /\ At(t, "mark")
    /\ mesh' = mesh \union {PtyOf(t)}
    /\ Goto(t, "submit")
    /\ UNCHANGED <<rowVars, jobVars, fyis, svcVars, termVars>>

MarkSubmitted(t) ==
    /\ At(t, "mark")
    /\ mesh' = mesh \union {task[t].row}
    /\ Goto(t, "submit")
    /\ UNCHANGED <<rowVars, jobVars, fyis, svcVars, termVars>>

\* The row's outcome is one commit; the job's is another, before the turn ends.
Settle(t, from, state, next) ==
    /\ At(t, from)
    /\ SetDelivery(task[t].row, state)
    /\ IF JobOf(t) = NoJob THEN Finish(t) ELSE Goto(t, next)
    /\ UNCHANGED <<dpty, djob, jobVars, mesh, fyis, svcVars, termVars>>

SetSubmitted(t) == Settle(t, "submit", "submitted", "started")
\* Fault: a failed write is reported to the sender like a submitted one.
SetFailedStarted(t) == Settle(t, "failing", "failed", "started")
SetFailed(t)    == Settle(t, "failing", "failed", "failjob")

Report(t, from, state) ==
    /\ At(t, from)
    /\ JobTransition(JobOf(t), state)
    /\ Finish(t)
    /\ UNCHANGED <<rowVars, mesh, fyis, svcVars, termVars>>

JobStarted(t) == Report(t, "started", "started")
JobFailed(t)  == Report(t, "failjob", "failed")

TaskStep(t) ==
    \/ TakeTurn(t) \/ Resolve(t) \/ WriteBody(t) \/ NoteWritten(t)
    \/ WriteReturn(t) \/ MarkSubmitted(t) \/ SetSubmitted(t) \/ SetFailed(t)
    \/ JobStarted(t) \/ JobFailed(t)

-----------------------------------------------------------------------------
(* Crash, restart and recovery.                                            *)

\* Faults: recovery retries what was cut; retries what failed; skips the
\* queue; skips the rows whose body was written.
RetryCut == [queued |-> {d \in Rows : dstate[d] \in Unfinished}, cut |-> {}]
RetryFailed ==
    [queued |-> {d \in Rows : dstate[d] \in {"queued", "failed"}},
     cut    |-> {d \in Rows : dstate[d] \in {"writing", "written"}}]
SkipQueued ==
    [queued |-> {}, cut |-> {d \in Rows : dstate[d] \in {"writing", "written"}}]
SkipWritten ==
    [queued |-> {d \in Rows : dstate[d] = "queued"},
     cut    |-> {d \in Rows : dstate[d] = "writing"}]

UnfinishedDeliveries ==
    [queued |-> {d \in Rows : dstate[d] = "queued"},
     cut    |-> {d \in Rows : dstate[d] \in {"writing", "written"}}]

Crash ==
    /\ svc # "down" /\ crashes < MaxCrashes
    /\ svc' = "down" /\ crashes' = crashes + 1
    /\ task' = [t \in Tasks |-> Idle]
    /\ rec' = [queued |-> {}, cut |-> {}] /\ rstep' = "row"
    /\ UNCHANGED <<rowVars, jobVars, mesh, fyis, endpoint, saved, puts, termVars>>

\* start(): the saved registration is opened and recovery reads the ledger.
Restart ==
    /\ svc = "down"
    /\ svc' = "starting" /\ endpoint' = saved
    /\ rec' = UnfinishedDeliveries
    /\ UNCHANGED <<rowVars, jobVars, mesh, fyis, task, saved, rstep, crashes,
                   puts, termVars>>

\* The first row, by creation, that recovery has yet to handle.
NextRow(d) == /\ d \in rec.queued \union rec.cut
              /\ \A e \in rec.queued \union rec.cut : d <= e

\* A row read as queued never touched a terminal: it runs now.
RecoverQueued(d) ==
    /\ NextRow(d) /\ d \in rec.queued
    /\ Spawn(d)
    /\ rec' = [rec EXCEPT !.queued = @ \ {d}]
    /\ UNCHANGED <<rowVars, jobVars, mesh, fyis, svc, endpoint, saved, rstep,
                   crashes, puts, termVars>>

\* A row read as writing or written becomes uncertain, is shown to the user,
\* and its job is reported: three separate commits.
MarkUncertain(d) ==
    /\ NextRow(d) /\ d \in rec.cut /\ rstep = "row"
    /\ SetDelivery(d, "uncertain")
    /\ rstep' = "fyi"
    /\ UNCHANGED <<dpty, djob, jobVars, mesh, fyis, task, svc, endpoint, saved,
                   rec, crashes, puts, termVars>>

ReportUncertain(d) ==
    /\ NextRow(d) /\ d \in rec.cut /\ rstep = "fyi"
    /\ fyis' = fyis \union {d}
    /\ rstep' = "job"
    /\ UNCHANGED <<rowVars, jobVars, mesh, task, svc, endpoint, saved, rec,
                   crashes, puts, termVars>>

SettleUncertainJob(d) ==
    /\ NextRow(d) /\ d \in rec.cut /\ rstep = "job"
    /\ IF djob[d] = NoJob THEN UNCHANGED jobVars
       ELSE JobTransition(djob[d], "uncertain")
    /\ rec' = [rec EXCEPT !.cut = @ \ {d}] /\ rstep' = "row"
    /\ UNCHANGED <<rowVars, mesh, fyis, task, svc, endpoint, saved, crashes, puts,
                   termVars>>

\* The end of register(): the registration is saved, the sockets are open.
EndRecovery ==
    /\ svc \in {"starting", "putting"}
    /\ rec.queued = {} /\ rec.cut = {}
    /\ svc' = "open" /\ saved' = endpoint
    /\ UNCHANGED <<rowVars, jobVars, mesh, fyis, task, endpoint, rec, rstep,
                   crashes, puts, termVars>>

RecoveryStep ==
    \/ \E d \in Rows : \/ RecoverQueued(d) \/ MarkUncertain(d)
                       \/ ReportUncertain(d) \/ SettleUncertainJob(d)
    \/ EndRecovery

\* A PUT whose runner URL or token differs: null while the container is being
\* created, its address once it runs.  Recovery runs again, under live tasks.
Put(e) ==
    /\ svc = "open" /\ puts < MaxPuts /\ puts' = puts + 1
    /\ e \in {"null", "current"} /\ e # endpoint
    /\ e = "null" => \A p \in Ptys : child[p] = NoChild
    /\ svc' = "putting" /\ endpoint' = e
    /\ rec' = UnfinishedDeliveries
    /\ UNCHANGED <<rowVars, jobVars, mesh, fyis, task, saved, rstep, crashes,
                   termVars>>

-----------------------------------------------------------------------------

\* A message, or an admitted job that was not handed off before.
Undelivered(j) == j # NoJob => /\ jstate[j] # "none"
                               /\ \A d \in Rows : djob[d] # j

TerminalStep == \E p \in Ptys :
    \/ \E c \in Children : NewTerminal(p, c) \/ Revoke(p, c)
    \/ ChildExits(p)

JobStep == \/ \E j \in Jobs : AdmitJob(j)
           \/ \E p \in Ptys, s \in {"done", "blocked"} : JobDone(p, s)

SendStep == \E d \in Rows, p \in Ptys, j \in Jobs \union {NoJob} :
    Undelivered(j) /\ Deliver(d, p, j)

\* One registration for the whole life of the container: the gateway's PUT
\* every 30 s repeats it and changes nothing.
StableNext ==
    \/ TerminalStep \/ JobStep \/ SendStep
    \/ \E t \in Tasks : TaskStep(t)
    \/ Crash \/ Restart \/ RecoveryStep
    \/ ContainerRestarts(FALSE)

\* The container may come back elsewhere, and the gateway says so.
Next ==
    \/ StableNext
    \/ ContainerRestarts(TRUE)
    \/ \E e \in Endpoints : Put(e)

Fairness ==
    /\ \A t \in Tasks : WF_vars(TaskStep(t))
    /\ WF_vars(Restart) /\ WF_vars(RecoveryStep)

StableSpec == Init /\ [][StableNext]_vars
Spec       == Init /\ [][Next]_vars
FairSpec   == StableSpec /\ Fairness

-----------------------------------------------------------------------------
(* Properties.                                                             *)

Typed(d, key) ==
    \E c \in Children : \E i \in 1..Len(input[c]) : input[c][i] = <<d, key>>

\* No body and no Return of any message is typed twice, into one child or two.
AtMostOncePerKey ==
    \A c1, c2 \in Children :
        \A i \in 1..Len(input[c1]), k \in 1..Len(input[c2]) :
            input[c1][i] = input[c2][k] => c1 = c2 /\ i = k

\* A Return directly follows its own body, in the same child: concurrent
\* deliveries to one terminal never interleave, and a replacement of the
\* terminal never receives the Return.
WholeLine ==
    \A c \in Children : \A i \in 1..Len(input[c]) :
        input[c][i][2] = "return" =>
            i > 1 /\ input[c][i - 1] = <<input[c][i][1], "body">>

\* What the ledger and the mesh log say of a row is what its child has read.
ReportsTrue ==
    \A d \in Rows :
        /\ dstate[d] \in {"none", "queued"} => ~Typed(d, "body")
        /\ dstate[d] = "written" => Typed(d, "body")
        /\ dstate[d] = "submitted" \/ d \in mesh => Typed(d, "return")

\* A sender told "started" sent something an agent was given whole, and is
\* never told "failed" too; one told "failed" sent something that failed.
SenderToldTrue ==
    \A j \in Jobs :
        /\ "started" \in Range(told[j]) =>
             \E d \in Rows : djob[d] = j /\ Typed(d, "return")
        /\ "failed" \in Range(told[j]) =>
             /\ "started" \notin Range(told[j])
             /\ \E d \in Rows : djob[d] = j /\ dstate[d] \in {"failed", "uncertain"}

NothingTypedOf(d) ==
    \A c \in Children : Len(input'[c]) > Len(input[c]) =>
        input'[c][Len(input'[c])][1] # d

\* Under one registration a settled row is final: no crash, recovery or late
\* task changes its outcome or types anything of it.
SettledStays ==
    [][\A d \in Rows : dstate[d] \in Settled =>
            dstate'[d] = dstate[d] /\ NothingTypedOf(d)]_vars

Quiet(d) == /\ dstate[d] \in Settled
            /\ \A t \in Tasks : task[t].row # d
            /\ d \notin rec.queued \union rec.cut

\* Also when the runner is registered anew: a settled row that no task and no
\* recovery holds is never picked up again.
QuietRowsStay ==
    [][\A d \in Rows : Quiet(d) =>
            dstate'[d] = dstate[d] /\ Quiet(d)' /\ NothingTypedOf(d)]_vars

\* Under one registration the ledger keeps the abstract promise.
Promise == INSTANCE AtMostOnce WITH
    Messages <- Rows, Readers <- Children, lines <- input,
    status <- [d \in Rows |-> IF dstate[d] = "none" THEN "new"
                              ELSE IF dstate[d] \in Settled THEN "settled"
                              ELSE "pending"]

PromiseKept == Promise!Spec

\* Every accepted message is settled, through crashes and dead terminals.
QueueDrains == \A d \in Rows : dstate[d] = "queued" ~> dstate[d] \in Settled

\* What a crash cut short is reported to the user, and its job to its sender,
\* by the next start: unless the daemon dies again before it has done so.
CutRowsReported ==
    \A d \in Rows, n \in 1..MaxCrashes :
        (svc = "down" /\ crashes = n /\ dstate[d] \in {"writing", "written"})
            ~> \/ crashes > n
               \/ /\ d \in fyis
                  /\ djob[d] # NoJob => "failed" \in Range(told[djob[d]])
=============================================================================
