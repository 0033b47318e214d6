----------------------------- MODULE HostRelay ------------------------------
(***************************************************************************)
(* Mail from a desktop to the agents of a cloud workspace and back: the    *)
(* client that submits jobs and messages (meshJobs.ts), the relay's queue, *)
(* the daemon's poll, admission, hand-off and outbox (relay/mod.rs), and   *)
(* the ledger that makes them survive a crash (ledger.rs, workspace.rs).   *)
(*                                                                         *)
(* A delivery row is followed only through its states; module Delivery     *)
(* models how it is typed.  One device sends to one workspace, through     *)
(* whichever of its teams answers first.                                   *)
(***************************************************************************)
EXTENDS Naturals, Sequences, FiniteSets

CONSTANTS
    Jobs, Messages,  \* the ids the client gives its jobs and its messages
    Teams,           \* how many teams the client shares with the owner
    MaxAttempts,     \* bound on the posts of one item
    PageSize,        \* outbox rows one flush reads (pending_outbox's LIMIT)
    MaxMail,         \* envelopes the relay keeps for one device
    MaxCrashes,      \* bound on crashes of the daemon
    MaxPuts          \* bound on registrations that change the runner

ASSUME HostRelayAssumption ==
    /\ Jobs \intersect Messages = {}
    /\ Teams \in Nat \ {0} /\ MaxAttempts \in Nat /\ PageSize \in Nat \ {0}
    /\ MaxMail \in Nat \ {0}
    /\ MaxCrashes \in Nat /\ MaxPuts \in Nat

Items     == Jobs \union Messages
Envelopes == [item : Items, try : 1..MaxAttempts]
NoTeam    == 0

\* submitRemote goes through its sessions in order; a retry starts over.
TeamOf(e) == ((e.try - 1) % Teams) + 1
IsJob(e)  == e.item \in Jobs

VARIABLES
    post, try,     \* the client's request for an item, and its attempt
    route, shown,  \* the record of where an item went; the updates it got
    queue,         \* envelopes waiting on the relay for the host
    mailbox,       \* statuses waiting on the relay for the client, in order
    gone,          \* teams the client's device or user is no longer in
    up, crashes,
    phase, batch, acks, page,  \* relay_once: its position and its snapshots
    inbox,         \* ledger: state of each envelope's row
    job, jobTeam,  \* ledger: state of each job, and the team it came from
    rows,          \* ledger: the delivery rows, in order
    run,           \* the run_delivery tasks of each row: 0 is the hand-off's or
                   \* the restart's, n that of the n-th changed registration
    cut,           \* where recover_deliveries is with each row
    puts,          \* changed registrations that found a row unfinished
    touched,       \* history: the rows one of them found unfinished
    been,          \* history: the outcomes each row has had
    outbox,        \* ledger: the statuses and refusals to send, in order
    handing,       \* live hand_off tasks
    failing        \* hand_off tasks that have a job's failure left to report

clientVars == <<post, try, route, shown>>
netVars    == <<queue, mailbox, gone>>
pollVars   == <<phase, batch, acks, page>>
jobVars    == <<job, jobTeam>>
history    == <<touched, been>>
rowVars    == <<rows, run, cut, puts, history>>
tasks      == <<handing, failing>>
hostVars   == <<up, crashes, pollVars, inbox, jobVars, rowVars, outbox, tasks>>
vars       == <<clientVars, netVars, hostVars>>

Statuses == {"accepted", "declined", "refused", "started", "done", "blocked",
             "failed"}
Replies  == [item : Items, team : 1..Teams, state : Statuses]
Outgoing == [reply : Replies, sent : BOOLEAN]
Outcomes == {"submitted", "failed", "uncertain"}
Rows     == [env : Envelopes, state : {"queued", "writing"} \union Outcomes]

\* A task that is through typing still has its job's new state to report.
Labels == {"none", "wait", "typing", "started", "failed"}
Slots  == 0..MaxPuts
Idle   == [n \in Slots |-> "none"]
Fresh  == [Idle EXCEPT ![0] = "wait"]

Reply(i, t, state) == [item |-> i, team |-> t, state |-> state]

TypeOK ==
    /\ post \in [Items -> {"unsent", "asking", "taken", "sent", "failed"}]
    /\ try \in [Items -> 0..MaxAttempts]
    /\ route \in [Items -> 0..Teams] /\ shown \in [Items -> SUBSET Statuses]
    /\ queue \subseteq Envelopes /\ mailbox \in Seq(Replies)
    /\ gone \subseteq 1..Teams
    /\ up \in BOOLEAN /\ crashes \in Nat
    /\ phase \in {"recover", "admit", "read", "flush", "record"}
    /\ batch \subseteq Envelopes /\ acks \subseteq Envelopes
    /\ page \subseteq 1..Len(outbox)
    /\ inbox \in [Envelopes -> {"none", "accepted", "refused", "handed", "failed"}]
    /\ job \in [Jobs -> {"none", "accepted", "declined", "started", "done",
                         "blocked", "failed", "uncertain"}]
    /\ jobTeam \in [Jobs -> 0..Teams]
    /\ rows \in Seq(Rows)
    /\ run \in Seq([Slots -> Labels]) /\ Len(run) = Len(rows)
    /\ cut \in Seq({"none", "row", "job"}) /\ Len(cut) = Len(rows)
    /\ puts \in Slots
    /\ touched \subseteq DOMAIN rows /\ been \subseteq (DOMAIN rows) \X Outcomes
    /\ outbox \in Seq(Outgoing)
    /\ handing \subseteq Envelopes /\ failing \subseteq Envelopes

Init ==
    /\ post = [i \in Items |-> "unsent"] /\ try = [i \in Items |-> 0]
    /\ route = [i \in Items |-> NoTeam] /\ shown = [i \in Items |-> {}]
    /\ queue = {} /\ mailbox = <<>> /\ gone = {}
    /\ up = TRUE /\ crashes = 0
    /\ phase = "flush" /\ batch = {} /\ acks = {} /\ page = {}
    /\ inbox = [e \in Envelopes |-> "none"]
    /\ job = [j \in Jobs |-> "none"] /\ jobTeam = [j \in Jobs |-> NoTeam]
    /\ rows = <<>> /\ run = <<>> /\ cut = <<>> /\ outbox = <<>>
    /\ puts = 0 /\ touched = {} /\ been = {}
    /\ handing = {} /\ failing = {}

-----------------------------------------------------------------------------
(* The client: submitRemote and sendMessage, and the updates that return.  *)

Current(i) == [item |-> i, try |-> try[i]]

\* The first post of an item, and the next one when a post failed: through the
\* next team, or again for an agent that asks again.
Ask(i) ==
    /\ post[i] \in {"unsent", "failed"} /\ try[i] < MaxAttempts
    /\ post' = [post EXCEPT ![i] = "asking"]
    /\ try' = [try EXCEPT ![i] = @ + 1]
    /\ UNCHANGED <<route, shown, netVars, hostVars>>

RelayTakes(i) ==
    /\ post[i] = "asking" /\ TeamOf(Current(i)) \notin gone
    /\ post' = [post EXCEPT ![i] = "taken"]
    /\ queue' = queue \union {Current(i)}
    /\ UNCHANGED <<try, route, shown, mailbox, gone, hostVars>>

\* Only now does the client note where the item went, and so whose updates
\* it will listen to.
Answered(i) ==
    /\ post[i] = "taken"
    /\ post' = [post EXCEPT ![i] = "sent"]
    /\ route' = [route EXCEPT ![i] = TeamOf(Current(i))]
    /\ UNCHANGED <<try, shown, netVars, hostVars>>

\* The post failed, or its answer was lost: the client cannot tell.
Unanswered(i) ==
    /\ post[i] \in {"asking", "taken"}
    /\ post' = [post EXCEPT ![i] = "failed"]
    /\ UNCHANGED <<try, route, shown, netVars, hostVars>>

Final(i, state) == i \in Messages \/ state \in {"declined", "done", "failed"}

\* An update of an item no record names is dropped; a final one ends the record.
Hear ==
    /\ mailbox # <<>>
    /\ mailbox' = Tail(mailbox)
    /\ LET r == Head(mailbox) IN
         IF route[r.item] # r.team THEN UNCHANGED <<route, shown>>
         ELSE /\ shown' = [shown EXCEPT ![r.item] = @ \union {r.state}]
              /\ route' = [route EXCEPT ![r.item] =
                             IF Final(r.item, r.state) THEN NoTeam ELSE @]
    /\ UNCHANGED <<post, try, queue, gone, hostVars>>

\* The client's device or its user leaves a team.
Leaves(t) ==
    /\ gone' = gone \union {t}
    /\ UNCHANGED <<clientVars, queue, mailbox, hostVars>>

-----------------------------------------------------------------------------
(* The ledger's jobs and outbox.                                           *)

Queued(reply) == [reply |-> reply, sent |-> FALSE]
Push(reply)   == outbox' = Append(outbox, Queued(reply))

Wire(state) == IF state = "uncertain" THEN "failed" ELSE state

\* Fault: the status is queued without looking up the team it goes to.
TransitionUnrouted(j, state) ==
    /\ job' = [job EXCEPT ![j] = state]
    /\ Push(Reply(j, NoTeam, Wire(state)))
    /\ UNCHANGED jobTeam

Transition(j, state) ==
    /\ job' = [job EXCEPT ![j] = state]
    /\ Push(Reply(j, jobTeam[j], Wire(state)))
    /\ UNCHANGED jobTeam

-----------------------------------------------------------------------------
(* poll_workspace: read the relay, admit one by one, acknowledge.          *)

At(label) == up /\ phase = label

\* Between two passes: the last flush has posted its page.
AtRest == At("flush") /\ page = {}

\* The relay hands out only the envelopes of senders that are still members;
\* the order it hands them out in is not kept.
Poll ==
    /\ AtRest
    /\ batch' = {e \in queue : TeamOf(e) \notin gone}
    /\ acks' = {} /\ phase' = "admit"
    /\ UNCHANGED <<clientVars, netVars, up, crashes, page, inbox, jobVars, rowVars,
                   outbox, tasks>>

PollFails ==
    /\ AtRest /\ phase' = "read"
    /\ UNCHANGED <<clientVars, netVars, up, crashes, batch, acks, page, inbox,
                   jobVars, rowVars, outbox, tasks>>

\* INSERT OR IGNORE: a job known under its id keeps its state and its team.
InsertJob(e, state) ==
    IF job[e.item] = "none"
    THEN /\ job' = [job EXCEPT ![e.item] = state]
         /\ jobTeam' = [jobTeam EXCEPT ![e.item] = TeamOf(e)]
    ELSE /\ job' = IF state = "declined" THEN [job EXCEPT ![e.item] = state] ELSE job
         /\ UNCHANGED jobTeam

\* access::decide says deliver, or refuse: the grant may change at any time.
\* The inbox row, the job row and the reply are one commit.
Accept(e) ==
    /\ inbox' = [inbox EXCEPT ![e] = "accepted"]
    /\ IF IsJob(e) THEN /\ InsertJob(e, "accepted")
                        /\ Push(Reply(e.item, TeamOf(e), "accepted"))
       ELSE UNCHANGED <<jobVars, outbox>>
    /\ handing' = handing \union {e}

\* Fault: the hand-off is spawned whatever the decision.
RefuseHanded(e) ==
    /\ inbox' = [inbox EXCEPT ![e] = "refused"]
    /\ IF IsJob(e) THEN /\ InsertJob(e, "declined")
                        /\ Push(Reply(e.item, TeamOf(e), "declined"))
       ELSE Push(Reply(e.item, TeamOf(e), "refused")) /\ UNCHANGED jobVars
    /\ handing' = handing \union {e}

Refuse(e) ==
    /\ inbox' = [inbox EXCEPT ![e] = "refused"]
    /\ IF IsJob(e) THEN /\ InsertJob(e, "declined")
                        /\ Push(Reply(e.item, TeamOf(e), "declined"))
       ELSE Push(Reply(e.item, TeamOf(e), "refused")) /\ UNCHANGED jobVars
    /\ UNCHANGED handing

Record(e) == Accept(e) \/ Refuse(e)

Admitting(e) == At("admit") /\ e \in batch

Admit(e) ==
    /\ Admitting(e) /\ inbox[e] = "none"
    /\ Record(e)
    /\ batch' = batch \ {e} /\ acks' = acks \union {e}
    /\ UNCHANGED <<clientVars, netVars, up, crashes, phase, page, rowVars, failing>>

\* Seen before: acknowledged, not rerun.
Duplicate(e) ==
    /\ Admitting(e) /\ inbox[e] # "none"
    /\ batch' = batch \ {e} /\ acks' = acks \union {e}
    /\ UNCHANGED <<clientVars, netVars, up, crashes, phase, page, inbox, jobVars,
                   rowVars, outbox, tasks>>

\* Fault: an envelope whose commit failed is acknowledged.
KeepAcked(e) ==
    /\ Admitting(e) /\ inbox[e] = "none"
    /\ batch' = batch \ {e} /\ acks' = acks \union {e}
    /\ UNCHANGED <<clientVars, netVars, up, crashes, phase, page, inbox,
                   jobVars, rowVars, outbox, tasks>>

\* Nothing durable happened: it stays on the relay for the next poll.
Keep(e) ==
    /\ Admitting(e) /\ inbox[e] = "none"
    /\ batch' = batch \ {e}
    /\ UNCHANGED <<clientVars, netVars, up, crashes, phase, acks, page, inbox,
                   jobVars, rowVars, outbox, tasks>>

\* The relay drops what was acknowledged; a failed ack is only logged.
Ack ==
    /\ At("admit") /\ batch = {} /\ phase' = "read" /\ acks' = {}
    /\ \/ queue' = queue \ acks
       \/ UNCHANGED queue
    /\ UNCHANGED <<clientVars, mailbox, gone, up, crashes, batch, page,
                   inbox, jobVars, rowVars, outbox, tasks>>

-----------------------------------------------------------------------------
(* hand_off, the delivery it starts, and the agent's job_done.             *)

\* Fault: deliver's commit leaves the inbox row as it is.
HandOffUnmarked(e) ==
    /\ e \in handing
    /\ rows' = Append(rows, [env |-> e, state |-> "queued"])
    /\ run' = Append(run, Fresh) /\ cut' = Append(cut, "none")
    /\ job' = IF IsJob(e) THEN [job EXCEPT ![e.item] = "accepted"] ELSE job
    /\ handing' = handing \ {e}
    /\ UNCHANGED <<clientVars, netVars, up, crashes, pollVars, inbox, jobTeam,
                   outbox, failing, puts, history>>

\* The agent is found and deliver commits: the row, the inbox, the job.
HandOff(e) ==
    /\ e \in handing
    /\ rows' = Append(rows, [env |-> e, state |-> "queued"])
    /\ run' = Append(run, Fresh) /\ cut' = Append(cut, "none")
    /\ inbox' = [inbox EXCEPT ![e] = "handed"]
    /\ job' = IF IsJob(e) THEN [job EXCEPT ![e.item] = "accepted"] ELSE job
    /\ handing' = handing \ {e}
    /\ UNCHANGED <<clientVars, netVars, up, crashes, pollVars, jobTeam, outbox,
                   failing, puts, history>>

\* No such agent, a severed pair, no runner: before a row exists, the failure
\* is recorded here.  A message's answer is in the same commit, a job's is not.
HandOffFails(e) ==
    /\ e \in handing
    /\ inbox' = [inbox EXCEPT ![e] = "failed"]
    /\ handing' = handing \ {e}
    /\ IF IsJob(e) THEN failing' = failing \union {e} /\ UNCHANGED outbox
       ELSE Push(Reply(e.item, TeamOf(e), "failed")) /\ UNCHANGED failing
    /\ UNCHANGED <<clientVars, netVars, up, crashes, pollVars, jobVars, rowVars>>

ReportFailure(e) ==
    /\ e \in failing
    /\ Transition(e.item, "failed")
    /\ failing' = failing \ {e}
    /\ UNCHANGED <<clientVars, netVars, up, crashes, pollVars, inbox, rowVars,
                   handing>>

HandOffStep(e) == HandOff(e) \/ HandOffFails(e) \/ ReportFailure(e)

SetRow(k, state) ==
    /\ rows' = [rows EXCEPT ![k].state = state]
    /\ been' = IF state \in Outcomes THEN been \union {<<k, state>>} ELSE been

Goto(k, n, label) == run' = [run EXCEPT ![k][n] = label]

\* Two tasks of a row take the lock of its terminal in turn, and neither looks
\* at the row again: it is typed whatever became of it meanwhile.
StartTyping(k, n) ==
    /\ run[k][n] = "wait" /\ \A l \in Slots : run[k][l] \in {"none", "wait"}
    /\ SetRow(k, "writing") /\ Goto(k, n, "typing")
    /\ UNCHANGED <<clientVars, netVars, up, crashes, pollVars, inbox, jobVars,
                   outbox, tasks, cut, puts, touched>>

\* The row's outcome is one commit, the job's another.
EndTyping(k, n) ==
    /\ run[k][n] = "typing"
    /\ \E end \in {<<"submitted", "started">>, <<"failed", "failed">>} :
          /\ SetRow(k, end[1])
          /\ Goto(k, n, IF IsJob(rows[k].env) THEN end[2] ELSE "none")
    /\ UNCHANGED <<clientVars, netVars, up, crashes, pollVars, inbox, jobVars,
                   outbox, tasks, cut, puts, touched>>

Reporting(k, n) == run[k][n] \in {"started", "failed"}

\* Fault: a delivery that failed is reported like one that was submitted.
ReportStarted(k, n) ==
    /\ Reporting(k, n)
    /\ Transition(rows[k].env.item, "started")
    /\ Goto(k, n, "none")
    /\ UNCHANGED <<clientVars, netVars, up, crashes, pollVars, inbox, rows, tasks,
                   cut, puts, history>>

ReportJob(k, n) ==
    /\ Reporting(k, n)
    /\ Transition(rows[k].env.item, run[k][n])
    /\ Goto(k, n, "none")
    /\ UNCHANGED <<clientVars, netVars, up, crashes, pollVars, inbox, rows, tasks,
                   cut, puts, history>>

RunStep(k) == \E n \in Slots : StartTyping(k, n) \/ EndTyping(k, n) \/ ReportJob(k, n)

\* The agent in the terminal a delivery row aims the job at reports it done.
JobDone(j, status) ==
    /\ up /\ phase # "recover"
    /\ job[j] \in {"accepted", "started"}
    /\ \E k \in DOMAIN rows : rows[k].env.item = j
    /\ Transition(j, status)
    /\ UNCHANGED <<clientVars, netVars, up, crashes, pollVars, inbox, rowVars, tasks>>

-----------------------------------------------------------------------------
(* flush_outbox: a snapshot of the unsent rows, posted one by one.         *)

Unsent == {k \in 1..Len(outbox) : ~outbox[k].sent}

\* The first PageSize unsent rows, by id.
FirstUnsent == {k \in Unsent : Cardinality({l \in Unsent : l < k}) < PageSize}

ReadPage ==
    /\ At("read") /\ phase' = "flush"
    /\ page' = FirstUnsent
    /\ UNCHANGED <<clientVars, netVars, up, crashes, batch, acks, inbox, jobVars,
                   rowVars, outbox, tasks>>

NextOf(k)   == k \in page /\ \A l \in page : k <= l
Flushing(k) == At("flush") /\ NextOf(k)

\* The relay takes it, unless the device's mailbox is full.
Posted(k) ==
    /\ outbox[k].reply.team \notin gone /\ Len(mailbox) < MaxMail
    /\ mailbox' = Append(mailbox, outbox[k].reply)

PostOk(k) ==
    /\ Flushing(k) /\ Posted(k)
    /\ phase' = "record"
    /\ UNCHANGED <<clientVars, queue, gone, up, crashes, batch, acks, page,
                   inbox, jobVars, rowVars, outbox, tasks>>

\* Fault: a row that cannot be sent ends the pass.
PostFailsStops(k) ==
    /\ Flushing(k)
    /\ Posted(k) \/ UNCHANGED mailbox
    /\ page' = {}
    /\ UNCHANGED <<clientVars, queue, gone, up, crashes, phase, batch, acks,
                   inbox, jobVars, rowVars, outbox, tasks>>

\* The device is not in the directory, the post failed, or its answer was lost.
PostFails(k) ==
    /\ Flushing(k)
    /\ Posted(k) \/ UNCHANGED mailbox
    /\ page' = page \ {k}
    /\ UNCHANGED <<clientVars, queue, gone, up, crashes, phase, batch, acks,
                   inbox, jobVars, rowVars, outbox, tasks>>

RecordSent(k) ==
    /\ At("record") /\ NextOf(k) /\ phase' = "flush"
    /\ outbox' = [outbox EXCEPT ![k].sent = TRUE]
    /\ page' = page \ {k}
    /\ UNCHANGED <<clientVars, netVars, up, crashes, batch, acks, inbox, jobVars,
                   rowVars, tasks>>

PollerStep ==
    \/ Poll \/ PollFails \/ Ack \/ ReadPage
    \/ \E e \in Envelopes : Admit(e) \/ Duplicate(e) \/ Keep(e)
    \/ \E k \in DOMAIN outbox : PostOk(k) \/ PostFails(k) \/ RecordSent(k)

-----------------------------------------------------------------------------
(* Crash and restart.                                                      *)

Crash ==
    /\ up /\ crashes < MaxCrashes
    /\ up' = FALSE /\ crashes' = crashes + 1
    /\ phase' = "recover" /\ batch' = {} /\ acks' = {} /\ page' = {}
    /\ run' = [k \in DOMAIN run |-> Idle] /\ cut' = [k \in DOMAIN cut |-> "none"]
    /\ handing' = {} /\ failing' = {}
    /\ UNCHANGED <<clientVars, netVars, inbox, jobVars, rows, puts, history, outbox>>

\* recover_deliveries reads the ledger: the rows it finds mid-write are cut,
\* the queued ones run.
Unfinished == {k \in DOMAIN rows : rows[k].state \notin Outcomes}
CutRows == [k \in DOMAIN rows |-> IF rows[k].state = "writing" THEN "row" ELSE "none"]
NoneCut == \A k \in DOMAIN cut : cut[k] = "none"

\* activate, after a crash.
Restart ==
    /\ ~up /\ up' = TRUE
    /\ run' = [k \in DOMAIN run |-> IF rows[k].state = "queued" THEN Fresh ELSE Idle]
    /\ cut' = CutRows
    /\ UNCHANGED <<clientVars, netVars, crashes, pollVars, inbox, jobVars, rows,
                   outbox, tasks, puts, history>>

\* register, when the gateway's next PUT changed the runner: the same beside
\* tasks that are alive, one registration after another.  One that finds no
\* row unfinished changes nothing here.
Reregister ==
    /\ up /\ phase # "recover" /\ NoneCut
    /\ puts < MaxPuts /\ Unfinished # {}
    /\ puts' = puts + 1
    /\ run' = [k \in DOMAIN run |-> IF rows[k].state = "queued"
                                    THEN [run[k] EXCEPT ![puts + 1] = "wait"] ELSE run[k]]
    /\ cut' = CutRows
    /\ touched' = touched \union Unfinished
    /\ UNCHANGED <<clientVars, netVars, up, crashes, pollVars, inbox, jobVars, rows,
                   been, outbox, tasks>>

\* The cut rows, in order, become uncertain, each before its job.
NextCut(k) == up /\ \A l \in 1..(k - 1) : cut[l] = "none"

CutTo(k, label) == cut' = [cut EXCEPT ![k] = label]

MarkUncertain(k) ==
    /\ NextCut(k) /\ cut[k] = "row"
    /\ SetRow(k, "uncertain")
    /\ CutTo(k, IF IsJob(rows[k].env) THEN "job" ELSE "none")
    /\ UNCHANGED <<clientVars, netVars, up, crashes, pollVars, inbox, jobVars,
                   outbox, tasks, run, puts, touched>>

ReportUncertain(k) ==
    /\ NextCut(k) /\ cut[k] = "job"
    /\ Transition(rows[k].env.item, "uncertain")
    /\ CutTo(k, "none")
    /\ UNCHANGED <<clientVars, netVars, up, crashes, pollVars, inbox, rows, tasks,
                   run, puts, history>>

\* Fault: a restart resumes no admitted envelope.
NothingAdmitted == {}

AcceptedInbox == {e \in Envelopes : inbox[e] = "accepted"}

\* resume_admitted; the sockets open and the relay loop starts.
RecoveryEnds ==
    /\ At("recover") /\ NoneCut
    /\ phase' = "flush"
    /\ handing' = AcceptedInbox
    /\ UNCHANGED <<clientVars, netVars, up, crashes, batch, acks, page, inbox,
                   jobVars, rowVars, outbox, failing>>

RecoveryStep ==
    \/ RecoveryEnds
    \/ \E k \in DOMAIN rows : MarkUncertain(k) \/ ReportUncertain(k)

-----------------------------------------------------------------------------

ClientStep ==
    \/ Hear
    \/ \E i \in Items : Ask(i) \/ RelayTakes(i) \/ Answered(i) \/ Unanswered(i)

ControlPlane == \E t \in 1..Teams : Leaves(t)

HostStep ==
    \/ PollerStep
    \/ \E e \in Envelopes : HandOffStep(e)
    \/ \E k \in DOMAIN rows : RunStep(k)
    \/ \E j \in Jobs, status \in {"done", "blocked"} : JobDone(j, status)

Next ==
    \/ ClientStep \/ ControlPlane \/ HostStep
    \/ Crash \/ Restart \/ Reregister \/ RecoveryStep

Spec == Init /\ [][Next]_vars

\* Tasks run, the daemon is restarted, the client and the daemon keep polling,
\* and of the calls made again and again -- the commit of an admission, the
\* post of a row -- some succeed.
Fairness ==
    /\ WF_vars(Restart) /\ WF_vars(RecoveryStep) /\ WF_vars(PollerStep) /\ WF_vars(Hear)
    /\ WF_vars(\E e \in Envelopes : HandOffStep(e))
    /\ WF_vars(\E k \in DOMAIN rows : RunStep(k))
    /\ SF_vars(Poll)
    /\ SF_vars(\E e \in Envelopes : Admit(e))
    /\ SF_vars(\E k \in DOMAIN outbox : PostOk(k))

FairSpec == Spec /\ Fairness

-----------------------------------------------------------------------------
(* Properties.                                                             *)

\* mod.rs, admit: whatever crashes or fails, an envelope leaves the relay only
\* once its inbox row is durable.
NothingLost == [][\A e \in Envelopes :
                    e \in queue \ queue' => inbox[e]' # "none"]_vars

\* A poll that sees an envelope again, and a resume after a restart, never give
\* it a second delivery row.
HandedOnce ==
    \A k, l \in DOMAIN rows : rows[k].env = rows[l].env => k = l

HasRow(e) == \E k \in DOMAIN rows : rows[k].env = e

\* A changed registration may move a row it found unfinished on from an outcome
\* it had: of such a row an update says what became of it once.
RowIn(i, states) ==
    \E k \in DOMAIN rows :
        /\ rows[k].env.item = i
        /\ IF k \in touched THEN \E state \in states : <<k, state>> \in been
           ELSE rows[k].state \in states

Verdict(i, states) == \E e \in Envelopes : /\ e.item = i /\ inbox[e] \in states
                                           /\ ~HasRow(e)

TrueOf(i, state) ==
    /\ state \in {"refused", "declined"} => Verdict(i, {"refused"})
    /\ state = "failed" => \/ Verdict(i, {"failed"})
                           \/ i \in Jobs /\ RowIn(i, {"failed", "uncertain"})
    /\ state = "started" => RowIn(i, {"submitted"})
    /\ state \in {"done", "blocked"} =>
          \E e \in Envelopes : e.item = i /\ HasRow(e)
    /\ state = "accepted" =>
          \E e \in Envelopes : /\ e.item = i
                               /\ inbox[e] \in {"accepted", "handed", "failed"}

\* What the client is shown of an item, crashes and repeated posts included, is
\* true of the ledger: a refused or failed message was never typed by the
\* attempt it answers for, a started job was submitted, a failed one failed.
\* Where a changed registration found the row unfinished (service.rs:123-126),
\* the row has had that outcome, and may have another by now.
UpdatesTrue == \A i \in Items : \A state \in shown[i] : TrueOf(i, state)

\* Every envelope the relay took is refused, fails, or is handed to a delivery
\* that ends: none is admitted and then forgotten by a crash.
Ended(e) == \/ inbox[e] \in {"refused", "failed"}
            \/ \E k \in DOMAIN rows : /\ rows[k].env = e
                    /\ rows[k].state \in Outcomes

MailEnds == \A e \in Envelopes :
    e \in queue ~> (Ended(e) \/ TeamOf(e) \in gone)

\* Every status and refusal queued is posted, unless its device left the team:
\* a row that cannot go does not keep the others from going.
MaxOutbox == Cardinality({e \in Envelopes : ~IsJob(e)})
             + (4 + 4 * MaxPuts + 2 * MaxCrashes)
                  * Cardinality({e \in Envelopes : IsJob(e)})
Waits(k) == k <= Len(outbox) /\ ~outbox[k].sent
RepliesLeave ==
    \A k \in 1..MaxOutbox :
        Waits(k) ~> (~Waits(k) \/ outbox[k].reply.team \in gone)

-----------------------------------------------------------------------------
(* Claims of the source that its code does not keep.                       *)

Told(i, state) == \E k \in DOMAIN outbox : /\ outbox[k].reply.item = i
                                           /\ outbox[k].reply.state = state

\* canopy-service-protocol.md: a mesh message "that was admitted but could not
\* be delivered is answered" as failed.
FailureAnswered ==
    \A k \in DOMAIN rows :
        rows[k].env.item \in Messages /\ rows[k].state = "failed" /\ run[k] = Idle
            => Told(rows[k].env.item, "failed")
=============================================================================
