--------------------------- MODULE DeliveryProofs ---------------------------
(***************************************************************************)
(* Proofs about Delivery: every reachable state is well typed, under any   *)
(* re-registrations; and under one registration nothing is typed twice.    *)
(***************************************************************************)
EXTENDS Delivery, TLAPS

\* What tasks and recovery hold of rows: the rows exist and have a terminal.
RefOK ==
    /\ \A d \in Rows : dstate[d] # "none" => dpty[d] \in Ptys
    /\ \A t \in Tasks : Live(t) => /\ task[t].row \in Rows
                                   /\ dstate[task[t].row] # "none"
    /\ \A t \in Tasks : ~Live(t) => task[t] = Idle
    /\ \A d \in rec.queued \union rec.cut : dstate[d] # "none"

TypeInv == TypeOK /\ RefOK

\* A live task's row and terminal are typed.
LEMMA TaskRow ==
    ASSUME TypeInv, NEW t \in Tasks, Live(t)
    PROVE  /\ task[t].row \in Rows /\ PtyOf(t) \in Ptys
           /\ dstate[task[t].row] # "none"
           /\ JobOf(t) \in Jobs \union {NoJob}
           /\ task[t].child \in Children \union {NoChild}
    BY DEF TypeInv, TypeOK, RefOK, PtyOf, JobOf, Live, TaskRecords

\* The record by_pty finds is a child, or none.
LEMMA ByPtyType ==
    ASSUME TypeOK, NEW p \in Ptys
    PROVE  ByPty(p) \in Children \union {NoChild}
    BY DEF TypeOK, ByPty

\* A job transition keeps the job table and the outbox typed.
LEMMA JobTransitionType ==
    ASSUME TypeOK, NEW j \in Jobs, NEW state \in JobStates, JobTransition(j, state)
    PROVE  /\ jstate' \in [Jobs -> JobStates]
           /\ jpty' \in [Jobs -> Ptys \union {NoPty}]
           /\ told' \in [Jobs -> Seq(JobStates)]
<1>1. Wire(state) \in JobStates
    BY DEF Wire, JobStates
<1>2. told[j] \in Seq(JobStates)
    BY DEF TypeOK
<1>3. Append(told[j], Wire(state)) \in Seq(JobStates)
    BY <1>1, <1>2
<1>4. told' \in [Jobs -> Seq(JobStates)]
    BY <1>3 DEF TypeOK, JobTransition
<1> QED
    BY <1>4 DEF TypeOK, JobTransition

\* Only a task whose row carries a job has a job to report.
JobOK == \A t \in Tasks : task[t].pc \in {"started", "failjob"} => JobOf(t) \in Jobs

LEMMA TypeInit == Init => TypeInv /\ JobOK
<1> SUFFICES ASSUME Init PROVE TypeInv /\ JobOK
    OBVIOUS
<1>1. TypeOK
    BY DeliveryAssumption DEF Init, TypeOK, TaskRecords, Idle, Labels, Endpoints,
        JobStates
<1>2. RefOK
    BY DEF Init, RefOK, Idle, Live
<1>3. JobOK
    BY DEF Init, JobOK, Idle
<1> QED
    BY <1>1, <1>2, <1>3 DEF TypeInv

\* A live task moves on with its row, or ends; the other tasks stay.
LEMMA MoveType ==
    ASSUME TypeInv, NEW t \in Tasks, Live(t), NEW r \in TaskRecords,
           r = Idle \/ (r.pc # "idle" /\ r.row = task[t].row),
           task' = [task EXCEPT ![t] = r]
    PROVE  /\ task' \in [Tasks -> TaskRecords]
           /\ \A u \in Tasks : Live(u)' => /\ Live(u)
                                           /\ task'[u].row = task[u].row
           /\ \A u \in Tasks : ~Live(u)' => task'[u] = Idle
    BY DEF TypeInv, TypeOK, RefOK, Live, Idle

LEMMA GotoType ==
    ASSUME TypeInv, NEW t \in Tasks, Live(t), NEW label \in Labels \ {"idle"},
           Goto(t, label)
    PROVE  /\ task' \in [Tasks -> TaskRecords]
           /\ \A u \in Tasks : Live(u)' => /\ Live(u)
                                           /\ task'[u].row = task[u].row
           /\ \A u \in Tasks : ~Live(u)' => task'[u] = Idle
<1> DEFINE r == [task[t] EXCEPT !.pc = label]
<1>1. r \in TaskRecords /\ r.pc # "idle" /\ r.row = task[t].row
    BY DEF TypeInv, TypeOK, TaskRecords
<1>2. task' = [task EXCEPT ![t] = r]
    BY DEF Goto, TypeInv, TypeOK
<1> QED
    BY <1>1, <1>2, MoveType

\* A task that goes to a label keeps its row and its terminal's generation.
LEMMA GotoFact ==
    ASSUME TypeInv, NEW t \in Tasks, NEW label, Goto(t, label)
    PROVE  /\ task'[t].pc = label /\ task'[t].row = task[t].row
           /\ task'[t].child = task[t].child
           /\ \A u \in Tasks : u # t => task'[u] = task[u]
    BY DEF Goto, TypeInv, TypeOK, TaskRecords

LEMMA FinishType ==
    ASSUME TypeInv, NEW t \in Tasks, Live(t), Finish(t)
    PROVE  /\ task' \in [Tasks -> TaskRecords]
           /\ \A u \in Tasks : Live(u)' => /\ Live(u)
                                           /\ task'[u].row = task[u].row
           /\ \A u \in Tasks : ~Live(u)' => task'[u] = Idle
<1>1. Idle \in TaskRecords
    BY DEF Idle, TaskRecords, Labels
<1> QED
    BY <1>1, MoveType DEF Finish

\* A spawned task holds the row it is spawned for.
LEMMA SpawnType ==
    ASSUME TypeInv, NEW d \in Rows, Spawn(d)
    PROVE  /\ task' \in [Tasks -> TaskRecords]
           /\ \A u \in Tasks : Live(u)' => \/ Live(u) /\ task'[u].row = task[u].row
                                           \/ task'[u].row = d
           /\ \A u \in Tasks : ~Live(u)' => task'[u] = Idle
<1>1. PICK t \in Tasks :
        task' = [task EXCEPT ![t] = [pc |-> "wait", row |-> d, child |-> NoChild]]
    BY DEF Spawn
<1>2. [pc |-> "wait", row |-> d, child |-> NoChild] \in TaskRecords
    BY DEF TaskRecords, Labels
<1> QED
    BY <1>1, <1>2 DEF TypeInv, TypeOK, RefOK, Live, Idle

\* A ledger update of a row that exists.
LEMMA SetDeliveryType ==
    ASSUME TypeInv, NEW d \in Rows, NEW state \in Unfinished \union Settled,
           SetDelivery(d, state)
    PROVE  /\ dstate' \in [Rows -> {"none"} \union Unfinished \union Settled]
           /\ dstate'[d] # "none"
           /\ \A e \in Rows : e # d => dstate'[e] = dstate[e]
    BY DEF TypeInv, TypeOK, SetDelivery, Unfinished, Settled

\* The terminal's credential list stays one when an entry is taken out.
LEMMA RemoveType ==
    ASSUME NEW S, NEW s \in Seq(S), NEW i \in DOMAIN s
    PROVE  SubSeq(s, 1, i - 1) \o SubSeq(s, i + 1, Len(s)) \in Seq(S)
<1>1. i \in 1..Len(s) /\ Len(s) \in Nat
    OBVIOUS
<1>2. SubSeq(s, 1, i - 1) \in Seq(S)
    BY <1>1
<1>3. SubSeq(s, i + 1, Len(s)) \in Seq(S)
    BY <1>1
<1> QED
    BY <1>2, <1>3

\* What a write that lands does: the task's child has read one more entry.
LEMMA LandsType ==
    ASSUME TypeInv, NEW t \in Tasks, Live(t), NEW key \in {"body", "return"},
           Lands(t, key)
    PROVE  /\ task[t].child \in Children
           /\ input' \in [Children -> Seq(Rows \X {"body", "return"})]
           /\ Len(input'[task[t].child]) = Len(input[task[t].child]) + 1
           /\ input'[task[t].child][Len(input[task[t].child]) + 1]
                = <<task[t].row, key>>
           /\ \A i \in 1..Len(input[task[t].child]) :
                input'[task[t].child][i] = input[task[t].child][i]
           /\ \A c \in Children : c # task[t].child => input'[c] = input[c]
<1> DEFINE E == Rows \X {"body", "return"}
           c == task[t].child
           e == <<task[t].row, key>>
<1>1. e \in E /\ PtyOf(t) \in Ptys
    BY TaskRow
<1>2. c \in Children
    BY <1>1 DEF Lands, Accepts, TypeInv, TypeOK
<1>3. input \in [Children -> Seq(E)] /\ input' = [input EXCEPT ![c] = Append(@, e)]
    BY DEF Lands, TypeInv, TypeOK
<1> HIDE DEF E, c, e
<1>4. /\ input' \in [Children -> Seq(E)]
      /\ Len(input'[c]) = Len(input[c]) + 1
      /\ input'[c][Len(input[c]) + 1] = e
      /\ \A i \in 1..Len(input[c]) : input'[c][i] = input[c][i]
      /\ \A x \in Children : x # c => input'[x] = input[x]
  <2>1. input'[c] = Append(input[c], e) /\ input[c] \in Seq(E)
      BY <1>2, <1>3
  <2>2. Append(input[c], e) \in Seq(E)
      BY <2>1, <1>1
  <2>3. input' \in [Children -> Seq(E)]
      BY <1>2, <1>3, <2>2
  <2>4. \A x \in Children : x # c => input'[x] = input[x]
      BY <1>3
  <2> QED
      BY <1>1, <2>1, <2>3, <2>4
<1> QED
    BY <1>2, <1>4 DEF E, c, e

LEMMA WriteType ==
    ASSUME TypeInv, NEW t \in Tasks, Live(t), NEW key \in {"body", "return"},
           NEW next \in Labels \ {"idle"}, Write(t, key, next)
    PROVE  TypeInv'
<1>1. input' \in [Children -> Seq(Rows \X {"body", "return"})]
    BY LandsType DEF Write, TypeInv, TypeOK
<1>2. /\ task' \in [Tasks -> TaskRecords]
      /\ \A u \in Tasks : Live(u)' => Live(u) /\ task'[u].row = task[u].row
      /\ \A u \in Tasks : ~Live(u)' => task'[u] = Idle
    BY GotoType DEF Write, Labels
<1> QED
    BY <1>1, <1>2 DEF Write, TypeInv, TypeOK, RefOK, rowVars, jobVars, svcVars

LEMMA ResolveType ==
    ASSUME TypeInv, NEW t \in Tasks, Resolve(t) PROVE TypeInv'
<1>1. Live(t)
    BY DEF Resolve, At, Live
<1>2. task[t] \in TaskRecords /\ PtyOf(t) \in Ptys
    BY <1>1, TaskRow DEF TypeInv, TypeOK
<1>3. PICK r \in TaskRecords : /\ r.pc # "idle" /\ r.row = task[t].row
                               /\ task' = [task EXCEPT ![t] = r]
  <2>1. CASE Resolvable(PtyOf(t))
    <3>1. [task[t] EXCEPT !.pc = "body", !.child = ByPty(PtyOf(t))] \in TaskRecords
        BY <1>2, ByPtyType DEF TaskRecords, Labels, TypeInv
    <3> QED
        BY <2>1, <3>1, <1>2 DEF Resolve, TypeInv, TypeOK, TaskRecords
  <2>2. CASE ~Resolvable(PtyOf(t))
    <3>1. [task[t] EXCEPT !.pc = "failing"] \in TaskRecords
        BY <1>2 DEF TaskRecords, Labels
    <3> QED
        BY <2>2, <3>1, <1>2 DEF Resolve, TypeInv, TypeOK, TaskRecords
  <2> QED
    BY <2>1, <2>2
<1>4. /\ task' \in [Tasks -> TaskRecords]
      /\ \A u \in Tasks : Live(u)' => Live(u) /\ task'[u].row = task[u].row
      /\ \A u \in Tasks : ~Live(u)' => task'[u] = Idle
    BY <1>1, <1>3, MoveType
<1> QED
    BY <1>4 DEF Resolve, TypeInv, TypeOK, RefOK, rowVars, jobVars, svcVars, termVars

\* The steps that record a new state of the task's row and move on.
LEMMA RecordType ==
    ASSUME TypeInv, NEW t \in Tasks, Live(t),
           NEW state \in Unfinished \union Settled,
           SetDelivery(task[t].row, state),
           Finish(t) \/ \E label \in Labels \ {"idle"} : Goto(t, label),
           UNCHANGED <<dpty, djob, jobVars, mesh, fyis, svcVars, termVars>>
    PROVE  TypeInv'
<1>1. task[t].row \in Rows /\ dstate[task[t].row] # "none"
    BY TaskRow
<1>2. /\ dstate' \in [Rows -> {"none"} \union Unfinished \union Settled]
      /\ dstate'[task[t].row] # "none"
      /\ \A e \in Rows : e # task[t].row => dstate'[e] = dstate[e]
    BY <1>1, SetDeliveryType
<1>3. /\ task' \in [Tasks -> TaskRecords]
      /\ \A u \in Tasks : Live(u)' => Live(u) /\ task'[u].row = task[u].row
      /\ \A u \in Tasks : ~Live(u)' => task'[u] = Idle
    BY FinishType, GotoType
<1> QED
    BY <1>1, <1>2, <1>3 DEF TypeInv, TypeOK, RefOK, jobVars, svcVars, termVars

LEMMA SettleType ==
    ASSUME TypeInv, NEW t \in Tasks, NEW from \in Labels \ {"idle"},
           NEW state \in Settled, NEW next \in Labels \ {"idle"},
           Settle(t, from, state, next)
    PROVE  TypeInv'
<1>1. Live(t)
    BY DEF Settle, At, Live
<1>2. Finish(t) \/ \E label \in Labels \ {"idle"} : Goto(t, label)
    BY DEF Settle
<1> QED
    BY <1>1, <1>2, RecordType DEF Settle

LEMMA ReportType ==
    ASSUME TypeInv, NEW t \in Tasks, NEW from \in {"started", "failjob"},
           NEW state \in JobStates, Report(t, from, state), JobOf(t) \in Jobs
    PROVE  TypeInv'
<1>1. Live(t)
    BY DEF Report, At, Live
<1>2. /\ task' \in [Tasks -> TaskRecords]
      /\ \A u \in Tasks : Live(u)' => Live(u) /\ task'[u].row = task[u].row
      /\ \A u \in Tasks : ~Live(u)' => task'[u] = Idle
    BY <1>1, FinishType DEF Report
<1>3. /\ jstate' \in [Jobs -> JobStates]
      /\ jpty' \in [Jobs -> Ptys \union {NoPty}]
      /\ told' \in [Jobs -> Seq(JobStates)]
    BY JobTransitionType DEF Report, TypeInv
<1> QED
    BY <1>2, <1>3 DEF Report, TypeInv, TypeOK, RefOK, rowVars, svcVars, termVars

LEMMA TypeStep == TypeInv /\ JobOK /\ [Next]_vars => TypeInv'
<1> SUFFICES ASSUME TypeInv, JobOK, [Next]_vars PROVE TypeInv'
    OBVIOUS
<1>1. ASSUME NEW p \in Ptys, NEW c \in Children, NewTerminal(p, c)
      PROVE  TypeInv'
    BY <1>1 DEF NewTerminal, TypeInv, TypeOK, RefOK, Live, rowVars, jobVars, svcVars
<1>2. ASSUME NEW p \in Ptys, NEW c \in Children, Revoke(p, c)
      PROVE  TypeInv'
  <2>1. creds' \in [Ptys -> Seq(Children)]
    <3>1. PICK i \in DOMAIN creds[p] :
            creds' = [creds EXCEPT ![p] = SubSeq(@, 1, i - 1)
                                            \o SubSeq(@, i + 1, Len(@))]
        BY <1>2 DEF Revoke
    <3>2. creds[p] \in Seq(Children)
        BY DEF TypeInv, TypeOK
    <3> QED
        BY <3>1, <3>2, RemoveType DEF TypeInv, TypeOK
  <2> QED
    BY <1>2, <2>1 DEF Revoke, TypeInv, TypeOK, RefOK, Live, rowVars, jobVars, svcVars
<1>3. ASSUME NEW p \in Ptys, ChildExits(p) PROVE TypeInv'
    BY <1>3 DEF ChildExits, TypeInv, TypeOK, RefOK, Live, rowVars, jobVars, svcVars
<1>4. ASSUME NEW b \in BOOLEAN, ContainerRestarts(b) PROVE TypeInv'
    BY <1>4 DEF ContainerRestarts, Endpoints, TypeInv, TypeOK, RefOK, Live,
        rowVars, jobVars
<1>5. ASSUME NEW j \in Jobs, AdmitJob(j) PROVE TypeInv'
    BY <1>5, JobTransitionType DEF AdmitJob, JobStates, TypeInv, TypeOK, RefOK,
        Live, rowVars, svcVars, termVars
<1>6. ASSUME NEW p \in Ptys, NEW s \in {"done", "blocked"}, JobDone(p, s)
      PROVE  TypeInv'
    BY <1>6, JobTransitionType DEF JobDone, JobStates, OpenJobs, TypeInv, TypeOK,
        RefOK, Live, rowVars, svcVars, termVars
<1>7. ASSUME NEW d \in Rows, NEW p \in Ptys, NEW j \in Jobs \union {NoJob},
             Deliver(d, p, j)
      PROVE  TypeInv'
  <2>1. /\ dstate' \in [Rows -> {"none"} \union Unfinished \union Settled]
        /\ dstate'[d] # "none"
        /\ \A e \in Rows : e # d => dstate'[e] = dstate[e]
      BY <1>7, SetDeliveryType DEF Deliver, Unfinished
  <2>2. /\ task' \in [Tasks -> TaskRecords]
        /\ \A u \in Tasks : Live(u)' => \/ Live(u) /\ task'[u].row = task[u].row
                                        \/ task'[u].row = d
        /\ \A u \in Tasks : ~Live(u)' => task'[u] = Idle
      BY <1>7, SpawnType DEF Deliver
  <2>3. /\ jstate' \in [Jobs -> JobStates]
        /\ jpty' \in [Jobs -> Ptys \union {NoPty}]
        /\ told' \in [Jobs -> Seq(JobStates)]
    <3>1. \/ UNCHANGED jobVars
          \/ /\ j \in Jobs /\ told' = told
             /\ jstate' = [jstate EXCEPT ![j] = "accepted"]
             /\ jpty' = [jpty EXCEPT ![j] = p]
        BY <1>7 DEF Deliver
    <3>2. /\ jstate \in [Jobs -> JobStates]
          /\ jpty \in [Jobs -> Ptys \union {NoPty}]
          /\ told \in [Jobs -> Seq(JobStates)]
        BY DEF TypeInv, TypeOK
    <3>3. CASE UNCHANGED jobVars
        BY <3>2, <3>3 DEF jobVars
    <3>4. CASE /\ j \in Jobs /\ told' = told
               /\ jstate' = [jstate EXCEPT ![j] = "accepted"]
               /\ jpty' = [jpty EXCEPT ![j] = p]
      <4>1. "accepted" \in JobStates
          BY DEF JobStates
      <4> QED
          BY <3>2, <3>4, <4>1
    <3> QED
        BY <3>1, <3>3, <3>4
  <2>4. TypeOK'
    <3>1. /\ dpty' = [dpty EXCEPT ![d] = p] /\ djob' = [djob EXCEPT ![d] = j]
          /\ UNCHANGED <<mesh, fyis, svcVars, termVars>>
        BY <1>7 DEF Deliver
    <3>2. /\ dpty' \in [Rows -> Ptys \union {NoPty}]
          /\ djob' \in [Rows -> Jobs \union {NoJob}]
        BY <3>1 DEF TypeInv, TypeOK
    <3> QED
        BY <2>1, <2>2, <2>3, <3>1, <3>2 DEF TypeInv, TypeOK, svcVars, termVars
  <2>5. RefOK'
    <3>1. dpty' = [dpty EXCEPT ![d] = p] /\ rec' = rec
        BY <1>7 DEF Deliver, svcVars
    <3> QED
        BY <2>1, <2>2, <3>1 DEF TypeInv, TypeOK, RefOK
  <2> QED
      BY <2>4, <2>5 DEF TypeInv
<1>8. ASSUME NEW t \in Tasks, TaskStep(t) PROVE TypeInv'
  <2>1. CASE TakeTurn(t)
      BY <2>1, RecordType DEF TakeTurn, At, Live, Unfinished, Labels
  <2>2. CASE Resolve(t)
      BY <2>2, ResolveType
  <2>3. CASE WriteBody(t)
      BY <2>3, WriteType DEF WriteBody, At, Live, Labels
  <2>4. CASE NoteWritten(t)
      BY <2>4, RecordType DEF NoteWritten, At, Live, Unfinished, Labels
  <2>5. CASE WriteReturn(t)
      BY <2>5, WriteType DEF WriteReturn, At, Live, Labels
  <2>6. CASE MarkSubmitted(t)
    <3>1. Live(t)
        BY <2>6 DEF MarkSubmitted, At, Live
    <3>2. /\ task' \in [Tasks -> TaskRecords]
          /\ \A u \in Tasks : Live(u)' => Live(u) /\ task'[u].row = task[u].row
          /\ \A u \in Tasks : ~Live(u)' => task'[u] = Idle
        BY <2>6, <3>1, GotoType DEF MarkSubmitted, Labels
    <3>3. task[t].row \in Rows
        BY <3>1, TaskRow
    <3> QED
        BY <2>6, <3>2, <3>3 DEF MarkSubmitted, TypeInv, TypeOK, RefOK,
            rowVars, jobVars, svcVars, termVars
  <2>7. CASE SetSubmitted(t)
      BY <2>7, SettleType DEF SetSubmitted, Settled, Labels
  <2>8. CASE SetFailed(t)
      BY <2>8, SettleType DEF SetFailed, Settled, Labels
  <2>9. CASE JobStarted(t)
      BY <2>9, ReportType DEF JobStarted, Report, At, JobOK, JobStates
  <2>10. CASE JobFailed(t)
      BY <2>10, ReportType DEF JobFailed, Report, At, JobOK, JobStates
  <2> QED
      BY <1>8, <2>1, <2>2, <2>3, <2>4, <2>5, <2>6, <2>7, <2>8, <2>9, <2>10
         DEF TaskStep
<1>9. CASE Crash
    BY <1>9 DEF Crash, TypeInv, TypeOK, RefOK, Live, Idle, TaskRecords, Labels,
        rowVars, jobVars, termVars
<1>10. CASE Restart
    BY <1>10 DEF Restart, UnfinishedDeliveries, TypeInv, TypeOK, RefOK, Live,
        rowVars, jobVars, termVars
<1>11. ASSUME NEW d \in Rows, RecoverQueued(d) PROVE TypeInv'
  <2>1. dstate[d] # "none"
      BY <1>11 DEF RecoverQueued, TypeInv, RefOK
  <2>2. /\ task' \in [Tasks -> TaskRecords]
        /\ \A u \in Tasks : Live(u)' => \/ Live(u) /\ task'[u].row = task[u].row
                                        \/ task'[u].row = d
        /\ \A u \in Tasks : ~Live(u)' => task'[u] = Idle
      BY <1>11, SpawnType DEF RecoverQueued
  <2> QED
      BY <1>11, <2>1, <2>2 DEF RecoverQueued, TypeInv, TypeOK, RefOK, rowVars,
          jobVars, termVars
<1>12. ASSUME NEW d \in Rows, MarkUncertain(d) PROVE TypeInv'
  <2>1. /\ dstate' \in [Rows -> {"none"} \union Unfinished \union Settled]
        /\ dstate'[d] # "none"
        /\ \A e \in Rows : e # d => dstate'[e] = dstate[e]
      BY <1>12, SetDeliveryType DEF MarkUncertain, Settled
  <2>2. dstate[d] # "none"
      BY <1>12 DEF MarkUncertain, TypeInv, RefOK
  <2> QED
      BY <1>12, <2>1, <2>2 DEF MarkUncertain, TypeInv, TypeOK, RefOK, Live, jobVars,
          termVars
<1>13. ASSUME NEW d \in Rows, ReportUncertain(d) PROVE TypeInv'
    BY <1>13 DEF ReportUncertain, TypeInv, TypeOK, RefOK, Live, rowVars, jobVars,
        termVars
<1>14. ASSUME NEW d \in Rows, SettleUncertainJob(d) PROVE TypeInv'
  <2>1. /\ jstate' \in [Jobs -> JobStates]
        /\ jpty' \in [Jobs -> Ptys \union {NoPty}]
        /\ told' \in [Jobs -> Seq(JobStates)]
      BY <1>14, JobTransitionType DEF SettleUncertainJob, TypeInv, TypeOK, JobStates,
          jobVars
  <2> QED
      BY <1>14, <2>1 DEF SettleUncertainJob, TypeInv, TypeOK, RefOK, Live, rowVars,
          termVars
<1>15. CASE EndRecovery
    BY <1>15 DEF EndRecovery, TypeInv, TypeOK, RefOK, Live, rowVars, jobVars,
        termVars
<1>16. ASSUME NEW e \in Endpoints, Put(e) PROVE TypeInv'
    BY <1>16 DEF Put, UnfinishedDeliveries, TypeInv, TypeOK, RefOK, Live, rowVars,
        jobVars, termVars
<1>17. CASE UNCHANGED vars
    BY <1>17 DEF vars, rowVars, jobVars, svcVars, termVars, TypeInv, TypeOK, RefOK,
        Live
<1> QED
    BY <1>1, <1>2, <1>3, <1>4, <1>5, <1>6, <1>7, <1>8, <1>9, <1>10, <1>11, <1>12,
       <1>13, <1>14, <1>15, <1>16, <1>17
       DEF Next, StableNext, TerminalStep, JobStep, SendStep, RecoveryStep

\* No step changes the job of a row some task holds; a task reaches a report
\* only when its row has a job.
LEMMA JobOKStep == TypeInv /\ JobOK /\ [Next]_vars => JobOK'
<1> SUFFICES ASSUME TypeInv, JobOK, [Next]_vars PROVE JobOK'
    OBVIOUS
<1>1. CASE UNCHANGED <<task, djob>>
    BY <1>1 DEF JobOK, JobOf
<1>2. ASSUME NEW d \in Rows, NEW p \in Ptys, NEW j \in Jobs \union {NoJob},
             Deliver(d, p, j)
      PROVE  JobOK'
  <2>1. PICK t \in Tasks :
          /\ ~Live(t)
          /\ task' = [task EXCEPT ![t] =
                        [pc |-> "wait", row |-> d, child |-> NoChild]]
      BY <1>2 DEF Deliver, Spawn
  <2>2. \A e \in Rows : dstate[e] # "none" => djob'[e] = djob[e]
      BY <1>2 DEF Deliver, TypeInv, TypeOK
  <2>3. \A u \in Tasks : Live(u) => /\ task'[u] = task[u]
                                    /\ djob'[task[u].row] = djob[task[u].row]
      BY <2>1, <2>2 DEF TypeInv, TypeOK, RefOK
  <2> QED
      BY <2>1, <2>3 DEF JobOK, JobOf, Live, TypeInv, TypeOK
<1>3. ASSUME NEW d \in Rows, RecoverQueued(d) PROVE JobOK'
    BY <1>3 DEF RecoverQueued, Spawn, JobOK, JobOf, rowVars, TypeInv, TypeOK
<1>4. ASSUME NEW t \in Tasks, TaskStep(t) PROVE JobOK'
  <2>1. djob' = djob
      BY <1>4 DEF TaskStep, TakeTurn, Resolve, WriteBody, WriteReturn, Write,
          NoteWritten, MarkSubmitted, SetSubmitted, SetFailed, Settle, JobStarted,
          JobFailed, Report, rowVars
  <2>2. \A u \in Tasks : u # t => task'[u] = task[u]
      BY <1>4 DEF TaskStep, TakeTurn, Resolve, WriteBody, WriteReturn, Write,
          NoteWritten, MarkSubmitted, SetSubmitted, SetFailed, Settle, JobStarted,
          JobFailed, Report, Goto, Finish, TypeInv, TypeOK
  <2>3. \/ task'[t].pc \notin {"started", "failjob"}
        \/ JobOf(t) # NoJob /\ task'[t].row = task[t].row /\ Live(t)
    <3>1. CASE Resolve(t)
        BY <3>1 DEF Resolve, TypeInv, TypeOK, TaskRecords
    <3>2. CASE SetSubmitted(t) \/ SetFailed(t)
        BY <3>2, GotoFact DEF SetSubmitted, SetFailed, Settle, Finish, Idle,
            At, Live, TypeInv, TypeOK
    <3>3. CASE JobStarted(t) \/ JobFailed(t)
        BY <3>3 DEF JobStarted, JobFailed, Report, Finish, Idle, TypeInv, TypeOK
    <3>4. CASE TakeTurn(t) \/ WriteBody(t) \/ WriteReturn(t) \/ NoteWritten(t)
               \/ MarkSubmitted(t)
        BY <3>4, GotoFact DEF TakeTurn, WriteBody, WriteReturn, Write, NoteWritten,
            MarkSubmitted
    <3> QED
        BY <1>4, <3>1, <3>2, <3>3, <3>4 DEF TaskStep
  <2>4. JobOf(t) # NoJob /\ Live(t) => JobOf(t) \in Jobs
      BY TaskRow
  <2> QED
      BY <2>1, <2>2, <2>3, <2>4 DEF JobOK, JobOf
<1>5. CASE Crash
    BY <1>5 DEF Crash, JobOK, Idle
<1> QED
    BY <1>1, <1>2, <1>3, <1>4, <1>5
       DEF Next, StableNext, TerminalStep, JobStep, SendStep, RecoveryStep, vars,
           rowVars, NewTerminal, Revoke, ChildExits, ContainerRestarts, AdmitJob,
           JobDone, Restart, MarkUncertain, ReportUncertain, SettleUncertainJob,
           EndRecovery, Put

\* Every reachable state is well typed, whatever the registrations, crashes and
\* container restarts: no task or recovery holds a row the ledger does not have.
THEOREM TypeCorrect == Spec => []TypeOK
<1>1. TypeInv /\ JobOK /\ [Next]_vars => (TypeInv /\ JobOK)'
    BY TypeStep, JobOKStep
<1>2. Spec => [](TypeInv /\ JobOK)
    BY TypeInit, <1>1, PTL DEF Spec
<1>3. TypeInv => TypeOK
    BY DEF TypeInv
<1> QED
    BY <1>2, <1>3, PTL

-----------------------------------------------------------------------------
(* Under one registration nothing is typed twice.  Why: a row has one task at *)
(* most, and what recovery still holds has none, because recovery starts with *)
(* no task alive and takes each row once; and the ledger says `queued` of a   *)
(* row only while nothing of it was typed.                                    *)

OneTask == \A t, u \in Tasks :
    Live(t) /\ Live(u) /\ task[t].row = task[u].row => t = u

RecoveryApart ==
    /\ svc = "down" => /\ \A t \in Tasks : ~Live(t)
                       /\ rec.queued = {} /\ rec.cut = {}
    /\ \A t \in Tasks : Live(t) => task[t].row \notin rec.queued \union rec.cut
    /\ \A d \in rec.queued : dstate[d] = "queued"
    /\ \A d \in rec.cut : dstate[d] # "queued"

TurnOrder == \A t \in Tasks :
    /\ At(t, "wait") => dstate[task[t].row] = "queued"
    /\ Holding(t) => dstate[task[t].row] # "queued"

Untyped == \A d \in Rows :
    /\ dstate[d] \in {"none", "queued"} => ~Typed(d, "body") /\ ~Typed(d, "return")
    /\ \A t \in Tasks : task[t].row = d =>
          /\ task[t].pc \in {"begin", "body"} => ~Typed(d, "body")
          /\ task[t].pc \in {"begin", "body", "noted", "sleep"} =>
                ~Typed(d, "return")

OnceInv == /\ TypeInv /\ JobOK
           /\ OneTask /\ RecoveryApart /\ TurnOrder /\ Untyped
           /\ AtMostOncePerKey

\* A write that lands adds its own entry to what was typed, and nothing else.
LEMMA TypedLands ==
    ASSUME TypeInv, NEW t \in Tasks, Live(t), NEW key \in {"body", "return"},
           Lands(t, key), NEW d \in Rows, NEW k \in {"body", "return"}, Typed(d, k)'
    PROVE  Typed(d, k) \/ (d = task[t].row /\ k = key)
<1> DEFINE c == task[t].child
           n == Len(input[c])
<1>1. PICK x \in Children : \E i \in 1..Len(input'[x]) : input'[x][i] = <<d, k>>
    BY DEF Typed
<1>2. PICK i \in 1..Len(input'[x]) : input'[x][i] = <<d, k>>
    BY <1>1
<1>3. /\ c \in Children /\ n \in Nat
      /\ Len(input'[c]) = n + 1 /\ input'[c][n + 1] = <<task[t].row, key>>
      /\ \A j \in 1..n : input'[c][j] = input[c][j]
      /\ \A y \in Children : y # c => input'[y] = input[y]
  <2>1. c \in Children
      BY LandsType
  <2>2. n \in Nat
      BY <2>1 DEF TypeInv, TypeOK
  <2> QED
      BY <2>1, <2>2, LandsType
<1> HIDE DEF c, n
<1>4. CASE x # c
    BY <1>2, <1>3, <1>4 DEF Typed
<1>5. CASE x = c /\ i \in 1..n
    BY <1>2, <1>3, <1>5 DEF Typed, n
<1>6. CASE x = c /\ i = n + 1
    BY <1>2, <1>3, <1>6
<1> QED
    BY <1>2, <1>3, <1>4, <1>5, <1>6

\* An entry not typed before is typed once.
LEMMA OnceLands ==
    ASSUME TypeInv, NEW t \in Tasks, Live(t), NEW key \in {"body", "return"},
           Lands(t, key), ~Typed(task[t].row, key), AtMostOncePerKey
    PROVE  AtMostOncePerKey'
<1> DEFINE c == task[t].child
           n == Len(input[c])
           e == <<task[t].row, key>>
<1>1. /\ c \in Children /\ n \in Nat
      /\ Len(input'[c]) = n + 1 /\ input'[c][n + 1] = e
      /\ \A j \in 1..n : input'[c][j] = input[c][j]
      /\ \A y \in Children : y # c => input'[y] = input[y]
  <2>1. c \in Children
      BY LandsType
  <2>2. n \in Nat
      BY <2>1 DEF TypeInv, TypeOK
  <2> QED
      BY <2>1, <2>2, LandsType
<1>2. \A x \in Children : \A i \in 1..Len(input[x]) : input[x][i] # e
    BY DEF Typed
<1>3. ASSUME NEW x \in Children, NEW y \in Children,
             NEW i \in 1..Len(input'[x]), NEW k \in 1..Len(input'[y]),
             input'[x][i] = input'[y][k]
      PROVE  x = y /\ i = k
  <2>1. n = Len(input[c])
      OBVIOUS
  <2> HIDE DEF c, e, n
  <2>2. \/ i \in 1..Len(input[x]) /\ input'[x][i] = input[x][i]
        \/ x = c /\ i = n + 1 /\ input'[x][i] = e
      BY <1>1, <2>1
  <2>3. \/ k \in 1..Len(input[y]) /\ input'[y][k] = input[y][k]
        \/ y = c /\ k = n + 1 /\ input'[y][k] = e
      BY <1>1, <2>1
  <2> QED
      BY <1>2, <1>3, <2>2, <2>3 DEF AtMostOncePerKey
<1> QED
    BY <1>3 DEF AtMostOncePerKey

LEMMA OnceInit == Init => OnceInv
<1> SUFFICES ASSUME Init PROVE OnceInv
    OBVIOUS
<1>1. TypeInv /\ JobOK
    BY TypeInit
<1>2. \A c \in Children : Len(input[c]) = 0
    BY DEF Init
<1>3. \A t \in Tasks : task[t].pc = "idle"
    BY DEF Init, Idle
<1>4. OneTask /\ RecoveryApart /\ TurnOrder
    BY <1>3 DEF Init, OneTask, RecoveryApart, TurnOrder, Live, At, Holding
<1>5. Untyped /\ AtMostOncePerKey
    BY <1>2, <1>3 DEF Untyped, AtMostOncePerKey, Typed
<1> QED
    BY <1>1, <1>4, <1>5 DEF OnceInv

\* What every step of a task does to the rest of the system.
LEMMA TaskFrame ==
    ASSUME TypeInv, NEW t \in Tasks, TaskStep(t)
    PROVE  /\ Live(t) /\ task[t].row \in Rows
           /\ \A u \in Tasks : u # t => task'[u] = task[u]
           /\ \/ task'[t].pc = "idle"
              \/ task'[t].pc \notin {"idle", "wait"} /\ task'[t].row = task[t].row
           /\ \A d \in Rows : d # task[t].row => dstate'[d] = dstate[d]
           /\ rec' = rec /\ svc' = svc
<1>1. CASE Resolve(t)
    BY <1>1, TaskRow DEF Resolve, Live, At, TypeInv, TypeOK, TaskRecords, rowVars,
        svcVars
<1>2. CASE TakeTurn(t) \/ NoteWritten(t) \/ SetSubmitted(t) \/ SetFailed(t)
    BY <1>2, TaskRow, GotoFact DEF TakeTurn, NoteWritten, SetSubmitted, SetFailed,
        Settle, SetDelivery, Finish, Idle, Live, At, TypeInv, TypeOK, svcVars
<1>3. CASE JobStarted(t) \/ JobFailed(t)
    BY <1>3, TaskRow DEF JobStarted, JobFailed, Report, Finish, Idle, Live, At,
        TypeInv, TypeOK, rowVars, svcVars
<1>4. CASE WriteBody(t) \/ WriteReturn(t) \/ MarkSubmitted(t)
    BY <1>4, TaskRow, GotoFact DEF WriteBody, WriteReturn, Write, MarkSubmitted,
        Live, At, rowVars, svcVars
<1> QED
    BY <1>1, <1>2, <1>3, <1>4 DEF TaskStep

\* No other task's row changes with a task's step.
LEMMA OneTaskStep ==
    ASSUME OnceInv, NEW t \in Tasks, TaskStep(t)
    PROVE  OneTask' /\ RecoveryApart'
<1>1. /\ Live(t) /\ task[t].row \in Rows
      /\ \A u \in Tasks : u # t => task'[u] = task[u]
      /\ \/ task'[t].pc = "idle"
         \/ task'[t].pc \notin {"idle", "wait"} /\ task'[t].row = task[t].row
      /\ \A d \in Rows : d # task[t].row => dstate'[d] = dstate[d]
      /\ rec' = rec /\ svc' = svc
    BY TaskFrame DEF OnceInv
<1>2. rec.queued \subseteq Rows /\ rec.cut \subseteq Rows
    BY DEF OnceInv, TypeInv, TypeOK
<1> QED
    BY <1>1, <1>2 DEF OnceInv, OneTask, RecoveryApart, Live

LEMMA TurnOrderStep ==
    ASSUME OnceInv, NEW t \in Tasks, TaskStep(t)
    PROVE  TurnOrder'
<1>1. /\ Live(t) /\ task[t].row \in Rows
      /\ \A u \in Tasks : u # t => task'[u] = task[u]
      /\ \/ task'[t].pc = "idle"
         \/ task'[t].pc \notin {"idle", "wait"} /\ task'[t].row = task[t].row
      /\ \A d \in Rows : d # task[t].row => dstate'[d] = dstate[d]
    BY TaskFrame DEF OnceInv
<1>2. \A u \in Tasks : u # t /\ Live(u) =>
        task[u].row \in Rows /\ task[u].row # task[t].row
    BY <1>1, TaskRow DEF OnceInv, OneTask
<1>3. task'[t].pc # "idle" => dstate'[task[t].row] # "queued"
  <2>1. CASE TakeTurn(t) \/ NoteWritten(t) \/ SetSubmitted(t) \/ SetFailed(t)
      BY <2>1, <1>1 DEF TakeTurn, NoteWritten, SetSubmitted, SetFailed, Settle,
          SetDelivery, OnceInv, TypeInv, TypeOK
  <2>2. CASE Resolve(t) \/ WriteBody(t) \/ WriteReturn(t) \/ MarkSubmitted(t)
             \/ JobStarted(t) \/ JobFailed(t)
    <3>1. Holding(t) /\ dstate' = dstate
        BY <2>2 DEF Resolve, WriteBody, WriteReturn, Write, MarkSubmitted,
            JobStarted, JobFailed, Report, At, Holding, rowVars
    <3> QED
        BY <3>1 DEF OnceInv, TurnOrder
  <2> QED
      BY <2>1, <2>2 DEF TaskStep
<1>4. ASSUME NEW u \in Tasks, Live(u)'
      PROVE  /\ At(u, "wait")' => (dstate[task[u].row] = "queued")'
             /\ Holding(u)' => (dstate[task[u].row] # "queued")'
  <2>1. CASE u = t
      BY <1>1, <1>3, <1>4, <2>1 DEF At, Live
  <2>2. CASE u # t
      BY <1>1, <1>2, <1>4, <2>2 DEF OnceInv, TurnOrder, At, Holding, Live
  <2> QED
      BY <2>1, <2>2
<1> QED
    BY <1>4 DEF TurnOrder, At, Holding, Live

\* Each write is made once: what a task writes was not typed before.
LEMMA TypedStep ==
    ASSUME OnceInv, NEW t \in Tasks, TaskStep(t)
    PROVE  Untyped' /\ AtMostOncePerKey'
<1>1. /\ Live(t) /\ task[t].row \in Rows
      /\ \A u \in Tasks : u # t => task'[u] = task[u]
      /\ \/ task'[t].pc = "idle"
         \/ task'[t].pc \notin {"idle", "wait"} /\ task'[t].row = task[t].row
      /\ \A d \in Rows : d # task[t].row => dstate'[d] = dstate[d]
    BY TaskFrame DEF OnceInv
<1>2. \A u \in Tasks : u # t /\ Live(u) =>
        task[u].row \in Rows /\ task[u].row # task[t].row
    BY <1>1, TaskRow DEF OnceInv, OneTask
<1>3. CASE UNCHANGED input
  <2>1. \A d \in Rows, k \in {"body", "return"} : Typed(d, k)' <=> Typed(d, k)
      BY <1>3 DEF Typed
  <2>2. \A d \in Rows : dstate'[d] \in {"none", "queued"} =>
          dstate[d] \in {"none", "queued"}
    <3>1. CASE TakeTurn(t) \/ NoteWritten(t) \/ SetSubmitted(t) \/ SetFailed(t)
        BY <3>1, <1>1 DEF TakeTurn, NoteWritten, SetSubmitted, SetFailed, Settle,
            SetDelivery, OnceInv, TypeInv, TypeOK
    <3>2. CASE Resolve(t) \/ WriteBody(t) \/ WriteReturn(t) \/ MarkSubmitted(t)
               \/ JobStarted(t) \/ JobFailed(t)
        BY <3>2 DEF Resolve, WriteBody, WriteReturn, Write, MarkSubmitted,
            JobStarted, JobFailed, Report, rowVars
    <3> QED
        BY <3>1, <3>2 DEF TaskStep
  <2>3. /\ task'[t].pc \in {"begin", "body"} => ~Typed(task[t].row, "body")
        /\ task'[t].pc \in {"begin", "body", "noted", "sleep"} =>
              ~Typed(task[t].row, "return")
    <3>1. CASE TakeTurn(t)
        BY <3>1, <1>1 DEF TakeTurn, OnceInv, TurnOrder, Untyped
    <3>2. CASE Resolve(t)
        BY <1>1, <3>2 DEF Resolve, At, OnceInv, Untyped, TypeInv, TypeOK, TaskRecords
    <3>3. CASE WriteBody(t) \/ WriteReturn(t) \/ NoteWritten(t) \/ MarkSubmitted(t)
        BY <1>1, <3>3, GotoFact DEF WriteBody, WriteReturn, Write, NoteWritten,
            MarkSubmitted, At, OnceInv, Untyped
    <3>4. CASE SetSubmitted(t) \/ SetFailed(t) \/ JobStarted(t) \/ JobFailed(t)
        BY <3>4, GotoFact DEF SetSubmitted, SetFailed, Settle, JobStarted, JobFailed,
            Report, Finish, Idle, OnceInv, TypeInv, TypeOK
    <3> QED
        BY <1>1, <3>1, <3>2, <3>3, <3>4 DEF TaskStep
  <2>4. ASSUME NEW d \in Rows, NEW u \in Tasks, task'[u].row = d
        PROVE  /\ task'[u].pc \in {"begin", "body"} => ~Typed(d, "body")'
               /\ task'[u].pc \in {"begin", "body", "noted", "sleep"} =>
                     ~Typed(d, "return")'
    <3>1. CASE u = t
        BY <1>1, <2>1, <2>3, <2>4, <3>1
    <3>2. CASE u # t
        BY <1>1, <2>1, <2>4, <3>2 DEF OnceInv, Untyped
    <3> QED
        BY <3>1, <3>2
  <2>5. Untyped'
      BY <2>1, <2>2, <2>4 DEF OnceInv, Untyped
  <2>6. AtMostOncePerKey'
      BY <1>3 DEF OnceInv, AtMostOncePerKey
  <2> QED
      BY <2>5, <2>6
<1>4. ASSUME NEW key \in {"body", "return"}, NEW from \in {"body", "sleep"},
             NEW next \in {"noted", "mark"},
             key = "body" <=> from = "body", next = "noted" <=> key = "body",
             At(t, from), Lands(t, key), Write(t, key, next)
      PROVE  Untyped' /\ AtMostOncePerKey'
  <2>1. ~Typed(task[t].row, key) /\ ~Typed(task[t].row, "return")
      BY <1>1, <1>4 DEF At, OnceInv, Untyped
  <2>2. \A d \in Rows, k \in {"body", "return"} :
          Typed(d, k)' => Typed(d, k) \/ (d = task[t].row /\ k = key)
      BY <1>1, <1>4, TypedLands DEF OnceInv
  <2>3. dstate' = dstate /\ dstate[task[t].row] \notin {"none", "queued"}
      BY <1>1, <1>4, TaskRow DEF Write, rowVars, OnceInv, TurnOrder, Holding, At
  <2>4. /\ task'[t].pc \in {next, "failing"} /\ task'[t].row = task[t].row
      BY <1>4, GotoFact DEF Write, OnceInv
  <2>5. Untyped'
    <3>1. \A d \in Rows : dstate'[d] \in {"none", "queued"} =>
            ~Typed(d, "body")' /\ ~Typed(d, "return")'
        BY <2>2, <2>3 DEF OnceInv, Untyped
    <3>2. ASSUME NEW d \in Rows, NEW u \in Tasks, task'[u].row = d
          PROVE  /\ task'[u].pc \in {"begin", "body"} => ~Typed(d, "body")'
                 /\ task'[u].pc \in {"begin", "body", "noted", "sleep"} =>
                       ~Typed(d, "return")'
      <4>1. CASE u = t
          BY <1>1, <1>4, <2>1, <2>2, <2>4, <3>2, <4>1
      <4>2. CASE u # t
          BY <1>1, <1>2, <2>2, <3>2, <4>2 DEF OnceInv, Untyped, Live
      <4> QED
          BY <4>1, <4>2
    <3> QED
        BY <3>1, <3>2 DEF Untyped
  <2>6. AtMostOncePerKey'
      BY <1>1, <1>4, <2>1, OnceLands DEF OnceInv
  <2> QED
      BY <2>5, <2>6
<1>5. \/ UNCHANGED input
      \/ WriteBody(t) /\ Lands(t, "body")
      \/ WriteReturn(t) /\ Lands(t, "return")
  <2>1. CASE WriteBody(t) \/ WriteReturn(t)
      BY <2>1 DEF WriteBody, WriteReturn, Write
  <2>2. CASE ~(WriteBody(t) \/ WriteReturn(t))
      BY <2>2 DEF TaskStep, TakeTurn, Resolve, NoteWritten, MarkSubmitted,
          SetSubmitted, SetFailed, Settle, JobStarted, JobFailed, Report, termVars
  <2> QED
      BY <2>1, <2>2
<1> QED
    BY <1>3, <1>4, <1>5 DEF WriteBody, WriteReturn

LEMMA OnceTask ==
    ASSUME OnceInv, NEW t \in Tasks, TaskStep(t)
    PROVE  OneTask' /\ RecoveryApart' /\ TurnOrder' /\ Untyped' /\ AtMostOncePerKey'
    BY OneTaskStep, TurnOrderStep, TypedStep

\* A step that types nothing and leaves rows, tasks and recovery alone.
LEMMA OnceQuiet ==
    ASSUME OnceInv, UNCHANGED <<dstate, task, rec, input>>,
           svc' = "down" => svc = "down"
    PROVE  OneTask' /\ RecoveryApart' /\ TurnOrder' /\ Untyped' /\ AtMostOncePerKey'
<1>1. \A d \in Rows, k \in {"body", "return"} : Typed(d, k)' <=> Typed(d, k)
    BY DEF Typed
<1>2. OneTask' /\ RecoveryApart' /\ TurnOrder'
    BY DEF OnceInv, OneTask, RecoveryApart, TurnOrder, Live, At, Holding
<1>3. Untyped'
    BY <1>1 DEF OnceInv, Untyped
<1>4. AtMostOncePerKey'
    BY DEF OnceInv, AtMostOncePerKey
<1> QED
    BY <1>2, <1>3, <1>4

\* A task is spawned for a queued row that has no task.
LEMMA OnceSpawn ==
    ASSUME OnceInv, NEW d \in Rows, Spawn(d), svc # "down", UNCHANGED <<svc, input>>,
           \A u \in Tasks : Live(u) => task[u].row # d,
           dstate[d] \in {"none", "queued"}, dstate'[d] = "queued",
           \A e \in Rows : e # d => dstate'[e] = dstate[e],
           d \notin rec'.queued \union rec'.cut,
           rec'.queued \subseteq rec.queued, rec'.cut \subseteq rec.cut
    PROVE  OneTask' /\ RecoveryApart' /\ TurnOrder' /\ Untyped' /\ AtMostOncePerKey'
<1>1. PICK t \in Tasks :
        /\ ~Live(t)
        /\ task' = [task EXCEPT ![t] = [pc |-> "wait", row |-> d, child |-> NoChild]]
    BY DEF Spawn
<1>2. /\ task'[t] = [pc |-> "wait", row |-> d, child |-> NoChild]
      /\ \A u \in Tasks : u # t => task'[u] = task[u]
    BY <1>1 DEF OnceInv, TypeInv, TypeOK
<1>3. \A u \in Tasks : Live(u) => task[u].row \in Rows
    BY TaskRow DEF OnceInv
<1>4. rec.queued \subseteq Rows /\ rec.cut \subseteq Rows
    BY DEF OnceInv, TypeInv, TypeOK
<1>5. \A e \in Rows, k \in {"body", "return"} : Typed(e, k)' <=> Typed(e, k)
    BY DEF Typed
<1>6. OneTask'
    BY <1>1, <1>2 DEF OnceInv, OneTask, Live
<1>7. RecoveryApart'
    BY <1>1, <1>2, <1>3, <1>4 DEF OnceInv, RecoveryApart, Live
<1>8. TurnOrder'
    BY <1>1, <1>2, <1>3 DEF OnceInv, TurnOrder, Live, At, Holding
<1>9. Untyped'
    BY <1>1, <1>2, <1>5 DEF OnceInv, Untyped
<1>10. AtMostOncePerKey'
    BY DEF OnceInv, AtMostOncePerKey
<1> QED
    BY <1>6, <1>7, <1>8, <1>9, <1>10

LEMMA OnceCrash ==
    ASSUME OnceInv, Crash
    PROVE  OneTask' /\ RecoveryApart' /\ TurnOrder' /\ Untyped' /\ AtMostOncePerKey'
<1>1. \A t \in Tasks : task'[t].pc = "idle"
    BY DEF Crash, Idle
<1>2. \A d \in Rows, k \in {"body", "return"} : Typed(d, k)' <=> Typed(d, k)
    BY DEF Crash, Typed, termVars
<1>3. OneTask' /\ RecoveryApart' /\ TurnOrder'
    BY <1>1 DEF Crash, OneTask, RecoveryApart, TurnOrder, Live, At, Holding
<1>4. Untyped'
    BY <1>1, <1>2 DEF Crash, OnceInv, Untyped, rowVars
<1>5. AtMostOncePerKey'
    BY DEF Crash, OnceInv, AtMostOncePerKey, termVars
<1> QED
    BY <1>3, <1>4, <1>5

LEMMA OnceRestart ==
    ASSUME OnceInv, Restart
    PROVE  OneTask' /\ RecoveryApart' /\ TurnOrder' /\ Untyped' /\ AtMostOncePerKey'
<1>1. \A t \in Tasks : ~Live(t) /\ task' = task /\ dstate' = dstate
    BY DEF Restart, OnceInv, RecoveryApart, rowVars
<1>2. \A d \in Rows, k \in {"body", "return"} : Typed(d, k)' <=> Typed(d, k)
    BY DEF Restart, Typed, termVars
<1>3. OneTask' /\ TurnOrder'
    BY <1>1 DEF OneTask, TurnOrder, Live, At, Holding
<1>4. RecoveryApart'
    BY <1>1 DEF Restart, RecoveryApart, UnfinishedDeliveries, Live, rowVars
<1>5. Untyped'
    BY <1>1, <1>2 DEF Restart, OnceInv, Untyped, rowVars, Live
<1>6. AtMostOncePerKey'
    BY DEF Restart, OnceInv, AtMostOncePerKey, termVars
<1> QED
    BY <1>3, <1>4, <1>5, <1>6

\* A cut row becomes uncertain: it has no task, and was not queued.
LEMMA OnceUncertain ==
    ASSUME OnceInv, NEW d \in Rows, MarkUncertain(d)
    PROVE  OneTask' /\ RecoveryApart' /\ TurnOrder' /\ Untyped' /\ AtMostOncePerKey'
<1>1. /\ dstate'[d] = "uncertain" /\ \A e \in Rows : e # d => dstate'[e] = dstate[e]
      /\ task' = task /\ rec' = rec /\ svc' = svc
    BY DEF MarkUncertain, SetDelivery, OnceInv, TypeInv, TypeOK
<1>2. \A t \in Tasks : Live(t) => task[t].row \in Rows /\ task[t].row # d
    BY TaskRow DEF MarkUncertain, OnceInv, RecoveryApart
<1>3. d \notin rec.queued /\ rec.queued \subseteq Rows /\ rec.cut \subseteq Rows
    BY DEF MarkUncertain, OnceInv, RecoveryApart, TypeInv, TypeOK
<1>4. \A e \in Rows, k \in {"body", "return"} : Typed(e, k)' <=> Typed(e, k)
    BY DEF MarkUncertain, Typed, termVars
<1>5. OneTask' /\ RecoveryApart'
    BY <1>1, <1>2, <1>3 DEF OnceInv, OneTask, RecoveryApart, Live
<1>6. TurnOrder'
    BY <1>1, <1>2 DEF OnceInv, TurnOrder, Live, At, Holding
<1>7. Untyped'
    BY <1>1, <1>2, <1>4 DEF OnceInv, Untyped
<1>8. AtMostOncePerKey'
    BY DEF MarkUncertain, OnceInv, AtMostOncePerKey, termVars
<1> QED
    BY <1>5, <1>6, <1>7, <1>8

LEMMA OnceStep == OnceInv /\ [StableNext]_vars => OnceInv'
<1> SUFFICES ASSUME OnceInv, [StableNext]_vars PROVE OnceInv'
    OBVIOUS
<1> DEFINE Kept == /\ OneTask' /\ RecoveryApart' /\ TurnOrder' /\ Untyped'
                   /\ AtMostOncePerKey'
<1>1. TypeInv' /\ JobOK'
    BY TypeStep, JobOKStep DEF OnceInv, Next
<1>2. ASSUME UNCHANGED <<dstate, task, rec, input>>, svc' = "down" => svc = "down"
      PROVE  Kept
    BY <1>2, OnceQuiet
<1>3. ASSUME NEW d \in Rows, NEW p \in Ptys, NEW j \in Jobs \union {NoJob},
             Deliver(d, p, j)
      PROVE  Kept
  <2>1. /\ dstate[d] = "none" /\ dstate'[d] = "queued"
        /\ \A e \in Rows : e # d => dstate'[e] = dstate[e]
      BY <1>3 DEF Deliver, SetDelivery, OnceInv, TypeInv, TypeOK
  <2>2. /\ \A u \in Tasks : Live(u) => task[u].row # d
        /\ d \notin rec.queued \union rec.cut
      BY <2>1 DEF OnceInv, TypeInv, RefOK
  <2>3. Spawn(d) /\ svc # "down" /\ rec' = rec /\ svc' = svc /\ input' = input
      BY <1>3 DEF Deliver, Up, svcVars, termVars
  <2> QED
      BY <2>1, <2>2, <2>3, OnceSpawn
<1>4. ASSUME NEW t \in Tasks, TaskStep(t) PROVE Kept
    BY <1>4, OnceTask
<1>5. ASSUME Crash PROVE Kept
    BY <1>5, OnceCrash
<1>6. ASSUME Restart PROVE Kept
    BY <1>6, OnceRestart
<1>7. ASSUME NEW d \in Rows, RecoverQueued(d) PROVE Kept
  <2>1. /\ Spawn(d) /\ d \in rec.queued /\ dstate' = dstate /\ svc' = svc
        /\ input' = input /\ rec' = [rec EXCEPT !.queued = @ \ {d}]
      BY <1>7 DEF RecoverQueued, rowVars, termVars
  <2>2. /\ dstate[d] = "queued" /\ d \notin rec.cut
        /\ \A u \in Tasks : Live(u) => task[u].row # d
      BY <2>1 DEF OnceInv, RecoveryApart
  <2>3. svc # "down"
      BY <2>1 DEF OnceInv, RecoveryApart
  <2>4. /\ d \notin rec'.queued \union rec'.cut
        /\ rec'.queued \subseteq rec.queued /\ rec'.cut \subseteq rec.cut
      BY <2>1, <2>2 DEF OnceInv, TypeInv, TypeOK
  <2> QED
      BY <2>1, <2>2, <2>3, <2>4, OnceSpawn
<1>8. ASSUME NEW d \in Rows, MarkUncertain(d) PROVE Kept
    BY <1>8, OnceUncertain
<1>9. ASSUME NEW d \in Rows, SettleUncertainJob(d) PROVE Kept
  <2>1. /\ UNCHANGED <<dstate, task, input, svc>>
        /\ rec' = [rec EXCEPT !.cut = @ \ {d}]
      BY <1>9 DEF SettleUncertainJob, rowVars, termVars
  <2>2. rec'.queued = rec.queued /\ rec'.cut \subseteq rec.cut
      BY <2>1 DEF OnceInv, TypeInv, TypeOK
  <2>3. RecoveryApart'
      BY <2>1, <2>2 DEF OnceInv, RecoveryApart, Live
  <2>4. \A e \in Rows, k \in {"body", "return"} : Typed(e, k)' <=> Typed(e, k)
      BY <2>1 DEF Typed
  <2>5. OneTask' /\ TurnOrder' /\ Untyped' /\ AtMostOncePerKey'
      BY <2>1, <2>4 DEF OnceInv, OneTask, TurnOrder, Untyped, AtMostOncePerKey, Live,
          At, Holding
  <2> QED
      BY <2>3, <2>5
<1>10. Kept
    BY <1>2, <1>3, <1>4, <1>5, <1>6, <1>7, <1>8, <1>9
       DEF StableNext, TerminalStep, JobStep, SendStep, RecoveryStep, NewTerminal,
           Revoke, ChildExits, ContainerRestarts, AdmitJob, JobDone, ReportUncertain,
           EndRecovery, vars, rowVars, svcVars, termVars
<1> QED
    BY <1>1, <1>10 DEF OnceInv

\* Under one registration no body and no Return is ever typed twice, whatever
\* crashes, recoveries, lost answers and dead terminals come between.
THEOREM NothingTypedTwice == StableSpec => []AtMostOncePerKey
<1>1. OnceInv => AtMostOncePerKey
    BY DEF OnceInv
<1> QED
    BY OnceInit, OnceStep, <1>1, PTL DEF StableSpec

-----------------------------------------------------------------------------
(* A line stays whole under any registrations.  Why: a turn is held by one     *)
(* task of a terminal, a child belongs to one terminal for life, so the body a *)
(* task has typed is the last thing its child read until that task goes on.    *)

OneHolder == \A t, u \in Tasks :
    Holding(t) /\ Holding(u) /\ PtyOf(t) = PtyOf(u) => t = u

OneTerminal == \A p, q \in Ptys : child[p] # NoChild /\ child[p] = child[q] => p = q

AfterBody == \A t \in Tasks : \A d \in Rows : \A c \in Children :
    task[t].pc \in {"noted", "sleep"} /\ task[t].row = d /\ task[t].child = c =>
        Len(input[c]) > 0 /\ input[c][Len(input[c])] = <<d, "body">>

AimedWrite == \A t \in Tasks : task[t].pc \in {"noted", "sleep"} =>
    /\ task[t].child \in Children
    /\ \A q \in Ptys : child[q] = task[t].child => q = dpty[task[t].row]

WholeInv == /\ TypeInv /\ JobOK
            /\ OneHolder /\ OneTerminal /\ AfterBody /\ AimedWrite /\ WholeLine

LEMMA WholeInit == Init => WholeInv
<1> SUFFICES ASSUME Init PROVE WholeInv
    OBVIOUS
<1>1. TypeInv /\ JobOK
    BY TypeInit
<1>2. \A t \in Tasks : task[t].pc = "idle"
    BY DEF Init, Idle
<1>3. OneHolder /\ OneTerminal /\ AfterBody /\ AimedWrite
    BY <1>2 DEF Init, OneHolder, OneTerminal, AfterBody, AimedWrite, Holding
<1>4. WholeLine
    BY DEF Init, WholeLine
<1> QED
    BY <1>1, <1>3, <1>4 DEF WholeInv

\* A Return that lands finds its own body last.
LEMMA WholeLands ==
    ASSUME WholeInv, NEW t \in Tasks, Live(t), NEW key \in {"body", "return"},
           Lands(t, key), key = "return" => At(t, "sleep")
    PROVE  WholeLine'
<1> DEFINE c == task[t].child
           n == Len(input[c])
           d == task[t].row
<1>1. /\ c \in Children /\ n \in Nat
      /\ Len(input'[c]) = n + 1 /\ input'[c][n + 1] = <<d, key>>
      /\ \A j \in 1..n : input'[c][j] = input[c][j]
      /\ \A y \in Children : y # c => input'[y] = input[y]
  <2>1. c \in Children
      BY LandsType DEF WholeInv
  <2>2. n \in Nat
      BY <2>1 DEF WholeInv, TypeInv, TypeOK
  <2> QED
      BY <2>1, <2>2, LandsType DEF WholeInv
<1>2. key = "return" => n > 0 /\ input[c][n] = <<d, "body">>
    BY <1>1, TaskRow DEF WholeInv, AfterBody, At
<1>3. n = Len(input[c])
    OBVIOUS
<1> HIDE DEF c, n, d
<1>4. ASSUME NEW x \in Children, NEW i \in 1..Len(input'[x]),
             input'[x][i][2] = "return"
      PROVE  i > 1 /\ input'[x][i - 1] = <<input'[x][i][1], "body">>
  <2>1. CASE x # c
      BY <1>1, <1>4, <2>1 DEF WholeInv, WholeLine
  <2>2. CASE x = c /\ i \in 1..n
    <3>1. i > 1 /\ input[c][i - 1] = <<input[c][i][1], "body">>
        BY <1>1, <1>3, <1>4, <2>2 DEF WholeInv, WholeLine
    <3>2. i - 1 \in 1..n
        BY <1>1, <2>2, <3>1
    <3> QED
        BY <1>1, <2>2, <3>1, <3>2
  <2>3. CASE x = c /\ i = n + 1
    <3>1. key = "return"
        BY <1>1, <1>4, <2>3
    <3>2. i - 1 = n /\ n \in 1..n
        BY <1>1, <1>2, <2>3, <3>1
    <3> QED
        BY <1>1, <1>2, <2>3, <3>1, <3>2
  <2> QED
      BY <1>1, <2>1, <2>2, <2>3
<1> QED
    BY <1>4 DEF WholeLine

\* Who else is after a body has it in another child.
LEMMA AfterBodyLands ==
    ASSUME WholeInv, NEW t \in Tasks, Holding(t), NEW key \in {"body", "return"},
           Lands(t, key), NEW u \in Tasks, u # t, task[u].pc \in {"noted", "sleep"}
    PROVE  task[u].child # task[t].child
<1>1. Live(t) /\ Live(u) /\ Holding(u)
    BY DEF Live, Holding
<1>2. PtyOf(t) \in Ptys /\ child[PtyOf(t)] = task[t].child /\ task[u].row \in Rows
    BY <1>1, TaskRow DEF Lands, Accepts, WholeInv
<1>3. PtyOf(u) # PtyOf(t)
    BY <1>1 DEF WholeInv, OneHolder
<1> QED
    BY <1>2, <1>3 DEF WholeInv, AfterBody, AimedWrite, PtyOf

LEMMA OneHolderStep ==
    ASSUME WholeInv, NEW t \in Tasks, TaskStep(t)
    PROVE  OneHolder'
<1>1. /\ Live(t) /\ task[t].row \in Rows
      /\ \A u \in Tasks : u # t => task'[u] = task[u]
      /\ \/ task'[t].pc = "idle"
         \/ task'[t].pc \notin {"idle", "wait"} /\ task'[t].row = task[t].row
    BY TaskFrame DEF WholeInv
<1>2. dpty' = dpty
    BY DEF TaskStep, TakeTurn, Resolve, WriteBody, WriteReturn, Write, NoteWritten,
        MarkSubmitted, SetSubmitted, SetFailed, Settle, JobStarted, JobFailed, Report,
        rowVars
<1>3. Holding(t) \/ \A u \in Tasks : Holding(u) => PtyOf(u) # PtyOf(t)
  <2>1. CASE TakeTurn(t)
      BY <2>1 DEF TakeTurn
  <2>2. CASE ~TakeTurn(t)
      BY <2>2 DEF TaskStep, Resolve, WriteBody, WriteReturn, NoteWritten,
          MarkSubmitted, SetSubmitted, SetFailed, Settle, JobStarted, JobFailed,
          Report, At, Holding
  <2> QED
      BY <2>1, <2>2
<1>4. ASSUME NEW u \in Tasks, u # t, Holding(u)', Holding(t)'
      PROVE  dpty'[task'[u].row] # dpty'[task'[t].row]
    BY <1>1, <1>2, <1>3, <1>4 DEF WholeInv, OneHolder, Holding, PtyOf
<1> QED
    BY <1>1, <1>2, <1>4 DEF WholeInv, OneHolder, Holding, PtyOf

LEMMA AfterBodyStep ==
    ASSUME WholeInv, NEW t \in Tasks, TaskStep(t)
    PROVE  AfterBody' /\ AimedWrite'
<1>1. /\ Live(t) /\ task[t].row \in Rows
      /\ \A u \in Tasks : u # t => task'[u] = task[u]
    BY TaskFrame DEF WholeInv
<1>2. dpty' = dpty /\ child' = child
    BY DEF TaskStep, TakeTurn, Resolve, WriteBody, WriteReturn, Write, NoteWritten,
        MarkSubmitted, SetSubmitted, SetFailed, Settle, JobStarted, JobFailed, Report,
        rowVars, termVars
<1>3. ASSUME NEW u \in Tasks, u # t, task[u].pc \in {"noted", "sleep"}
      PROVE  task[u].child \in Children /\ input'[task[u].child] = input[task[u].child]
  <2>1. task[u].child \in Children
      BY <1>3 DEF WholeInv, AimedWrite
  <2>2. CASE UNCHANGED input
      BY <2>1, <2>2
  <2>3. ASSUME NEW key \in {"body", "return"}, Lands(t, key), Holding(t)
        PROVE  input'[task[u].child] = input[task[u].child]
    <3>1. task[u].child # task[t].child
        BY <1>3, <2>3, AfterBodyLands
    <3>2. \A c \in Children : c # task[t].child => input'[c] = input[c]
        BY <1>1, <2>3, LandsType DEF WholeInv
    <3> QED
        BY <2>1, <3>1, <3>2
  <2>4. CASE WriteBody(t) \/ WriteReturn(t)
      BY <2>1, <2>2, <2>3, <2>4 DEF WriteBody, WriteReturn, Write, At, Holding
  <2>5. CASE ~(WriteBody(t) \/ WriteReturn(t))
      BY <2>1, <2>5 DEF TaskStep, TakeTurn, Resolve, NoteWritten, MarkSubmitted,
          SetSubmitted, SetFailed, Settle, JobStarted, JobFailed, Report, termVars
  <2> QED
      BY <2>4, <2>5
<1>4. ASSUME task'[t].pc \in {"noted", "sleep"}
      PROVE  /\ task'[t].child \in Children /\ task'[t].row = task[t].row
             /\ task'[t].child = task[t].child
             /\ Len(input'[task[t].child]) > 0
             /\ input'[task[t].child][Len(input'[task[t].child])]
                    = <<task[t].row, "body">>
             /\ \A q \in Ptys : child[q] = task[t].child => q = dpty[task[t].row]
  <2>1. CASE WriteBody(t)
    <3>1. Lands(t, "body") /\ Goto(t, "noted")
        BY <1>4, <2>1, GotoFact DEF WriteBody, Write, WholeInv
    <3>2. task'[t].child = task[t].child /\ task'[t].row = task[t].row
        BY <3>1, GotoFact DEF WholeInv
    <3>3. /\ task[t].child \in Children
          /\ Len(input'[task[t].child]) = Len(input[task[t].child]) + 1
          /\ input'[task[t].child][Len(input[task[t].child]) + 1]
                = <<task[t].row, "body">>
        BY <1>1, <3>1, LandsType DEF WholeInv
    <3>4. Len(input[task[t].child]) \in Nat
        BY <3>3 DEF WholeInv, TypeInv, TypeOK
    <3>5. \A q \in Ptys : child[q] = task[t].child => q = dpty[task[t].row]
      <4>1. PtyOf(t) \in Ptys /\ child[PtyOf(t)] = task[t].child
          BY <1>1, <3>1, TaskRow DEF Lands, Accepts, WholeInv
      <4>2. task[t].child # NoChild
          BY <3>1 DEF Lands, Accepts
      <4> QED
          BY <4>1, <4>2 DEF WholeInv, OneTerminal, PtyOf
    <3> QED
        BY <3>2, <3>3, <3>4, <3>5
  <2>2. CASE NoteWritten(t)
    <3>1. /\ task'[t].child = task[t].child /\ task'[t].row = task[t].row
          /\ input' = input
        BY <2>2, GotoFact DEF NoteWritten, WholeInv, termVars
    <3>2. task[t].pc \in {"noted", "sleep"} /\ task[t].child \in Children
        BY <2>2 DEF NoteWritten, At, WholeInv, AimedWrite
    <3> QED
        BY <1>1, <2>2, <3>1, <3>2 DEF WholeInv, AfterBody, AimedWrite
  <2>3. CASE Resolve(t)
      BY <1>4, <2>3 DEF Resolve, WholeInv, TypeInv, TypeOK, TaskRecords
  <2>4. CASE TakeTurn(t) \/ WriteReturn(t) \/ MarkSubmitted(t)
      BY <1>4, <2>4, GotoFact DEF TakeTurn, WriteReturn, Write, MarkSubmitted, WholeInv
  <2>5. CASE SetSubmitted(t) \/ SetFailed(t) \/ JobStarted(t) \/ JobFailed(t)
      BY <1>4, <2>5, GotoFact DEF SetSubmitted, SetFailed, Settle, JobStarted,
          JobFailed, Report, Finish, Idle, WholeInv, TypeInv, TypeOK
  <2> QED
      BY <2>1, <2>2, <2>3, <2>4, <2>5 DEF TaskStep
<1>5. AimedWrite'
  <2>1. ASSUME NEW u \in Tasks, task'[u].pc \in {"noted", "sleep"}
        PROVE  /\ task'[u].child \in Children
               /\ \A q \in Ptys : child'[q] = task'[u].child => q = dpty'[task'[u].row]
    <3>1. CASE u = t
        BY <1>2, <1>4, <2>1, <3>1
    <3>2. CASE u # t
        BY <1>1, <1>2, <2>1, <3>2 DEF WholeInv, AimedWrite
    <3> QED
        BY <3>1, <3>2
  <2> QED
      BY <2>1 DEF AimedWrite
<1>6. ASSUME NEW u \in Tasks, NEW d \in Rows, NEW c \in Children,
             task'[u].pc \in {"noted", "sleep"}, task'[u].row = d, task'[u].child = c
      PROVE  Len(input'[c]) > 0 /\ input'[c][Len(input'[c])] = <<d, "body">>
  <2>1. CASE u = t
      BY <1>2, <1>4, <1>6, <2>1
  <2>2. CASE u # t
    <3>1. task[u].pc \in {"noted", "sleep"} /\ task[u].row = d /\ task[u].child = c
        BY <1>1, <1>6, <2>2
    <3>2. input'[c] = input[c]
        BY <1>3, <2>2, <3>1
    <3> QED
        BY <3>1, <3>2 DEF WholeInv, AfterBody
  <2> QED
      BY <2>1, <2>2
<1>7. AfterBody'
    BY <1>6 DEF AfterBody
<1> QED
    BY <1>5, <1>7

LEMMA WholeTask ==
    ASSUME WholeInv, NEW t \in Tasks, TaskStep(t)
    PROVE  OneHolder' /\ OneTerminal' /\ AfterBody' /\ AimedWrite' /\ WholeLine'
<1>1. OneTerminal'
  <2>1. child' = child
      BY DEF TaskStep, TakeTurn, Resolve, WriteBody, WriteReturn, Write, NoteWritten,
          MarkSubmitted, SetSubmitted, SetFailed, Settle, JobStarted, JobFailed,
          Report, termVars
  <2> QED
      BY <2>1 DEF WholeInv, OneTerminal
<1>2. WholeLine'
  <2>1. CASE UNCHANGED input
      BY <2>1 DEF WholeInv, WholeLine
  <2>2. CASE WriteBody(t)
      BY <2>1, <2>2, WholeLands DEF WriteBody, Write, At, Live
  <2>3. CASE WriteReturn(t)
      BY <2>1, <2>3, WholeLands DEF WriteReturn, Write, At, Live
  <2>4. CASE ~(WriteBody(t) \/ WriteReturn(t))
      BY <2>1, <2>4 DEF TaskStep, TakeTurn, Resolve, NoteWritten, MarkSubmitted,
          SetSubmitted, SetFailed, Settle, JobStarted, JobFailed, Report, termVars
  <2> QED
      BY <2>2, <2>3, <2>4
<1> QED
    BY <1>1, <1>2, OneHolderStep, AfterBodyStep

\* A step that types nothing and spawns no child, and moves no turn.
LEMMA WholeQuiet ==
    ASSUME WholeInv, UNCHANGED input,
           \A d \in Rows : dstate[d] # "none" => dpty'[d] = dpty[d],
           \A t \in Tasks : task'[t] = task[t] \/ ~Holding(t)',
           \A p \in Ptys : child'[p] \in {child[p], NoChild}
    PROVE  OneHolder' /\ OneTerminal' /\ AfterBody' /\ AimedWrite' /\ WholeLine'
<1>1. \A t \in Tasks : Holding(t)' =>
        /\ task'[t] = task[t] /\ Holding(t)
        /\ task[t].row \in Rows /\ dpty'[task[t].row] = dpty[task[t].row]
  <2> SUFFICES ASSUME NEW t \in Tasks, Holding(t)'
               PROVE  /\ task'[t] = task[t] /\ Holding(t)
                      /\ task[t].row \in Rows /\ dpty'[task[t].row] = dpty[task[t].row]
      OBVIOUS
  <2>1. task'[t] = task[t]
      OBVIOUS
  <2>2. Holding(t) /\ Live(t)
      BY <2>1 DEF Holding, Live
  <2> QED
      BY <2>1, <2>2, TaskRow DEF WholeInv
<1>2. \A t \in Tasks : task'[t].pc \in {"noted", "sleep"} => Holding(t)'
    BY DEF Holding
<1>3. OneHolder'
    BY <1>1 DEF WholeInv, OneHolder, PtyOf
<1>4. OneTerminal'
    BY DEF WholeInv, OneTerminal
<1>5. AimedWrite'
  <2> SUFFICES ASSUME NEW u \in Tasks, task'[u].pc \in {"noted", "sleep"}
               PROVE  /\ task'[u].child \in Children
                      /\ \A q \in Ptys :
                            child'[q] = task'[u].child => q = dpty'[task'[u].row]
      BY DEF AimedWrite
  <2>1. /\ task'[u] = task[u] /\ dpty'[task[u].row] = dpty[task[u].row]
        /\ task[u].pc \in {"noted", "sleep"}
      BY <1>1, <1>2
  <2>2. task[u].child \in Children /\ task[u].child # NoChild
      BY <2>1, DeliveryAssumption DEF WholeInv, AimedWrite
  <2>3. \A q \in Ptys : child[q] = task[u].child => q = dpty[task[u].row]
      BY <2>1 DEF WholeInv, AimedWrite
  <2> QED
      BY <2>1, <2>2, <2>3
<1>6. AfterBody'
  <2> SUFFICES ASSUME NEW u \in Tasks, NEW d \in Rows, NEW c \in Children,
                      task'[u].pc \in {"noted", "sleep"}, task'[u].row = d,
                      task'[u].child = c
               PROVE  Len(input'[c]) > 0 /\ input'[c][Len(input'[c])] = <<d, "body">>
      BY DEF AfterBody
  <2>1. task'[u] = task[u]
      BY <1>1, <1>2
  <2>2. task[u].pc \in {"noted", "sleep"} /\ task[u].row = d /\ task[u].child = c
      BY <2>1
  <2> QED
      BY <2>2 DEF WholeInv, AfterBody
<1>7. WholeLine'
    BY DEF WholeInv, WholeLine
<1> QED
    BY <1>3, <1>4, <1>5, <1>6, <1>7

\* A new child is in no terminal and has read nothing.
LEMMA WholeNewTerminal ==
    ASSUME WholeInv, NEW p \in Ptys, NEW c \in Children, NewTerminal(p, c)
    PROVE  OneHolder' /\ OneTerminal' /\ AfterBody' /\ AimedWrite' /\ WholeLine'
<1>1. /\ UNCHANGED <<input, task, dpty>>
      /\ child'[p] = c /\ \A q \in Ptys : q # p => child'[q] = child[q]
      /\ \A q \in Ptys : child[q] # c
      /\ Len(input[c]) = 0
    BY DEF NewTerminal, Unborn, rowVars, svcVars, WholeInv, TypeInv, TypeOK
<1>2. OneHolder' /\ WholeLine'
    BY <1>1 DEF WholeInv, OneHolder, WholeLine, Holding, PtyOf
<1>3. OneTerminal'
    BY <1>1 DEF WholeInv, OneTerminal
<1>4. AfterBody'
    BY <1>1 DEF WholeInv, AfterBody
<1>5. \A t \in Tasks : task[t].pc \in {"noted", "sleep"} => task[t].child # c
  <2> SUFFICES ASSUME NEW t \in Tasks, task[t].pc \in {"noted", "sleep"},
                      task[t].child = c
               PROVE  FALSE
      OBVIOUS
  <2>1. task[t].row \in Rows
      BY TaskRow DEF WholeInv, Live
  <2> QED
      BY <1>1, <2>1 DEF WholeInv, AfterBody
<1>6. AimedWrite'
    BY <1>1, <1>5 DEF WholeInv, AimedWrite
<1> QED
    BY <1>2, <1>3, <1>4, <1>6

LEMMA WholeStep == WholeInv /\ [Next]_vars => WholeInv'
<1> SUFFICES ASSUME WholeInv, [Next]_vars PROVE WholeInv'
    OBVIOUS
<1> DEFINE Kept == /\ OneHolder' /\ OneTerminal' /\ AfterBody' /\ AimedWrite'
                   /\ WholeLine'
<1>1. TypeInv' /\ JobOK'
    BY TypeStep, JobOKStep DEF WholeInv
<1>2. ASSUME UNCHANGED <<input, dpty, task>>,
             \A p \in Ptys : child'[p] \in {child[p], NoChild}
      PROVE  Kept
    BY <1>2, WholeQuiet
<1>3. ASSUME NEW p \in Ptys, NEW c \in Children, NewTerminal(p, c) PROVE Kept
    BY <1>3, WholeNewTerminal
<1>4. ASSUME NEW t \in Tasks, TaskStep(t) PROVE Kept
    BY <1>4, WholeTask
<1>5. ASSUME NEW d \in Rows, Spawn(d), UNCHANGED <<input, child>>,
             \A e \in Rows : dstate[e] # "none" => dpty'[e] = dpty[e]
      PROVE  Kept
  <2>1. \A t \in Tasks : task'[t] = task[t] \/ ~Holding(t)'
      BY <1>5 DEF Spawn, Holding, WholeInv, TypeInv, TypeOK
  <2> QED
      BY <1>5, <2>1, WholeQuiet
<1>6. ASSUME Crash PROVE Kept
    BY <1>6, WholeQuiet DEF Crash, Holding, Idle, rowVars, termVars
<1>7. ASSUME NEW d \in Rows, NEW p \in Ptys, NEW j \in Jobs \union {NoJob},
             Deliver(d, p, j)
      PROVE  Kept
    BY <1>5, <1>7 DEF Deliver, termVars, WholeInv, TypeInv, TypeOK
<1>8. ASSUME NEW p \in Ptys, ChildExits(p) PROVE Kept
    BY <1>2, <1>8 DEF ChildExits, rowVars, WholeInv, TypeInv, TypeOK
<1>9. ASSUME NEW b \in BOOLEAN, ContainerRestarts(b) PROVE Kept
    BY <1>2, <1>9 DEF ContainerRestarts, rowVars
<1>10. ASSUME NEW d \in Rows, RecoverQueued(d) PROVE Kept
    BY <1>5, <1>10 DEF RecoverQueued, rowVars, termVars
<1>11. Kept
  <2>1. ASSUME UNCHANGED <<input, dpty, task, child>> PROVE Kept
      BY <1>2, <2>1
  <2> HIDE DEF Kept
  <2> QED
      BY <2>1, <1>3, <1>4, <1>6, <1>7, <1>8, <1>9, <1>10
         DEF Next, StableNext, TerminalStep, JobStep, SendStep, RecoveryStep, Revoke,
             AdmitJob, JobDone, Restart, MarkUncertain, ReportUncertain,
             SettleUncertainJob, EndRecovery, Put, vars, rowVars, termVars
<1> QED
    BY <1>1, <1>11 DEF WholeInv

\* Under any registrations a Return only ever follows its own body, in the
\* child that read it.
THEOREM LinesStayWhole == Spec => []WholeLine
<1>1. WholeInv => WholeLine
    BY DEF WholeInv
<1> QED
    BY WholeInit, WholeStep, <1>1, PTL DEF Spec
=============================================================================
