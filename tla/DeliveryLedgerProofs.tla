------------------------ MODULE DeliveryLedgerProofs ------------------------
(***************************************************************************)
(* More proofs about Delivery: what the ledger, the mesh log and the       *)
(* sender's status say of a message is what its child has read; a settled  *)
(* message is left alone; and under one registration the ledger implements *)
(* AtMostOnce.                                                             *)
(***************************************************************************)
EXTENDS DeliveryProofs

\* A task writes the key its label stands for.
Writes(t, key) == /\ At(t, IF key = "body" THEN "body" ELSE "sleep")
                  /\ Lands(t, key)

\* The only steps that type are the two writes of a task.
LEMMA InputStep ==
    ASSUME TypeInv, Next
    PROVE  \/ UNCHANGED input
           \/ \E t \in Tasks, key \in {"body", "return"} :
                 TaskStep(t) /\ Writes(t, key) /\ UNCHANGED <<rowVars, jobVars, mesh, rec>>
<1>1. ASSUME NEW t \in Tasks, TaskStep(t)
      PROVE  \/ UNCHANGED input
             \/ \E key \in {"body", "return"} :
                   Writes(t, key) /\ UNCHANGED <<rowVars, jobVars, mesh, rec>>
  <2>1. CASE WriteBody(t)
      BY <2>1 DEF WriteBody, Write, Writes, svcVars
  <2>2. CASE WriteReturn(t)
      BY <2>2 DEF WriteReturn, Write, Writes, svcVars
  <2>3. CASE ~(WriteBody(t) \/ WriteReturn(t))
      BY <1>1, <2>3 DEF TaskStep, TakeTurn, Resolve, NoteWritten, MarkSubmitted,
          SetSubmitted, SetFailed, Settle, JobStarted, JobFailed, Report, termVars
  <2> QED
      BY <2>1, <2>2, <2>3
<1>2. CASE \A t \in Tasks : ~TaskStep(t)
    BY <1>2 DEF Next, StableNext, TerminalStep, JobStep, SendStep, RecoveryStep,
        NewTerminal, Revoke, ChildExits, ContainerRestarts, AdmitJob, JobDone, Deliver,
        Crash, Restart, RecoverQueued, MarkUncertain, ReportUncertain,
        SettleUncertainJob, EndRecovery, Put, termVars
<1> QED
    BY <1>1, <1>2

\* What was typed stays typed.
LEMMA TypedStays ==
    ASSUME TypeInv, [Next]_vars, NEW d \in Rows, NEW k \in {"body", "return"},
           Typed(d, k)
    PROVE  Typed(d, k)'
<1>1. CASE UNCHANGED input
    BY <1>1 DEF Typed
<1>2. ASSUME NEW t \in Tasks, NEW key \in {"body", "return"}, Writes(t, key)
      PROVE  Typed(d, k)'
  <2>1. Live(t)
      BY <1>2 DEF Writes, At, Live
  <2>2. Lands(t, key)
      BY <1>2 DEF Writes
  <2>3. PICK c \in Children : \E i \in 1..Len(input[c]) : input[c][i] = <<d, k>>
      BY DEF Typed
  <2>4. PICK i \in 1..Len(input[c]) : input[c][i] = <<d, k>>
      BY <2>3
  <2>5. Len(input[c]) \in Nat
      BY DEF TypeInv, TypeOK
  <2>6. i \in 1..Len(input'[c]) /\ input'[c][i] = <<d, k>>
    <3>1. CASE c # task[t].child
        BY <2>1, <2>2, <2>4, <3>1, LandsType
    <3>2. CASE c = task[t].child
      <4>1. /\ Len(input'[c]) = Len(input[c]) + 1
            /\ \A x \in 1..Len(input[c]) : input'[c][x] = input[c][x]
          BY <2>1, <2>2, <3>2, LandsType
      <4> QED
          BY <2>4, <2>5, <4>1
    <3> QED
        BY <3>1, <3>2
  <2> QED
      BY <2>6 DEF Typed
<1>3. CASE UNCHANGED vars
    BY <1>1, <1>3 DEF vars, termVars
<1> QED
    BY <1>1, <1>2, <1>3, InputStep

\* A write that lands has typed its key of the task's row.
LEMMA TypedNow ==
    ASSUME TypeInv, NEW t \in Tasks, Live(t), NEW key \in {"body", "return"},
           Lands(t, key), NEW d \in Rows, d = task[t].row
    PROVE  Typed(d, key)'
<1> DEFINE c == task[t].child
           n == Len(input[c]) + 1
<1>1. c \in Children /\ Len(input'[c]) = n /\ input'[c][n] = <<d, key>>
    BY LandsType
<1>2. Len(input[c]) \in Nat
    BY <1>1 DEF TypeInv, TypeOK
<1>3. n \in 1..Len(input'[c])
    BY <1>1, <1>2
<1> HIDE DEF c, n
<1> QED
    BY <1>1, <1>3 DEF Typed

-----------------------------------------------------------------------------
(* What the ledger and the mesh log say was typed was typed.  Why: a row is   *)
(* never put back to `queued`, a task turns it to `writing` before any byte,  *)
(* and goes on to `written`, to the mark and to `submitted` only after a      *)
(* write that landed - also where a registration made under live tasks gives  *)
(* a row a second task.                                                       *)

HeldTrue == \A t \in Tasks : \A d \in Rows : task[t].row = d =>
    /\ Holding(t) => dstate[d] \notin {"none", "queued"}
    /\ At(t, "noted") => Typed(d, "body")
    /\ task[t].pc \in {"mark", "submit", "started"} => Typed(d, "return")

\* What recovery read as cut was begun.
CutBegun == \A d \in rec.cut : dstate[d] \notin {"none", "queued"}

TruthInv == TypeInv /\ JobOK /\ HeldTrue /\ CutBegun /\ ReportsTrue

LEMMA TruthInit == Init => TruthInv
<1> SUFFICES ASSUME Init PROVE TruthInv
    OBVIOUS
<1>1. TypeInv /\ JobOK
    BY TypeInit
<1>2. HeldTrue
    BY DEF Init, HeldTrue, Idle, Holding, At
<1>3. \A c \in Children : Len(input[c]) = 0
    BY DEF Init
<1>4. ReportsTrue /\ CutBegun
    BY <1>3 DEF Init, ReportsTrue, Typed, CutBegun
<1> QED
    BY <1>1, <1>2, <1>4 DEF TruthInv

\* A step that writes to no terminal and moves no turn.
LEMMA TruthQuiet ==
    ASSUME TruthInv, UNCHANGED <<input, mesh>>,
           \A t \in Tasks : task'[t] = task[t] \/ ~Holding(t)',
           \A d \in Rows :
              \/ dstate'[d] = dstate[d]
              \/ dstate[d] = "none" /\ dstate'[d] = "queued"
              \/ dstate'[d] = "uncertain" /\ dstate[d] \notin {"none", "queued"}
    PROVE  HeldTrue' /\ ReportsTrue'
<1>1. \A d \in Rows, k \in {"body", "return"} : Typed(d, k)' <=> Typed(d, k)
    BY DEF Typed
<1>2. ReportsTrue'
    BY <1>1 DEF TruthInv, ReportsTrue
<1>3. ASSUME NEW t \in Tasks, NEW d \in Rows, task'[t].row = d, Holding(t)'
      PROVE  /\ dstate'[d] \notin {"none", "queued"}
             /\ task'[t].pc = "noted" => Typed(d, "body")'
             /\ task'[t].pc \in {"mark", "submit", "started"} => Typed(d, "return")'
  <2>1. task'[t] = task[t]
      BY <1>3
  <2>2. task[t].row = d /\ Holding(t)
      BY <1>3, <2>1 DEF Holding
  <2> QED
      BY <1>1, <2>1, <2>2 DEF TruthInv, HeldTrue, At
<1>4. HeldTrue'
    BY <1>3 DEF HeldTrue, Holding, At
<1> QED
    BY <1>2, <1>4

\* A task's own step: what it records of its row it has seen land.
LEMMA TruthTask ==
    ASSUME TruthInv, NEW t \in Tasks, TaskStep(t)
    PROVE  HeldTrue' /\ ReportsTrue'
<1> DEFINE r == task[t].row
<1>1. /\ Live(t) /\ r \in Rows
      /\ \A u \in Tasks : u # t => task'[u] = task[u]
      /\ \/ task'[t].pc = "idle"
         \/ task'[t].pc \notin {"idle", "wait"} /\ task'[t].row = r
      /\ \A d \in Rows : d # r => dstate'[d] = dstate[d]
    BY TaskFrame DEF TruthInv
<1>2. [Next]_vars
    BY DEF Next, StableNext
<1>3. \A d \in Rows, k \in {"body", "return"} : Typed(d, k) => Typed(d, k)'
    BY <1>2, TypedStays DEF TruthInv
<1>4. \/ dstate' = dstate /\ Holding(t) /\ mesh' = mesh
      \/ TakeTurn(t) \/ NoteWritten(t) \/ SetSubmitted(t) \/ SetFailed(t)
      \/ MarkSubmitted(t)
    BY DEF TaskStep, Resolve, WriteBody, WriteReturn, Write, JobStarted, JobFailed,
        Report, At, Holding, rowVars
<1>5. dstate'[r] \notin {"none", "queued"}
  <2>1. CASE TakeTurn(t) \/ NoteWritten(t) \/ SetSubmitted(t) \/ SetFailed(t)
      BY <1>1, <2>1 DEF TakeTurn, NoteWritten, SetSubmitted, SetFailed, Settle,
          SetDelivery, TruthInv, TypeInv, TypeOK
  <2>2. CASE dstate' = dstate /\ Holding(t)
      BY <1>1, <2>2 DEF TruthInv, HeldTrue
  <2>3. CASE MarkSubmitted(t)
      BY <2>2, <2>3 DEF MarkSubmitted, At, Holding, rowVars
  <2> QED
      BY <1>4, <2>1, <2>2, <2>3
<1>6. \A d \in Rows : d # r => (Typed(d, "body")' => Typed(d, "body"))
  <2>1. CASE UNCHANGED input
      BY <2>1 DEF Typed
  <2>2. ASSUME NEW key \in {"body", "return"}, Lands(t, key)
        PROVE  \A d \in Rows : d # r => (Typed(d, "body")' => Typed(d, "body"))
      BY <1>1, <2>2, TypedLands DEF TruthInv
  <2>3. UNCHANGED input \/ Lands(t, "body") \/ Lands(t, "return")
      BY DEF TaskStep, TakeTurn, Resolve, WriteBody, WriteReturn, Write, NoteWritten,
          MarkSubmitted, SetSubmitted, SetFailed, Settle, JobStarted, JobFailed,
          Report, termVars
  <2> QED
      BY <2>1, <2>2, <2>3
<1>7. /\ task'[t].pc = "noted" => Typed(r, "body") \/ Lands(t, "body")
      /\ task'[t].pc \in {"mark", "submit", "started"} =>
            Typed(r, "return") \/ Lands(t, "return")
  <2>1. CASE Resolve(t)
      BY <2>1 DEF Resolve, TruthInv, TypeInv, TypeOK, TaskRecords
  <2>2. CASE WriteBody(t) \/ WriteReturn(t)
      BY <2>2, GotoFact DEF WriteBody, WriteReturn, Write, TruthInv
  <2>3. CASE TakeTurn(t) \/ NoteWritten(t)
      BY <2>3, GotoFact DEF TakeTurn, NoteWritten, TruthInv
  <2>4. CASE MarkSubmitted(t)
    <3>1. Typed(r, "return")
        BY <1>1, <2>4 DEF MarkSubmitted, At, TruthInv, HeldTrue
    <3> QED
        BY <2>4, <3>1, GotoFact DEF MarkSubmitted, TruthInv
  <2>5. CASE SetSubmitted(t)
    <3>1. Typed(r, "return")
        BY <1>1, <2>5 DEF SetSubmitted, Settle, At, TruthInv, HeldTrue
    <3>2. task'[t].pc \in {"idle", "started"}
        BY <2>5, GotoFact DEF SetSubmitted, Settle, Finish, Idle, TruthInv, TypeInv,
            TypeOK
    <3> QED
        BY <3>1, <3>2
  <2>6. CASE SetFailed(t) \/ JobStarted(t) \/ JobFailed(t)
    <3>1. task'[t].pc \in {"idle", "failjob"}
        BY <2>6, GotoFact DEF SetFailed, Settle, JobStarted, JobFailed, Report,
            Finish, Idle, TruthInv, TypeInv, TypeOK
    <3> QED
        BY <3>1
  <2> QED
      BY <2>1, <2>2, <2>3, <2>4, <2>5, <2>6 DEF TaskStep
<1>8. ASSUME NEW d \in Rows, d = r
      PROVE  /\ task'[t].pc = "noted" => Typed(d, "body")'
             /\ task'[t].pc \in {"mark", "submit", "started"} => Typed(d, "return")'
  <2>1. \A key \in {"body", "return"} : Lands(t, key) => Typed(d, key)'
      BY <1>1, <1>8, TypedNow DEF TruthInv
  <2> QED
      BY <1>3, <1>7, <1>8, <2>1
<1>9. HeldTrue'
  <2> SUFFICES ASSUME NEW u \in Tasks, NEW d \in Rows, task'[u].row = d
               PROVE  /\ Holding(u)' => dstate'[d] \notin {"none", "queued"}
                      /\ task'[u].pc = "noted" => Typed(d, "body")'
                      /\ task'[u].pc \in {"mark", "submit", "started"} =>
                            Typed(d, "return")'
      BY DEF HeldTrue, At
  <2>1. CASE u = t /\ task'[t].pc # "idle"
      BY <1>1, <1>5, <1>8, <2>1
  <2>2. CASE u = t /\ task'[t].pc = "idle"
      BY <2>2 DEF Holding
  <2>3. CASE u # t
    <3>1. task'[u] = task[u] /\ task[u].row = d
        BY <1>1, <2>3
    <3>2. /\ Holding(u)' => dstate[d] \notin {"none", "queued"}
          /\ task'[u].pc = "noted" => Typed(d, "body")
          /\ task'[u].pc \in {"mark", "submit", "started"} => Typed(d, "return")
        BY <3>1 DEF TruthInv, HeldTrue, Holding, At
    <3> QED
        BY <1>1, <1>3, <1>5, <3>2
  <2> QED
      BY <2>1, <2>2, <2>3
<1>10. /\ dstate'[r] = "written" => dstate[r] = "written" \/ Typed(r, "body")
       /\ dstate'[r] = "submitted" => dstate[r] = "submitted" \/ Typed(r, "return")
       /\ mesh' = mesh \/ (mesh' = mesh \union {r} /\ Typed(r, "return"))
  <2>1. CASE dstate' = dstate /\ mesh' = mesh
      BY <2>1
  <2>2. CASE TakeTurn(t) \/ SetFailed(t)
      BY <1>1, <2>2 DEF TakeTurn, SetFailed, Settle, SetDelivery, TruthInv, TypeInv,
          TypeOK
  <2>3. CASE NoteWritten(t)
      BY <1>1, <2>3 DEF NoteWritten, SetDelivery, TruthInv, TypeInv, TypeOK, HeldTrue
  <2>4. CASE SetSubmitted(t)
    <3>1. Typed(r, "return") /\ mesh' = mesh
        BY <1>1, <2>4 DEF SetSubmitted, Settle, At, TruthInv, HeldTrue
    <3>2. dstate'[r] = "submitted"
        BY <1>1, <2>4 DEF SetSubmitted, Settle, SetDelivery, TruthInv, TypeInv, TypeOK
    <3> QED
        BY <3>1, <3>2
  <2>5. CASE MarkSubmitted(t)
      BY <1>1, <2>5 DEF MarkSubmitted, rowVars, At, TruthInv, HeldTrue
  <2> QED
      BY <1>4, <2>1, <2>2, <2>3, <2>4, <2>5
<1>11. ReportsTrue'
  <2> HIDE DEF r
  <2> SUFFICES ASSUME NEW d \in Rows
               PROVE  /\ dstate'[d] \in {"none", "queued"} => ~Typed(d, "body")'
                      /\ dstate'[d] = "written" => Typed(d, "body")'
                      /\ dstate'[d] = "submitted" \/ d \in mesh' =>
                            Typed(d, "return")'
      BY DEF ReportsTrue
  <2>1. /\ dstate[d] \in {"none", "queued"} => ~Typed(d, "body")
        /\ dstate[d] = "written" => Typed(d, "body")
        /\ dstate[d] = "submitted" \/ d \in mesh => Typed(d, "return")
      BY DEF TruthInv, ReportsTrue
  <2>2. CASE d = r
      BY <1>3, <1>5, <1>10, <2>1, <2>2
  <2>3. CASE d # r
      BY <1>1, <1>3, <1>6, <1>10, <2>1, <2>3
  <2> QED
      BY <2>2, <2>3
<1> QED
    BY <1>9, <1>11

\* No step puts a row that was begun back to the queue.
LEMMA CutBegunStep ==
    ASSUME TruthInv, [Next]_vars
    PROVE  CutBegun'
<1> DEFINE Begun(d) == dstate[d] \notin {"none", "queued"}
<1>1. rec.cut \subseteq Rows /\ \A d \in rec.cut : Begun(d)
    BY DEF TruthInv, TypeInv, TypeOK, CutBegun
<1>2. \A d \in Rows : Begun(d) => Begun(d)'
  <2>1. ASSUME NEW t \in Tasks, TaskStep(t)
        PROVE  \A d \in Rows : Begun(d) => Begun(d)'
    <3>1. CASE dstate' = dstate
        BY <3>1
    <3>2. CASE TakeTurn(t) \/ NoteWritten(t) \/ SetSubmitted(t) \/ SetFailed(t)
        BY <3>2 DEF TakeTurn, NoteWritten, SetSubmitted, SetFailed, Settle,
            SetDelivery, TruthInv, TypeInv, TypeOK
    <3> QED
        BY <2>1, <3>1, <3>2 DEF TaskStep, Resolve, WriteBody, WriteReturn, Write,
            MarkSubmitted, JobStarted, JobFailed, Report, rowVars
  <2>2. ASSUME NEW d \in Rows, NEW state, dstate[d] = "none" \/ state = "uncertain",
               SetDelivery(d, state)
        PROVE  \A e \in Rows : Begun(e) => Begun(e)'
      BY <2>2 DEF SetDelivery, TruthInv, TypeInv, TypeOK
  <2>3. ASSUME UNCHANGED dstate PROVE \A e \in Rows : Begun(e) => Begun(e)'
      BY <2>3
  <2> HIDE DEF Begun
  <2> QED
      BY <2>1, <2>2, <2>3
         DEF Next, StableNext, TerminalStep, JobStep, SendStep, RecoveryStep,
             NewTerminal, Revoke, ChildExits, ContainerRestarts, AdmitJob, JobDone,
             Deliver, Crash, Restart, RecoverQueued, MarkUncertain, ReportUncertain,
             SettleUncertainJob, EndRecovery, Put, vars, rowVars
<1>3. \/ rec'.cut \subseteq rec.cut
      \/ rec' = UnfinishedDeliveries /\ dstate' = dstate
  <2>1. ASSUME NEW t \in Tasks, TaskStep(t) PROVE rec' = rec
      BY <2>1, TaskFrame DEF TruthInv
  <2>2. CASE Restart \/ \E e \in Endpoints : Put(e)
      BY <2>2 DEF Restart, Put, rowVars
  <2>3. CASE Crash
      BY <2>3 DEF Crash
  <2>4. ASSUME NEW d \in Rows, RecoverQueued(d) \/ SettleUncertainJob(d)
        PROVE  rec'.cut \subseteq rec.cut
      BY <2>4 DEF RecoverQueued, SettleUncertainJob, TruthInv, TypeInv, TypeOK
  <2>5. ASSUME rec' = rec PROVE rec'.cut \subseteq rec.cut
      BY <2>5
  <2> QED
      BY <2>1, <2>2, <2>3, <2>4, <2>5
         DEF Next, StableNext, TerminalStep, JobStep, SendStep, RecoveryStep,
             NewTerminal, Revoke, ChildExits, ContainerRestarts, AdmitJob, JobDone,
             Deliver, MarkUncertain, ReportUncertain, EndRecovery, vars, svcVars
<1> QED
    BY <1>1, <1>2, <1>3 DEF CutBegun, UnfinishedDeliveries

LEMMA TruthStep == TruthInv /\ [Next]_vars => TruthInv'
<1> SUFFICES ASSUME TruthInv, [Next]_vars PROVE TruthInv'
    OBVIOUS
<1> DEFINE Kept == HeldTrue' /\ ReportsTrue'
<1>1. TypeInv' /\ JobOK'
    BY TypeStep, JobOKStep DEF TruthInv
<1>2. ASSUME UNCHANGED <<input, mesh, dstate, task>> PROVE Kept
    BY <1>2, TruthQuiet
<1>3. ASSUME NEW t \in Tasks, TaskStep(t) PROVE Kept
    BY <1>3, TruthTask
<1>4. ASSUME NEW d \in Rows, Spawn(d)
      PROVE  \A t \in Tasks : task'[t] = task[t] \/ ~Holding(t)'
    BY <1>4 DEF Spawn, Holding, TruthInv, TypeInv, TypeOK
<1>5. ASSUME NEW d \in Rows, NEW p \in Ptys, NEW j \in Jobs \union {NoJob},
             Deliver(d, p, j)
      PROVE  Kept
  <2>1. /\ dstate[d] = "none" /\ dstate'[d] = "queued"
        /\ \A e \in Rows : e # d => dstate'[e] = dstate[e]
      BY <1>5 DEF Deliver, SetDelivery, TruthInv, TypeInv, TypeOK
  <2>2. Spawn(d) /\ UNCHANGED <<input, mesh>>
      BY <1>5 DEF Deliver, termVars
  <2> QED
      BY <1>4, <2>1, <2>2, TruthQuiet
<1>6. ASSUME NEW d \in Rows, RecoverQueued(d) PROVE Kept
  <2>1. Spawn(d) /\ UNCHANGED <<input, mesh, dstate>>
      BY <1>6 DEF RecoverQueued, rowVars, termVars
  <2> QED
      BY <1>4, <2>1, TruthQuiet
<1>7. ASSUME NEW d \in Rows, MarkUncertain(d) PROVE Kept
  <2>1. /\ dstate'[d] = "uncertain" /\ \A e \in Rows : e # d => dstate'[e] = dstate[e]
        /\ UNCHANGED <<input, mesh, task>>
      BY <1>7 DEF MarkUncertain, SetDelivery, TruthInv, TypeInv, TypeOK, termVars
  <2>2. dstate[d] \notin {"none", "queued"}
      BY <1>7 DEF MarkUncertain, TruthInv, CutBegun
  <2> QED
      BY <2>1, <2>2, TruthQuiet
<1>8. ASSUME Crash PROVE Kept
    BY <1>8, TruthQuiet DEF Crash, Holding, Idle, rowVars, termVars
<1>9. Kept
  <2> HIDE DEF Kept
  <2> QED
      BY <1>2, <1>3, <1>5, <1>6, <1>7, <1>8
         DEF Next, StableNext, TerminalStep, JobStep, SendStep, RecoveryStep,
             NewTerminal, Revoke, ChildExits, ContainerRestarts, AdmitJob, JobDone,
             Restart, ReportUncertain, SettleUncertainJob, EndRecovery, Put, vars,
             rowVars, termVars
<1> QED
    BY <1>1, <1>9, CutBegunStep DEF TruthInv

\* Whatever the registrations, crashes and lost answers: a row the ledger has
\* as not begun has typed nothing, one it has as written has typed its body,
\* and one it or the mesh log has as submitted has typed its Return
\* (workspace.rs, run_delivery).
THEOREM LedgerTellsTruth == Spec => []ReportsTrue
<1>1. TruthInv => ReportsTrue
    BY DEF TruthInv
<1> QED
    BY TruthInit, TruthStep, <1>1, PTL DEF Spec

-----------------------------------------------------------------------------
(* A settled row that no task and no recovery holds is left alone: a task is  *)
(* spawned only for a new row or one recovery holds, and recovery takes only  *)
(* unfinished rows.                                                           *)

\* Nothing is typed of a row that no writing task holds.
LEMMA NothingTyped ==
    ASSUME TypeInv, Next, NEW d \in Rows,
           \A t \in Tasks, key \in {"body", "return"} : Writes(t, key) => task[t].row # d
    PROVE  NothingTypedOf(d)
<1>1. CASE UNCHANGED input
  <2>1. \A c \in Children : Len(input[c]) \in Nat
      BY DEF TypeInv, TypeOK
  <2> QED
      BY <1>1, <2>1 DEF NothingTypedOf
<1>2. ASSUME NEW t \in Tasks, NEW key \in {"body", "return"}, Writes(t, key)
      PROVE  NothingTypedOf(d)
  <2> DEFINE c == task[t].child
             e == task[t].row
  <2>1. Live(t) /\ Lands(t, key)
      BY <1>2 DEF Writes, At, Live
  <2>2. /\ c \in Children /\ Len(input'[c]) = Len(input[c]) + 1
        /\ input'[c][Len(input[c]) + 1] = <<e, key>>
        /\ \A x \in Children : x # c => input'[x] = input[x]
      BY <2>1, LandsType
  <2>3. e # d
      BY <1>2
  <2>4. \A x \in Children : Len(input[x]) \in Nat
      BY DEF TypeInv, TypeOK
  <2> HIDE DEF c, e
  <2> QED
      BY <2>2, <2>3, <2>4 DEF NothingTypedOf
<1> QED
    BY <1>1, <1>2, InputStep

\* Which rows tasks may come to hold, and recovery.
LEMMA HeldRows ==
    ASSUME TypeInv, JobOK, Next, NEW d \in Rows
    PROVE  /\ \A t \in Tasks : task'[t].row = d =>
                \/ \E u \in Tasks : task[u].row = d
                \/ dstate[d] = "none" \/ d \in rec.queued
           /\ d \in rec'.queued \union rec'.cut =>
                d \in rec.queued \union rec.cut \/ dstate[d] \in Unfinished
<1>1. ASSUME NEW t \in Tasks, TaskStep(t)
      PROVE  /\ \A u \in Tasks : task'[u].row = d => \E v \in Tasks : task[v].row = d
             /\ rec' = rec
  <2>1. /\ Live(t) /\ \A u \in Tasks : u # t => task'[u] = task[u]
        /\ task'[t].pc = "idle" \/ task'[t].row = task[t].row
        /\ rec' = rec
      BY <1>1, TaskFrame
  <2>2. task'[t].pc = "idle" => task'[t].row = NoRow
    <3>1. TypeInv'
        BY TypeStep
    <3> QED
        BY <3>1 DEF TypeInv, RefOK, Live, Idle
  <2> QED
      BY <2>1, <2>2, DeliveryAssumption
<1>2. ASSUME NEW e \in Rows, Spawn(e)
      PROVE  \A t \in Tasks : task'[t].row = d =>
                e = d \/ \E u \in Tasks : task[u].row = d
    BY <1>2 DEF Spawn, TypeInv, TypeOK
<1>3. ASSUME NEW e \in Rows, NEW p \in Ptys, NEW j \in Jobs \union {NoJob},
             Deliver(e, p, j)
      PROVE  /\ rec' = rec
             /\ \A t \in Tasks : task'[t].row = d =>
                  dstate[d] = "none" \/ \E u \in Tasks : task[u].row = d
  <2>1. Spawn(e) /\ dstate[e] = "none" /\ rec' = rec
      BY <1>3 DEF Deliver, svcVars
  <2> QED
      BY <1>2, <2>1
<1>4. ASSUME NEW e \in Rows, RecoverQueued(e)
      PROVE  /\ rec'.queued \union rec'.cut \subseteq rec.queued \union rec.cut
             /\ \A t \in Tasks : task'[t].row = d =>
                  d \in rec.queued \/ \E u \in Tasks : task[u].row = d
  <2>1. Spawn(e) /\ e \in rec.queued /\ rec' = [rec EXCEPT !.queued = @ \ {e}]
      BY <1>4 DEF RecoverQueued
  <2>2. rec'.queued \union rec'.cut \subseteq rec.queued \union rec.cut
      BY <2>1 DEF TypeInv, TypeOK
  <2> QED
      BY <1>2, <2>1, <2>2
<1>5. ASSUME NEW e \in Rows, SettleUncertainJob(e)
      PROVE  /\ rec'.queued \union rec'.cut \subseteq rec.queued \union rec.cut
             /\ task' = task
    BY <1>5 DEF SettleUncertainJob, TypeInv, TypeOK
<1>6. CASE Crash
    BY <1>6, DeliveryAssumption DEF Crash, Idle
<1>7. CASE Restart \/ \E e \in Endpoints : Put(e)
    BY <1>7 DEF Restart, Put, UnfinishedDeliveries, Unfinished
<1>8. CASE task' = task /\ rec' = rec
    BY <1>8
<1> QED
    BY <1>1, <1>3, <1>4, <1>5, <1>6, <1>7, <1>8
       DEF Next, StableNext, TerminalStep, JobStep, SendStep, RecoveryStep,
           NewTerminal, Revoke, ChildExits, ContainerRestarts, AdmitJob, JobDone,
           MarkUncertain, ReportUncertain, EndRecovery, svcVars

LEMMA QuietStep ==
    ASSUME TypeInv, JobOK, Next, NEW d \in Rows, Quiet(d)
    PROVE  dstate'[d] = dstate[d] /\ Quiet(d)' /\ NothingTypedOf(d)
<1>1. /\ dstate[d] \in Settled /\ d \notin rec.queued \union rec.cut
      /\ \A t \in Tasks : task[t].row # d
    BY DEF Quiet
<1>2. dstate'[d] = dstate[d]
  <2>1. ASSUME NEW t \in Tasks, TaskStep(t) PROVE dstate'[d] = dstate[d]
      BY <1>1, <2>1, TaskFrame
  <2>2. ASSUME NEW e \in Rows, NEW state, e # d, SetDelivery(e, state)
        PROVE  dstate'[d] = dstate[d]
      BY <2>2 DEF SetDelivery, TypeInv, TypeOK
  <2>3. ASSUME NEW e \in Rows, NEW p \in Ptys, NEW j \in Jobs \union {NoJob},
               Deliver(e, p, j)
        PROVE  dstate'[d] = dstate[d]
      BY <1>1, <2>2, <2>3 DEF Deliver, Settled
  <2>4. ASSUME NEW e \in Rows, MarkUncertain(e) PROVE dstate'[d] = dstate[d]
      BY <1>1, <2>2, <2>4 DEF MarkUncertain
  <2> QED
      BY <2>1, <2>3, <2>4
         DEF Next, StableNext, TerminalStep, JobStep, SendStep, RecoveryStep,
             NewTerminal, Revoke, ChildExits, ContainerRestarts, AdmitJob, JobDone,
             Crash, Restart, RecoverQueued, ReportUncertain, SettleUncertainJob,
             EndRecovery, Put, rowVars
<1>3. dstate[d] \notin Unfinished /\ dstate[d] # "none"
    BY <1>1 DEF Settled, Unfinished
<1>4. Quiet(d)'
    BY <1>1, <1>2, <1>3, HeldRows DEF Quiet
<1>5. NothingTypedOf(d)
    BY <1>1, NothingTyped
<1> QED
    BY <1>2, <1>4, <1>5

\* Also when the runner is registered anew under live tasks: a settled row that
\* no task and no recovery holds keeps its outcome, is never picked up again and
\* nothing of it is typed (workspace.rs, recover_deliveries and run_delivery).
THEOREM QuietStaysQuiet == Spec => QuietRowsStay
<1>1. TypeInv /\ JobOK /\ [Next]_vars =>
        [\A d \in Rows : Quiet(d) =>
            dstate'[d] = dstate[d] /\ Quiet(d)' /\ NothingTypedOf(d)]_vars
    BY QuietStep
<1>2. TypeInv /\ JobOK /\ [Next]_vars => (TypeInv /\ JobOK)'
    BY TypeStep, JobOKStep
<1> QED
    BY TypeInit, <1>1, <1>2, PTL DEF Spec, QuietRowsStay

-----------------------------------------------------------------------------
(* Under one registration a settled row is final.  Why: a row is settled only *)
(* by the one task that holds it or by the recovery that holds it, and each   *)
(* lets go of it then: the task goes on to the job's report alone, recovery   *)
(* handles its rows in order and is never ahead of a row it has marked.       *)

Working == {"wait", "begin", "body", "noted", "sleep", "mark", "submit", "failing"}

HeldPending == \A t \in Tasks :
    /\ task[t].pc \in Working => dstate[task[t].row] \in Unfinished
    /\ At(t, "started") => dstate[task[t].row] = "submitted"
    /\ At(t, "failjob") => dstate[task[t].row] = "failed"

CutInTurn ==
    /\ rstep = "row" => \A d \in rec.cut : dstate[d] \in {"writing", "written"}
    /\ rstep # "row" => \E d \in rec.cut :
          /\ NextRow(d) /\ dstate[d] = "uncertain"
          /\ \A e \in rec.cut : e # d => dstate[e] \in {"writing", "written"}

StableInv == OnceInv /\ WholeInv /\ HeldPending /\ CutInTurn

\* Recovery's next row is one row.
LEMMA NextRowUnique ==
    ASSUME TypeInv, NEW d, NEW e, NextRow(d), NextRow(e)
    PROVE  d = e
<1>1. d \in Rows /\ e \in Rows /\ d <= e /\ e <= d
    BY DEF NextRow, TypeInv, TypeOK
<1> QED
    BY <1>1, DeliveryAssumption

\* Recovery handles no queued row while it is in the middle of a cut one.
LEMMA CutFirst ==
    ASSUME StableInv, NEW d \in Rows, NextRow(d), rstep # "row"
    PROVE  /\ d \in rec.cut /\ d \notin rec.queued /\ dstate[d] = "uncertain"
           /\ \A e \in rec.cut : e # d => dstate[e] \in {"writing", "written"}
<1>1. PICK c \in rec.cut :
        /\ NextRow(c) /\ dstate[c] = "uncertain"
        /\ \A e \in rec.cut : e # c => dstate[e] \in {"writing", "written"}
    BY DEF StableInv, CutInTurn
<1>2. c = d
    BY <1>1, NextRowUnique DEF StableInv, WholeInv
<1> QED
    BY <1>1, <1>2 DEF StableInv, OnceInv, RecoveryApart

LEMMA StableInit == Init => StableInv
<1> SUFFICES ASSUME Init PROVE StableInv
    OBVIOUS
<1>1. HeldPending /\ CutInTurn
    BY DEF Init, HeldPending, CutInTurn, Idle, At, Working
<1> QED
    BY <1>1, OnceInit, WholeInit DEF StableInv

\* A task settles its row and goes on to what it then tells the sender.
LEMMA PendingTask ==
    ASSUME StableInv, NEW t \in Tasks, TaskStep(t)
    PROVE  HeldPending' /\ CutInTurn'
<1> DEFINE r == task[t].row
<1>1. /\ Live(t) /\ r \in Rows
      /\ \A u \in Tasks : u # t => task'[u] = task[u]
      /\ \/ task'[t].pc = "idle"
         \/ task'[t].pc \notin {"idle", "wait"} /\ task'[t].row = r
      /\ \A d \in Rows : d # r => dstate'[d] = dstate[d]
      /\ rec' = rec
    BY TaskFrame DEF StableInv, OnceInv
<1>2. \A u \in Tasks : u # t /\ Live(u) => task[u].row \in Rows /\ task[u].row # r
    BY <1>1, TaskRow DEF StableInv, OnceInv, OneTask
<1>3. r \notin rec.cut /\ rec.cut \subseteq Rows
    BY <1>1 DEF StableInv, OnceInv, RecoveryApart, TypeInv, TypeOK
<1>4. rstep' = rstep
    BY DEF TaskStep, TakeTurn, Resolve, WriteBody, WriteReturn, Write, NoteWritten,
        MarkSubmitted, SetSubmitted, SetFailed, Settle, JobStarted, JobFailed, Report,
        svcVars
<1>5. CutInTurn'
  <2>1. \A d : NextRow(d)' <=> NextRow(d)
      BY <1>1 DEF NextRow
  <2>2. \A d \in rec.cut : dstate'[d] = dstate[d]
      BY <1>1, <1>3
  <2> QED
      BY <1>1, <1>4, <2>1, <2>2 DEF StableInv, CutInTurn
<1>6. /\ task'[t].pc \in Working => dstate'[r] \in Unfinished
      /\ task'[t].pc = "started" => dstate'[r] = "submitted"
      /\ task'[t].pc = "failjob" => dstate'[r] = "failed"
  <2>1. task[t].pc \in Working => dstate[r] \in Unfinished
      BY DEF StableInv, HeldPending
  <2>2. CASE TakeTurn(t) \/ NoteWritten(t)
    <3>1. dstate'[r] \in Unfinished
        BY <1>1, <2>2 DEF TakeTurn, NoteWritten, SetDelivery, Unfinished, StableInv,
            OnceInv, TypeInv, TypeOK
    <3>2. task'[t].pc \in {"begin", "sleep"}
        BY <2>2, GotoFact DEF TakeTurn, NoteWritten, StableInv, OnceInv
    <3> QED
        BY <3>1, <3>2
  <2>3. CASE Resolve(t)
    <3>1. task'[t].pc \in {"body", "failing"} /\ dstate' = dstate
        BY <2>3 DEF Resolve, rowVars, StableInv, OnceInv, TypeInv, TypeOK, TaskRecords
    <3> QED
        BY <2>1, <2>3, <3>1 DEF Resolve, At, Working
  <2>4. CASE WriteBody(t) \/ WriteReturn(t) \/ MarkSubmitted(t)
    <3>1. task'[t].pc \in {"noted", "mark", "submit", "failing"} /\ dstate' = dstate
        BY <2>4, GotoFact DEF WriteBody, WriteReturn, Write, MarkSubmitted, rowVars,
            StableInv, OnceInv
    <3> QED
        BY <2>1, <2>4, <3>1 DEF WriteBody, WriteReturn, MarkSubmitted, At, Working
  <2>5. CASE SetSubmitted(t)
    <3>1. task'[t].pc \in {"idle", "started"}
        BY <2>5, GotoFact DEF SetSubmitted, Settle, Finish, Idle, StableInv, OnceInv,
            TypeInv, TypeOK
    <3>2. dstate'[r] = "submitted"
        BY <1>1, <2>5 DEF SetSubmitted, Settle, SetDelivery, StableInv, OnceInv,
            TypeInv, TypeOK
    <3> QED
        BY <3>1, <3>2 DEF Working
  <2>6. CASE SetFailed(t)
    <3>1. task'[t].pc \in {"idle", "failjob"}
        BY <2>6, GotoFact DEF SetFailed, Settle, Finish, Idle, StableInv, OnceInv,
            TypeInv, TypeOK
    <3>2. dstate'[r] = "failed"
        BY <1>1, <2>6 DEF SetFailed, Settle, SetDelivery, StableInv, OnceInv,
            TypeInv, TypeOK
    <3> QED
        BY <3>1, <3>2 DEF Working
  <2>7. CASE JobStarted(t) \/ JobFailed(t)
    <3>1. task'[t].pc = "idle"
        BY <2>7 DEF JobStarted, JobFailed, Report, Finish, Idle, StableInv, OnceInv,
            TypeInv, TypeOK
    <3> QED
        BY <3>1 DEF Working
  <2> QED
      BY <2>2, <2>3, <2>4, <2>5, <2>6, <2>7 DEF TaskStep
<1>7. ASSUME NEW u \in Tasks, u # t, Live(u)
      PROVE  task'[u] = task[u] /\ dstate'[task'[u].row] = dstate[task[u].row]
    BY <1>1, <1>2, <1>7
<1>8. HeldPending'
  <2> SUFFICES ASSUME NEW u \in Tasks
               PROVE  /\ task'[u].pc \in Working => dstate'[task'[u].row] \in Unfinished
                      /\ task'[u].pc = "started" =>
                            dstate'[task'[u].row] = "submitted"
                      /\ task'[u].pc = "failjob" => dstate'[task'[u].row] = "failed"
      BY DEF HeldPending, At
  <2>1. CASE u = t
      BY <1>1, <1>6, <2>1 DEF Working
  <2>2. CASE u # t /\ Live(u)
      BY <1>7, <2>2 DEF StableInv, HeldPending, At
  <2>3. CASE u # t /\ ~Live(u)
      BY <1>1, <2>3 DEF Live, Working
  <2> QED
      BY <2>1, <2>2, <2>3
<1> QED
    BY <1>5, <1>8

\* A step that spawns a task for a queued row, ends tasks or changes no task,
\* and changes the state of no row a task holds.
LEMMA PendingTasks ==
    ASSUME StableInv,
           \A t \in Tasks : Live(t) => dstate'[task[t].row] = dstate[task[t].row],
           \A t \in Tasks : \/ task'[t] = task[t] \/ task'[t].pc = "idle"
                            \/ /\ task'[t].pc = "wait"
                               /\ dstate'[task'[t].row] = "queued"
    PROVE  HeldPending'
<1> SUFFICES ASSUME NEW t \in Tasks
             PROVE  /\ task'[t].pc \in Working => dstate'[task'[t].row] \in Unfinished
                    /\ task'[t].pc = "started" => dstate'[task'[t].row] = "submitted"
                    /\ task'[t].pc = "failjob" => dstate'[task'[t].row] = "failed"
    BY DEF HeldPending, At
<1>1. CASE task'[t] = task[t]
  <2>1. Live(t) => dstate'[task'[t].row] = dstate[task[t].row]
      BY <1>1
  <2>2. /\ task[t].pc \in Working => dstate[task[t].row] \in Unfinished
        /\ task[t].pc = "started" => dstate[task[t].row] = "submitted"
        /\ task[t].pc = "failjob" => dstate[task[t].row] = "failed"
      BY DEF StableInv, HeldPending, At
  <2> QED
      BY <1>1, <2>1, <2>2 DEF Live, Working
<1>2. CASE task'[t].pc = "idle"
    BY <1>2 DEF Working
<1>3. CASE task'[t].pc = "wait" /\ dstate'[task'[t].row] = "queued"
    BY <1>3 DEF Working, Unfinished
<1> QED
    BY <1>1, <1>2, <1>3

\* What a spawn does to tasks.
LEMMA SpawnFact ==
    ASSUME TypeInv, NEW d \in Rows, Spawn(d)
    PROVE  \A t \in Tasks : \/ task'[t] = task[t]
                            \/ task'[t].pc = "wait" /\ task'[t].row = d
    BY DEF Spawn, TypeInv, TypeOK

\* Recovery's steps, one by one.
LEMMA PendingRecovery ==
    ASSUME StableInv, NEW d \in Rows,
           \/ RecoverQueued(d) \/ MarkUncertain(d) \/ ReportUncertain(d)
           \/ SettleUncertainJob(d)
    PROVE  HeldPending' /\ CutInTurn'
<1>1. /\ TypeInv /\ NextRow(d) /\ rec.cut \subseteq Rows /\ rec.queued \subseteq Rows
      /\ \A t \in Tasks : Live(t) =>
            task[t].row \in Rows /\ task[t].row \notin rec.queued \union rec.cut
    BY TaskRow DEF RecoverQueued, MarkUncertain, ReportUncertain, SettleUncertainJob,
        StableInv, OnceInv, RecoveryApart, TypeInv, TypeOK
<1>2. CASE RecoverQueued(d)
  <2>1. /\ d \in rec.queued /\ dstate[d] = "queued" /\ Spawn(d) /\ dstate' = dstate
        /\ rec' = [rec EXCEPT !.queued = @ \ {d}] /\ rstep' = rstep
      BY <1>2 DEF RecoverQueued, StableInv, OnceInv, RecoveryApart, rowVars
  <2>2. HeldPending'
      BY <1>1, <2>1, SpawnFact, PendingTasks
  <2>3. rstep = "row"
      BY <1>1, <2>1, CutFirst
  <2>4. rec'.cut = rec.cut
      BY <1>1, <2>1 DEF TypeInv, TypeOK
  <2> QED
      BY <2>1, <2>2, <2>3, <2>4 DEF StableInv, CutInTurn
<1>3. CASE MarkUncertain(d)
  <2>1. /\ d \in rec.cut /\ rstep = "row" /\ rstep' = "fyi"
        /\ rec' = rec /\ task' = task
        /\ dstate'[d] = "uncertain" /\ \A e \in Rows : e # d => dstate'[e] = dstate[e]
      BY <1>1, <1>3 DEF MarkUncertain, SetDelivery, TypeInv, TypeOK
  <2>2. HeldPending'
      BY <1>1, <2>1, PendingTasks
  <2>3. NextRow(d)'
      BY <1>1, <2>1 DEF NextRow
  <2>4. \A e \in rec.cut : e # d => dstate'[e] \in {"writing", "written"}
      BY <1>1, <2>1 DEF StableInv, CutInTurn
  <2> QED
      BY <2>1, <2>2, <2>3, <2>4 DEF CutInTurn
<1>4. CASE ReportUncertain(d)
  <2>1. /\ rstep = "fyi" /\ rstep' = "job" /\ rec' = rec /\ task' = task
        /\ dstate' = dstate
      BY <1>4 DEF ReportUncertain, rowVars
  <2>2. HeldPending'
      BY <2>1, PendingTasks
  <2>3. NextRow(d)'
      BY <1>1, <2>1 DEF NextRow
  <2>4. /\ d \in rec.cut /\ dstate[d] = "uncertain"
        /\ \A e \in rec.cut : e # d => dstate[e] \in {"writing", "written"}
      BY <1>1, <2>1, CutFirst
  <2> QED
      BY <2>1, <2>2, <2>3, <2>4 DEF CutInTurn
<1>5. CASE SettleUncertainJob(d)
  <2>1. /\ rstep = "job" /\ rstep' = "row" /\ task' = task /\ dstate' = dstate
        /\ rec' = [rec EXCEPT !.cut = @ \ {d}]
      BY <1>5 DEF SettleUncertainJob, rowVars
  <2>2. HeldPending'
      BY <2>1, PendingTasks
  <2>3. \A e \in rec.cut : e # d => dstate[e] \in {"writing", "written"}
      BY <1>1, <2>1, CutFirst
  <2>4. rec'.cut = rec.cut \ {d}
      BY <1>1, <2>1 DEF TypeInv, TypeOK
  <2> QED
      BY <2>1, <2>2, <2>3, <2>4 DEF CutInTurn
<1> QED
    BY <1>2, <1>3, <1>4, <1>5

LEMMA StableStep == StableInv /\ [StableNext]_vars => StableInv'
<1> SUFFICES ASSUME StableInv, [StableNext]_vars PROVE StableInv'
    OBVIOUS
<1> DEFINE Kept == HeldPending' /\ CutInTurn'
<1>1. OnceInv' /\ WholeInv'
    BY OnceStep, WholeStep DEF StableInv, Next
<1>2. TypeInv
    BY DEF StableInv, OnceInv
<1>3. ASSUME NEW t \in Tasks, TaskStep(t) PROVE Kept
    BY <1>3, PendingTask
<1>4. ASSUME NEW d \in Rows,
             \/ RecoverQueued(d) \/ MarkUncertain(d) \/ ReportUncertain(d)
             \/ SettleUncertainJob(d)
      PROVE  Kept
    BY <1>4, PendingRecovery
<1>5. ASSUME NEW d \in Rows, NEW p \in Ptys, NEW j \in Jobs \union {NoJob},
             Deliver(d, p, j)
      PROVE  Kept
  <2>1. /\ dstate[d] = "none" /\ dstate'[d] = "queued" /\ Spawn(d)
        /\ \A e \in Rows : e # d => dstate'[e] = dstate[e]
        /\ rec' = rec /\ rstep' = rstep
      BY <1>2, <1>5 DEF Deliver, SetDelivery, svcVars, TypeInv, TypeOK
  <2>2. /\ \A t \in Tasks : Live(t) => task[t].row \in Rows /\ task[t].row # d
        /\ \A e \in rec.cut : e \in Rows /\ e # d
      BY <1>2, <2>1, TaskRow DEF TypeInv, TypeOK, RefOK
  <2>3. HeldPending'
      BY <1>2, <2>1, <2>2, SpawnFact, PendingTasks
  <2>4. \A e \in rec.cut : dstate'[e] = dstate[e]
      BY <2>1, <2>2
  <2>5. CutInTurn'
      BY <2>1, <2>4 DEF StableInv, CutInTurn, NextRow
  <2> QED
      BY <2>3, <2>5
<1>6. ASSUME Crash PROVE Kept
  <2>1. /\ \A t \in Tasks : task'[t].pc = "idle"
        /\ dstate' = dstate /\ rec'.cut = {} /\ rstep' = "row"
      BY <1>6 DEF Crash, Idle, rowVars
  <2>2. HeldPending'
      BY <2>1, PendingTasks
  <2> QED
      BY <2>1, <2>2 DEF CutInTurn
<1>7. ASSUME Restart PROVE Kept
  <2>1. /\ task' = task /\ dstate' = dstate /\ rstep' = rstep
        /\ rec' = UnfinishedDeliveries /\ rec.cut = {}
      BY <1>7 DEF Restart, rowVars, StableInv, OnceInv, RecoveryApart
  <2>2. HeldPending'
      BY <2>1, PendingTasks
  <2>3. rstep = "row"
      BY <2>1 DEF StableInv, CutInTurn
  <2> QED
      BY <2>1, <2>2, <2>3 DEF CutInTurn, UnfinishedDeliveries
<1>8. ASSUME UNCHANGED <<task, dstate, rec, rstep>> PROVE Kept
  <2>1. HeldPending'
      BY <1>8, PendingTasks
  <2>2. CutInTurn'
      BY <1>8 DEF StableInv, CutInTurn, NextRow
  <2> QED
      BY <2>1, <2>2
<1>9. Kept
  <2> HIDE DEF Kept
  <2> QED
      BY <1>3, <1>4, <1>5, <1>6, <1>7, <1>8
         DEF StableNext, TerminalStep, JobStep, SendStep, RecoveryStep, NewTerminal,
             Revoke, ChildExits, ContainerRestarts, AdmitJob, JobDone, EndRecovery,
             vars, rowVars, svcVars
<1> QED
    BY <1>1, <1>9 DEF StableInv

\* A settled row keeps its state and nothing of it is typed.
LEMMA SettledStep ==
    ASSUME StableInv, StableNext, NEW d \in Rows, dstate[d] \in Settled
    PROVE  dstate'[d] = dstate[d] /\ NothingTypedOf(d)
<1>1. TypeInv /\ dstate[d] \notin Unfinished /\ dstate[d] # "none"
    BY DEF StableInv, OnceInv, Settled, Unfinished
<1>2. \A t \in Tasks : task[t].pc \in Working => task[t].row # d
    BY <1>1 DEF StableInv, HeldPending
<1>3. ASSUME NEW t \in Tasks, TaskStep(t) PROVE dstate'[d] = dstate[d]
  <2>1. CASE task[t].row # d
      BY <1>1, <1>3, <2>1, TaskFrame
  <2>2. CASE task[t].pc \notin Working
      BY <1>3, <2>2 DEF TaskStep, TakeTurn, Resolve, WriteBody, WriteReturn, Write,
          NoteWritten, MarkSubmitted, SetSubmitted, SetFailed, Settle, JobStarted,
          JobFailed, Report, At, Working, rowVars
  <2> QED
      BY <1>2, <2>1, <2>2
<1>4. ASSUME NEW e \in Rows, NEW state, e # d, SetDelivery(e, state)
      PROVE  dstate'[d] = dstate[d]
    BY <1>1, <1>4 DEF SetDelivery, TypeInv, TypeOK
<1>5. ASSUME NEW e \in Rows, NEW p \in Ptys, NEW j \in Jobs \union {NoJob},
             Deliver(e, p, j)
      PROVE  dstate'[d] = dstate[d]
    BY <1>1, <1>4, <1>5 DEF Deliver
<1>6. ASSUME NEW e \in Rows, MarkUncertain(e) PROVE dstate'[d] = dstate[d]
  <2>1. e \in rec.cut /\ rstep = "row" /\ SetDelivery(e, "uncertain")
      BY <1>6 DEF MarkUncertain
  <2>2. e # d
      BY <1>1, <2>1 DEF StableInv, CutInTurn, Unfinished
  <2> QED
      BY <1>4, <2>1, <2>2
<1>7. dstate'[d] = dstate[d]
    BY <1>3, <1>5, <1>6
       DEF StableNext, TerminalStep, JobStep, SendStep, RecoveryStep, NewTerminal,
           Revoke, ChildExits, ContainerRestarts, AdmitJob, JobDone, Crash, Restart,
           RecoverQueued, ReportUncertain, SettleUncertainJob, EndRecovery, rowVars
<1>8. NothingTypedOf(d)
  <2>1. \A t \in Tasks, key \in {"body", "return"} : Writes(t, key) => task[t].row # d
      BY <1>2 DEF Writes, At, Working
  <2> QED
      BY <1>1, <2>1, NothingTyped DEF Next
<1> QED
    BY <1>7, <1>8

\* Under one registration a settled message is final: no crash, recovery or late
\* task changes its outcome or types anything of it (workspace.rs,
\* recover_deliveries and run_delivery).
THEOREM SettledIsFinal == StableSpec => SettledStays
<1>1. StableInv /\ [StableNext]_vars =>
        [\A d \in Rows : dstate[d] \in Settled =>
            dstate'[d] = dstate[d] /\ NothingTypedOf(d)]_vars
    BY SettledStep
<1> QED
    BY StableInit, StableStep, <1>1, PTL DEF StableSpec, SettledStays

-----------------------------------------------------------------------------
(* The ledger implements AtMostOnce: a message is accepted by Deliver, settled *)
(* by its task or by recovery, typed by the task's two writes.                 *)

\* The status the refinement mapping gives a row.
StatusOf(state) == IF state = "none" THEN "new"
                   ELSE IF state \in Settled THEN "settled" ELSE "pending"
Status == [d \in Rows |-> IF dstate[d] = "none" THEN "new"
                          ELSE IF dstate[d] \in Settled THEN "settled"
                          ELSE "pending"]

LEMMA PromiseInit == Init => Promise!Init
<1> SUFFICES ASSUME Init PROVE Promise!Init
    OBVIOUS
<1>1. \A d \in Rows : dstate[d] = "none"
    BY DEF Init
<1> QED
    BY <1>1 DEF Init, Promise!Init

\* A row that stays new, pending or settled is a stutter of its status.
LEMMA PromiseStutter ==
    ASSUME \A d \in Rows : StatusOf(dstate'[d]) = StatusOf(dstate[d])
    PROVE  Status' = Status
    BY DEF StatusOf, Status

\* A row accepted, or settled.
LEMMA PromiseMoves ==
    ASSUME TypeInv, UNCHANGED input, NEW d \in Rows, NEW state, SetDelivery(d, state),
           \/ StatusOf(dstate[d]) = "new" /\ StatusOf(state) = "pending"
           \/ StatusOf(dstate[d]) = "pending" /\ StatusOf(state) = "settled"
    PROVE  Promise!Next
<1>1. /\ dstate' = [dstate EXCEPT ![d] = state]
      /\ dstate \in [Rows -> {"none"} \union Unfinished \union Settled]
    BY DEF SetDelivery, TypeInv, TypeOK
<1>2. CASE StatusOf(dstate[d]) = "new" /\ StatusOf(state) = "pending"
  <2>1. Promise!Accept(d)
      BY <1>1, <1>2 DEF Promise!Accept, StatusOf
  <2> QED
      BY <2>1 DEF Promise!Next
<1>3. CASE StatusOf(dstate[d]) = "pending" /\ StatusOf(state) = "settled"
  <2>1. Promise!Settle(d)
      BY <1>1, <1>3 DEF Promise!Settle, StatusOf
  <2> QED
      BY <2>1 DEF Promise!Next
<1> QED
    BY <1>2, <1>3

\* A write that lands is the abstract body or the abstract Return.
LEMMA PromiseWrites ==
    ASSUME StableInv, NEW t \in Tasks, NEW key \in {"body", "return"},
           Writes(t, key), dstate' = dstate
    PROVE  Promise!Next
<1> DEFINE r == task[t].row
           c == task[t].child
<1>1. TypeInv /\ Live(t) /\ Lands(t, key)
    BY DEF Writes, At, Live, StableInv, OnceInv
<1>2. /\ r \in Rows /\ c \in Children
      /\ input' = [input EXCEPT ![c] = Append(@, <<r, key>>)]
    BY <1>1, TaskRow, LandsType DEF Lands
<1>3. dstate[r] \in Unfinished
    BY DEF Writes, At, StableInv, HeldPending, Working
<1>4. dstate[r] # "none" /\ dstate[r] \notin Settled
    BY <1>3 DEF Unfinished, Settled
<1>5. Status' = Status /\ Status[r] = "pending"
    BY <1>2, <1>4 DEF Status
<1>6. CASE key = "body"
  <2>1. ~Typed(r, "body")
      BY <1>2, <1>6 DEF Writes, At, StableInv, OnceInv, Untyped
  <2>2. Promise!TypeBody(r, c)
      BY <1>2, <1>5, <1>6, <2>1 DEF Promise!TypeBody, Promise!Written, Typed, Status
  <2> QED
      BY <1>2, <2>2 DEF Promise!Next
<1>7. CASE key = "return"
  <2>1. Len(input[c]) > 0 /\ input[c][Len(input[c])] = <<r, "body">>
      BY <1>2, <1>7 DEF Writes, At, StableInv, WholeInv, AfterBody
  <2>2. input[c] # <<>>
      BY <2>1
  <2>3. Promise!TypeReturn(r, c)
      BY <1>2, <1>5, <1>7, <2>1, <2>2 DEF Promise!TypeReturn, Status
  <2> QED
      BY <1>2, <2>3 DEF Promise!Next
<1> QED
    BY <1>6, <1>7

LEMMA PromiseStep ==
    ASSUME StableInv, [StableNext]_vars
    PROVE  Promise!Next \/ UNCHANGED <<Status, input>>
<1> DEFINE Good == Promise!Next \/ UNCHANGED <<Status, input>>
<1>1. TypeInv
    BY DEF StableInv, OnceInv
<1>2. ASSUME \A d \in Rows : StatusOf(dstate'[d]) = StatusOf(dstate[d]),
             UNCHANGED input
      PROVE  Good
    BY <1>2, PromiseStutter
<1>3. ASSUME NEW t \in Tasks, TaskStep(t), UNCHANGED input PROVE Good
  <2> DEFINE r == task[t].row
  <2>1. r \in Rows /\ \A d \in Rows : d # r => dstate'[d] = dstate[d]
      BY <1>1, <1>3, TaskFrame
  <2>2. CASE dstate' = dstate
      BY <1>2, <1>3, <2>2
  <2>3. CASE TakeTurn(t) \/ NoteWritten(t)
    <3>1. dstate'[r] \in Unfinished
        BY <1>1, <2>1, <2>3 DEF TakeTurn, NoteWritten, SetDelivery, Unfinished,
            TypeInv, TypeOK
    <3>2. dstate[r] \in Unfinished
        BY <2>3 DEF TakeTurn, NoteWritten, At, StableInv, HeldPending, Working
    <3>3. StatusOf(dstate'[r]) = StatusOf(dstate[r])
        BY <3>1, <3>2 DEF StatusOf, Unfinished, Settled
    <3> QED
        BY <1>2, <1>3, <2>1, <3>3
  <2>4. CASE SetSubmitted(t) \/ SetFailed(t)
    <3>1. PICK state \in Settled : SetDelivery(r, state)
        BY <2>4 DEF SetSubmitted, SetFailed, Settle, Settled
    <3>2. dstate[r] \in Unfinished
        BY <2>4 DEF SetSubmitted, SetFailed, Settle, At, StableInv, HeldPending, Working
    <3>3. StatusOf(dstate[r]) = "pending" /\ StatusOf(state) = "settled"
        BY <3>1, <3>2 DEF StatusOf, Unfinished, Settled
    <3> QED
        BY <1>1, <1>3, <2>1, <3>1, <3>3, PromiseMoves
  <2> QED
      BY <1>3, <2>2, <2>3, <2>4 DEF TaskStep, Resolve, WriteBody, WriteReturn, Write,
          MarkSubmitted, JobStarted, JobFailed, Report, rowVars
<1>4. ASSUME NEW d \in Rows, NEW p \in Ptys, NEW j \in Jobs \union {NoJob},
             Deliver(d, p, j)
      PROVE  Good
  <2>1. dstate[d] = "none" /\ SetDelivery(d, "queued") /\ UNCHANGED input
      BY <1>4 DEF Deliver, termVars
  <2>2. StatusOf(dstate[d]) = "new" /\ StatusOf("queued") = "pending"
      BY <2>1 DEF StatusOf, Settled
  <2> QED
      BY <1>1, <2>1, <2>2, PromiseMoves
<1>5. ASSUME NEW d \in Rows, MarkUncertain(d) PROVE Good
  <2>1. /\ d \in rec.cut /\ rstep = "row" /\ SetDelivery(d, "uncertain")
        /\ UNCHANGED input
      BY <1>5 DEF MarkUncertain, termVars
  <2>2. dstate[d] \in {"writing", "written"}
      BY <2>1 DEF StableInv, CutInTurn
  <2>3. StatusOf(dstate[d]) = "pending" /\ StatusOf("uncertain") = "settled"
      BY <2>2 DEF StatusOf, Settled
  <2> QED
      BY <1>1, <2>1, <2>3, PromiseMoves
<1>6. ASSUME UNCHANGED <<dstate, input>> PROVE Good
    BY <1>2, <1>6
<1>7. ASSUME NEW t \in Tasks, NEW key \in {"body", "return"}, Writes(t, key),
             UNCHANGED rowVars
      PROVE  Good
    BY <1>7, PromiseWrites DEF rowVars
<1>8. StableNext =>
        \/ UNCHANGED input
        \/ \E t \in Tasks, key \in {"body", "return"} : Writes(t, key) /\ UNCHANGED rowVars
    BY <1>1, InputStep DEF Next
<1>9. ASSUME UNCHANGED input PROVE Good
  <2> HIDE DEF Good
  <2> QED
      BY <1>3, <1>4, <1>5, <1>6, <1>9
         DEF StableNext, TerminalStep, JobStep, SendStep, RecoveryStep, NewTerminal,
             Revoke, ChildExits, ContainerRestarts, AdmitJob, JobDone, Crash, Restart,
             RecoverQueued, ReportUncertain, SettleUncertainJob, EndRecovery, vars,
             rowVars
<1> QED
    BY <1>6, <1>7, <1>8, <1>9 DEF vars, rowVars, termVars

\* Under one registration the ledger keeps the abstract promise: a message is
\* typed into one child at most, as one body followed at once by at most one
\* Return, and never after it is settled (workspace.rs, deliver and run_delivery).
THEOREM LedgerImplementsPromise == StableSpec => PromiseKept
<1>1. StableInv /\ [StableNext]_vars => [Promise!Next]_<<Status, input>>
    BY PromiseStep
<1>2. StableSpec => []StableInv
    BY StableInit, StableStep, PTL DEF StableSpec
<1>3. StableSpec => Promise!Init /\ [][Promise!Next]_<<Status, input>>
    BY PromiseInit, <1>1, <1>2, PTL DEF StableSpec
<1> QED
    BY <1>3, PTL DEF PromiseKept, Promise!Spec, Status

-----------------------------------------------------------------------------
(* What a sender is told is so.  Why: a job is delivered by one row, the row's *)
(* outcome is settled before the job's status is queued, and is final.         *)

JobOnce == \A d, e \in Rows : djob[d] \in Jobs /\ djob[d] = djob[e] => d = e

ToldOutcome == \A j \in Jobs :
    /\ "started" \in Range(told[j]) =>
          \E d \in Rows : djob[d] = j /\ dstate[d] = "submitted"
    /\ "failed" \in Range(told[j]) =>
          \E d \in Rows : djob[d] = j /\ dstate[d] \in {"failed", "uncertain"}

SenderInv == StableInv /\ TruthInv /\ JobOnce /\ ToldOutcome

LEMMA SenderInit == Init => SenderInv
<1> SUFFICES ASSUME Init PROVE SenderInv
    OBVIOUS
<1>1. \A d \in Rows : djob[d] \notin Jobs
    BY DeliveryAssumption DEF Init
<1>2. \A j \in Jobs : Range(told[j]) = {}
    BY DEF Init, Range
<1>3. JobOnce /\ ToldOutcome
    BY <1>1, <1>2 DEF JobOnce, ToldOutcome
<1> QED
    BY <1>3, StableInit, TruthInit DEF SenderInv

\* A transition tells the job's sender the wire name of the state, and no other.
LEMMA ToldBy ==
    ASSUME TypeOK, NEW j \in Jobs, NEW state, JobTransition(j, state),
           NEW k \in Jobs, NEW x \in Range(told'[k])
    PROVE  x \in Range(told[k]) \/ (k = j /\ x = Wire(state))
<1>1. told[k] \in Seq(JobStates) /\ Len(told[k]) \in Nat
    BY DEF TypeOK
<1>2. CASE k = j
  <2>1. told'[k] = Append(told[k], Wire(state))
      BY <1>2 DEF JobTransition, TypeOK
  <2>2. PICK i \in DOMAIN told'[k] : x = told'[k][i]
      BY DEF Range
  <2>3. i \in 1..(Len(told[k]) + 1) /\ DOMAIN told[k] = 1..Len(told[k])
      BY <1>1, <2>1, <2>2
  <2>4. CASE i \in 1..Len(told[k])
      BY <1>1, <2>1, <2>2, <2>3, <2>4 DEF Range
  <2>5. CASE i = Len(told[k]) + 1
      BY <1>1, <1>2, <2>1, <2>2, <2>5
  <2> QED
      BY <1>1, <2>3, <2>4, <2>5
<1>3. CASE k # j
    BY <1>3 DEF JobTransition, TypeOK
<1> QED
    BY <1>2, <1>3

\* The row that carries a job carries it for good, from the step that makes it.
LEMMA JobRows ==
    ASSUME StableInv, StableNext
    PROVE  \A d \in Rows : dstate[d] # "none" => djob'[d] = djob[d]
<1>1. ASSUME NEW d \in Rows, NEW p \in Ptys, NEW j \in Jobs \union {NoJob},
             Deliver(d, p, j)
      PROVE  \A e \in Rows : dstate[e] # "none" => djob'[e] = djob[e]
    BY <1>1 DEF Deliver, StableInv, OnceInv, TypeInv, TypeOK
<1>2. ASSUME NEW t \in Tasks, TaskStep(t) PROVE djob' = djob
    BY <1>2 DEF TaskStep, TakeTurn, Resolve, WriteBody, WriteReturn, Write, NoteWritten,
        MarkSubmitted, SetSubmitted, SetFailed, Settle, JobStarted, JobFailed, Report,
        rowVars
<1> QED
    BY <1>1, <1>2
       DEF StableNext, TerminalStep, JobStep, SendStep, RecoveryStep, NewTerminal,
           Revoke, ChildExits, ContainerRestarts, AdmitJob, JobDone, Crash, Restart,
           RecoverQueued, MarkUncertain, ReportUncertain, SettleUncertainJob,
           EndRecovery, rowVars

\* A job is handed to one row only.
LEMMA JobOnceStep ==
    ASSUME StableInv, JobOnce, StableNext
    PROVE  JobOnce'
<1>1. ASSUME NEW d \in Rows, NEW p \in Ptys, NEW j \in Jobs \union {NoJob},
             Undelivered(j), Deliver(d, p, j)
      PROVE  JobOnce'
  <2>1. djob' = [djob EXCEPT ![d] = j] /\ djob \in [Rows -> Jobs \union {NoJob}]
      BY <1>1 DEF Deliver, StableInv, OnceInv, TypeInv, TypeOK
  <2>2. j \in Jobs => \A e \in Rows : djob[e] # j
      BY <1>1, DeliveryAssumption DEF Undelivered
  <2> QED
      BY <2>1, <2>2 DEF JobOnce
<1>2. ASSUME NEW t \in Tasks, TaskStep(t) PROVE djob' = djob
    BY <1>2 DEF TaskStep, TakeTurn, Resolve, WriteBody, WriteReturn, Write, NoteWritten,
        MarkSubmitted, SetSubmitted, SetFailed, Settle, JobStarted, JobFailed, Report,
        rowVars
<1>3. ASSUME djob' = djob PROVE JobOnce'
    BY <1>3 DEF JobOnce
<1> QED
    BY <1>1, <1>2, <1>3
       DEF StableNext, TerminalStep, JobStep, SendStep, RecoveryStep, NewTerminal,
           Revoke, ChildExits, ContainerRestarts, AdmitJob, JobDone, Crash, Restart,
           RecoverQueued, MarkUncertain, ReportUncertain, SettleUncertainJob,
           EndRecovery, rowVars

\* The senders told something new, and what the ledger then says.
LEMMA ToldNew ==
    ASSUME StableInv, StableNext, NEW j \in Jobs, NEW x \in {"started", "failed"},
           x \in Range(told'[j])
    PROVE  \/ x \in Range(told[j])
           \/ \E d \in Rows : /\ djob[d] = j
                              /\ x = "started" => dstate[d] = "submitted"
                              /\ x = "failed" => dstate[d] \in {"failed", "uncertain"}
<1> DEFINE Good == \/ x \in Range(told[j])
                   \/ \E d \in Rows :
                        /\ djob[d] = j
                        /\ x = "started" => dstate[d] = "submitted"
                        /\ x = "failed" => dstate[d] \in {"failed", "uncertain"}
<1>1. TypeInv /\ TypeOK /\ JobOK
    BY DEF StableInv, OnceInv, TypeInv
<1>2. ASSUME told' = told PROVE Good
    BY <1>2
<1>3. ASSUME NEW k \in Jobs, NEW state \in {"accepted", "done", "blocked"},
             JobTransition(k, state)
      PROVE  Good
    BY <1>1, <1>3, ToldBy DEF Wire
<1>4. ASSUME NEW t \in Tasks, NEW from \in {"started", "failjob"}, NEW state \in
                 {"started", "failed"}, Report(t, from, state),
             from = "started" <=> state = "started"
      PROVE  Good
  <2>1. Live(t) /\ JobOf(t) \in Jobs /\ JobTransition(JobOf(t), state)
      BY <1>1, <1>4 DEF Report, At, Live, JobOK
  <2>2. task[t].row \in Rows /\ Wire(state) = state
      BY <1>1, <1>4, <2>1, TaskRow DEF Wire
  <2>3. /\ state = "started" => dstate[task[t].row] = "submitted"
        /\ state = "failed" => dstate[task[t].row] = "failed"
      BY <1>4 DEF Report, At, StableInv, HeldPending
  <2>4. x \in Range(told[j]) \/ (j = JobOf(t) /\ x = state)
      BY <1>1, <2>1, <2>2, ToldBy
  <2> QED
      BY <2>2, <2>3, <2>4 DEF JobOf
<1>5. ASSUME NEW d \in Rows, SettleUncertainJob(d) PROVE Good
  <2>1. dstate[d] = "uncertain"
      BY <1>5, CutFirst DEF SettleUncertainJob
  <2>2. CASE djob[d] = NoJob
      BY <1>2, <1>5, <2>2 DEF SettleUncertainJob, jobVars
  <2>3. CASE djob[d] # NoJob
    <3>1. djob[d] \in Jobs /\ JobTransition(djob[d], "uncertain")
        BY <1>1, <1>5, <2>3 DEF SettleUncertainJob, TypeOK
    <3>2. x \in Range(told[j]) \/ (j = djob[d] /\ x = "failed")
        BY <1>1, <3>1, ToldBy DEF Wire
    <3> QED
        BY <2>1, <3>2
  <2> QED
      BY <2>2, <2>3
<1>6. ASSUME NEW t \in Tasks, TaskStep(t) PROVE Good
  <2>1. CASE JobStarted(t)
      BY <1>4, <2>1 DEF JobStarted
  <2>2. CASE JobFailed(t)
      BY <1>4, <2>2 DEF JobFailed
  <2>3. CASE ~(JobStarted(t) \/ JobFailed(t))
    <3>1. told' = told
        BY <1>6, <2>3 DEF TaskStep, TakeTurn, Resolve, WriteBody, WriteReturn, Write,
            NoteWritten, MarkSubmitted, SetSubmitted, SetFailed, Settle, jobVars
    <3> QED
        BY <1>2, <3>1
  <2> QED
      BY <2>1, <2>2, <2>3
<1>7. ASSUME JobStep PROVE Good
    BY <1>3, <1>7 DEF JobStep, AdmitJob, JobDone, OpenJobs
<1>8. ASSUME SendStep PROVE Good
    BY <1>2, <1>8 DEF SendStep, Deliver, jobVars
<1>9. Good
  <2> HIDE DEF Good
  <2> QED
      BY <1>2, <1>5, <1>6, <1>7, <1>8
         DEF StableNext, TerminalStep, RecoveryStep, NewTerminal, Revoke, ChildExits,
             ContainerRestarts, Crash, Restart, RecoverQueued, MarkUncertain,
             ReportUncertain, EndRecovery, jobVars
<1> QED
    BY <1>9

LEMMA SenderStep == SenderInv /\ [StableNext]_vars => SenderInv'
<1> SUFFICES ASSUME SenderInv, [StableNext]_vars PROVE SenderInv'
    OBVIOUS
<1>1. StableInv' /\ TruthInv'
    BY StableStep, TruthStep DEF SenderInv, Next
<1>2. CASE StableNext
  <2>1. \A d \in Rows : dstate[d] \in Settled =>
          dstate'[d] = dstate[d] /\ djob'[d] = djob[d]
      BY <1>2, SettledStep, JobRows DEF SenderInv, Settled
  <2>2. ASSUME NEW j \in Jobs, "started" \in Range(told'[j])
        PROVE  \E d \in Rows : djob'[d] = j /\ dstate'[d] = "submitted"
    <3>1. \E d \in Rows : djob[d] = j /\ dstate[d] = "submitted"
        BY <1>2, <2>2, ToldNew DEF SenderInv, ToldOutcome
    <3> QED
        BY <2>1, <3>1 DEF Settled
  <2>3. ASSUME NEW j \in Jobs, "failed" \in Range(told'[j])
        PROVE  \E d \in Rows : djob'[d] = j /\ dstate'[d] \in {"failed", "uncertain"}
    <3>1. \E d \in Rows : djob[d] = j /\ dstate[d] \in {"failed", "uncertain"}
        BY <1>2, <2>3, ToldNew DEF SenderInv, ToldOutcome
    <3> QED
        BY <2>1, <3>1 DEF Settled
  <2>4. ToldOutcome'
      BY <2>2, <2>3 DEF ToldOutcome
  <2> QED
      BY <1>1, <1>2, <2>4, JobOnceStep DEF SenderInv
<1>3. CASE UNCHANGED vars
    BY <1>1, <1>3 DEF vars, rowVars, jobVars, SenderInv, JobOnce, ToldOutcome
<1> QED
    BY <1>2, <1>3

\* Under one registration a sender told `started` sent something an agent was
\* given whole, is never told `failed` too, and one told `failed` sent something
\* that failed or that nobody can vouch for (workspace.rs, job_transition).
THEOREM SendersToldTrue == StableSpec => []SenderToldTrue
<1>1. SenderInv => SenderToldTrue
  <2> SUFFICES ASSUME SenderInv, NEW j \in Jobs
               PROVE  /\ "started" \in Range(told[j]) =>
                           \E d \in Rows : djob[d] = j /\ Typed(d, "return")
                      /\ "failed" \in Range(told[j]) =>
                           /\ "started" \notin Range(told[j])
                           /\ \E d \in Rows : /\ djob[d] = j
                                              /\ dstate[d] \in {"failed", "uncertain"}
      BY DEF SenderToldTrue
  <2>1. /\ "started" \in Range(told[j]) =>
             \E d \in Rows : djob[d] = j /\ dstate[d] = "submitted"
        /\ "failed" \in Range(told[j]) =>
             \E d \in Rows : djob[d] = j /\ dstate[d] \in {"failed", "uncertain"}
      BY DEF SenderInv, ToldOutcome
  <2>2. \A d \in Rows : dstate[d] = "submitted" => Typed(d, "return")
      BY DEF SenderInv, TruthInv, ReportsTrue
  <2> QED
      BY <2>1, <2>2 DEF SenderInv, JobOnce
<1>2. SenderInv /\ [StableNext]_vars => SenderInv'
    BY SenderStep
<1> QED
    BY SenderInit, <1>1, <1>2, PTL DEF StableSpec
=============================================================================
