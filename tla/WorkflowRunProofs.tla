-------------------------- MODULE WorkflowRunProofs --------------------------
(***************************************************************************)
(* More theorems about Workflow, for every value of its constants: what a  *)
(* step's success rests on, and when a step is given to a fresh task.      *)
(***************************************************************************)
EXTENDS WorkflowProofs, FiniteSetTheorems

-----------------------------------------------------------------------------
(* The inductive invariant: what the one driver knows, what the rows it    *)
(* wrote and the decision it is about to write rest on.                    *)

\* The copy the driver works from is the run.
CopyTrue == \A d \in Drivers : Busy(d) /\ drv[d].at # "read" => drv[d].run = wf

AbsentTrue == wf.status = "absent" => wf = NoRun

\* A step's last attempt was made for it, in a round it has had.
LastTrue ==
    \A s \in Steps : wf.last[s] # NoAttempt =>
        /\ env[wf.last[s][1]].count > 0
        /\ \E n \in 0 .. wf.round[s] : env[wf.last[s][1]].purpose = <<s, n>>

\* Whom a task for purpose p may follow: what it would repeat has failed.
MayFollow(a, p) == a = NoAttempt \/ env[a[1]].purpose # p \/ State(a) \in {"failed", "cancelled"}
NextTrue ==
    \A d \in Drivers : drv[d].at \in Inside =>
        \/ MayFollow(wf.last[At(d)], <<At(d), wf.round[At(d)]>>)
        \/ drv[d].at # "reserve" /\ SameTask(wf.last[At(d)], A(d))

\* A success was read off a completed task of the round.
Passed(s, n) == \E x \in Envs : env[x].purpose = <<s, n>> /\ env[x].status = "completed"
OutTrue ==
    \A d \in Drivers :
        /\ (drv[d].at = "advance" /\ Kind[At(d)] = "agent" /\ drv[d].out # "failure")
             => Passed(At(d), wf.round[At(d)])
        /\ drv[d].at = "answer" => Kind[At(d)] \in {"human", "watch"}

\* The rounds a step was left in by an edge, one for each time, all passed.
Over(s, n) == n < wf.round[s] \/ (n = wf.round[s] /\ wf.current # s)
Rounds(R, e) ==
    /\ R \subseteq Nat /\ IsFiniteSet(R) /\ Cardinality(R) = wf.taken[e]
    /\ \A n \in R : Over(e.from, n) /\ Passed(e.from, n)
EarnedTrue ==
    \A e \in Edges : Kind[e.from] = "agent" /\ e.on # "failure" => \E R : Rounds(R, e)

RunKnown == CopyTrue /\ AbsentTrue /\ LastTrue /\ NextTrue /\ OutTrue /\ EarnedTrue
KnownInv == hasty \/ RunKnown

-----------------------------------------------------------------------------
(* What a step does.                                                       *)

(* What the ledger keeps: what a task is for, and how an attempt ended. *)
LEMMA LedgerKeeps ==
    ASSUME Inv, Next
    PROVE  /\ \A e \in Envs : env[e].count > 0 =>
                env'[e].count > 0 /\ env'[e].purpose = env[e].purpose
           /\ \A a \in Attempts : State(a) \in Settled => State(a)' = State(a)
           /\ \A e \in Envs : env[e].status = "completed" =>
                env[e].count > 0 /\ env'[e].status = "completed"
<1>1. LedgerMoves
  BY LedgerStep
<1>2. /\ \A e \in Envs : /\ env[e] \in Envelope /\ EnvelopeTrue(e)
                         /\ env'[e] \in Envelope /\ EnvelopeTrue(e)'
  BY <1>1, InvFacts DEF LedgerTrue, LedgerMoves
<1>3. \A x \in Envelope : x.count \in Nat
  BY LedgerAssumption DEF Envelope
<1>4. ASSUME NEW e \in Envs, env[e].count > 0
      PROVE  env'[e].count > 0 /\ env'[e].purpose = env[e].purpose
  <2>1. env[e].count \in Nat /\ env'[e].count \in Nat /\ env[e].count <= env'[e].count
    BY <1>1, <1>2, <1>3 DEF LedgerMoves
  <2> QED
    BY <1>1, <1>4, <2>1 DEF LedgerMoves
<1>5. ASSUME NEW a \in Attempts, State(a) \in Settled PROVE State(a)' = State(a)
  BY <1>1, <1>5 DEF LedgerMoves, Onward, Settled, Active
<1>6. ASSUME NEW e \in Envs, env[e].status = "completed"
      PROVE  env[e].count > 0 /\ env'[e].status = "completed"
  <2> DEFINE k == env[e].count
  <2>1. k \in 1 .. AttemptCap /\ env[e].tries[k] = "completed"
    <3>1. k # 0 /\ Fit(env[e].tries[k], k) = "completed"
      BY <1>2, <1>6 DEF EnvelopeTrue, StatusFor
    <3>2. env[e].tries[k] = "completed"
      BY <3>1 DEF Fit
    <3>3. k \in 0 .. AttemptCap /\ AttemptCap \in Nat
      BY <1>2, LedgerAssumption DEF Envelope
    <3> QED
      BY <3>1, <3>2, <3>3
  <2>2. <<e, k>> \in Attempts /\ State(<<e, k>>) = "completed"
    BY <2>1 DEF Attempts, State
  <2>3. env'[e].tries[k] = "completed"
    BY <1>5, <2>2 DEF State, Settled
  <2>4. env'[e].count = k
    <3>1. ~(k > env'[e].count) /\ ~(k < env'[e].count)
      BY <1>2, <2>1, <2>3 DEF EnvelopeTrue
    <3> QED
      BY <1>2, <1>3, <3>1
  <2>5. env'[e].status = Fit(env'[e].tries[k], k)
    BY <1>2, <2>1, <2>4 DEF EnvelopeTrue, StatusFor
  <2> QED
    BY <2>1, <2>3, <2>5 DEF Fit
<1> QED
  BY <1>4, <1>5, <1>6
(* A task that ran to its end passes the round it is for, for good. *)
LEMMA PassedStays ==
    ASSUME Inv, Next, NEW s, NEW n, Passed(s, n)
    PROVE  Passed(s, n)'
BY LedgerKeeps DEF Passed

LEMMA CompletedPasses ==
    ASSUME Inv, NEW a \in Attempts, State(a) = "completed"
    PROVE  \A s, n : env[a[1]].purpose = <<s, n>> => Passed(s, n)
<1> DEFINE e == a[1]  k == a[2]
<1>1. e \in Envs /\ k \in 1 .. AttemptCap /\ env[e].tries[k] = "completed"
  BY DEF Attempts, State
<1>2. env[e] \in Envelope /\ EnvelopeTrue(e)
  BY <1>1, InvFacts DEF LedgerTrue
<1>3. env[e].count = k
  <2>1. ~(k > env[e].count) /\ ~(k < env[e].count)
    BY <1>1, <1>2 DEF EnvelopeTrue
  <2>2. env[e].count \in Nat
    BY <1>2, LedgerAssumption DEF Envelope
  <2> QED
    BY <1>1, <2>1, <2>2
<1>4. env[e].status = "completed"
  <2>1. k # 0 /\ env[e].status = Fit("completed", k)
    BY <1>1, <1>2, <1>3 DEF EnvelopeTrue, StatusFor
  <2> QED
    BY <2>1 DEF Fit
<1> QED
  BY <1>1, <1>4 DEF Passed

\* How a step writes the run: it is made, it is marked, an attempt at its step
\* is recorded, or it goes on to another step.
Made   == wf.status = "absent" /\ wf'.last = NoRun.last /\ wf'.taken = NoRun.taken
Marked ==
    /\ wf.status # "absent" /\ (Crash \/ \E d \in Drivers : Pause(d) \/ Resume(d))
    /\ wf'.current = wf.current /\ wf'.round = wf.round
    /\ wf'.last = wf.last /\ wf'.taken = wf.taken
Records(d)  == RecordAttempt(d) /\ CurrentActive(At(d))
Advances(d) == Advance(d) /\ CurrentActive(At(d))
Writes ==
    /\ wf'.status # "absent"
    /\ Made \/ Marked \/ \E d \in Drivers : Records(d) \/ Advances(d)

(* Every step writes the run in one of these ways, or not at all. *)
LEMMA RunWrites ==
    ASSUME Inv, Next
    PROVE  UNCHANGED wf \/ Writes
<1>1. wf \in Run
  BY InvFacts
<1>2. ASSUME NEW d \in Drivers,
             \/ Read(d) \/ Finish(d) \/ Inspect(d) \/ ReserveTask(d) \/ Launch(d) \/ Spawn(d)
             \/ NotStarted(d) \/ Track(d) \/ Look(d) \/ Returned(d) \/ Failover(d) \/ TryAgain(d)
             \/ Gate(d) \/ GitOp(d) \/ Answer(d) \/ Deliver(d)
      PROVE  UNCHANGED wf
  BY <1>2 DEF Read, Finish, Inspect, ReserveTask, Launch, Spawn, NotStarted, Track, Look, Returned,
       Failover, TryAgain, Gate, GitOp, Answer, Deliver
<1>3. ASSUME NEW d \in Drivers, RecordAttempt(d) PROVE UNCHANGED wf \/ Writes
  <2>1. CASE CurrentActive(At(d))
    <3>1. wf'.status = "running"
      BY <1>1, <1>3, <2>1 DEF RecordAttempt, Recorded, Run
    <3> QED
      BY <1>3, <2>1, <3>1 DEF Records, Writes
  <2>2. CASE ~CurrentActive(At(d))
    BY <1>3, <2>2 DEF RecordAttempt
  <2> QED
    BY <2>1, <2>2
<1>4. ASSUME NEW d \in Drivers, Advance(d) PROVE UNCHANGED wf \/ Writes
  <2>1. CASE CurrentActive(At(d))
    <3>1. wf'.status # "absent"
      BY <1>4, <2>1, AdvanceRun DEF Ends
    <3> QED
      BY <1>4, <2>1, <3>1 DEF Advances, Writes
  <2>2. CASE ~CurrentActive(At(d))
    BY <1>4, <2>2 DEF Advance
  <2> QED
    BY <2>1, <2>2
<1>5. ASSUME NEW d \in Drivers, Pause(d) PROVE UNCHANGED wf \/ Writes
  <2>1. CASE CurrentActive(At(d))
    <3>1. wf.status # "absent"
      BY <2>1 DEF CurrentActive
    <3>2. wf' = [wf EXCEPT !.state[At(d)] = "waiting", !.status = "waiting"]
      BY <1>5, <2>1 DEF Pause, Recorded
    <3>3. /\ wf'.current = wf.current /\ wf'.round = wf.round
          /\ wf'.last = wf.last /\ wf'.taken = wf.taken /\ wf'.status = "waiting"
      BY <1>1, <3>2 DEF Run
    <3> QED
      BY <1>5, <3>1, <3>3 DEF Marked, Writes
  <2>2. CASE ~CurrentActive(At(d))
    BY <1>5, <2>2 DEF Pause
  <2> QED
    BY <2>1, <2>2
<1>6. ASSUME NEW d \in Drivers, Create(d) PROVE Writes
  <2>1. /\ wf.status = "absent"
        /\ wf' = [NoRun EXCEPT !.status = "running", !.current = Start, !.state[Start] = "running"]
    BY <1>6 DEF Create
  <2>2. wf'.status = "running" /\ wf'.last = NoRun.last /\ wf'.taken = NoRun.taken
    BY <2>1 DEF NoRun
  <2> QED
    BY <2>1, <2>2 DEF Made, Writes
<1>7. ASSUME NEW d \in Drivers, Resume(d) PROVE Writes
  <2>1. /\ wf.status = "interrupted"
        /\ wf' = [wf EXCEPT !.status = "running", !.state[wf.current] = "running"]
    BY <1>7 DEF Resume
  <2>2. /\ wf'.current = wf.current /\ wf'.round = wf.round
        /\ wf'.last = wf.last /\ wf'.taken = wf.taken /\ wf'.status = "running"
    BY <1>1, <2>1 DEF Run
  <2> QED
    BY <1>7, <2>1, <2>2 DEF Marked, Writes
<1>8. ASSUME Crash PROVE UNCHANGED wf \/ Writes
  <2>1. wf.status # "absent" /\ wf' = Reconciled
    BY <1>8 DEF Crash
  <2>2. CASE wf.status = "running"
    <3>1. wf' = [wf EXCEPT !.status = "interrupted", !.state[wf.current] = "interrupted"]
      BY <2>1, <2>2 DEF Reconciled
    <3>2. /\ wf'.current = wf.current /\ wf'.round = wf.round
          /\ wf'.last = wf.last /\ wf'.taken = wf.taken /\ wf'.status = "interrupted"
      BY <1>1, <3>1 DEF Run
    <3> QED
      BY <1>8, <2>1, <3>2 DEF Marked, Writes
  <2>3. CASE wf.status # "running"
    BY <2>1, <2>3 DEF Reconciled
  <2> QED
    BY <2>2, <2>3
<1>9. ASSUME \/ \E a \in Attempts : SpawnEnds(a) \/ AgentStep(a)
             \/ \E e \in Envs : (Persist(e) /\ UNCHANGED wfVars) \/ Cancel(e)
             \/ Announce \/ Reload
      PROVE  UNCHANGED wf
  BY <1>9 DEF SpawnEnds, AgentStep, Cancel, Announce, Reload, wfVars
<1> QED
  BY <1>2, <1>3, <1>4, <1>5, <1>6, <1>7, <1>8, <1>9 DEF Next, DriverStep, Calls

\* What a driver does in a step of its own: it comes to rest or is to read the
\* run, reads it to answer it, takes the run it has written, or goes on with the
\* run it has.
Rests(d)  == drv'[d].at \in {"idle", "read"}
Reads(d)  == drv'[d].at = "answer" /\ drv'[d].run = wf /\ Kind[wf.current] \in {"human", "watch"}
Enters(d) == drv'[d].at = "step" /\ drv'[d].run = wf'
Starts(d) ==
    /\ drv'[d].at = "launch" /\ drv'[d].run = wf' /\ drv'[d].a = A(d)
    /\ wf'.current \in Steps /\ wf'.last[wf'.current] = A(d)

Chooses(d)   == drv'[d].at = "reserve" /\ UNCHANGED env /\ Fresh(d)
Works(d)     == drv[d].at \in Held /\ drv'[d].at \in Held /\ drv'[d].a[1] = A(d)[1]
Concludes(d) ==
    /\ drv'[d].at = "advance" /\ UNCHANGED env
    /\ \/ drv'[d].out = "failure"
       \/ Kind[At(d)] # "agent"
       \/ At(d) \in Steps /\ Done(d)
       \/ drv[d].at = "look" /\ State(A(d)) = "completed"
GoesOn(d) ==
    /\ UNCHANGED wf /\ Busy(d) /\ drv[d].at # "read" /\ drv'[d].run = drv[d].run
    /\ Chooses(d) \/ ReserveTask(d) \/ Works(d) \/ Concludes(d)
Moves(d) ==
    \/ drv'[d] = drv[d]
    \/ Rests(d) \/ Reads(d) \/ Enters(d) \/ Starts(d) \/ GoesOn(d)

(* A step of one driver is no step of the others. *)
LEMMA OneMover ==
    ASSUME Inv, NEW d \in Drivers, DriverStep(d) \/ Calls(d)
    PROVE  \A c \in Drivers \ {d} : drv'[c] = drv[c]
<1>1. \E r : drv' = [drv EXCEPT ![d] = r]
  BY DEF DriverStep, Calls, Read, Finish, Inspect, ReserveTask, RecordAttempt,
     Launch, Spawn, NotStarted, Track, Look, Returned, Failover, TryAgain, Gate, GitOp, Pause, Advance,
     Create, Answer, Deliver, Resume, Goes, Decides, Ended, Answering
<1> QED
  BY <1>1, InvFacts

(* Each driver moves in one of these ways. *)
LEMMA DriverMoves ==
    ASSUME Inv, Next, NEW c \in Drivers
    PROVE  Moves(c)
<1>1. drv[c] \in Driver /\ Sound(drv[c]) /\ drv \in [Drivers -> Driver] /\ wf \in Run
  BY InvFacts
<1>2. ASSUME Ended(c) PROVE Moves(c)
  <2>1. drv'[c].at = "idle"
    BY <1>1, <1>2 DEF Ended, Asleep
  <2> QED
    BY <2>1 DEF Moves, Rests
<1>3. ASSUME NEW at, Goes(c, at)
      PROVE  drv'[c].at = at /\ drv'[c].run = drv[c].run /\ drv'[c].a = A(c)
  BY <1>1, <1>3 DEF Goes, Driver, A
<1>4. ASSUME NEW out, Decides(c, out)
      PROVE  drv'[c].at = "advance" /\ drv'[c].run = drv[c].run /\ drv'[c].out = out
  BY <1>1, <1>4 DEF Decides, Driver
<1>5. ASSUME Read(c) PROVE Moves(c)
  <2>1. CASE Ended(c)
    BY <1>2, <2>1
  <2>2. CASE drv' = [drv EXCEPT ![c].at = "step", ![c].run = wf] /\ UNCHANGED wf
    <3>1. drv'[c].at = "step" /\ drv'[c].run = wf'
      BY <1>1, <2>2 DEF Driver
    <3> QED
      BY <3>1 DEF Moves, Enters
  <2> QED
    BY <1>5, <2>1, <2>2 DEF Read
<1>6. ASSUME Inspect(c) \/ Gate(c) \/ GitOp(c) PROVE Moves(c)
  <2>1. UNCHANGED wf /\ UNCHANGED env /\ Busy(c) /\ drv[c].at # "read"
    BY <1>6 DEF Inspect, Gate, GitOp, OnStep, ledgerVars, Busy
  <2>2. CASE Ended(c)
    BY <1>2, <2>2
  <2>3. CASE Goes(c, "reserve") /\ Fresh(c)
    BY <1>3, <2>1, <2>3 DEF Moves, GoesOn, Chooses
  <2>4. CASE \E out : Decides(c, out) /\ (Kind[At(c)] # "agent" \/ Done(c))
    <3>1. At(c) \in Steps
      BY <1>1, <1>6 DEF Inspect, Gate, GitOp, OnStep, At, Driver, Run
    <3> QED
      BY <1>4, <2>1, <2>4, <3>1 DEF Moves, GoesOn, Concludes
  <2>5. Kind[At(c)] \in {"gate", "git-op"} \/ Inspect(c)
    BY <1>6 DEF Gate, GitOp, OnStep
  <2> QED
    BY <1>6, <2>2, <2>3, <2>4, <2>5 DEF Inspect, Gate, GitOp
<1>7. ASSUME ReserveTask(c) PROVE Moves(c)
  <2>1. drv'[c].run = drv[c].run
    BY <1>1, <1>7 DEF ReserveTask, Driver
  <2> QED
    BY <1>7, <2>1 DEF ReserveTask, Busy, Moves, GoesOn
<1>8. ASSUME RecordAttempt(c) PROVE Moves(c)
  <2>1. CASE Ended(c)
    BY <1>2, <2>1
  <2>2. CASE /\ CurrentActive(At(c))
             /\ wf' = [Recorded(At(c), "running") EXCEPT !.last[At(c)] = A(c)]
             /\ drv' = [drv EXCEPT ![c].at = "launch", ![c].run = wf']
    <3>1. drv'[c].at = "launch" /\ drv'[c].run = wf' /\ drv'[c].a = A(c)
      BY <1>1, <2>2 DEF Driver, A
    <3>2. /\ Recorded(At(c), "running") \in Run /\ At(c) \in Steps
          /\ Recorded(At(c), "running").current = At(c)
      BY <1>1, <2>2, RecordedRun DEF Inv
    <3>3. wf'.current \in Steps /\ wf'.last[wf'.current] = A(c)
      BY <2>2, <3>2 DEF Run
    <3> QED
      BY <3>1, <3>3 DEF Moves, Starts
  <2> QED
    BY <1>8, <2>1, <2>2 DEF RecordAttempt
<1>9. ASSUME UNCHANGED wf, drv[c].at \in Held, drv'[c].at \in Held,
             drv'[c].run = drv[c].run, drv'[c].a[1] = A(c)[1]
      PROVE  Moves(c)
  BY <1>9 DEF Moves, GoesOn, Works, Busy, Held
<1>10. ASSUME Launch(c) \/ Spawn(c) \/ NotStarted(c) \/ Track(c) PROVE Moves(c)
  <2>1. UNCHANGED wf /\ drv[c].at \in Held
    BY <1>10 DEF Launch, Spawn, NotStarted, Track, Held
  <2>2. PICK at \in {"unstarted", "spawn", "spawning", "decide", "look"} : Goes(c, at)
    BY <1>10 DEF Launch, Spawn, NotStarted, Track
  <2>3. at \in Held
    BY DEF Held
  <2> QED
    BY <1>3, <1>9, <2>1, <2>2, <2>3
<1>11. ASSUME Look(c) \/ Returned(c) \/ Failover(c) PROVE Moves(c)
  <2>1. /\ UNCHANGED wf /\ UNCHANGED env /\ drv[c].at \in Held /\ drv[c].at # "read" /\ Busy(c)
    BY <1>11 DEF Look, Returned, Failover, ledgerVars, Held, Busy
  <2>2. CASE \E at \in {"decide", "seen", "wait", "deaf", "again"} : Goes(c, at)
    <3>1. PICK at \in {"decide", "seen", "wait", "deaf", "again"} : Goes(c, at)
      BY <2>2
    <3>2. at \in Held
      BY DEF Held
    <3> QED
      BY <1>3, <1>9, <2>1, <3>1, <3>2
  <2>3. CASE Decides(c, "failure")
    BY <1>4, <2>1, <2>3 DEF Moves, GoesOn, Concludes
  <2>4. CASE drv[c].at = "look" /\ State(A(c)) = "completed" /\ \E out : Decides(c, out)
    BY <1>4, <2>1, <2>4 DEF Moves, GoesOn, Concludes
  <2> QED
    BY <1>11, <2>2, <2>3, <2>4 DEF Look, Returned, Failover
<1>12. ASSUME TryAgain(c) PROVE Moves(c)
  <2>1. CASE Ended(c)
    BY <1>2, <2>1
  <2>2. CASE drv' = [drv EXCEPT ![c].at = "record", ![c].a = <<A(c)[1], env[A(c)[1]].count + 1>>]
    <3>1. /\ drv'[c].at = "record" /\ drv'[c].run = drv[c].run
          /\ drv'[c].a = <<A(c)[1], env[A(c)[1]].count + 1>>
      BY <1>1, <2>2 DEF Driver
    <3>2. drv'[c].a[1] = A(c)[1] /\ drv[c].at \in Held /\ drv'[c].at \in Held /\ UNCHANGED wf
      BY <1>12, <3>1 DEF TryAgain, Held
    <3> QED
      BY <1>9, <3>1, <3>2
  <2> QED
    BY <1>12, <2>1, <2>2 DEF TryAgain
<1>13. ASSUME Advance(c) PROVE Moves(c)
  <2>1. CASE Ended(c)
    BY <1>2, <2>1
  <2>2. CASE CurrentActive(At(c))
    <3>1. drv' = [drv EXCEPT ![c] = [Asleep EXCEPT
              !.at = IF drv[c].at = "answer" THEN "read" ELSE "step", !.run = wf']]
      BY <1>13, <2>2 DEF Advance
    <3>2. drv'[c].at \in {"read", "step"} /\ drv'[c].run = wf'
      BY <1>1, <3>1 DEF Asleep
    <3> QED
      BY <3>2 DEF Moves, Rests, Enters
  <2> QED
    BY <1>13, <2>1, <2>2 DEF Advance
<1>14. ASSUME Answer(c) \/ Deliver(c) PROVE Moves(c)
  <2>1. \E out : Answering(c, out)
    BY <1>14 DEF Answer, Deliver
  <2>2. drv'[c].at = "answer" /\ drv'[c].run = wf
    BY <1>1, <2>1 DEF Answering
  <2>3. Kind[wf.current] \in {"human", "watch"}
    BY <1>14 DEF Answer, Deliver
  <2> QED
    BY <2>2, <2>3 DEF Moves, Reads
<1>15. ASSUME Create(c) \/ Resume(c) PROVE Moves(c)
  <2>1. drv'[c].at = "read"
    BY <1>3, <1>15 DEF Create, Resume
  <2> QED
    BY <2>1 DEF Moves, Rests
<1>16. ASSUME Finish(c) \/ Pause(c) PROVE Moves(c)
  BY <1>2, <1>16 DEF Finish, Pause
<1>17. ASSUME NEW d \in Drivers, DriverStep(d) \/ Calls(d) PROVE Moves(c)
  <2>1. CASE d = c
    BY <1>5, <1>6, <1>7, <1>8, <1>10, <1>11, <1>12, <1>13, <1>14, <1>15, <1>16, <1>17, <2>1
    DEF DriverStep, Calls
  <2>2. CASE d # c
    BY <1>17, <2>2, OneMover DEF Moves
  <2> QED
    BY <2>1, <2>2
<1>18. ASSUME NEW a \in Attempts, SpawnEnds(a) PROVE Moves(c)
  <2>1. UNCHANGED wf /\ \E at \in {"spawned", "unstarted"} : Answered(a, at)
    BY <1>18 DEF SpawnEnds
  <2>2. CASE drv[c].at = "spawning" /\ A(c) = a
    <3>1. PICK at \in {"spawned", "unstarted"} : drv'[c] = [drv[c] EXCEPT !.at = at]
      BY <2>1, <2>2 DEF Answered
    <3>2. drv'[c].at \in Held /\ drv[c].at \in Held /\ drv'[c].run = drv[c].run /\ drv'[c].a = A(c)
      BY <1>1, <2>2, <3>1 DEF Driver, A, Held
    <3> QED
      BY <1>9, <2>1, <3>2
  <2>3. CASE ~(drv[c].at = "spawning" /\ A(c) = a)
    BY <2>1, <2>3 DEF Answered, Moves
  <2> QED
    BY <2>2, <2>3
<1>19. ASSUME Announce PROVE Moves(c)
  <2>1. drv'[c] = [drv[c] EXCEPT !.at = Hearing(@)] /\ UNCHANGED wf
    BY <1>19 DEF Announce
  <2>2. drv'[c].at = Hearing(drv[c].at) /\ drv'[c].run = drv[c].run /\ drv'[c].a = A(c)
    BY <1>1, <2>1 DEF Driver, A
  <2>3. CASE Hearing(drv[c].at) = drv[c].at
    BY <1>1, <2>1, <2>3 DEF Driver, Moves
  <2>4. CASE drv[c].at \in AtWork /\ Hearing(drv[c].at) \in {"look", "overtaken"}
    <3>1. drv'[c].at \in Held /\ drv[c].at \in Held
      BY <2>2, <2>4 DEF AtWork, Held
    <3> QED
      BY <1>9, <2>1, <2>2, <3>1
  <2> QED
    BY <2>3, <2>4, Hears
<1>20. ASSUME Crash \/ Reload PROVE Moves(c)
  <2>1. drv'[c] = Asleep
    BY <1>20 DEF Crash, Reload
  <2> QED
    BY <2>1 DEF Moves, Rests, Asleep
<1>21. ASSUME \/ \E a \in Attempts : AgentStep(a)
              \/ \E e \in Envs : (Persist(e) /\ UNCHANGED wfVars) \/ Cancel(e)
       PROVE  Moves(c)
  BY <1>21 DEF AgentStep, Cancel, wfVars, Moves
<1> QED
  BY <1>17, <1>18, <1>19, <1>20, <1>21 DEF Next

-----------------------------------------------------------------------------
(* Every step keeps the invariant, as long as no answer comes early.       *)

(* While a driver is under way and stands still, nobody else writes the run. *)
LEMMA WriterAlone ==
    ASSUME Inv, Calm, Next, ~hasty', NEW c \in Drivers, Busy(c), drv'[c] = drv[c]
    PROVE  UNCHANGED wf
<1> SUFFICES ASSUME Writes PROVE FALSE
  BY RunWrites
<1>1. drv[c] \in Driver /\ drv \in [Drivers -> Driver]
  BY InvFacts
<1>2. wf.status \notin {"absent", "waiting", "interrupted"}
  BY DEF Calm, DriverKnows, Ends
<1>3. \A d \in Drivers : Busy(d) => c = d
  BY DEF Calm, OneDriver
<1>4. ASSUME NEW d \in Drivers, Pause(d) PROVE FALSE
  <2>1. Busy(d) /\ Ended(d)
    BY <1>4 DEF Pause, OnStep, Busy
  <2>2. drv'[c].at = "idle"
    BY <1>1, <1>3, <2>1 DEF Ended, Asleep
  <2> QED
    BY <2>2 DEF Busy
<1>5. ASSUME Crash PROVE FALSE
  <2>1. drv'[c].at = "idle"
    BY <1>5 DEF Crash, Asleep
  <2> QED
    BY <2>1 DEF Busy
<1>6. ASSUME NEW d \in Drivers, Resume(d) PROVE FALSE
  BY <1>2, <1>6 DEF Resume
<1>7. ASSUME NEW d \in Drivers, Records(d) PROVE FALSE
  <2>1. Busy(d) /\ drv[d].at = "record"
    BY <1>7 DEF Records, RecordAttempt, Busy
  <2>2. drv'[d].at = "launch"
    BY <1>1, <1>7 DEF Records, RecordAttempt, Driver
  <2> QED
    BY <1>3, <2>1, <2>2
<1>8. ASSUME NEW d \in Drivers, Advances(d) PROVE FALSE
  <2>1. /\ drv' = [drv EXCEPT ![d] = [Asleep EXCEPT
                !.at = IF drv[d].at = "answer" THEN "read" ELSE "step", !.run = wf']]
        /\ hasty' = (hasty \/ (drv[d].at = "answer" /\ wf.status # "waiting"))
        /\ drv[d].at \in {"advance", "answer"}
    BY <1>8 DEF Advances, Advance
  <2>2. drv[d].at = "advance" /\ Busy(d)
    BY <1>2, <2>1 DEF Busy
  <2>3. drv'[d].at = "step"
    BY <1>1, <2>1, <2>2 DEF Asleep
  <2> QED
    BY <1>3, <2>2, <2>3
<1> QED
  BY <1>2, <1>4, <1>5, <1>6, <1>7, <1>8 DEF Writes, Made, Marked

LEMMA CopyStep ==
    ASSUME Inv, Calm, Next, ~hasty', CopyTrue
    PROVE  CopyTrue'
<1> SUFFICES ASSUME NEW c \in Drivers, Busy(c)', drv'[c].at # "read" PROVE drv'[c].run = wf'
  BY DEF CopyTrue
<1>1. Moves(c)
  BY DriverMoves
<1>2. CASE drv'[c] = drv[c]
  <2>1. Busy(c) /\ UNCHANGED wf
    BY <1>2, WriterAlone DEF Busy
  <2> QED
    BY <1>2, <2>1 DEF CopyTrue
<1>3. CASE GoesOn(c)
  BY <1>3 DEF GoesOn, CopyTrue
<1> QED
  BY <1>1, <1>2, <1>3 DEF Moves, Rests, Reads, Enters, Starts, Busy

LEMMA AbsentStep ==
    ASSUME Inv, Next, AbsentTrue
    PROVE  AbsentTrue'
BY RunWrites DEF AbsentTrue, Writes

(* An attempt recorded for a step is found as it was, whatever the ledger does. *)
LEMMA LastKept ==
    ASSUME Inv, Next, LastTrue, NEW s \in Steps, NEW a, a = wf.last[s], a # NoAttempt
    PROVE  /\ a \in Attempts /\ a[1] \in Envs
           /\ env'[a[1]].count > 0 /\ env'[a[1]].purpose = env[a[1]].purpose
           /\ State(a) \in Settled => State(a)' = State(a)
<1>1. a \in Attempts /\ a[1] \in Envs
  BY InvFacts DEF Run, Attempts
<1> QED
  BY <1>1, LedgerKeeps DEF LastTrue

(* Going on to another step begins a round of it, and no other. *)
LEMMA AdvanceRounds ==
    ASSUME Inv, NEW d \in Drivers, Advances(d)
    PROVE  /\ wf'.last = wf.last
           /\ wf'.current \in Steps \union {NoStep}
           /\ \A s \in Steps : wf'.round[s] = IF s = wf'.current THEN wf.round[s] + 1 ELSE wf.round[s]
           /\ \E e \in Edges :
                /\ e.from = wf.current /\ e.on = drv[d].out /\ wf.current = At(d)
                /\ \A f \in Edges \ {e} : wf'.taken[f] = wf.taken[f]
                /\ wf'.taken[e] \in {wf.taken[e], wf.taken[e] + 1}
<1> DEFINE e == EdgeFor(At(d), drv[d].out)
           t == EdgeTarget(drv[d].run, e)
           left == Leave(e, drv[d].out, t)
<1>1. Sound(drv[d]) /\ drv[d].at \in {"advance", "answer"} /\ wf \in Run
  BY InvFacts DEF Advances, Advance
<1>2. e \in Edges /\ e.from = At(d) /\ t \in Steps \union Ends
  BY <1>1, EdgeTaken DEF At
<1>3. e.on = drv[d].out
  <2>1. PICK f \in Edges : f.from = drv[d].run.current /\ f.on = drv[d].out
    BY <1>1 DEF Sound
  <2> QED
    BY <2>1 DEF EdgeFor, At
<1>4. wf' = Advanced(e, drv[d].out, t) /\ wf.current = At(d)
  BY DEF Advances, Advance, CurrentActive
<1>5. /\ left = [wf EXCEPT !.state = left.state, !.taken = left.taken]
      /\ left.taken = [wf.taken EXCEPT ![e] = IF t = e.to THEN wf.taken[e] + 1 ELSE wf.taken[e]]
  BY <1>1 DEF Leave, Run
<1>6. /\ left.round = wf.round /\ left.last = wf.last
      /\ left = [status |-> wf.status, current |-> wf.current, state |-> left.state,
                 round |-> wf.round, last |-> wf.last, taken |-> left.taken]
  BY <1>1, <1>5 DEF Run
<1>7. /\ \A f \in Edges \ {e} : left.taken[f] = wf.taken[f]
      /\ left.taken[e] \in {wf.taken[e], wf.taken[e] + 1}
  BY <1>1, <1>2, <1>5 DEF Run
<1> HIDE DEF e, t, left
<1>8. CASE t \in Ends
  <2>1. wf' = [left EXCEPT !.status = t, !.current = NoStep]
    BY <1>4, <1>8 DEF Advanced, left
  <2>2. /\ wf'.last = wf.last /\ wf'.current = NoStep /\ wf'.round = wf.round
        /\ wf'.taken = left.taken
    BY <1>6, <2>1
  <2>3. /\ e.from = wf.current /\ e.on = drv[d].out /\ wf.current = At(d)
        /\ \A f \in Edges \ {e} : wf'.taken[f] = wf.taken[f]
        /\ wf'.taken[e] \in {wf.taken[e], wf.taken[e] + 1}
    BY <1>2, <1>3, <1>4, <1>7, <2>2
  <2>4. NoStep \notin Steps
    BY WorkflowAssumption
  <2> QED
    BY <1>2, <2>2, <2>3, <2>4
<1>9. CASE t \notin Ends
  <2>1. wf' = [left EXCEPT !.status = "running", !.current = t,
                           !.state[t] = "running", !.round[t] = @ + 1]
    BY <1>4, <1>9 DEF Advanced, left
  <2>2. /\ wf'.last = wf.last /\ wf'.current = t /\ wf'.taken = left.taken
        /\ wf'.round = [wf.round EXCEPT ![t] = wf.round[t] + 1]
    BY <1>6, <2>1
  <2>3. t \in Steps /\ \A s \in Steps : wf'.round[s] = IF s = t THEN wf.round[s] + 1 ELSE wf.round[s]
    BY <1>1, <1>2, <1>9, <2>2 DEF Run
  <2>4. /\ e.from = wf.current /\ e.on = drv[d].out /\ wf.current = At(d)
        /\ \A f \in Edges \ {e} : wf'.taken[f] = wf.taken[f]
        /\ wf'.taken[e] \in {wf.taken[e], wf.taken[e] + 1}
    BY <1>2, <1>3, <1>4, <1>7, <2>2
  <2> QED
    BY <1>2, <2>2, <2>3, <2>4
<1> QED
  BY <1>8, <1>9

(* Recording an attempt changes its row and nothing else that is counted. *)
LEMMA RecordsRow ==
    ASSUME Inv, NEW d \in Drivers, Records(d)
    PROVE  /\ wf.current = At(d) /\ At(d) \in Steps /\ A(d) \in Attempts
           /\ wf'.last = [wf.last EXCEPT ![At(d)] = A(d)]
           /\ wf'.current = wf.current /\ wf'.round = wf.round /\ wf'.taken = wf.taken
           /\ UNCHANGED env /\ drv[d].at = "record" /\ drv[d].at \in Inside
<1>1. Sound(drv[d]) /\ wf \in Run
  BY InvFacts
<1>2. /\ wf' = [Recorded(At(d), "running") EXCEPT !.last[At(d)] = A(d)]
      /\ UNCHANGED env /\ drv[d].at = "record" /\ wf.current = At(d)
  BY DEF Records, RecordAttempt, CurrentActive, ledgerVars
<1>3. drv[d].at \in Inside /\ drv[d].at \in Held
  BY <1>2 DEF Inside, Held
<1>4. At(d) \in Steps /\ A(d) \in Attempts
  BY <1>1, <1>3 DEF Sound, At, A
<1>5. wf' = [wf EXCEPT !.state = [wf.state EXCEPT ![At(d)] = "running"], !.status = "running",
                       !.last = [wf.last EXCEPT ![At(d)] = A(d)]]
  BY <1>1, <1>2 DEF Recorded, Run
<1>6. /\ wf'.last = [wf.last EXCEPT ![At(d)] = A(d)]
      /\ wf'.current = wf.current /\ wf'.round = wf.round /\ wf'.taken = wf.taken
  BY <1>1, <1>5 DEF Run
<1> QED
  BY <1>2, <1>3, <1>4, <1>6

LEMMA LastStep ==
    ASSUME Inv, Calm, Next, LastTrue
    PROVE  LastTrue'
<1> SUFFICES ASSUME NEW s \in Steps, NEW a, a = wf'.last[s], a # NoAttempt
             PROVE  env'[a[1]].count > 0 /\ \E n \in 0 .. wf'.round[s] : env'[a[1]].purpose = <<s, n>>
  BY DEF LastTrue
<1>1. wf \in Run /\ wf.round[s] \in Nat
  BY InvFacts DEF Run
<1>2. ASSUME wf'.last = wf.last, wf'.round[s] \in {wf.round[s], wf.round[s] + 1}
      PROVE  env'[a[1]].count > 0 /\ \E n \in 0 .. wf'.round[s] : env'[a[1]].purpose = <<s, n>>
  <2>1. a = wf.last[s] /\ env'[a[1]].count > 0 /\ env'[a[1]].purpose = env[a[1]].purpose
    BY <1>2, LastKept
  <2>2. PICK n \in 0 .. wf.round[s] : env[a[1]].purpose = <<s, n>>
    BY <2>1 DEF LastTrue
  <2>3. n \in 0 .. wf'.round[s]
    BY <1>1, <1>2
  <2> QED
    BY <2>1, <2>2, <2>3
<1>3. CASE UNCHANGED wf
  BY <1>2, <1>3
<1>4. CASE Made
  BY <1>4 DEF Made, NoRun
<1>5. CASE Marked
  BY <1>2, <1>5 DEF Marked
<1>6. ASSUME NEW d \in Drivers, Records(d)
      PROVE  env'[a[1]].count > 0 /\ \E n \in 0 .. wf'.round[s] : env'[a[1]].purpose = <<s, n>>
  <2>1. /\ At(d) \in Steps /\ A(d) \in Attempts /\ UNCHANGED env /\ wf'.round = wf.round
        /\ wf'.last = [wf.last EXCEPT ![At(d)] = A(d)] /\ drv[d].at = "record"
    BY <1>6, RecordsRow
  <2>2. CASE s = At(d)
    <3>1. a = A(d)
      BY <1>1, <2>1, <2>2 DEF Run
    <3>2. Busy(d) /\ drv[d].at \in Held /\ drv[d].at # "read"
      BY <2>1 DEF Busy, Held
    <3>3. env[a[1]].count > 0 /\ env[a[1]].purpose = <<s, wf.round[s]>>
      BY <2>2, <3>1, <3>2 DEF Calm, HeldTrue, DriverKnows
    <3>4. wf'.round[s] \in 0 .. wf'.round[s]
      BY <1>1, <2>1
    <3> QED
      BY <2>1, <3>3, <3>4
  <2>3. CASE s # At(d)
    <3>1. a = wf.last[s]
      BY <1>1, <2>1, <2>3 DEF Run
    <3> QED
      BY <2>1, <3>1 DEF LastTrue
  <2> QED
    BY <2>2, <2>3
<1>7. ASSUME NEW d \in Drivers, Advances(d)
      PROVE  env'[a[1]].count > 0 /\ \E n \in 0 .. wf'.round[s] : env'[a[1]].purpose = <<s, n>>
  BY <1>2, <1>7, AdvanceRounds
<1> QED
  BY <1>3, <1>4, <1>5, <1>6, <1>7, RunWrites DEF Writes

(* Whom a task may follow, it may follow for good. *)
LEMMA FollowKept ==
    ASSUME Inv, Next, LastTrue, NEW s \in Steps, NEW a, a = wf.last[s],
           NEW p, MayFollow(a, p)
    PROVE  MayFollow(a, p)'
<1>1. CASE a = NoAttempt
  BY <1>1 DEF MayFollow
<1>2. CASE a # NoAttempt
  <2>1. env'[a[1]].purpose = env[a[1]].purpose /\ (State(a) \in Settled => State(a)' = State(a))
    BY <1>2, LastKept
  <2> QED
    BY <1>2, <2>1 DEF MayFollow, Settled
<1> QED
  BY <1>1, <1>2

LEMMA NextStep ==
    ASSUME Inv, Calm, Next, ~hasty', CopyTrue, LastTrue, NextTrue
    PROVE  NextTrue'
<1> SUFFICES ASSUME NEW c \in Drivers, drv'[c].at \in Inside,
                    NEW s, s = At(c)', NEW a, a = wf'.last[s], NEW p, p = <<s, wf'.round[s]>>
             PROVE  MayFollow(a, p)' \/ (drv'[c].at # "reserve" /\ a[1] = drv'[c].a[1])
  BY DEF NextTrue, SameTask, A
<1>1. Moves(c) /\ drv'[c].at \notin {"idle", "read", "answer", "step", "advance"}
  BY DriverMoves DEF Inside, Held
<1>2. ASSUME UNCHANGED wf, drv'[c].run = drv[c].run, drv[c].at \in Inside
      PROVE  /\ s = At(c) /\ s \in Steps /\ a = wf.last[s]
             /\ \/ MayFollow(a, p)'
                \/ drv[c].at # "reserve" /\ a[1] = drv[c].a[1]
  <2>1. s = At(c) /\ s \in Steps /\ a = wf.last[s] /\ p = <<s, wf.round[s]>>
    BY <1>2, InvFacts DEF Sound, At
  <2>2. MayFollow(a, p) \/ (drv[c].at # "reserve" /\ a[1] = drv[c].a[1])
    BY <1>2, <2>1 DEF NextTrue, SameTask, A
  <2> QED
    BY <2>1, <2>2, FollowKept
<1>3. CASE drv'[c] = drv[c]
  <2>1. Busy(c)
    BY <1>3 DEF Busy, Inside, Held
  <2> QED
    BY <1>2, <1>3, <2>1, WriterAlone
<1>4. CASE GoesOn(c)
  <2>1. UNCHANGED wf /\ drv[c].run = wf /\ drv'[c].run = drv[c].run
    BY <1>4 DEF GoesOn, CopyTrue
  <2>2. CASE Chooses(c)
    <3>1. s = At(c) /\ a = Previous(c) /\ p = <<s, drv[c].run.round[s]>> /\ UNCHANGED env
      BY <2>1, <2>2 DEF Chooses, At, Previous
    <3>2. MayFollow(a, p)
      BY <2>2, <3>1 DEF Chooses, Fresh, SameRound, MayFollow
    <3> QED
      BY <3>1, <3>2 DEF MayFollow, State
  <2>3. CASE ReserveTask(c)
    <3>1. drv[c].at = "reserve" /\ drv[c].at \in Inside
      BY <2>3 DEF ReserveTask, Inside
    <3> QED
      BY <1>2, <2>1, <3>1
  <2>4. CASE Works(c)
    <3>1. /\ drv[c].at \in Inside /\ drv'[c].at # "reserve" /\ drv'[c].a[1] = drv[c].a[1]
      BY <2>4 DEF Works, Inside, Held, A
    <3> QED
      BY <1>2, <2>1, <3>1
  <2> QED
    BY <1>1, <1>4, <2>2, <2>3, <2>4 DEF GoesOn, Concludes
<1>5. CASE Starts(c)
  <2>1. drv'[c].run = wf' /\ s = wf'.current /\ a = A(c) /\ drv'[c].at = "launch" /\ drv'[c].a = A(c)
    BY <1>5 DEF Starts, At
  <2> QED
    BY <2>1
<1> QED
  BY <1>1, <1>3, <1>4, <1>5 DEF Moves, Rests, Reads, Enters

LEMMA OutStep ==
    ASSUME Inv, Calm, Next, ~hasty', CopyTrue, LastTrue, OutTrue
    PROVE  OutTrue'
<1>1. ASSUME NEW c \in Drivers, NEW s, s = At(c)',
             drv'[c].at = "advance", Kind[s] = "agent", drv'[c].out # "failure"
      PROVE  Passed(s, wf.round[s])'
  <2>1. Moves(c)
    BY DriverMoves
  <2>2. CASE drv'[c] = drv[c]
    <3>1. Busy(c) /\ UNCHANGED wf
      BY <1>1, <2>2, WriterAlone DEF Busy
    <3>2. s = At(c) /\ Passed(s, wf.round[s])
      BY <1>1, <2>2 DEF OutTrue, At
    <3> QED
      BY <3>1, <3>2, PassedStays
  <2>3. CASE GoesOn(c) /\ Concludes(c)
    <3>1. s = At(c) /\ drv[c].run = wf /\ UNCHANGED <<wf, env>>
      BY <1>1, <2>3 DEF GoesOn, Concludes, CopyTrue, At
    <3>2. CASE At(c) \in Steps /\ Done(c)
      <4> DEFINE a == wf.last[s]
      <4>1. a # NoAttempt /\ State(a) = "completed" /\ SameRound(c) /\ Previous(c) = a
        BY <3>1, <3>2 DEF Done, Previous
      <4>2. PICK n \in 0 .. wf.round[s] : env[a[1]].purpose = <<s, n>>
        BY <3>1, <3>2, <4>1 DEF LastTrue
      <4>3. n = wf.round[s]
        <5>1. wf.round[s] \in Nat
          BY <3>1, <3>2, InvFacts DEF Run
        <5>2. env[a[1]].purpose = <<s, wf.round[s]>> \/ wf.round[s] = 0
          BY <3>1, <4>1 DEF SameRound
        <5> QED
          BY <4>2, <5>1, <5>2
      <4>4. a \in Attempts
        BY <3>1, <3>2, <4>1, InvFacts DEF Run
      <4>5. Passed(s, wf.round[s])
        BY <4>1, <4>2, <4>3, <4>4, CompletedPasses
      <4> QED
        BY <3>1, <4>5 DEF Passed
    <3>3. CASE drv[c].at = "look" /\ State(A(c)) = "completed"
      <4>1. drv[c].at \in Held /\ A(c) \in Attempts
        BY <3>3, InvFacts DEF Held, Sound, A
      <4>2. env[A(c)[1]].purpose = <<s, wf.round[s]>>
        BY <3>1, <4>1 DEF Calm, HeldTrue
      <4>3. Passed(s, wf.round[s])
        BY <3>3, <4>1, <4>2, CompletedPasses
      <4> QED
        BY <3>1, <4>3 DEF Passed
    <3> QED
      BY <1>1, <2>3, <3>1, <3>2, <3>3 DEF Concludes
  <2>4. ~Rests(c) /\ ~Reads(c) /\ ~Enters(c) /\ ~Starts(c)
    BY <1>1 DEF Rests, Reads, Enters, Starts
  <2>5. ~Chooses(c) /\ ~ReserveTask(c) /\ ~Works(c)
    <3>1. ASSUME ReserveTask(c) PROVE FALSE
      <4>1. drv'[c].at = "record"
        BY <3>1, InvFacts DEF ReserveTask, Driver
      <4> QED
        BY <1>1, <4>1
    <3> QED
      BY <1>1, <3>1 DEF Chooses, Works, Held
  <2> QED
    BY <2>1, <2>2, <2>3, <2>4, <2>5 DEF Moves, GoesOn
<1>2. ASSUME NEW c \in Drivers, drv'[c].at = "answer" PROVE Kind[At(c)'] \in {"human", "watch"}
  <2>1. Moves(c)
    BY DriverMoves
  <2>2. CASE drv'[c] = drv[c]
    BY <1>2, <2>2 DEF OutTrue, At
  <2>3. CASE Reads(c)
    BY <2>3 DEF Reads, At
  <2>4. ~GoesOn(c)
    <3>1. ASSUME ReserveTask(c) PROVE FALSE
      <4>1. drv'[c].at = "record"
        BY <3>1, InvFacts DEF ReserveTask, Driver
      <4> QED
        BY <1>2, <4>1
    <3> QED
      BY <1>2, <3>1 DEF GoesOn, Chooses, Works, Concludes, Held
  <2> QED
    BY <1>2, <2>1, <2>2, <2>3, <2>4 DEF Moves, Rests, Enters, Starts
<1> QED
  BY <1>1, <1>2 DEF OutTrue

(* Each success of a step takes a round of its own. *)
LEMMA EarnedStep ==
    ASSUME Inv, Next, OutTrue, EarnedTrue
    PROVE  EarnedTrue'
<1> SUFFICES ASSUME NEW e \in Edges, Kind[e.from] = "agent", e.on # "failure"
             PROVE  \E R : Rounds(R, e)'
  BY DEF EarnedTrue
<1>0. PICK s : s = e.from
  OBVIOUS
<1>1. PICK R : Rounds(R, e)
  BY DEF EarnedTrue
<1>2. /\ R \subseteq Nat /\ IsFiniteSet(R) /\ Cardinality(R) = wf.taken[e]
      /\ \A n \in R : Over(s, n) /\ Passed(s, n)'
  BY <1>0, <1>1, PassedStays DEF Rounds
<1>3. s \in Steps /\ wf.round[s] \in Nat /\ wf.taken[e] \in Nat
  BY <1>0, InvFacts, WorkflowAssumption DEF Run
<1>4. CASE UNCHANGED wf
  BY <1>0, <1>2, <1>4 DEF Rounds, Over
<1>5. ASSUME wf'.taken[e] = wf.taken[e], wf'.round[s] = wf.round[s], wf'.current = wf.current
      PROVE  \E Q : Rounds(Q, e)'
  BY <1>0, <1>2, <1>5 DEF Rounds, Over
<1>6. CASE Made
  <2>1. wf'.taken[e] = 0
    BY <1>6 DEF Made, NoRun
  <2>2. Rounds({}, e)'
    BY <2>1, FS_EmptySet DEF Rounds
  <2> QED
    BY <2>2
<1>7. CASE Marked
  BY <1>5, <1>7 DEF Marked
<1>8. ASSUME NEW d \in Drivers, Records(d) PROVE \E Q : Rounds(Q, e)'
  BY <1>5, <1>8, RecordsRow
<1>9. ASSUME NEW d \in Drivers, Advances(d) PROVE \E Q : Rounds(Q, e)'
  <2>1. PICK f \in Edges :
          /\ f.from = wf.current /\ f.on = drv[d].out /\ wf.current = At(d)
          /\ \A g \in Edges \ {f} : wf'.taken[g] = wf.taken[g]
          /\ wf'.taken[f] \in {wf.taken[f], wf.taken[f] + 1}
    BY <1>9, AdvanceRounds
  <2>2. wf'.round[s] = IF s = wf'.current THEN wf.round[s] + 1 ELSE wf.round[s]
    BY <1>3, <1>9, AdvanceRounds
  <2>3. ASSUME NEW n \in Nat, n <= wf.round[s] PROVE Over(s, n)'
    BY <1>3, <2>2, <2>3 DEF Over
  <2>4. \A n \in R : n \in Nat /\ n <= wf.round[s]
    BY <1>2, <1>3 DEF Over
  <2>5. CASE wf'.taken[e] = wf.taken[e]
    <3>1. Rounds(R, e)'
      BY <1>0, <1>2, <2>3, <2>4, <2>5 DEF Rounds
    <3> QED
      BY <3>1
  <2>6. CASE wf'.taken[e] # wf.taken[e]
    <3>0. PICK n : n = wf.round[s]
      OBVIOUS
    <3>1. /\ f = e /\ wf'.taken[e] = wf.taken[e] + 1
          /\ s = At(d) /\ s = wf.current /\ drv[d].out # "failure"
      BY <1>0, <2>1, <2>6
    <3>2. drv[d].at = "advance"
      BY <1>0, <1>9, <3>1 DEF Advances, Advance, OutTrue
    <3>3. Passed(s, n) /\ Passed(s, n)'
      <4>1. Passed(s, n)
        BY <1>0, <3>0, <3>1, <3>2 DEF OutTrue
      <4> QED
        BY <4>1, PassedStays
    <3>4. n \notin R
      BY <1>2, <1>3, <3>0, <3>1 DEF Over
    <3>5. IsFiniteSet(R \cup {n}) /\ Cardinality(R \cup {n}) = wf'.taken[e]
      <4>1. IsFiniteSet(R)
        BY <1>2
      <4>2. /\ IsFiniteSet(R \cup {n})
            /\ Cardinality(R \cup {n}) = IF n \in R THEN Cardinality(R) ELSE Cardinality(R) + 1
        BY <4>1, FS_AddElement
      <4> QED
        BY <1>2, <3>1, <3>4, <4>2
    <3>6. \A m \in R \cup {n} : m \in Nat /\ Over(s, m)' /\ Passed(s, m)'
      <4>1. ASSUME NEW m \in R PROVE m \in Nat /\ Over(s, m)' /\ Passed(s, m)'
        BY <1>2, <2>3, <2>4, <4>1
      <4>2. n \in Nat /\ n <= wf.round[s]
        BY <1>3, <3>0
      <4> QED
        BY <2>3, <3>3, <4>1, <4>2
    <3>7. Rounds(R \cup {n}, e)'
      BY <1>0, <3>5, <3>6 DEF Rounds
    <3> QED
      BY <3>7
  <2> QED
    BY <2>5, <2>6
<1> QED
  BY <1>4, <1>6, <1>7, <1>8, <1>9, RunWrites DEF Writes

LEMMA KnownInit == Init => RunKnown
<1> SUFFICES ASSUME Init PROVE RunKnown
  OBVIOUS
<1>1. wf = NoRun /\ \A d \in Drivers : drv[d].at = "idle"
  BY DEF Init, Asleep
<1>2. CopyTrue /\ AbsentTrue /\ NextTrue /\ OutTrue
  BY <1>1 DEF CopyTrue, AbsentTrue, NextTrue, OutTrue, Busy, Inside, Held
<1>3. LastTrue
  BY <1>1 DEF LastTrue, NoRun
<1>4. ASSUME NEW e \in Edges PROVE Rounds({}, e)
  BY <1>1, FS_EmptySet DEF Rounds, NoRun
<1>5. EarnedTrue
  BY <1>4 DEF EarnedTrue
<1> QED
  BY <1>2, <1>3, <1>5 DEF RunKnown

LEMMA KnownNext == Inv /\ OneInv /\ KnownInv /\ [Next]_vars => KnownInv'
<1> SUFFICES ASSUME Inv, OneInv, KnownInv, [Next]_vars PROVE KnownInv'
  OBVIOUS
<1>1. CASE UNCHANGED vars
  <2>1. UNCHANGED <<env, wf, drv, hasty>>
    BY <1>1 DEF vars, ledgerVars, wfVars
  <2>2. CASE hasty
    BY <2>1, <2>2 DEF KnownInv
  <2>3. CASE RunKnown
    <3>1. CopyTrue' /\ AbsentTrue' /\ LastTrue'
      BY <2>1, <2>3 DEF RunKnown, CopyTrue, AbsentTrue, LastTrue, Busy
    <3>2. NextTrue' /\ OutTrue'
      BY <2>1, <2>3 DEF RunKnown, NextTrue, OutTrue, MayFollow, SameTask, State, At, A, Passed
    <3>3. EarnedTrue'
      BY <2>1, <2>3 DEF RunKnown, EarnedTrue, Rounds, Over, Passed
    <3> QED
      BY <3>1, <3>2, <3>3 DEF KnownInv, RunKnown
  <2> QED
    BY <2>2, <2>3 DEF KnownInv
<1>2. CASE hasty'
  BY <1>2 DEF KnownInv
<1>3. CASE Next /\ ~hasty'
  <2>1. Calm /\ RunKnown
    BY <1>3, HastyStays DEF OneInv, KnownInv
  <2>2. CopyTrue' /\ AbsentTrue' /\ LastTrue' /\ NextTrue' /\ OutTrue' /\ EarnedTrue'
    BY <1>3, <2>1, CopyStep, AbsentStep, LastStep, NextStep, OutStep, EarnedStep DEF RunKnown
  <2> QED
    BY <2>2 DEF KnownInv, RunKnown
<1> QED
  BY <1>1, <1>2, <1>3

LEMMA KnownAlways == Spec => []KnownInv
<1>1. Init => KnownInv
  BY KnownInit DEF KnownInv
<1> QED
  BY <1>1, KnownNext, InvAlways, OneInvAlways, PTL DEF Spec

\* A step goes over to a fresh task within a round only from an attempt that
\* ended as failed or cancelled, as long as no answer moved a run that was not
\* waiting for it (workflowExecutor.ts, executeAgent): the driver found it so
\* when it read its copy of the run, and nobody else has written the run since.
THEOREM NothingTwice == Spec => NoDoubleWork
<1> DEFINE Goal == hasty' \/ \A s \in Steps :
                     LET a == wf.last[s]   b == wf'.last[s]
                     IN  (a # NoAttempt /\ ~SameTask(a, b) /\ env[a[1]].purpose = env[b[1]].purpose)
                             => State(a) \in {"failed", "cancelled"}
<1>1. Inv /\ OneInv /\ KnownInv /\ [Next]_vars => [Goal]_vars
  <2> SUFFICES ASSUME Inv, OneInv, KnownInv, Next, ~hasty',
                      NEW s \in Steps, NEW a, a = wf.last[s], NEW b, b = wf'.last[s],
                      a # NoAttempt, ~SameTask(a, b), env[a[1]].purpose = env[b[1]].purpose
               PROVE  State(a) \in {"failed", "cancelled"}
    OBVIOUS
  <2>1. Calm /\ RunKnown
    BY HastyStays DEF OneInv, KnownInv
  <2>2. wf'.last # wf.last /\ ~UNCHANGED wf
    BY DEF SameTask
  <2>3. ~Made
    <3>1. wf.status = "absent" => a = NoAttempt
      BY <2>1 DEF RunKnown, AbsentTrue, NoRun
    <3> QED
      BY <3>1 DEF Made
  <2>4. ASSUME NEW d \in Drivers, Advances(d) PROVE FALSE
    BY <2>2, <2>4, AdvanceRounds
  <2>5. PICK d \in Drivers : Records(d)
    BY <2>2, <2>3, <2>4, RunWrites DEF Writes, Marked
  <2>6. /\ wf.current = At(d) /\ At(d) \in Steps /\ drv[d].at = "record" /\ drv[d].at \in Inside
        /\ wf'.last = [wf.last EXCEPT ![At(d)] = A(d)]
    BY <2>5, RecordsRow
  <2>7. s = At(d) /\ b = A(d)
    <3>1. wf.last \in [Steps -> Attempts \union {NoAttempt}]
      BY InvFacts DEF Run
    <3> QED
      BY <2>6, <3>1 DEF SameTask
  <2>8. Busy(d) /\ drv[d].at \in Held /\ drv[d].at # "read"
    BY <2>6 DEF Busy, Held
  <2>9. env[b[1]].purpose = <<s, wf.round[s]>>
    BY <2>1, <2>7, <2>8 DEF Calm, HeldTrue, DriverKnows
  <2>10. MayFollow(a, <<s, wf.round[s]>>)
    BY <2>1, <2>6, <2>7 DEF RunKnown, NextTrue
  <2> QED
    BY <2>9, <2>10 DEF MayFollow
<1>2. NoDoubleWork <=> [][Goal]_vars
  BY DEF NoDoubleWork
<1> HIDE DEF Goal
<1> QED
  BY <1>1, <1>2, InvAlways, OneInvAlways, KnownAlways, PTL DEF Spec

(* A step writes one envelope, so that there are never more than steps. *)
LEMMA OneEnvelope ==
    ASSUME Inv, Next
    PROVE  \E e : \A f \in Envs \ {e} : env'[f] = env[f]
<1> DEFINE One == \E e : \A f \in Envs \ {e} : env'[f] = env[f]
<1>1. env \in [Envs -> Envelope]
  BY InvFacts
<1>2. ASSUME UNCHANGED env PROVE One
  BY <1>2
<1>3. ASSUME NEW a, NEW s, NEW t, Put(a, s, t) PROVE One
  <2>1. \A f \in Envs \ {a[1]} : env'[f] = env[f]
    BY <1>1, <1>3 DEF Put
  <2> QED
    BY <2>1
<1>4. ASSUME NEW a, NEW s, Settle(a, s) PROVE One
  BY <1>2, <1>3, <1>4 DEF Settle
<1>5. ASSUME NEW e, NEW r, env' = [env EXCEPT ![e] = r] PROVE One
  <2>1. \A f \in Envs \ {e} : env'[f] = env[f]
    BY <1>1, <1>5
  <2> QED
    BY <2>1
<1> HIDE DEF One
<1>6. ASSUME NEW d \in Drivers, DriverStep(d) \/ Calls(d) PROVE One
  <2>1. CASE \/ Read(d) \/ Finish(d) \/ Inspect(d) \/ RecordAttempt(d) \/ Launch(d) \/ Track(d)
             \/ Look(d) \/ Returned(d) \/ Failover(d) \/ Gate(d) \/ GitOp(d) \/ Pause(d) \/ Advance(d) \/ Calls(d)
    BY <1>2, <2>1 DEF Read, Finish, Inspect, RecordAttempt, Launch, Track, Look, Returned, Failover, Gate,
       GitOp, Pause, Advance, Calls, Create, Answer, Deliver, Resume, ledgerVars
  <2>2. CASE ReserveTask(d)
    BY <1>5, <2>2 DEF ReserveTask, Reserve
  <2>3. CASE Spawn(d)
    BY <1>2, <1>3, <2>3 DEF Spawn, Bind, ledgerVars
  <2>4. CASE NotStarted(d)
    BY <1>4, <2>4 DEF NotStarted
  <2>5. CASE TryAgain(d)
    <3>1. CASE UNCHANGED env
      BY <1>2, <3>1
    <3>2. CASE ReserveAgain(A(d)[1])
      <4>1. \A f \in Envs \ {A(d)[1]} : env'[f] = env[f]
        BY <1>1, <3>2 DEF ReserveAgain
      <4> QED
        BY <4>1 DEF One
    <3> QED
      BY <2>5, <3>1, <3>2 DEF TryAgain
  <2> QED
    BY <1>6, <2>1, <2>2, <2>3, <2>4, <2>5 DEF DriverStep
<1>7. ASSUME NEW a \in Attempts, SpawnEnds(a) PROVE One
  BY <1>3, <1>4, <1>7 DEF SpawnEnds, SpawnSucceeds, SpawnFails
<1>8. ASSUME NEW a \in Attempts, AgentStep(a) PROVE One
  BY <1>2, <1>3, <1>4, <1>8 DEF AgentStep, JobDone, JobBlocked, StopRun, AgentExits, Abandon, SweepOne
<1>9. ASSUME NEW e \in Envs, Persist(e) PROVE One
  <2>1. \E r : env' = [env EXCEPT ![e] = r]
    BY <1>9 DEF Persist
  <2> QED
    BY <1>5, <2>1
<1>10. ASSUME NEW e \in Envs, Cancel(e) PROVE One
  BY <1>4, <1>10 DEF Cancel, CancelRun
<1>11. ASSUME Announce \/ Crash \/ Reload PROVE One
  BY <1>2, <1>11 DEF Announce, Crash, LedgerCrash, Reload, LedgerReload
<1> QED
  BY <1>6, <1>7, <1>8, <1>9, <1>10, <1>11 DEF Next, One

Used == {e \in Envs : env[e].count > 0}
LEMMA UsedFinite == Spec => []IsFiniteSet(Used)
<1>1. Init => IsFiniteSet(Used)
  <2> SUFFICES ASSUME Init PROVE Used = {}
    BY FS_EmptySet
  <2> QED
    BY DEF Init, LedgerInit, NoEnvelope, Used
<1>2. Inv /\ IsFiniteSet(Used) /\ [Next]_vars => IsFiniteSet(Used)'
  <2> SUFFICES ASSUME Inv, IsFiniteSet(Used), [Next]_vars PROVE IsFiniteSet(Used')
    OBVIOUS
  <2>1. CASE Next
    <3>1. PICK e : \A f \in Envs \ {e} : env'[f] = env[f]
      BY <2>1, OneEnvelope
    <3>2. Used' \subseteq Used \cup {e}
      BY <3>1 DEF Used
    <3>3. IsFiniteSet(Used \cup {e})
      BY FS_AddElement
    <3> QED
      BY <3>2, <3>3, FS_Subset
  <2>2. CASE UNCHANGED vars
    BY <2>2 DEF vars, ledgerVars, Used
  <2> QED
    BY <2>1, <2>2
<1> QED
  BY <1>1, <1>2, InvAlways, PTL DEF Spec

\* A step leaves by a success only as often as one of its rounds was completed
\* by an attempt (workflowExecutor.ts, sameRound), as long as no answer moved a
\* run that was not waiting for it: the rounds it was left in are as many, and
\* each of them has a completed task of its own.
THEOREM SuccessesEarned == Spec => []SuccessEarned
<1>1. Inv /\ KnownInv /\ IsFiniteSet(Used) => SuccessEarned
  <2> SUFFICES ASSUME Inv, RunKnown, IsFiniteSet(Used),
                      NEW s \in Steps, Kind[s] = "agent", NEW e \in Successes(s)
               PROVE  wf.taken[e] <= Cardinality({x \in Envs : /\ env[x].purpose[1] = s
                                                               /\ env[x].status = "completed"})
    BY DEF KnownInv, SuccessEarned
  <2> DEFINE C == {x \in Envs : /\ env[x].purpose[1] = s
                                /\ env[x].status = "completed"}
  <2>1. e \in Edges /\ e.from = s /\ e.on # "failure"
    BY DEF Successes
  <2>2. PICK R : Rounds(R, e)
    BY <2>1 DEF RunKnown, EarnedTrue
  <2>3. IsFiniteSet(R) /\ Cardinality(R) = wf.taken[e] /\ \A n \in R : Passed(s, n)
    BY <2>1, <2>2 DEF Rounds
  <2>4. IsFiniteSet(C)
    <3>1. C \subseteq Used
      <4>1. ASSUME NEW x \in C PROVE env[x].count > 0
        <5>1. env[x] \in Envelope /\ EnvelopeTrue(x) /\ env[x].status = "completed" /\ x \in Envs
          BY InvFacts DEF LedgerTrue
        <5>2. env[x].count # 0 /\ env[x].count \in Nat
          BY <5>1, LedgerAssumption DEF EnvelopeTrue, StatusFor, Envelope
        <5> QED
          BY <5>2
      <4> QED
        BY <4>1 DEF Used
    <3> QED
      BY <3>1, FS_Subset
  <2>5. ASSUME NEW n \in R PROVE \E x \in C : env[x].purpose = <<s, n>>
    <3>1. PICK x \in Envs : env[x].purpose = <<s, n>> /\ env[x].status = "completed"
      BY <2>3 DEF Passed
    <3>2. env[x].purpose[1] = s
      BY <3>1
    <3> QED
      BY <3>1, <3>2
  <2> HIDE DEF C
  <2>6. PICK task \in [R -> C] : \A n \in R : env[task[n]].purpose = <<s, n>>
    <3> DEFINE t == [n \in R |-> CHOOSE x \in C : env[x].purpose = <<s, n>>]
    <3>1. \A n \in R : t[n] \in C /\ env[t[n]].purpose = <<s, n>>
      BY <2>5
    <3>2. t \in [R -> C]
      BY <3>1
    <3> HIDE DEF t
    <3> QED
      BY <3>1, <3>2
  <2>7. task \in Injection(R, C)
    <3>1. \A m, n \in R : task[m] = task[n] => m = n
      BY <2>6
    <3> QED
      BY <3>1 DEF Injection, IsInjective
  <2>8. Cardinality(R) <= Cardinality(C)
    BY <2>4, <2>7, FS_Injection
  <2> QED
    BY <2>3, <2>8 DEF C
<1> QED
  BY <1>1, InvAlways, KnownAlways, UsedFinite, PTL
=============================================================================
