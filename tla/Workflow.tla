------------------------------- MODULE Workflow -------------------------------
(***************************************************************************)
(* A run of a workflow: its rows in the workflow store                     *)
(* (src-tauri/src/workflow.rs), the drivers that move it                   *)
(* (src/workflowExecutor.ts: one per startWorkflow, answer, event and      *)
(* resume, each an async call that may be overtaken at every await), and   *)
(* the task ledger its agent steps are launched through.                   *)
(*                                                                         *)
(* A driver decides from the copy of the run its last call returned; the   *)
(* store refuses a write for a step that is not current any more.  Of a    *)
(* step's attempts the last is kept, which is the one the code reads.      *)
(* An agent step is launched without a tab (detached), as workflows do by  *)
(* default; startMicroTask's path through a tab is left out.               *)
(***************************************************************************)
EXTENDS TaskLedger, FiniteSets

CONSTANTS Steps, Start, NoStep,
          Kind,       \* [Steps -> {"agent", "gate", "human", "watch", "git-op"}]
          Source,     \* the step a gate's evidence is about
          Predicate,  \* and what it asks of it
          Verdicts,   \* the verdicts an agent step may report, or {}
          Edges,      \* [from, on, to, rounds, else]; rounds = 0: no loop
          Drivers,    \* calls that can run at once, numbered
          MaxFaults   \* crashes, reloads, cancelled tasks and untimely answers

NoAttempt == <<0, 0>>
Ends == {"completed", "failed", "cancelled"}

CompletedOutcomes(s) == IF Verdicts[s] = {} THEN {"success"} ELSE Verdicts[s] \union {"failure"}
\* validateWorkflowDefinition demands an exit for each; a human step has one
\* for each action of its card, and is left by no other.
Outcomes(s) ==
    CASE Kind[s] = "agent"              -> CompletedOutcomes(s) \union {"failure"}
      [] Kind[s] \in {"gate", "watch"}  -> {"pass", "fail"}
      [] Kind[s] = "git-op"             -> {"success", "failure"}
      [] OTHER                          -> {}

ASSUME WorkflowAssumption ==
    /\ Drivers \subseteq Nat /\ MaxFaults \in Nat
    /\ Start \in Steps /\ NoStep \notin Steps /\ 0 \notin Envs
    /\ \A e \in Edges : /\ e.from \in Steps
                        /\ {e.to, e.else} \subseteq Steps \union Ends
    /\ \A s \in Steps : \A out \in Outcomes(s) : \E e \in Edges : e.from = s /\ e.on = out

VARIABLES wf,      \* the run's rows
          drv,     \* the drivers: where each is, its copy of the run, its attempt
          hasty,   \* history: an answer has moved a run that was not waiting
          faults

wfVars == <<wf, drv, hasty, faults>>
vars   == <<ledgerVars, wfVars>>

NoRun == [status |-> "absent", current |-> NoStep,
          state |-> [s \in Steps |-> "pending"], round |-> [s \in Steps |-> 0],
          last |-> [s \in Steps |-> NoAttempt], taken |-> [e \in Edges |-> 0]]
Asleep == [at |-> "idle", run |-> NoRun, a |-> NoAttempt, out |-> "none"]

Init ==
    /\ LedgerInit
    /\ wf = NoRun
    /\ drv = [d \in Drivers |-> Asleep]
    /\ hasty = FALSE /\ faults = 0

-----------------------------------------------------------------------------
(* The workflow store.                                                     *)

StillActive(s) == wf.status \in {"running", "waiting"}
CurrentActive(s) == wf.current = s /\ wf.status \in {"running", "waiting"}

Recorded(s, state) == [wf EXCEPT !.state[s] = state, !.status = state]

EdgeFor(s, out) == CHOOSE e \in Edges : e.from = s /\ e.on = out
EdgeTarget(run, e) == IF e.rounds = 0 \/ run.taken[e] < e.rounds THEN e.to ELSE e.else

StepState(out) == IF out \in {"failure", "fail"} THEN "failed" ELSE "completed"
Leave(e, out, target) ==
    [wf EXCEPT !.state[e.from] = StepState(out),
               !.taken[e] = IF target = e.to THEN @ + 1 ELSE @]
Advanced(e, out, target) ==
    LET left == Leave(e, out, target)
    IN  IF target \in Ends
        THEN [left EXCEPT !.status = target, !.current = NoStep]
        ELSE [left EXCEPT !.status = "running", !.current = target,
                          !.state[target] = "running", !.round[target] = @ + 1]

\* reconcile_interrupted, at the first use of the store by a new process
Reconciled ==
    IF wf.status # "running" THEN wf
    ELSE [wf EXCEPT !.status = "interrupted", !.state[wf.current] = "interrupted"]

-----------------------------------------------------------------------------
(* Drivers.                                                                *)

Goes(d, at) == drv' = [drv EXCEPT ![d].at = at]
Decides(d, out) == drv' = [drv EXCEPT ![d].at = "advance", ![d].out = out]
Ended(d) == drv' = [drv EXCEPT ![d] = Asleep]
At(d) == drv[d].run.current
A(d)  == drv[d].a
Free(d) == drv[d].at = "idle"
\* a new call takes the first free number
Takes(d) == Free(d) /\ \A c \in Drivers : Free(c) => d <= c

\* startWorkflow
Create(d) ==
    /\ wf.status = "absent" /\ Takes(d)
    /\ wf' = [NoRun EXCEPT !.status = "running", !.current = Start, !.state[Start] = "running"]
    /\ Goes(d, "read")
    /\ UNCHANGED <<ledgerVars, hasty, faults>>

\* continueWorkflow: the first read of the run
Read(d) ==
    /\ drv[d].at = "read"
    /\ IF wf.status = "interrupted" THEN Ended(d)
       ELSE drv' = [drv EXCEPT ![d].at = "step", ![d].run = wf]
    /\ UNCHANGED <<ledgerVars, wf, hasty, faults>>

OnStep(d, kinds) == drv[d].at = "step" /\ At(d) # NoStep /\ Kind[At(d)] \in kinds

Finish(d) ==
    /\ drv[d].at = "step" /\ At(d) = NoStep
    /\ Ended(d)
    /\ UNCHANGED <<ledgerVars, wf, hasty, faults>>

\* executeAgent: what the step's last attempt says of the round it is in
Previous(d) == drv[d].run.last[At(d)]
RoundNamed(d) == env[Previous(d)[1]].meta = "workflow"
AnyRound(d) == TRUE
SameRound(d) ==
    LET round == drv[d].run.round[At(d)]
    IN  IF RoundNamed(d) THEN env[Previous(d)[1]].purpose = <<At(d), round>>
                         ELSE round = 0

FreshAfterCut(d) ==
    \/ Previous(d) = NoAttempt
    \/ SameRound(d) /\ State(Previous(d)) \in {"failed", "cancelled", "interrupted"}
    \/ ~SameRound(d) /\ RoundNamed(d)
Fresh(d) ==
    \/ Previous(d) = NoAttempt
    \/ SameRound(d) /\ State(Previous(d)) \in {"failed", "cancelled"}
    \/ ~SameRound(d) /\ RoundNamed(d)
Done(d) == Previous(d) # NoAttempt /\ SameRound(d) /\ State(Previous(d)) = "completed"

Inspect(d) ==
    /\ OnStep(d, {"agent"})
    /\ CASE Done(d)  -> \E out \in CompletedOutcomes(At(d)) : Decides(d, out)
         [] Fresh(d) -> Goes(d, "reserve")
         [] OTHER    -> Ended(d)             \* "Reconcile it before resuming"
    /\ UNCHANGED <<ledgerVars, wf, hasty, faults>>

ReserveTask(d) ==
    /\ drv[d].at = "reserve"
    /\ \E e \in Unused :
         /\ \A f \in Unused : e <= f
         /\ Reserve(e, <<At(d), drv[d].run.round[At(d)]>>)
         /\ drv' = [drv EXCEPT ![d].at = "record", ![d].a = <<e, 1>>]
    /\ UNCHANGED <<agents, spawning, tracked, writes, sweep, wf, hasty, faults>>

RecordAttempt(d) ==
    /\ drv[d].at = "record"
    /\ IF CurrentActive(At(d))
       THEN /\ wf' = [Recorded(At(d), "running") EXCEPT !.last[At(d)] = A(d)]
            /\ drv' = [drv EXCEPT ![d].at = "launch", ![d].run = wf']
       ELSE Ended(d) /\ UNCHANGED wf
    /\ UNCHANGED <<ledgerVars, hasty, faults>>

\* launchAgent: the run folder and startMicroTask's own checks may fail; the
\* reservation becomes a history row before the terminal is asked for
Launch(d) ==
    /\ drv[d].at = "launch"
    /\ \/ Goes(d, "unstarted") /\ UNCHANGED writes
       \/ Goes(d, "spawn") /\ writes' = writes \union {A(d)[1]}
    /\ UNCHANGED <<env, agents, spawning, tracked, sweep, pulse, wf, hasty, faults>>

Spawn(d) ==
    /\ drv[d].at = "spawn"
    /\ IF MayBind(A(d)) THEN Bind(A(d)) /\ Goes(d, "spawning")
                        ELSE Goes(d, "unstarted") /\ UNCHANGED ledgerVars
    /\ UNCHANGED <<wf, hasty, faults>>

\* the terminal is made, or is not; its driver, if it still runs, hears of it
Answered(a, at) ==
    drv' = [d \in Drivers |-> IF drv[d].at = "spawning" /\ A(d) = a
                              THEN [drv[d] EXCEPT !.at = at] ELSE drv[d]]
SpawnEnds(a) ==
    /\ \/ SpawnSucceeds(a) /\ Answered(a, "spawned")
       \/ SpawnFails(a) /\ Answered(a, "unstarted")
    /\ UNCHANGED <<wf, hasty, faults>>

NotStarted(d) ==
    /\ drv[d].at = "unstarted"
    /\ Settle(A(d), "failed") /\ Goes(d, "decide")
    /\ UNCHANGED <<agents, spawning, tracked, writes, sweep, wf, hasty, faults>>

TrackAndWait(d) ==
    /\ drv[d].at = "spawned"
    /\ tracked' = tracked \union {A(d)} /\ Goes(d, "wait")
    /\ UNCHANGED <<env, agents, spawning, writes, sweep, pulse, wf, hasty, faults>>
Track(d) ==
    /\ drv[d].at = "spawned"
    /\ tracked' = tracked \union {A(d)} /\ Goes(d, "look")
    /\ UNCHANGED <<env, agents, spawning, writes, sweep, pulse, wf, hasty, faults>>

\* waitForWorkflowAttempt: what the read finds in the ledger ...
Look(d) ==
    /\ drv[d].at = "look"
    /\ CASE State(A(d)) = "completed" -> \E out \in CompletedOutcomes(At(d)) : Decides(d, out)
         [] State(A(d)) \in Settled \ {"completed"} -> Goes(d, "decide")
         [] OTHER -> Goes(d, "seen")
    /\ UNCHANGED <<ledgerVars, wf, hasty, faults>>

\* ... and its return.  A pulse that came in between began no read of its own.
Returned(d) ==
    /\ drv[d].at \in {"seen", "overtaken"}
    /\ Goes(d, IF drv[d].at = "seen" THEN "wait" ELSE "deaf")
    /\ UNCHANGED <<ledgerVars, wf, hasty, faults>>

\* A pulse begins a read, unless one is under way.
Hearing(at) ==
    CASE at \in {"wait", "deaf"} -> "look"
      [] at = "seen"             -> "overtaken"
      [] OTHER                   -> at
Announce ==
    /\ Emit
    /\ drv' = [d \in Drivers |-> [drv[d] EXCEPT !.at = Hearing(@)]]
    /\ UNCHANGED <<env, agents, spawning, tracked, writes, sweep, wf, hasty, faults>>

\* failoverDecision: never past the cap, and not for every failure
Failover(d) ==
    /\ drv[d].at = "decide"
    /\ \/ Decides(d, "failure")
       \/ A(d)[2] < AttemptCap /\ Goes(d, "again")
    /\ UNCHANGED <<ledgerVars, wf, hasty, faults>>

TryAgain(d) ==
    /\ drv[d].at = "again"
    /\ LET e == A(d)[1]
       IN  IF MayReserveAgain(e)
           THEN /\ ReserveAgain(e)
                /\ drv' = [drv EXCEPT ![d].at = "record", ![d].a = <<e, env[e].count + 1>>]
           ELSE Ended(d) /\ UNCHANGED <<env, pulse>>
    /\ UNCHANGED <<agents, spawning, tracked, writes, sweep, wf, hasty, faults>>

\* evaluateWorkflowGate
GatePasses(run, s) ==
    LET a == run.last[Source[s]]
    IN  IF Predicate[s] = "step.completed" THEN run.state[Source[s]] = "completed"
        ELSE /\ a # NoAttempt
             /\ State(a) = IF Predicate[s] = "attempt.completed" THEN "completed" ELSE "failed"
Gate(d) ==
    /\ OnStep(d, {"gate"})
    /\ Decides(d, IF GatePasses(drv[d].run, At(d)) THEN "pass" ELSE "fail")
    /\ UNCHANGED <<ledgerVars, wf, hasty, faults>>

GitOp(d) ==
    /\ OnStep(d, {"git-op"})
    /\ \E out \in {"success", "failure"} : Decides(d, out)
    /\ UNCHANGED <<ledgerVars, wf, hasty, faults>>

\* a human step or a watch: the run waits, and its driver returns
Pause(d) ==
    /\ OnStep(d, {"human", "watch"})
    /\ wf' = IF CurrentActive(At(d)) THEN Recorded(At(d), "waiting") ELSE wf
    /\ Ended(d)
    /\ UNCHANGED <<ledgerVars, hasty, faults>>

Advance(d) ==
    /\ drv[d].at \in {"advance", "answer"}
    /\ LET e == EdgeFor(At(d), drv[d].out)
       IN  IF CurrentActive(At(d))
           THEN /\ wf' = Advanced(e, drv[d].out, EdgeTarget(drv[d].run, e))
                /\ drv' = [drv EXCEPT ![d] = [Asleep EXCEPT
                        !.at = IF drv[d].at = "answer" THEN "read" ELSE "step", !.run = wf']]
                /\ hasty' = (hasty \/ (drv[d].at = "answer" /\ wf.status # "waiting"))
           ELSE Ended(d) /\ UNCHANGED <<wf, hasty>>
    /\ UNCHANGED <<ledgerVars, faults>>

Fault == faults < MaxFaults /\ faults' = faults + 1

\* answerWorkflowHuman and deliverWorkflowEvent read the run, then advance it
Answering(d, out) ==
    drv' = [drv EXCEPT ![d] = [at |-> "answer", run |-> wf, a |-> NoAttempt, out |-> out]]
Answer(d) ==
    /\ Takes(d) /\ wf.current # NoStep /\ Kind[wf.current] = "human"
    /\ \E e \in Edges : e.from = wf.current /\ Answering(d, e.on)
    /\ IF wf.status = "waiting" THEN UNCHANGED faults ELSE Fault
    /\ UNCHANGED <<ledgerVars, wf, hasty>>
Deliver(d) ==
    /\ Takes(d) /\ wf.status = "waiting" /\ Kind[wf.current] = "watch"
    /\ Answering(d, "pass")
    /\ UNCHANGED <<ledgerVars, wf, hasty, faults>>

ResumeUnasked(d) ==
    /\ Takes(d) /\ wf.status \in {"interrupted", "running"}
    /\ wf' = [wf EXCEPT !.status = "running", !.state[wf.current] = "running"]
    /\ Goes(d, "read")
    /\ UNCHANGED <<ledgerVars, hasty, faults>>
Resume(d) ==
    /\ Takes(d) /\ wf.status = "interrupted"
    /\ wf' = [wf EXCEPT !.status = "running", !.state[wf.current] = "running"]
    /\ Goes(d, "read")
    /\ UNCHANGED <<ledgerVars, hasty, faults>>

-----------------------------------------------------------------------------
(* Faults: the app ends and starts again, its page is loaded anew, a task  *)
(* is cancelled under its run.                                             *)

Crash ==
    /\ Fault /\ wf.status # "absent" /\ LedgerCrash
    /\ wf' = Reconciled
    /\ drv' = [d \in Drivers |-> Asleep]
    /\ UNCHANGED hasty
Reload ==
    /\ Fault /\ wf.status # "absent" /\ LedgerReload
    /\ drv' = [d \in Drivers |-> Asleep]
    /\ UNCHANGED <<wf, hasty>>
Cancel(e) == Fault /\ CancelRun(e) /\ UNCHANGED <<wf, drv, hasty>>

AgentStep(a) ==
    /\ JobDone(a) \/ JobBlocked(a) \/ StopRun(a) \/ AgentExits(a) \/ SweepOne(a)
    /\ UNCHANGED wfVars

DriverStep(d) ==
    \/ Read(d) \/ Finish(d) \/ Inspect(d) \/ ReserveTask(d) \/ RecordAttempt(d)
    \/ Launch(d) \/ Spawn(d) \/ NotStarted(d) \/ Track(d) \/ Look(d) \/ Returned(d)
    \/ Failover(d) \/ TryAgain(d) \/ Gate(d) \/ GitOp(d) \/ Pause(d) \/ Advance(d)

Calls(d) == Create(d) \/ Answer(d) \/ Deliver(d) \/ Resume(d)

Next ==
    \/ \E d \in Drivers : DriverStep(d) \/ Calls(d)
    \/ \E a \in Attempts : SpawnEnds(a) \/ AgentStep(a)
    \/ \E e \in Envs : (Persist(e) /\ UNCHANGED wfVars) \/ Cancel(e)
    \/ Announce \/ Crash \/ Reload

Spec == Init /\ [][Next]_vars

\* A driver's calls return, a terminal's making ends, and a pulse is emitted:
\* nothing is asked of agents, users or the sweep.
Fairness ==
    /\ \A d \in Drivers : WF_vars(DriverStep(d))
    /\ \A a \in Attempts : WF_vars(SpawnEnds(a))
    /\ WF_vars(Announce)
FairSpec == Spec /\ Fairness

-----------------------------------------------------------------------------
(* Properties.                                                             *)

TypeOK ==
    /\ LedgerTypeOK
    /\ \A e \in Envs : env[e].purpose \in (Steps \X Nat) \union {NoPurpose}
    /\ wf.status \in {"absent", "running", "waiting", "interrupted"} \union Ends
    /\ wf.current \in Steps \union {NoStep}
    /\ \A s \in Steps : /\ wf.state[s] \in {"pending", "running", "waiting", "interrupted",
                                            "completed", "failed"}
                        /\ wf.round[s] \in Nat
                        /\ wf.last[s] \in Attempts \union {NoAttempt}
    /\ \A d \in Drivers : A(d) \in Attempts \union {NoAttempt}
    /\ hasty \in BOOLEAN /\ faults \in 0 .. MaxFaults

\* The run and its steps are two tables (workflow.rs): whatever drivers race,
\* and wherever the app ends, the step the run is at has the run's own status
\* and no other step looks alive.
RunTrue ==
    /\ wf.current = NoStep <=> wf.status \in Ends \union {"absent"}
    /\ wf.current # NoStep => wf.state[wf.current] = wf.status
    /\ \A s \in Steps \ {wf.current} : wf.state[s] \in {"pending", "completed", "failed"}

\* At any moment at most one agent works for the run, and it works for the step
\* and round the run is at: no retry, resume, second answer or reload starts
\* one beside it or leaves one behind - as long as no answer moves a run that
\* is not waiting for it.  Such an answer does: the card is offered whatever the
\* run's status, so that a resume, or the answer to the step before, may still
\* be on its way to read the run, and then two drivers launch the next step
\* (workflowExecutor.ts, executeAgent and answerWorkflowHuman).
Working == {a \in agents : State(a) \in Active}
OneAgentWorks == ~hasty =>
    /\ \A a, b \in Working : a = b
    /\ \A a \in Working :
         /\ wf.status = "running"
         /\ env[a[1]].purpose = <<wf.current, wf.round[wf.current]>>

\* A step leaves by a success only as often as one of its rounds was completed
\* by an attempt: no round passes on the evidence of another, with the same
\* exception (workflowExecutor.ts, sameRound).
Successes(s) == {e \in Edges : e.from = s /\ e.on # "failure" /\ wf.taken[e] > 0}
SuccessEarned == ~hasty =>
    \A s \in Steps : Kind[s] = "agent" =>
        \A e \in Successes(s) :
            wf.taken[e] <= Cardinality({x \in Envs : /\ env[x].purpose[1] = s
                                                     /\ env[x].status = "completed"})

\* A step goes over to a fresh task within a round only from an attempt that
\* ended as failed or cancelled: what was done, and what a crash, a stop or a
\* closed terminal cut at a point nobody knows, is not begun again by a resume
\* ("Re-launching this step before its attempt ledger has been reconciled could
\* duplicate side effects", workflowExecutor.ts); with the same exception.
SameTask(a, b) == a[1] = b[1]
NoDoubleWork ==
    [][hasty' \/ \A s \in Steps :
         LET a == wf.last[s]   b == wf'.last[s]
         IN  (a # NoAttempt /\ ~SameTask(a, b) /\ env[a[1]].purpose = env[b[1]].purpose)
                 => State(a) \in {"failed", "cancelled"}]_vars

\* What ended stays as it ended: a cancelled attempt is not brought back by the
\* terminal that was being made for it, nor by a late report or the sweep.
SettledStays ==
    [][\A a \in Attempts : State(a) \in Settled => env'[a[1]].tries[a[2]] = State(a)]_vars

\* A driver always comes back to rest: it ends, or waits for an attempt that is
\* active.  It may wait for one that has settled only where a pulse met it in
\* the middle of a read, which drops it (workflowAttempt.ts:47); one launched
\* before it could listen misses nothing.  A driver that needs a further
\* envelope than the instance has rests as well.
AtRest(d) ==
    \/ Free(d)
    \/ drv[d].at = "wait" /\ State(A(d)) \in Active
    \/ drv[d].at = "deaf"
    \/ drv[d].at = "reserve" /\ Unused = {}
DriverReturns == \A d \in Drivers : []<>AtRest(d)

\* The ledger names the round of an attempt until a later round asks for it
\* ("the user chooses to re-run the review once", docs/egm-spec-stage.md).
RoundsKnown ==
    \A d \in Drivers :
        (OnStep(d, {"agent"}) /\ Previous(d) # NoAttempt)
            => RoundNamed(d) \/ drv[d].run.round[At(d)] = 0
=============================================================================
