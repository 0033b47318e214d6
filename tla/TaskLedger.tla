------------------------------ MODULE TaskLedger ------------------------------
(***************************************************************************)
(* The desktop's task ledger (src-tauri/src/tasks.rs): one envelope per    *)
(* task with the attempts made at it, the terminals that run attempts      *)
(* (pty.rs), and what the window keeps of them (taskHistory.ts and the     *)
(* micro-task runs of ProjectView).  Envelopes and attempts are durable;   *)
(* agents live in the app's process, the window's records in its page.     *)
(*                                                                         *)
(* An attempt is named <<e, k>>: the k-th of envelope e.  A route, a goal  *)
(* and an artifact are left out; of the metadata only what a later reader  *)
(* looks for is kept: "workflow" names the step and round the task is for, *)
(* "history" is the row the task history puts in its place; later writes   *)
(* of that row change nothing more.  A terminal that is to be closed, its  *)
(* attempt settled, is gone: what it does then reaches nobody.             *)
(***************************************************************************)
EXTENDS Integers

CONSTANTS Envs,        \* envelopes that can be made, numbered from 1
          AttemptCap   \* the attempts an envelope allows

ASSUME LedgerAssumption == AttemptCap \in Nat \ {0} /\ Envs \subseteq Nat

VARIABLES env,       \* task_envelopes with their task_attempts
          agents,    \* attempts whose terminal runs an agent
          spawning,  \* attempts bound to a terminal that is being made
          tracked,   \* attempts of the window's runs that are not ended
          writes,    \* envelopes whose history row is on its way to the ledger
          sweep,     \* attempts the start-up sweep has listed
          pulse      \* a change of the ledger not yet announced

ledgerVars == <<env, agents, spawning, tracked, writes, sweep, pulse>>

Active  == {"reserved", "launching", "running", "waiting"}
Settled == {"completed", "failed", "blocked", "interrupted", "cancelled"}
Final   == {"completed", "failed", "cancelled"}
Attempts == Envs \X (1 .. AttemptCap)

NoPurpose  == <<"none", 0>>
NoEnvelope == [status |-> "absent", count |-> 0, meta |-> "workflow", purpose |-> NoPurpose,
               tries |-> [k \in 1 .. AttemptCap |-> "none"]]

LedgerInit ==
    /\ env = [e \in Envs |-> NoEnvelope]
    /\ agents = {} /\ spawning = {} /\ tracked = {}
    /\ writes = {} /\ sweep = {} /\ pulse = FALSE

State(a)   == env[a[1]].tries[a[2]]
Last(e)    == <<e, env[e].count>>
Current(a) == env[a[1]].count = a[2]

-----------------------------------------------------------------------------
(* The operations of the store, each one transaction.  A refused one       *)
(* leaves the ledger as it is; pulse is told of every one that commits.    *)

Put(a, state, status) ==
    env' = [env EXCEPT ![a[1]].tries[a[2]] = state, ![a[1]].status = status]

\* reserve: a new envelope with its first attempt
Unused == {e \in Envs : env[e].status = "absent"}
Reserve(e, purpose) ==
    /\ env' = [env EXCEPT ![e] = [status |-> "running", count |-> 1,
                   meta |-> "workflow", purpose |-> purpose,
                   tries |-> [NoEnvelope.tries EXCEPT ![1] = "reserved"]]]
    /\ pulse' = TRUE

MayReserveAgain(e) ==
    /\ env[e].status \notin {"completed", "cancelled"}
    /\ env[e].count < AttemptCap
    /\ \A k \in 1 .. AttemptCap : env[e].tries[k] \notin Active
ReserveAgainQuietly(e) ==
    /\ env' = [env EXCEPT ![e].count = @ + 1, ![e].tries[env[e].count + 1] = "reserved"]
    /\ pulse' = TRUE
ReserveAgain(e) ==
    /\ env' = [env EXCEPT ![e].status = "running", ![e].count = @ + 1,
                          ![e].tries[env[e].count + 1] = "reserved"]
    /\ pulse' = TRUE

MayBind(a)  == State(a) = "reserved" /\ Current(a) /\ env[a[1]].status = "running"
MayStart(a) == /\ State(a) \in {"reserved", "launching"}
               /\ Current(a) /\ env[a[1]].status \notin Final
MayWait(a)  == State(a) = "running" /\ Current(a)

StatusCopied(e, s) == s
StatusAfter(e, s) ==
    IF s \in {"completed", "blocked", "cancelled"} THEN s
    ELSE IF env[e].count >= AttemptCap THEN "failed" ELSE "ready"

MaySettleLate(a) == Current(a)
MaySettle(a) == State(a) \in Active /\ Current(a) /\ env[a[1]].status \notin Final
Settle(a, s) ==
    \/ MaySettle(a) /\ Put(a, s, StatusAfter(a[1], s)) /\ pulse' = TRUE
    \/ ~MaySettle(a) /\ UNCHANGED env /\ pulse' = (pulse \/ State(a) = s)

\* update_metadata from persistRun: the history row replaces what was there
Persist(e) ==
    /\ e \in writes
    /\ env' = [env EXCEPT ![e].meta = "history"]
    /\ writes' = writes \ {e}
    /\ pulse' = TRUE
    /\ UNCHANGED <<agents, spawning, tracked, sweep>>

-----------------------------------------------------------------------------
(* pty_spawn_detached: bind the attempt, make the terminal, then mark the  *)
(* attempt running; a terminal whose attempt may not start is killed.      *)

Bind(a) ==
    /\ MayBind(a) /\ Put(a, "launching", "running")
    /\ spawning' = spawning \union {a} /\ pulse' = TRUE
    /\ UNCHANGED <<agents, tracked, writes, sweep>>

SpawnSucceeds(a) ==
    /\ a \in spawning /\ MayStart(a)
    /\ Put(a, "running", "running") /\ pulse' = TRUE
    /\ agents' = agents \union {a} /\ spawning' = spawning \ {a}
    /\ UNCHANGED <<tracked, writes, sweep>>

\* the terminal could not be made, or was made for an attempt that had ended
SpawnFails(a) ==
    /\ a \in spawning /\ Settle(a, "failed")
    /\ spawning' = spawning \ {a}
    /\ UNCHANGED <<agents, tracked, writes, sweep>>

-----------------------------------------------------------------------------
(* What an agent, its user and the window do to a running attempt.         *)

\* canopy_job_done: the window settles the attempt of a run it tracks
JobDone(a) ==
    /\ a \in agents \intersect tracked
    /\ Settle(a, "completed")
    /\ agents' = agents \ {a} /\ tracked' = tracked \ {a}
    /\ UNCHANGED <<spawning, writes, sweep>>

\* job_done "blocked": the attempt waits for its user
JobBlocked(a) ==
    /\ a \in agents \intersect tracked /\ MayWait(a)
    /\ Put(a, "waiting", "blocked") /\ pulse' = TRUE
    /\ UNCHANGED <<agents, spawning, tracked, writes, sweep>>

\* endAbandonedRun: only of a run whose record is still running
Abandon(a) ==
    /\ a \in tracked
    /\ Settle(a, IF State(a) = "waiting" THEN "blocked" ELSE "interrupted")
    /\ agents' = agents \ {a} /\ tracked' = tracked \ {a}

\* stopMicroRun settles the attempt and kills its terminal
StopRun(a) ==
    /\ Abandon(a)
    /\ UNCHANGED <<spawning, writes, sweep>>

\* pty:exit: an exit the window hears of a run it does not track is nobody's
AgentExits(a) ==
    /\ a \in agents
    /\ \/ Abandon(a)
       \/ a \notin tracked /\ agents' = agents \ {a} /\ UNCHANGED <<env, tracked, pulse>>
    /\ UNCHANGED <<spawning, writes, sweep>>

\* cancel_run, asked by an MCP client; the agent is left running
CancelRun(e) ==
    /\ env[e].count > 0 /\ MaySettle(Last(e)) /\ Settle(Last(e), "cancelled")
    /\ UNCHANGED <<agents, spawning, tracked, writes, sweep>>

\* a pulse after the writes of a moment
Emit == pulse /\ pulse' = FALSE

-----------------------------------------------------------------------------
(* The app's process ends: its terminals and pages go with it.  The sweep  *)
(* of the next start lists the active attempts of history rows that name   *)
(* another process, and settles them one by one.                           *)

LedgerCrash ==
    /\ agents' = {} /\ spawning' = {} /\ tracked' = {} /\ writes' = {}
    /\ sweep' = {a \in Attempts : State(a) \in Active /\ env[a[1]].meta = "history"}
    /\ pulse' = FALSE /\ UNCHANGED env

SweepOne(a) ==
    /\ a \in sweep /\ sweep' = sweep \ {a}
    /\ Settle(a, IF State(a) = "waiting" THEN "blocked" ELSE "interrupted")
    /\ UNCHANGED <<agents, spawning, tracked, writes>>

\* the page is loaded anew: what it kept is lost, terminals and ledger stay
LedgerReload ==
    /\ tracked' = {} /\ writes' = {}
    /\ UNCHANGED <<env, agents, spawning, sweep, pulse>>

-----------------------------------------------------------------------------
LedgerTypeOK ==
    /\ env \in [Envs -> [status : {"absent", "running", "blocked", "ready"} \union Final,
                         count : 0 .. AttemptCap, meta : {"workflow", "history"},
                         purpose : {env[e].purpose : e \in Envs},
                         tries : [1 .. AttemptCap -> {"none"} \union Active \union Settled]]]
    /\ agents \subseteq Attempts /\ spawning \subseteq Attempts
    /\ tracked \subseteq Attempts /\ sweep \subseteq Attempts
    /\ writes \subseteq Envs /\ pulse \in BOOLEAN

\* Two tables written by nine transactions tell one story: an envelope's status
\* is the one its last attempt calls for, no earlier attempt is still active or
\* succeeded, and none is counted that is not there (tasks.rs, every mutate).
Fit(s, n) ==
    CASE s \in {"reserved", "launching", "running"} -> "running"
      [] s \in {"waiting", "blocked"} -> "blocked"
      [] s \in {"completed", "cancelled"} -> s
      [] OTHER -> IF n = AttemptCap THEN "failed" ELSE "ready"
StatusFor(e) == IF env[e].count = 0 THEN "absent"
                ELSE Fit(env[e].tries[env[e].count], env[e].count)

EnvelopeTrue(e) ==
    /\ env[e].status = StatusFor(e)
    /\ \A k \in 1 .. AttemptCap :
         /\ (env[e].tries[k] = "none") <=> (k > env[e].count)
         /\ k < env[e].count => env[e].tries[k] \in {"failed", "blocked", "interrupted"}
LedgerTrue == \A e \in Envs : EnvelopeTrue(e)
=============================================================================
