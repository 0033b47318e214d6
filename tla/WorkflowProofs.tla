--------------------------- MODULE WorkflowProofs ---------------------------
(***************************************************************************)
(* Theorems about Workflow for every value of its constants: any           *)
(* definition that passes validateWorkflowDefinition, any number of        *)
(* drivers, envelopes, attempts and faults.                                *)
(***************************************************************************)
EXTENDS Workflow, TLAPS

-----------------------------------------------------------------------------
(* The ledger.                                                             *)

Tries == {"none"} \union Active \union Settled
Envelope == [status : {"absent", "running", "blocked", "ready"} \union Final,
             count : 0 .. AttemptCap, meta : {"workflow", "history"},
             purpose : (Steps \X Nat) \union {NoPurpose},
             tries : [1 .. AttemptCap -> Tries]]

LedgerShape ==
    /\ env \in [Envs -> Envelope]
    /\ agents \subseteq Attempts /\ spawning \subseteq Attempts
    /\ tracked \subseteq Attempts /\ sweep \subseteq Attempts
    /\ writes \subseteq Envs /\ pulse \in BOOLEAN

\* How far a transaction moves an attempt: it is reserved, it begins or ends,
\* or it stays as it is.
Begun == {"launching", "running", "waiting"} \union Settled
Onward(b) ==
    \/ State(b)' = State(b)
    \/ State(b) = "none" /\ State(b)' = "reserved"
    \/ State(b) \in Active /\ State(b)' \in Begun

\* What a transaction leaves: envelopes that are true, with what was counted
\* and what it was for.
LedgerMoves ==
    /\ env' \in [Envs -> Envelope]
    /\ \A e \in Envs :
         /\ EnvelopeTrue(e)'
         /\ env[e].count <= env'[e].count
         /\ env[e].count > 0 => env'[e].purpose = env[e].purpose
    /\ \A b \in Attempts : Onward(b)

(* A transaction that moves the last attempt of an envelope, which has not    *)
(* ended, and the envelope's status with it.                                  *)
LEMMA PutMoves ==
    ASSUME env \in [Envs -> Envelope], LedgerTrue,
           NEW a \in Attempts, NEW s \in Begun, NEW t,
           Current(a), State(a) \in Active, t = Fit(s, a[2]), Put(a, s, t)
    PROVE  /\ LedgerMoves
           /\ State(a)' = s
           /\ \A b \in Attempts : b # a => State(b)' = State(b)
           /\ \A e \in Envs : env'[e].purpose = env[e].purpose
<1> DEFINE e == a[1]  k == a[2]
           r == [env[e] EXCEPT !.tries = [env[e].tries EXCEPT ![k] = s], !.status = t]
<1>1. /\ e \in Envs /\ k \in 1 .. AttemptCap /\ a = <<e, k>>
      /\ env[e] \in Envelope /\ env[e].count = k /\ env[e].tries[k] \in Active
  BY DEF Attempts, Current, State
<1>2. t \in {"running", "blocked", "ready"} \union Final
  BY DEF Fit, Final, Begun, Settled
<1>3. env' = [env EXCEPT ![e] = r]
  BY <1>1 DEF Put, Envelope
<1>4. /\ r \in Envelope /\ r.count = k /\ r.status = t /\ r.purpose = env[e].purpose
      /\ r.tries = [env[e].tries EXCEPT ![k] = s]
  BY <1>1, <1>2 DEF Envelope, Tries, Begun, Active
<1> HIDE DEF r
<1>5. env' \in [Envs -> Envelope]
  BY <1>1, <1>3, <1>4
<1>6. env'[e] = r /\ \A f \in Envs : f # e => env'[f] = env[f]
  BY <1>1, <1>3
<1>7. EnvelopeTrue(e)'
  <2>1. EnvelopeTrue(e)
    BY <1>1 DEF LedgerTrue
  <2>2. \A j \in 1 .. AttemptCap : r.tries[j] = IF j = k THEN s ELSE env[e].tries[j]
    BY <1>1, <1>4 DEF Envelope
  <2>3. s # "none"
    BY DEF Begun, Settled
  <2>4. \A j \in 1 .. AttemptCap :
          /\ (r.tries[j] = "none") <=> (j > k)
          /\ j < k => r.tries[j] \in {"failed", "blocked", "interrupted"}
    BY <1>1, <2>1, <2>2, <2>3 DEF EnvelopeTrue
  <2>5. StatusFor(e)' = t
    <3>1. k # 0 /\ r.tries[k] = s
      BY <1>1, <2>2
    <3> QED
      BY <1>4, <1>6, <3>1 DEF StatusFor, Fit
  <2> QED
    BY <1>4, <1>6, <2>4, <2>5 DEF EnvelopeTrue
<1>8. ASSUME NEW f \in Envs, f # e PROVE EnvelopeTrue(f)'
  <2>1. EnvelopeTrue(f) /\ env'[f] = env[f]
    BY <1>6, <1>8 DEF LedgerTrue
  <2> QED
    BY <2>1 DEF EnvelopeTrue, StatusFor
<1>9. State(a)' = s /\ \A b \in Attempts : b # a => State(b)' = State(b)
  <2>1. ASSUME NEW b \in Attempts, b # a PROVE State(b)' = State(b)
    <3>1. b[1] \in Envs /\ b[2] \in 1 .. AttemptCap /\ (b[1] # e \/ b[2] # k)
      BY <2>1, <1>1 DEF Attempts
    <3>2. CASE b[1] # e
      BY <3>1, <3>2, <1>6 DEF State
    <3>3. CASE b[1] = e
      <4>1. env[e].tries \in [1 .. AttemptCap -> {"none"} \union Active \union Settled]
        BY <1>1 DEF Envelope, Tries
      <4>2. r.tries[b[2]] = env[e].tries[b[2]]
        BY <3>1, <3>3, <4>1, <1>4
      <4> QED
        BY <3>3, <4>2, <1>6 DEF State
    <3> QED
      BY <3>2, <3>3
  <2> QED
    BY <2>1, <1>1, <1>4, <1>6 DEF State, Envelope
<1>10. \A f \in Envs : env'[f].purpose = env[f].purpose /\ env'[f].count = env[f].count
  BY <1>1, <1>4, <1>6
<1>11. \A f \in Envs : env[f].count \in Nat
  BY LedgerAssumption DEF Envelope
<1>12. \A b \in Attempts : Onward(b)
  BY <1>9 DEF Onward
<1> QED
  BY <1>5, <1>7, <1>8, <1>9, <1>10, <1>11, <1>12 DEF LedgerMoves

(* settle ends an attempt that is active, or changes nothing. *)
LEMMA SettleMoves ==
    ASSUME env \in [Envs -> Envelope], LedgerTrue,
           NEW a \in Attempts, NEW s \in Settled, Settle(a, s)
    PROVE  /\ LedgerMoves
           /\ State(a)' \notin Active
           /\ \A b \in Attempts : b # a => State(b)' = State(b)
           /\ \A e \in Envs : env'[e].purpose = env[e].purpose
<1>1. CASE MaySettle(a) /\ Put(a, s, StatusAfter(a[1], s))
  <2>1. State(a) \in Active /\ Current(a)
    BY <1>1 DEF MaySettle
  <2>2. StatusAfter(a[1], s) = Fit(s, a[2])
    <3>1. env[a[1]].count = a[2] /\ a[2] \in 1 .. AttemptCap
      BY <2>1 DEF Current, Attempts
    <3> QED
      BY <3>1, LedgerAssumption DEF StatusAfter, Fit, Settled
  <2>3. /\ LedgerMoves /\ State(a)' = s
        /\ \A b \in Attempts : b # a => State(b)' = State(b)
        /\ \A e \in Envs : env'[e].purpose = env[e].purpose
    BY <1>1, <2>1, <2>2, PutMoves DEF Begun
  <2> QED
    BY <2>3 DEF Settled, Active
<1>2. CASE ~MaySettle(a) /\ UNCHANGED env
  <2>1. \A e \in Envs : EnvelopeTrue(e)'
    BY <1>2 DEF LedgerTrue, EnvelopeTrue, StatusFor
  <2>2. \A e \in Envs : env[e].count <= env[e].count
    BY LedgerAssumption DEF Envelope
  <2>3. State(a) \notin Active
    <3>1. SUFFICES ASSUME State(a) \in Active PROVE MaySettle(a)
      BY <1>2
    <3> DEFINE e == a[1]  k == a[2]
    <3>2. e \in Envs /\ k \in 1 .. AttemptCap /\ env[e].tries[k] \in Active
      BY <3>1 DEF Attempts, State
    <3>3. EnvelopeTrue(e) /\ env[e].count \in 0 .. AttemptCap
      BY <3>2 DEF LedgerTrue, Envelope
    <3>4. env[e].count = k
      BY <3>2, <3>3, LedgerAssumption DEF EnvelopeTrue, Active
    <3>5. env[e].status = Fit(env[e].tries[k], k)
      BY <3>2, <3>3, <3>4 DEF EnvelopeTrue, StatusFor
    <3>6. env[e].status \notin Final
      BY <3>2, <3>5 DEF Fit, Active, Final
    <3> QED
      BY <3>1, <3>4, <3>6 DEF MaySettle, Current
  <2> QED
    BY <1>2, <2>1, <2>2, <2>3 DEF LedgerMoves, Onward, State
<1> QED
  BY <1>1, <1>2 DEF Settle

(* A step that leaves the envelopes alone. *)
LEMMA QuietMoves ==
    ASSUME env \in [Envs -> Envelope], LedgerTrue, UNCHANGED env
    PROVE  LedgerMoves
<1>1. \A e \in Envs : EnvelopeTrue(e)'
  BY DEF LedgerTrue, EnvelopeTrue, StatusFor
<1>2. \A e \in Envs : env[e].count <= env[e].count
  BY LedgerAssumption DEF Envelope
<1> QED
  BY <1>1, <1>2 DEF LedgerMoves, Onward, State

(* A new envelope. *)
LEMMA ReserveMoves ==
    ASSUME env \in [Envs -> Envelope], LedgerTrue,
           NEW e \in Unused, NEW p \in (Steps \X Nat) \union {NoPurpose}, Reserve(e, p)
    PROVE  /\ LedgerMoves
           /\ env'[e].count = 1 /\ env'[e].purpose = p
           /\ \A f \in Envs : f # e => env'[f] = env[f]
<1> DEFINE r == [status |-> "running", count |-> 1, meta |-> "workflow", purpose |-> p,
                 tries |-> [NoEnvelope.tries EXCEPT ![1] = "reserved"]]
<1>1. e \in Envs /\ env[e].status = "absent" /\ EnvelopeTrue(e) /\ env[e] \in Envelope
  BY DEF Unused, LedgerTrue
<1>2. 1 \in 1 .. AttemptCap
  BY LedgerAssumption
<1>3. r.tries = [k \in 1 .. AttemptCap |-> IF k = 1 THEN "reserved" ELSE "none"]
  BY <1>2 DEF NoEnvelope
<1>4. r \in Envelope
  <2>1. r.tries \in [1 .. AttemptCap -> Tries]
    BY <1>3 DEF Tries, Active
  <2>2. 1 \in 0 .. AttemptCap
    BY <1>2
  <2> QED
    BY <2>1, <2>2 DEF Envelope
<1>5. env' = [env EXCEPT ![e] = r] /\ r.count = 1 /\ r.purpose = p /\ r.status = "running"
  BY DEF Reserve
<1> HIDE DEF r
<1>6. env' \in [Envs -> Envelope] /\ env'[e] = r /\ \A f \in Envs : f # e => env'[f] = env[f]
  BY <1>1, <1>4, <1>5
<1>7. env[e].count = 0
  <2>1. StatusFor(e) = "absent" /\ env[e].count \in 0 .. AttemptCap
    BY <1>1 DEF EnvelopeTrue, Envelope
  <2> QED
    BY <2>1 DEF StatusFor, Fit
<1>8. EnvelopeTrue(e)'
  <2>1. env'[e].count = 1 /\ env'[e].status = "running" /\ env'[e].tries = r.tries
    BY <1>5, <1>6
  <2>2. \A k \in 1 .. AttemptCap : r.tries[k] = IF k = 1 THEN "reserved" ELSE "none"
    BY <1>3
  <2>3. StatusFor(e)' = "running"
    BY <1>2, <2>1, <2>2 DEF StatusFor, Fit
  <2>4. ASSUME NEW k \in 1 .. AttemptCap
        PROVE  (r.tries[k] = "none" <=> k > 1) /\ ~(k < 1)
    BY <2>2, <2>4
  <2> QED
    BY <2>1, <2>3, <2>4 DEF EnvelopeTrue
<1>9. ASSUME NEW f \in Envs, f # e PROVE EnvelopeTrue(f)'
  <2>1. EnvelopeTrue(f) /\ env'[f] = env[f]
    BY <1>6, <1>9 DEF LedgerTrue
  <2> QED
    BY <2>1 DEF EnvelopeTrue, StatusFor
<1>10. ASSUME NEW b \in Attempts PROVE Onward(b)
  <2>1. b[1] \in Envs /\ b[2] \in 1 .. AttemptCap
    BY DEF Attempts
  <2>2. CASE b[1] # e
    BY <1>6, <2>1, <2>2 DEF State, Onward
  <2>3. CASE b[1] = e
    <3>1. env[e].tries[b[2]] = "none"
      BY <1>1, <1>7, <2>1, <2>3 DEF EnvelopeTrue
    <3>2. env'[e].tries[b[2]] \in {"none", "reserved"}
      BY <1>3, <1>6, <2>1
    <3> QED
      BY <2>3, <3>1, <3>2 DEF State, Onward
  <2> QED
    BY <2>2, <2>3
<1>11. \A f \in Envs : env[f].count <= env'[f].count /\ (env[f].count > 0 => f # e)
  <2>1. \A f \in Envs : env[f].count \in Nat
    BY LedgerAssumption DEF Envelope
  <2> QED
    BY <1>5, <1>6, <1>7, <2>1
<1> QED
  BY <1>5, <1>6, <1>8, <1>9, <1>10, <1>11 DEF LedgerMoves

(* A further attempt of an envelope none of whose attempts is active. *)
LEMMA ReserveAgainMoves ==
    ASSUME env \in [Envs -> Envelope], LedgerTrue,
           NEW e \in Envs, MayReserveAgain(e), ReserveAgain(e)
    PROVE  /\ LedgerMoves
           /\ env[e].count + 1 \in 1 .. AttemptCap
           /\ env'[e].count = env[e].count + 1 /\ env'[e].purpose = env[e].purpose
           /\ \A f \in Envs : f # e => env'[f] = env[f]
<1> DEFINE n == env[e].count + 1
           r == [env[e] EXCEPT !.status = "running", !.count = n,
                               !.tries = [env[e].tries EXCEPT ![n] = "reserved"]]
<1>1. /\ env[e] \in Envelope /\ EnvelopeTrue(e) /\ env[e].count \in Nat
      /\ n \in 1 .. AttemptCap
  BY LedgerAssumption DEF LedgerTrue, Envelope, MayReserveAgain
<1>2. env' = [env EXCEPT ![e] = r]
  BY <1>1 DEF ReserveAgain, Envelope
<1>3. /\ r \in Envelope /\ r.count = n /\ r.purpose = env[e].purpose /\ r.status = "running"
      /\ r.tries = [env[e].tries EXCEPT ![n] = "reserved"]
  <2>1. [env[e].tries EXCEPT ![n] = "reserved"] \in [1 .. AttemptCap -> Tries]
    BY <1>1 DEF Envelope, Tries, Active
  <2>2. n \in 0 .. AttemptCap
    BY <1>1
  <2> QED
    BY <1>1, <2>1, <2>2 DEF Envelope
<1> HIDE DEF r
<1>4. env' \in [Envs -> Envelope] /\ env'[e] = r /\ \A f \in Envs : f # e => env'[f] = env[f]
  BY <1>1, <1>2, <1>3
<1>5. \A k \in 1 .. AttemptCap : r.tries[k] = IF k = n THEN "reserved" ELSE env[e].tries[k]
  BY <1>1, <1>3 DEF Envelope
<1>6. ASSUME env[e].count > 0
      PROVE  env[e].tries[env[e].count] \in {"failed", "blocked", "interrupted"}
  <2> DEFINE k == env[e].count
  <2>1. k \in 1 .. AttemptCap /\ k # 0
    BY <1>1, <1>6, LedgerAssumption
  <2>2. env[e].tries[k] \in Tries \ Active
    BY <1>1, <2>1 DEF MayReserveAgain, Envelope
  <2>3. env[e].tries[k] # "none"
    BY <1>1, <2>1 DEF EnvelopeTrue
  <2>4. env[e].status = Fit(env[e].tries[k], k)
    BY <1>1, <2>1 DEF EnvelopeTrue, StatusFor
  <2>5. env[e].tries[k] \in Settled
    BY <2>2, <2>3 DEF Tries
  <2>6. \A s \in {"completed", "cancelled"} : Fit(s, k) = s
    BY DEF Fit
  <2>7. env[e].tries[k] \notin {"completed", "cancelled"}
    BY <2>4, <2>6 DEF MayReserveAgain
  <2> QED
    BY <2>5, <2>7 DEF Settled
<1>7. EnvelopeTrue(e)'
  <2>1. env'[e].count = n /\ env'[e].status = "running" /\ env'[e].tries = r.tries
    BY <1>3, <1>4
  <2>2. StatusFor(e)' = "running"
    BY <1>1, <1>5, <2>1 DEF StatusFor, Fit
  <2>3. ASSUME NEW k \in 1 .. AttemptCap
        PROVE  /\ (r.tries[k] = "none") <=> (k > n)
               /\ k < n => r.tries[k] \in {"failed", "blocked", "interrupted"}
    <3>1. (env[e].tries[k] = "none") <=> (k > env[e].count)
      BY <1>1 DEF EnvelopeTrue
    <3>2. k < env[e].count => env[e].tries[k] \in {"failed", "blocked", "interrupted"}
      BY <1>1 DEF EnvelopeTrue
    <3> QED
      BY <1>1, <1>5, <1>6, <3>1, <3>2
  <2> QED
    BY <2>1, <2>2, <2>3 DEF EnvelopeTrue
<1>8. ASSUME NEW f \in Envs, f # e PROVE EnvelopeTrue(f)'
  <2>1. EnvelopeTrue(f) /\ env'[f] = env[f]
    BY <1>4, <1>8 DEF LedgerTrue
  <2> QED
    BY <2>1 DEF EnvelopeTrue, StatusFor
<1>9. ASSUME NEW b \in Attempts PROVE Onward(b)
  <2>1. b[1] \in Envs /\ b[2] \in 1 .. AttemptCap
    BY DEF Attempts
  <2>2. CASE b[1] = e /\ b[2] = n
    <3>1. env[e].tries[n] = "none"
      BY <1>1 DEF EnvelopeTrue
    <3> QED
      BY <1>1, <1>4, <1>5, <2>2, <3>1 DEF State, Onward
  <2>3. CASE b[1] = e /\ b[2] # n
    BY <1>4, <1>5, <2>1, <2>3 DEF State, Onward
  <2>4. CASE b[1] # e
    BY <1>4, <2>1, <2>4 DEF State, Onward
  <2> QED
    BY <2>2, <2>3, <2>4
<1>10. \A f \in Envs : env[f].count <= env'[f].count /\ env'[f].purpose = env[f].purpose
  <2>1. \A f \in Envs : env[f].count \in Nat
    BY LedgerAssumption DEF Envelope
  <2> QED
    BY <1>3, <1>4, <2>1
<1> QED
  BY <1>1, <1>3, <1>4, <1>7, <1>8, <1>9, <1>10 DEF LedgerMoves

(* The history row in the place of the metadata. *)
LEMMA PersistMoves ==
    ASSUME env \in [Envs -> Envelope], LedgerTrue, NEW e \in Envs, Persist(e)
    PROVE  /\ LedgerMoves
           /\ \A b \in Attempts : State(b)' = State(b)
           /\ \A f \in Envs : env'[f].purpose = env[f].purpose /\ env'[f].count = env[f].count
<1> DEFINE r == [env[e] EXCEPT !.meta = "history"]
<1>1. env[e] \in Envelope /\ EnvelopeTrue(e) /\ env' = [env EXCEPT ![e] = r]
  BY DEF LedgerTrue, Persist
<1>2. /\ r \in Envelope /\ r.count = env[e].count /\ r.purpose = env[e].purpose
      /\ r.status = env[e].status /\ r.tries = env[e].tries
  BY <1>1 DEF Envelope
<1> HIDE DEF r
<1>3. env' \in [Envs -> Envelope] /\ env'[e] = r /\ \A f \in Envs : f # e => env'[f] = env[f]
  BY <1>1, <1>2
<1>4. \A f \in Envs : /\ env'[f].count = env[f].count /\ env'[f].purpose = env[f].purpose
                      /\ env'[f].status = env[f].status /\ env'[f].tries = env[f].tries
  BY <1>2, <1>3
<1>5. ASSUME NEW f \in Envs PROVE EnvelopeTrue(f)'
  BY <1>4 DEF LedgerTrue, EnvelopeTrue, StatusFor
<1>6. \A b \in Attempts : State(b)' = State(b)
  BY <1>4 DEF State, Attempts
<1>7. \A f \in Envs : env[f].count <= env[f].count
  BY LedgerAssumption DEF Envelope
<1>8. \A b \in Attempts : Onward(b)
  BY <1>6 DEF Onward
<1> QED
  BY <1>3, <1>4, <1>5, <1>6, <1>7, <1>8 DEF LedgerMoves

-----------------------------------------------------------------------------
(* The inductive invariant.                                                *)

Statuses   == {"absent", "running", "waiting", "interrupted"} \union Ends
StepStates == {"pending", "running", "waiting", "interrupted", "completed", "failed"}
Run == [status : Statuses, current : Steps \union {NoStep}, state : [Steps -> StepStates],
        round : [Steps -> Nat], last : [Steps -> Attempts \union {NoAttempt}],
        taken : [Edges -> Nat]]

\* Where a driver is inside executeAgent, where it has an attempt in hand, and
\* where an agent may work at it.
Held   == {"record", "launch", "spawn", "spawning", "unstarted", "spawned",
           "look", "seen", "overtaken", "wait", "deaf", "decide", "again"}
AtWork == {"spawning", "spawned", "look", "seen", "overtaken", "wait", "deaf"}
Inside == Held \union {"reserve"}
Places == Inside \union {"idle", "read", "step", "advance", "answer"}

Driver == [at : Places, run : Run, a : Attempts \union {NoAttempt},
           out : {"none"} \union {e.on : e \in Edges}]
Sound(r) ==
    /\ r \in Driver
    /\ r.at \in Inside => r.run.current \in Steps /\ Kind[r.run.current] = "agent"
    /\ r.at \in Held => r.a \in Attempts
    /\ r.at \in {"advance", "answer"} =>
         \E e \in Edges : e.from = r.run.current /\ e.on = r.out

DriversSound == drv \in [Drivers -> Driver] /\ \A d \in Drivers : Sound(drv[d])
Inv == LedgerShape /\ LedgerTrue /\ wf \in Run /\ RunTrue /\ DriversSound

\* While no answer came early: one driver is under way, it knows where the run
\* is, the attempt it holds is for that step and round, and it is the one an
\* agent works at, or is about to.
Busy(d) == drv[d].at \notin {"idle", "answer"}
OneDriver == \A c, d \in Drivers : Busy(c) /\ Busy(d) => c = d
DriverKnows ==
    \A d \in Drivers : Busy(d) =>
        /\ wf.status \in {"running"} \union Ends
        /\ drv[d].at # "read" => At(d) = wf.current /\ drv[d].run.round = wf.round
HeldTrue ==
    \A d \in Drivers : drv[d].at \in Held =>
        /\ env[A(d)[1]].count > 0
        /\ env[A(d)[1]].purpose = <<At(d), drv[d].run.round[At(d)]>>

Live == {a \in agents \union spawning : State(a) \in Active}
AboardTrue == \A a \in agents \union spawning : State(a) \notin {"none", "reserved"}
LiveTrue ==
    /\ \A a, b \in Live : a = b
    /\ \A a \in Live :
         /\ wf.status = "running"
         /\ env[a[1]].count > 0
         /\ env[a[1]].purpose = <<wf.current, wf.round[wf.current]>>
         /\ \A d \in Drivers : Busy(d) =>
              A(d) = a /\ drv[d].at \in AtWork
Calm == OneDriver /\ DriverKnows /\ HeldTrue /\ AboardTrue /\ LiveTrue
OneInv == hasty \/ Calm

-----------------------------------------------------------------------------
(* Every step keeps it.                                                    *)

(* What the parts of the invariant that the steps below read come to. *)
LEMMA InvFacts ==
    ASSUME Inv
    PROVE  /\ env \in [Envs -> Envelope] /\ LedgerTrue
           /\ wf \in Run /\ drv \in [Drivers -> Driver]
           /\ \A d \in Drivers : drv[d] \in Driver /\ Sound(drv[d])
BY DEF Inv, LedgerShape, DriversSound

(* A pulse moves only who waits or is in the middle of a read. *)
LEMMA Hears ==
    ASSUME NEW at
    PROVE  \/ Hearing(at) = at
           \/ at \in AtWork /\ Hearing(at) \in {"look", "overtaken"}
BY DEF Hearing, AtWork

(* Each of a step's writes to the ledger is one of its transactions. *)
LEMMA LedgerStep ==
    ASSUME Inv, Next
    PROVE  LedgerMoves /\ LedgerShape'
<1> USE InvFacts
<1>1. ASSUME LedgerMoves,
             agents' \subseteq Attempts, spawning' \subseteq Attempts, tracked' \subseteq Attempts,
             sweep' \subseteq Attempts, writes' \subseteq Envs, pulse' \in BOOLEAN
      PROVE  LedgerMoves /\ LedgerShape'
  BY <1>1 DEF LedgerMoves, LedgerShape
<1>2. /\ agents \subseteq Attempts /\ spawning \subseteq Attempts /\ tracked \subseteq Attempts
      /\ sweep \subseteq Attempts /\ writes \subseteq Envs /\ pulse \in BOOLEAN
  BY DEF Inv, LedgerShape
<1>3. ASSUME NEW d \in Drivers,
             Read(d) \/ Finish(d) \/ Inspect(d) \/ RecordAttempt(d) \/ Launch(d)
               \/ Track(d) \/ Look(d) \/ Returned(d) \/ Failover(d) \/ Gate(d) \/ GitOp(d) \/ Pause(d)
               \/ Advance(d) \/ Calls(d)
      PROVE  LedgerMoves /\ LedgerShape'
  <2>1. UNCHANGED <<env, agents, spawning, sweep, pulse>>
    BY <1>3 DEF Read, Finish, Inspect, RecordAttempt, Launch, Track, Look, Returned, Failover, Gate,
         GitOp, Pause, Advance, Calls, Create, Answer, Deliver, Resume, ledgerVars
  <2>2. tracked' \in {tracked, tracked \union {A(d)}} /\ writes' \in {writes, writes \union {A(d)[1]}}
    BY <1>3 DEF Read, Finish, Inspect, RecordAttempt, Launch, Track, Look, Returned, Failover, Gate,
         GitOp, Pause, Advance, Calls, Create, Answer, Deliver, Resume, ledgerVars
  <2>3. tracked' \subseteq Attempts /\ writes' \subseteq Envs
    <3>1. CASE drv[d].at \in {"spawned", "launch"}
      <4>1. A(d) \in Attempts /\ A(d)[1] \in Envs
        BY <3>1 DEF Sound, Held, A, Attempts
      <4> QED
        BY <1>2, <2>2, <4>1
    <3>2. CASE drv[d].at \notin {"spawned", "launch"}
      <4>1. UNCHANGED <<tracked, writes>>
        BY <1>3, <3>2 DEF Read, Finish, Inspect, RecordAttempt, Launch, Track, Look, Returned, Failover,
             Gate, GitOp, Pause, Advance, Calls, Create, Answer, Deliver, Resume, ledgerVars
      <4> QED
        BY <1>2, <4>1
    <3> QED
      BY <3>1, <3>2
  <2> QED
    BY <1>1, <1>2, <2>1, <2>3, QuietMoves
<1>4. ASSUME NEW d \in Drivers, ReserveTask(d) PROVE LedgerMoves /\ LedgerShape'
  <2>1. PICK e \in Unused : Reserve(e, <<At(d), drv[d].run.round[At(d)]>>)
    BY <1>4 DEF ReserveTask
  <2>2. At(d) \in Steps /\ drv[d].run.round \in [Steps -> Nat]
    BY <1>4 DEF ReserveTask, Sound, Inside, At, Driver, Run
  <2>3. <<At(d), drv[d].run.round[At(d)]>> \in (Steps \X Nat) \union {NoPurpose}
    BY <2>2
  <2>4. LedgerMoves
    BY <2>1, <2>3, ReserveMoves
  <2> QED
    BY <1>1, <1>2, <1>4, <2>1, <2>4 DEF ReserveTask, Reserve
<1>5. ASSUME NEW d \in Drivers, Spawn(d) PROVE LedgerMoves /\ LedgerShape'
  <2>1. A(d) \in Attempts
    BY <1>5 DEF Spawn, Sound, Held, A
  <2>2. CASE MayBind(A(d)) /\ Bind(A(d))
    <3>1. State(A(d)) \in Active /\ Current(A(d)) /\ "running" = Fit("launching", A(d)[2])
      BY <2>2 DEF MayBind, Active, Fit
    <3>2. LedgerMoves
      BY <2>1, <2>2, <3>1, PutMoves DEF Bind, Begun
    <3> QED
      BY <1>1, <1>2, <2>1, <2>2, <3>2 DEF Bind
  <2>3. CASE UNCHANGED ledgerVars
    BY <1>1, <1>2, <2>3, QuietMoves DEF ledgerVars
  <2> QED
    BY <1>5, <2>2, <2>3 DEF Spawn
<1>6. ASSUME NEW d \in Drivers, NotStarted(d) PROVE LedgerMoves /\ LedgerShape'
  <2>1. A(d) \in Attempts
    BY <1>6 DEF NotStarted, Sound, Held, A
  <2>2. LedgerMoves
    BY <1>6, <2>1, SettleMoves DEF NotStarted, Settled
  <2> QED
    BY <1>1, <1>2, <1>6, <2>2 DEF NotStarted, Settle
<1>7. ASSUME NEW d \in Drivers, TryAgain(d) PROVE LedgerMoves /\ LedgerShape'
  <2> DEFINE e == A(d)[1]
  <2>1. e \in Envs
    BY <1>7 DEF TryAgain, Sound, Held, A, Attempts
  <2>2. CASE MayReserveAgain(e) /\ ReserveAgain(e)
    <3>1. LedgerMoves
      BY <2>1, <2>2, ReserveAgainMoves
    <3> QED
      BY <1>1, <1>2, <1>7, <2>2, <3>1 DEF TryAgain, ReserveAgain
  <2>3. CASE UNCHANGED <<env, pulse>>
    BY <1>1, <1>2, <1>7, <2>3, QuietMoves DEF TryAgain
  <2> QED
    BY <1>7, <2>2, <2>3 DEF TryAgain
<1>8. ASSUME NEW a \in Attempts, SpawnEnds(a) PROVE LedgerMoves /\ LedgerShape'
  <2>1. CASE SpawnSucceeds(a)
    <3>1. State(a) \in Active /\ Current(a) /\ "running" = Fit("running", a[2])
      BY <2>1 DEF SpawnSucceeds, MayStart, Active, Fit
    <3>2. LedgerMoves
      BY <2>1, <3>1, PutMoves DEF SpawnSucceeds, Begun
    <3> QED
      BY <1>1, <1>2, <2>1, <3>2 DEF SpawnSucceeds
  <2>2. CASE SpawnFails(a)
    <3>1. LedgerMoves
      BY <2>2, SettleMoves DEF SpawnFails, Settled
    <3> QED
      BY <1>1, <1>2, <2>2, <3>1 DEF SpawnFails, Settle
  <2> QED
    BY <1>8, <2>1, <2>2 DEF SpawnEnds
<1>9. ASSUME NEW a \in Attempts, AgentStep(a) PROVE LedgerMoves /\ LedgerShape'
  <2>1. CASE JobBlocked(a)
    <3>1. State(a) \in Active /\ Current(a) /\ "blocked" = Fit("waiting", a[2])
      BY <2>1 DEF JobBlocked, MayWait, Active, Fit
    <3>2. LedgerMoves
      BY <2>1, <3>1, PutMoves DEF JobBlocked, Begun
    <3> QED
      BY <1>1, <1>2, <2>1, <3>2 DEF JobBlocked
  <2>2. CASE \E s \in Settled : Settle(a, s)
    <3>1. LedgerMoves /\ pulse' \in BOOLEAN
      BY <1>2, <2>2, SettleMoves DEF Settle
    <3>2. CASE JobDone(a)
      BY <1>1, <1>2, <3>1, <3>2 DEF JobDone
    <3>3. CASE StopRun(a) \/ AgentExits(a) \/ SweepOne(a)
      BY <1>1, <1>2, <3>1, <3>3 DEF StopRun, AgentExits, SweepOne, Abandon
    <3> QED
      BY <1>9, <2>1, <3>2, <3>3 DEF AgentStep
  <2>3. CASE AgentExits(a) /\ UNCHANGED <<env, tracked, pulse>>
    BY <1>1, <1>2, <2>3, QuietMoves DEF AgentExits, Abandon
  <2>4. JobBlocked(a) \/ (\E s \in Settled : Settle(a, s))
          \/ (AgentExits(a) /\ UNCHANGED <<env, tracked, pulse>>)
    BY <1>9 DEF AgentStep, JobDone, StopRun, AgentExits, SweepOne, Abandon, Settled
  <2> QED
    BY <2>1, <2>2, <2>3, <2>4
<1>10. ASSUME NEW e \in Envs, Persist(e) PROVE LedgerMoves /\ LedgerShape'
  <2>1. LedgerMoves
    BY <1>10, PersistMoves
  <2> QED
    BY <1>1, <1>2, <1>10, <2>1 DEF Persist
<1>11. ASSUME NEW e \in Envs, Cancel(e) PROVE LedgerMoves /\ LedgerShape'
  <2>1. Last(e) \in Attempts
    BY <1>11, LedgerAssumption DEF Cancel, CancelRun, Last, Attempts, Envelope
  <2>2. LedgerMoves
    BY <1>11, <2>1, SettleMoves DEF Cancel, CancelRun, Settled
  <2> QED
    BY <1>1, <1>2, <1>11, <2>2 DEF Cancel, CancelRun, Settle
<1>12. CASE Announce
  BY <1>1, <1>2, <1>12, QuietMoves DEF Announce, Emit
<1>13. CASE Crash
  BY <1>1, <1>2, <1>13, QuietMoves DEF Crash, LedgerCrash
<1>14. CASE Reload
  BY <1>1, <1>2, <1>14, QuietMoves DEF Reload, LedgerReload
<1> QED
  BY <1>3, <1>4, <1>5, <1>6, <1>7, <1>8, <1>9, <1>10, <1>11, <1>12, <1>13, <1>14
  DEF Next, DriverStep

(* The record of a run that was never made, and of a driver that is at rest. *)
LEMMA AsleepSound == NoRun \in Run /\ Sound(Asleep)
<1>1. NoRun \in Run
  BY DEF NoRun, Run, Statuses, StepStates
<1> QED
  BY <1>1 DEF Asleep, Sound, Driver, Places, Inside, Held

(* A run moved from one step to the next. *)
LEMMA AdvancedRun ==
    ASSUME wf \in Run, RunTrue, NEW e \in Edges, NEW out, NEW t \in Steps \union Ends,
           CurrentActive(e.from)
    PROVE  LET w == Advanced(e, out, t)
           IN  /\ w \in Run
               /\ w.status \in {"running"} \union Ends
               /\ (w.current = NoStep) <=> (w.status \in Ends)
               /\ w.current # NoStep => w.state[w.current] = w.status
               /\ \A s \in Steps \ {w.current} : w.state[s] \in {"pending", "completed", "failed"}
<1> DEFINE left == Leave(e, out, t)
<1>1. /\ e.from \in Steps /\ e.from = wf.current /\ NoStep \notin Steps
      /\ StepState(out) \in {"completed", "failed"}
  BY WorkflowAssumption DEF CurrentActive, StepState
<1>2. /\ left.state = [wf.state EXCEPT ![e.from] = StepState(out)]
      /\ left.round = wf.round /\ left.last = wf.last
      /\ left.taken \in [Edges -> Nat]
      /\ left = [wf EXCEPT !.state = left.state, !.taken = left.taken]
  BY DEF Leave, Run
<1>3. left.state \in [Steps -> StepStates]
  BY <1>1, <1>2 DEF Run, StepStates
<1>4. left \in Run
  BY <1>2, <1>3 DEF Run
<1>5. \A s \in Steps : left.state[s] \in {"pending", "completed", "failed"}
  BY <1>1, <1>2 DEF RunTrue, Run
<1> HIDE DEF left
<1>6. CASE t \in Ends
  <2>1. Advanced(e, out, t) = [left EXCEPT !.status = t, !.current = NoStep]
    BY <1>6 DEF Advanced, left
  <2> QED
    BY <1>4, <1>5, <1>6, <2>1 DEF Run, Statuses
<1>7. CASE t \notin Ends
  <2> DEFINE w == [left EXCEPT !.status = "running", !.current = t,
                       !.state = [left.state EXCEPT ![t] = "running"],
                       !.round = [left.round EXCEPT ![t] = left.round[t] + 1]]
  <2>1. Advanced(e, out, t) = w
    BY <1>4, <1>7 DEF Advanced, left, Run
  <2>2. t \in Steps /\ t # NoStep
    BY <1>1, <1>7
  <2>3. w \in Run
    <3>1. [left.state EXCEPT ![t] = "running"] \in [Steps -> StepStates]
      BY <1>4, <2>2 DEF Run, StepStates
    <3>2. [left.round EXCEPT ![t] = left.round[t] + 1] \in [Steps -> Nat]
      BY <1>4, <2>2 DEF Run
    <3> QED
      BY <1>4, <2>2, <3>1, <3>2 DEF Run, Statuses
  <2>4. /\ w.status = "running" /\ w.current = t
        /\ w.state = [left.state EXCEPT ![t] = "running"]
    BY <1>4 DEF Run
  <2> HIDE DEF w
  <2> QED
    BY <1>4, <1>5, <2>1, <2>2, <2>3, <2>4 DEF Run, Ends
<1> QED
  BY <1>6, <1>7

(* The edge a driver leaves by. *)
LEMMA EdgeTaken ==
    ASSUME NEW r, Sound(r), r.at \in {"advance", "answer"}
    PROVE  /\ EdgeFor(r.run.current, r.out) \in Edges
           /\ EdgeFor(r.run.current, r.out).from = r.run.current
           /\ EdgeTarget(r.run, EdgeFor(r.run.current, r.out)) \in Steps \union Ends
<1>1. PICK e \in Edges : e.from = r.run.current /\ e.on = r.out
  BY DEF Sound
<1>2. /\ EdgeFor(r.run.current, r.out) \in Edges
      /\ EdgeFor(r.run.current, r.out).from = r.run.current
  BY <1>1 DEF EdgeFor
<1> QED
  BY <1>2, WorkflowAssumption DEF EdgeTarget

(* The step of a driver's advance, when it is not refused. *)
LEMMA AdvanceRun ==
    ASSUME Inv, NEW d \in Drivers, Advance(d), CurrentActive(At(d))
    PROVE  /\ (wf \in Run)' /\ RunTrue'
           /\ wf'.status \in {"running"} \union Ends
           /\ drv' = [drv EXCEPT ![d] = [Asleep EXCEPT
                   !.at = IF drv[d].at = "answer" THEN "read" ELSE "step", !.run = wf']]
           /\ hasty' = (hasty \/ (drv[d].at = "answer" /\ wf.status # "waiting"))
<1> DEFINE e == EdgeFor(At(d), drv[d].out)
           t == EdgeTarget(drv[d].run, e)
<1>1. Sound(drv[d]) /\ drv[d].at \in {"advance", "answer"} /\ wf \in Run /\ RunTrue
  BY InvFacts DEF Advance, Inv
<1>2. e \in Edges /\ e.from = At(d) /\ t \in Steps \union Ends
  BY <1>1, EdgeTaken DEF At
<1>3. /\ wf' = Advanced(e, drv[d].out, t)
      /\ drv' = [drv EXCEPT ![d] = [Asleep EXCEPT
              !.at = IF drv[d].at = "answer" THEN "read" ELSE "step", !.run = wf']]
      /\ hasty' = (hasty \/ (drv[d].at = "answer" /\ wf.status # "waiting"))
  BY DEF Advance
<1> HIDE DEF e, t
<1>4. /\ wf' \in Run
      /\ wf'.status \in {"running"} \union Ends
      /\ (wf'.current = NoStep) <=> (wf'.status \in Ends)
      /\ wf'.current # NoStep => wf'.state[wf'.current] = wf'.status
      /\ \A s \in Steps \ {wf'.current} : wf'.state[s] \in {"pending", "completed", "failed"}
  BY <1>1, <1>2, <1>3, AdvancedRun
<1> QED
  BY <1>3, <1>4 DEF RunTrue, Ends

(* A row of the current step is written with the status of the run. *)
LEMMA RecordedRun ==
    ASSUME wf \in Run, RunTrue, NEW s, CurrentActive(s), NEW t \in {"running", "waiting"}
    PROVE  LET w == Recorded(s, t)
           IN  /\ w \in Run /\ w.status = t /\ w.current = s /\ s \in Steps
               /\ w.round = wf.round
               /\ w.state[s] = t
               /\ \A x \in Steps \ {s} : w.state[x] \in {"pending", "completed", "failed"}
<1>1. s \in Steps /\ wf.current = s
  BY DEF RunTrue, CurrentActive, Run, Ends
<1>2. Recorded(s, t) = [wf EXCEPT !.state = [wf.state EXCEPT ![s] = t], !.status = t]
  BY DEF Recorded, Run
<1>3. [wf.state EXCEPT ![s] = t] \in [Steps -> StepStates]
  BY <1>1 DEF Run, StepStates
<1> DEFINE w == Recorded(s, t)
<1>4. w \in Run
  BY <1>2, <1>3 DEF Run, Statuses
<1>5. /\ w.status = t /\ w.current = s /\ w.round = wf.round
      /\ w.state = [wf.state EXCEPT ![s] = t]
  BY <1>1, <1>2 DEF Run
<1>6. w.state[s] = t /\ \A x \in Steps \ {s} : w.state[x] = wf.state[x]
  BY <1>1, <1>5 DEF Run
<1> HIDE DEF w
<1>7. \A x \in Steps \ {s} : w.state[x] \in {"pending", "completed", "failed"}
  BY <1>1, <1>6 DEF RunTrue
<1> QED
  BY <1>1, <1>4, <1>5, <1>6, <1>7 DEF w

(* The run and its steps are written together. *)
LEMMA RunStep ==
    ASSUME Inv, Next
    PROVE  (wf \in Run)' /\ RunTrue'
<1> USE InvFacts
<1>1. wf \in Run /\ RunTrue
  BY DEF Inv
<1>2. ASSUME UNCHANGED wf PROVE (wf \in Run)' /\ RunTrue'
  BY <1>1, <1>2 DEF RunTrue
<1>3. ASSUME NEW d \in Drivers,
             \/ Read(d) \/ Finish(d) \/ Inspect(d) \/ ReserveTask(d) \/ Launch(d) \/ Spawn(d)
             \/ NotStarted(d) \/ Track(d) \/ Look(d) \/ Returned(d) \/ Failover(d) \/ TryAgain(d)
             \/ Gate(d) \/ GitOp(d) \/ Answer(d) \/ Deliver(d)
      PROVE  UNCHANGED wf
  BY <1>3 DEF Read, Finish, Inspect, ReserveTask, Launch, Spawn, NotStarted, Track, Look, Returned,
       Failover, TryAgain, Gate, GitOp, Answer, Deliver
<1>4. ASSUME NEW d \in Drivers, RecordAttempt(d) PROVE (wf \in Run)' /\ RunTrue'
  <2>1. CASE CurrentActive(At(d))
    <3> DEFINE w == Recorded(At(d), "running")
    <3>1. /\ w \in Run /\ w.status = "running" /\ w.current = At(d) /\ At(d) \in Steps
          /\ w.state[At(d)] = "running"
          /\ \A x \in Steps \ {At(d)} : w.state[x] \in {"pending", "completed", "failed"}
      BY <1>1, <2>1, RecordedRun
    <3>2. wf' = [w EXCEPT !.last = [w.last EXCEPT ![At(d)] = A(d)]]
      BY <1>4, <2>1, <3>1 DEF RecordAttempt, Run
    <3>3. A(d) \in Attempts
      BY <1>4 DEF RecordAttempt, Sound, Held, A
    <3> HIDE DEF w
    <3>4. [w.last EXCEPT ![At(d)] = A(d)] \in [Steps -> Attempts \union {NoAttempt}]
      BY <3>1, <3>3 DEF Run
    <3>5. wf' \in Run /\ wf'.status = w.status /\ wf'.current = w.current /\ wf'.state = w.state
      BY <3>1, <3>2, <3>4 DEF Run
    <3> QED
      BY <3>1, <3>5, WorkflowAssumption DEF RunTrue, Ends
  <2>2. CASE UNCHANGED wf
    BY <1>2, <2>2
  <2> QED
    BY <1>4, <2>1, <2>2 DEF RecordAttempt
<1>5. ASSUME NEW d \in Drivers, Pause(d) PROVE (wf \in Run)' /\ RunTrue'
  <2>1. CASE CurrentActive(At(d))
    <3> DEFINE w == Recorded(At(d), "waiting")
    <3>1. /\ w \in Run /\ w.status = "waiting" /\ w.current = At(d) /\ At(d) \in Steps
          /\ w.state[At(d)] = "waiting"
          /\ \A x \in Steps \ {At(d)} : w.state[x] \in {"pending", "completed", "failed"}
      BY <1>1, <2>1, RecordedRun
    <3>2. wf' = w
      BY <1>5, <2>1 DEF Pause
    <3> HIDE DEF w
    <3> QED
      BY <3>1, <3>2, WorkflowAssumption DEF RunTrue, Ends
  <2>2. CASE UNCHANGED wf
    BY <1>2, <2>2
  <2> QED
    BY <1>5, <2>1, <2>2 DEF Pause
<1>6. ASSUME NEW d \in Drivers, Advance(d) PROVE (wf \in Run)' /\ RunTrue'
  <2>1. CASE CurrentActive(At(d))
    BY <1>6, <2>1, AdvanceRun
  <2>2. CASE UNCHANGED wf
    BY <1>2, <2>2
  <2> QED
    BY <1>6, <2>1, <2>2 DEF Advance
<1>7. ASSUME NEW d \in Drivers, Create(d) PROVE (wf \in Run)' /\ RunTrue'
  <2> DEFINE w == [NoRun EXCEPT !.status = "running", !.current = Start,
                       !.state = [NoRun.state EXCEPT ![Start] = "running"]]
  <2>1. wf' = w /\ Start \in Steps /\ Start # NoStep
    BY <1>7, WorkflowAssumption DEF Create, NoRun
  <2>2. NoRun.state = [s \in Steps |-> "pending"]
    BY DEF NoRun
  <2>3. [NoRun.state EXCEPT ![Start] = "running"] \in [Steps -> StepStates]
    BY <2>1, <2>2 DEF StepStates
  <2>4. w \in Run /\ w.status = "running" /\ w.current = Start
        /\ w.state = [NoRun.state EXCEPT ![Start] = "running"]
    BY <2>1, <2>3, AsleepSound DEF Run, Statuses
  <2>5. /\ w.state[Start] = "running"
        /\ \A x \in Steps \ {Start} : w.state[x] = "pending"
    BY <2>1, <2>2, <2>4
  <2> HIDE DEF w
  <2> QED
    BY <2>1, <2>4, <2>5 DEF RunTrue, Ends
<1>8. ASSUME NEW d \in Drivers, Resume(d) PROVE (wf \in Run)' /\ RunTrue'
  <2>1. wf.current \in Steps /\ wf.current # NoStep
    BY <1>1, <1>8 DEF Resume, RunTrue, Ends, Run
  <2> DEFINE w == [wf EXCEPT !.status = "running",
                             !.state = [wf.state EXCEPT ![wf.current] = "running"]]
  <2>2. wf' = w
    BY <1>1, <1>8 DEF Resume, Run
  <2>3. [wf.state EXCEPT ![wf.current] = "running"] \in [Steps -> StepStates]
    BY <1>1, <2>1 DEF Run, StepStates
  <2>4. w \in Run /\ w.status = "running" /\ w.current = wf.current
        /\ w.state = [wf.state EXCEPT ![wf.current] = "running"]
    BY <1>1, <2>3 DEF Run, Statuses
  <2>5. /\ w.state[wf.current] = "running"
        /\ \A x \in Steps \ {wf.current} : w.state[x] = wf.state[x]
    BY <1>1, <2>1, <2>4 DEF Run
  <2> HIDE DEF w
  <2> QED
    BY <1>1, <2>1, <2>2, <2>4, <2>5 DEF RunTrue, Ends
<1>9. CASE Crash
  <2>1. CASE wf.status # "running"
    BY <1>2, <1>9, <2>1 DEF Crash, Reconciled
  <2>2. CASE wf.status = "running"
    <3>1. wf.current \in Steps /\ wf.current # NoStep
      BY <1>1, <2>2 DEF RunTrue, Ends, Run
    <3> DEFINE w == [wf EXCEPT !.status = "interrupted",
                               !.state = [wf.state EXCEPT ![wf.current] = "interrupted"]]
    <3>2. wf' = w
      BY <1>1, <1>9, <2>2 DEF Crash, Reconciled, Run
    <3>3. [wf.state EXCEPT ![wf.current] = "interrupted"] \in [Steps -> StepStates]
      BY <1>1, <3>1 DEF Run, StepStates
    <3>4. w \in Run /\ w.status = "interrupted" /\ w.current = wf.current
          /\ w.state = [wf.state EXCEPT ![wf.current] = "interrupted"]
      BY <1>1, <3>3 DEF Run, Statuses
    <3>5. /\ w.state[wf.current] = "interrupted"
          /\ \A x \in Steps \ {wf.current} : w.state[x] = wf.state[x]
      BY <1>1, <3>1, <3>4 DEF Run
    <3> HIDE DEF w
    <3> QED
      BY <1>1, <3>1, <3>2, <3>4, <3>5 DEF RunTrue, Ends
  <2> QED
    BY <2>1, <2>2
<1>10. ASSUME \/ \E a \in Attempts : SpawnEnds(a) \/ AgentStep(a)
              \/ \E e \in Envs : (Persist(e) /\ UNCHANGED wfVars) \/ Cancel(e)
              \/ Announce \/ Reload
       PROVE  UNCHANGED wf
  BY <1>10 DEF SpawnEnds, AgentStep, Cancel, Announce, Reload, wfVars
<1> QED
  BY <1>2, <1>3, <1>4, <1>5, <1>6, <1>7, <1>8, <1>9, <1>10 DEF Next, DriverStep, Calls

(* One driver moves to a record that is sound. *)
LEMMA OneMoves ==
    ASSUME Inv, NEW d \in Drivers, NEW r, Sound(r), drv' = [drv EXCEPT ![d] = r]
    PROVE  DriversSound'
<1>1. drv \in [Drivers -> Driver] /\ (\A c \in Drivers : Sound(drv[c])) /\ r \in Driver
  BY DEF Inv, DriversSound, Sound
<1>2. drv' \in [Drivers -> Driver] /\ \A c \in Drivers : drv'[c] = IF c = d THEN r ELSE drv[c]
  BY <1>1
<1>3. ASSUME NEW c \in Drivers PROVE Sound(drv'[c])
  BY <1>1, <1>2
<1> QED
  BY <1>2, <1>3 DEF DriversSound, Sound

(* It goes to another place, keeping what it has in hand. *)
LEMMA GoesSound ==
    ASSUME Inv, NEW d \in Drivers, NEW at \in Places, Goes(d, at),
           at \in Inside => At(d) \in Steps /\ Kind[At(d)] = "agent",
           at \in Held => A(d) \in Attempts,
           at \notin {"advance", "answer"}
    PROVE  DriversSound'
<1> DEFINE r == [drv[d] EXCEPT !.at = at]
<1>1. drv[d] \in Driver /\ drv \in [Drivers -> Driver]
  BY InvFacts
<1>2. r \in Driver /\ r.at = at /\ r.run = drv[d].run /\ r.a = drv[d].a
  BY <1>1 DEF Driver
<1>3. drv' = [drv EXCEPT ![d] = r]
  BY <1>1 DEF Goes, Driver
<1> HIDE DEF r
<1>4. Sound(r)
  BY <1>2 DEF Sound, At, A
<1> QED
  BY <1>3, <1>4, OneMoves

(* It has decided, and an edge leads on from what it decided. *)
LEMMA DecidesSound ==
    ASSUME Inv, NEW d \in Drivers, NEW out, Decides(d, out),
           At(d) \in Steps, out \in Outcomes(At(d))
    PROVE  DriversSound'
<1> DEFINE r == [drv[d] EXCEPT !.at = "advance", !.out = out]
<1>1. drv[d] \in Driver /\ drv \in [Drivers -> Driver]
  BY InvFacts
<1>2. PICK e \in Edges : e.from = At(d) /\ e.on = out
  BY WorkflowAssumption
<1>3. r \in Driver /\ r.at = "advance" /\ r.run = drv[d].run /\ r.out = out
  BY <1>1, <1>2 DEF Driver, Places
<1>4. drv' = [drv EXCEPT ![d] = r]
  BY <1>1 DEF Decides, Driver
<1> HIDE DEF r
<1>5. Sound(r)
  BY <1>2, <1>3 DEF Sound, At, Inside, Held
<1> QED
  BY <1>4, <1>5, OneMoves

(* It returns. *)
LEMMA EndedSound ==
    ASSUME Inv, NEW d \in Drivers, Ended(d)
    PROVE  DriversSound'
BY AsleepSound, OneMoves DEF Ended

(* It takes a copy of the run. *)
LEMMA TakesRunSound ==
    ASSUME Inv, NEW d \in Drivers, NEW run \in Run, NEW r \in Driver,
           NEW at \in {"read", "step"},
           drv' = [drv EXCEPT ![d] = [r EXCEPT !.at = at, !.run = run]]
    PROVE  DriversSound'
<1> DEFINE q == [r EXCEPT !.at = at, !.run = run]
<1>1. q \in Driver /\ q.at = at
  BY DEF Driver, Places
<1> HIDE DEF q
<1>2. Sound(q)
  BY <1>1 DEF Sound, Inside, Held
<1> QED
  BY <1>2, OneMoves DEF q

(* It takes an attempt just reserved. *)
LEMMA TakesAttemptSound ==
    ASSUME Inv, NEW d \in Drivers, NEW a \in Attempts,
           At(d) \in Steps, Kind[At(d)] = "agent",
           drv' = [drv EXCEPT ![d].at = "record", ![d].a = a]
    PROVE  DriversSound'
<1> DEFINE r == [drv[d] EXCEPT !.at = "record", !.a = a]
<1>1. drv[d] \in Driver /\ drv \in [Drivers -> Driver]
  BY InvFacts
<1>2. r \in Driver /\ r.at = "record" /\ r.run = drv[d].run /\ r.a = a
  BY <1>1 DEF Driver, Places, Inside, Held
<1>3. drv' = [drv EXCEPT ![d] = r]
  BY <1>1 DEF Driver
<1> HIDE DEF r
<1>4. Sound(r)
  BY <1>2 DEF Sound, At
<1> QED
  BY <1>3, <1>4, OneMoves

(* What an agent step can come to has an edge of its own. *)
LEMMA AgentOutcomes ==
    ASSUME NEW s, Kind[s] = "agent"
    PROVE  CompletedOutcomes(s) \union {"failure"} \subseteq Outcomes(s)
BY DEF Outcomes

(* Drivers that hear of a terminal. *)
LEMMA AnsweredSound ==
    ASSUME Inv, NEW to \in {"spawned", "unstarted", "look"}, NEW S \in SUBSET Drivers,
           \A d \in S : drv[d].at \in {"spawning", "wait"},
           drv' = [d \in Drivers |-> IF d \in S THEN [drv[d] EXCEPT !.at = to] ELSE drv[d]]
    PROVE  DriversSound'
<1>1. ASSUME NEW d \in Drivers PROVE Sound(drv'[d])
  <2>1. Sound(drv[d]) /\ drv[d] \in Driver
    BY InvFacts
  <2>2. CASE d \notin S
    BY <2>1, <2>2
  <2>3. CASE d \in S
    <3> DEFINE r == [drv[d] EXCEPT !.at = to]
    <3>1. r \in Driver /\ r.at = to /\ r.run = drv[d].run /\ r.a = drv[d].a
      BY <2>1 DEF Driver, Places, Inside, Held
    <3>2. drv'[d] = r
      BY <2>3
    <3> HIDE DEF r
    <3> QED
      BY <2>1, <2>3, <3>1, <3>2 DEF Sound, Inside, Held
  <2> QED
    BY <2>2, <2>3
<1> QED
  BY <1>1 DEF DriversSound, Sound

(* Every driver of a step is somewhere it can go on from. *)
LEMMA DriversStep ==
    ASSUME Inv, Next, (wf \in Run)'
    PROVE  DriversSound'
<1> USE InvFacts
<1>1. ASSUME UNCHANGED drv PROVE DriversSound'
  BY <1>1 DEF Inv, DriversSound, Sound
<1>2. ASSUME NEW d \in Drivers, drv[d].at \in Inside
      PROVE  At(d) \in Steps /\ Kind[At(d)] = "agent" /\ (drv[d].at \in Held => A(d) \in Attempts)
  BY <1>2 DEF Sound, At, A
<1>3. ASSUME NEW d \in Drivers, NEW kinds, OnStep(d, kinds)
      PROVE  At(d) \in Steps /\ Kind[At(d)] \in kinds
  BY <1>3 DEF OnStep, At, Driver, Run
<1>4. ASSUME NEW d \in Drivers, Ended(d) PROVE DriversSound'
  BY <1>4, EndedSound
<1>5. ASSUME NEW d \in Drivers, NEW at \in Places \ {"advance", "answer"},
             drv[d].at \in Held, Goes(d, at)
      PROVE  DriversSound'
  <2>1. drv[d].at \in Inside
    BY <1>5 DEF Inside
  <2> QED
    BY <1>2, <1>5, <2>1, GoesSound
<1>6. ASSUME NEW d \in Drivers, NEW out, Decides(d, out),
             At(d) \in Steps, Kind[At(d)] = "agent", out \in CompletedOutcomes(At(d)) \union {"failure"}
      PROVE  DriversSound'
  BY <1>6, AgentOutcomes, DecidesSound
<1>7. ASSUME NEW d \in Drivers, Read(d) PROVE DriversSound'
  <2>1. CASE Ended(d)
    BY <1>4, <2>1
  <2>2. CASE drv' = [drv EXCEPT ![d].at = "step", ![d].run = wf]
    <3>1. drv' = [drv EXCEPT ![d] = [drv[d] EXCEPT !.at = "step", !.run = wf]]
      BY <2>2
    <3> QED
      BY <3>1, TakesRunSound
  <2> QED
    BY <1>7, <2>1, <2>2 DEF Read
<1>8. ASSUME NEW d \in Drivers, Inspect(d) PROVE DriversSound'
  <2>1. At(d) \in Steps /\ Kind[At(d)] = "agent"
    BY <1>3, <1>8 DEF Inspect
  <2>2. CASE \E out \in CompletedOutcomes(At(d)) : Decides(d, out)
    BY <1>6, <2>1, <2>2
  <2>3. CASE Goes(d, "reserve")
    BY <2>1, <2>3, GoesSound DEF Places, Inside, Held
  <2>4. CASE Ended(d)
    BY <1>4, <2>4
  <2> QED
    BY <1>8, <2>2, <2>3, <2>4 DEF Inspect
<1>9. ASSUME NEW d \in Drivers, ReserveTask(d) PROVE DriversSound'
  <2>1. At(d) \in Steps /\ Kind[At(d)] = "agent"
    BY <1>2, <1>9 DEF ReserveTask, Inside
  <2>2. PICK e \in Unused : drv' = [drv EXCEPT ![d].at = "record", ![d].a = <<e, 1>>]
    BY <1>9 DEF ReserveTask
  <2>3. <<e, 1>> \in Attempts
    BY LedgerAssumption DEF Unused, Attempts
  <2> QED
    BY <2>1, <2>2, <2>3, TakesAttemptSound
<1>10. ASSUME NEW d \in Drivers, RecordAttempt(d) PROVE DriversSound'
  <2>1. CASE Ended(d)
    BY <1>4, <2>1
  <2>2. CASE /\ CurrentActive(At(d))
             /\ wf' = [Recorded(At(d), "running") EXCEPT !.last[At(d)] = A(d)]
             /\ drv' = [drv EXCEPT ![d].at = "launch", ![d].run = wf']
    <3> DEFINE r == [drv[d] EXCEPT !.at = "launch", !.run = wf']
    <3>1. drv[d] \in Driver /\ drv' = [drv EXCEPT ![d] = r]
      BY <2>2
    <3>2. r \in Driver /\ r.at = "launch" /\ r.run = wf' /\ r.a = A(d)
      BY <3>1 DEF Driver, Places, Inside, Held, A
    <3>3. drv[d].at \in Held /\ drv[d].at \in Inside
      BY <1>10 DEF RecordAttempt, Inside, Held
    <3>4. wf'.current = At(d)
      BY <2>2 DEF Recorded, CurrentActive, Run
    <3> HIDE DEF r
    <3>5. Sound(r)
      BY <1>2, <3>2, <3>3, <3>4 DEF Sound
    <3> QED
      BY <3>1, <3>5, OneMoves
  <2> QED
    BY <1>10, <2>1, <2>2 DEF RecordAttempt
<1>11. ASSUME NEW d \in Drivers, Launch(d) \/ Spawn(d) \/ NotStarted(d) \/ Track(d) PROVE DriversSound'
  <2>1. drv[d].at \in Held
    BY <1>11 DEF Launch, Spawn, NotStarted, Track, Held
  <2>2. \E at \in {"unstarted", "spawn", "spawning", "decide", "look"} : Goes(d, at)
    BY <1>11 DEF Launch, Spawn, NotStarted, Track
  <2>3. {"unstarted", "spawn", "spawning", "decide", "look"} \subseteq Places \ {"advance", "answer"}
    BY DEF Places, Inside, Held
  <2> QED
    BY <1>5, <2>1, <2>2, <2>3
<1>12. ASSUME NEW d \in Drivers, Look(d) \/ Returned(d) \/ Failover(d) PROVE DriversSound'
  <2>1. drv[d].at \in Held /\ drv[d].at \in Inside
    BY <1>12 DEF Look, Returned, Failover, Held, Inside
  <2>2. CASE \E out \in CompletedOutcomes(At(d)) \union {"failure"} : Decides(d, out)
    BY <1>2, <1>6, <2>1, <2>2
  <2>3. CASE \E at \in {"decide", "seen", "wait", "deaf", "again"} : Goes(d, at)
    <3>1. {"decide", "seen", "wait", "deaf", "again"} \subseteq Places \ {"advance", "answer"}
      BY DEF Places, Inside, Held
    <3> QED
      BY <1>5, <2>1, <2>3, <3>1
  <2> QED
    BY <1>12, <2>2, <2>3 DEF Look, Returned, Failover
<1>13. ASSUME NEW d \in Drivers, TryAgain(d) PROVE DriversSound'
  <2>1. At(d) \in Steps /\ Kind[At(d)] = "agent" /\ A(d) \in Attempts
    BY <1>2, <1>13 DEF TryAgain, Inside, Held
  <2> DEFINE e == A(d)[1]
  <2>2. CASE /\ MayReserveAgain(e)
             /\ drv' = [drv EXCEPT ![d].at = "record", ![d].a = <<e, env[e].count + 1>>]
    <3>1. <<e, env[e].count + 1>> \in Attempts
      BY <2>1, <2>2, LedgerAssumption DEF Attempts, MayReserveAgain, Envelope
    <3> QED
      BY <2>1, <2>2, <3>1, TakesAttemptSound
  <2>3. CASE Ended(d)
    BY <1>4, <2>3
  <2> QED
    BY <1>13, <2>2, <2>3 DEF TryAgain
<1>14. ASSUME NEW d \in Drivers, Gate(d) \/ GitOp(d) PROVE DriversSound'
  <2>1. CASE Gate(d)
    <3>1. At(d) \in Steps /\ Kind[At(d)] = "gate" /\ Outcomes(At(d)) = {"pass", "fail"}
      BY <1>3, <2>1 DEF Gate, Outcomes
    <3>2. \E out \in {"pass", "fail"} : Decides(d, out)
      BY <2>1 DEF Gate
    <3> QED
      BY <3>1, <3>2, DecidesSound
  <2>2. CASE GitOp(d)
    <3>1. At(d) \in Steps /\ Kind[At(d)] = "git-op" /\ Outcomes(At(d)) = {"success", "failure"}
      BY <1>3, <2>2 DEF GitOp, Outcomes
    <3> QED
      BY <2>2, <3>1, DecidesSound DEF GitOp
  <2> QED
    BY <1>14, <2>1, <2>2
<1>15. ASSUME NEW d \in Drivers, Finish(d) \/ Pause(d) PROVE DriversSound'
  BY <1>4, <1>15 DEF Finish, Pause
<1>16. ASSUME NEW d \in Drivers, Advance(d) PROVE DriversSound'
  <2>1. CASE Ended(d)
    BY <1>4, <2>1
  <2>2. CASE CurrentActive(At(d))
    <3>1. \E at \in {"read", "step"} :
            drv' = [drv EXCEPT ![d] = [Asleep EXCEPT !.at = at, !.run = wf']]
      BY <1>16, <2>2, AdvanceRun
    <3>2. Asleep \in Driver
      BY AsleepSound DEF Sound
    <3> QED
      BY <3>1, <3>2, TakesRunSound
  <2> QED
    BY <1>16, <2>1, <2>2 DEF Advance
<1>17. ASSUME NEW d \in Drivers, Create(d) \/ Resume(d) PROVE DriversSound'
  <2>1. Goes(d, "read")
    BY <1>17 DEF Create, Resume
  <2> QED
    BY <2>1, GoesSound DEF Places, Inside, Held
<1>18. ASSUME NEW d \in Drivers, Answer(d) \/ Deliver(d) PROVE DriversSound'
  <2>1. PICK e \in Edges : e.from = wf.current /\ Answering(d, e.on)
    <3>1. CASE Answer(d)
      BY <3>1 DEF Answer
    <3>2. CASE Deliver(d)
      <4>1. wf.current \in Steps
        BY <3>2 DEF Deliver, Inv, RunTrue, Run, Ends
      <4>2. "pass" \in Outcomes(wf.current)
        BY <3>2 DEF Deliver, Outcomes
      <4>3. PICK e \in Edges : e.from = wf.current /\ e.on = "pass"
        BY <4>1, <4>2, WorkflowAssumption
      <4> QED
        BY <3>2, <4>3 DEF Deliver
    <3> QED
      BY <1>18, <3>1, <3>2
  <2> DEFINE r == [at |-> "answer", run |-> wf, a |-> NoAttempt, out |-> e.on]
  <2>2. r \in Driver
    BY DEF Driver, Places
  <2>3. Sound(r)
    BY <2>1, <2>2 DEF Sound, Inside, Held
  <2> QED
    BY <2>1, <2>3, OneMoves DEF Answering
<1>19. ASSUME NEW a \in Attempts, SpawnEnds(a) PROVE DriversSound'
  <2> DEFINE S == {d \in Drivers : drv[d].at = "spawning" /\ A(d) = a}
  <2>1. PICK to \in {"spawned", "unstarted"} : Answered(a, to)
    BY <1>19 DEF SpawnEnds
  <2>2. drv' = [d \in Drivers |-> IF d \in S THEN [drv[d] EXCEPT !.at = to] ELSE drv[d]]
    BY <2>1 DEF Answered
  <2>3. S \in SUBSET Drivers /\ \A d \in S : drv[d].at \in {"spawning", "wait"}
    OBVIOUS
  <2> HIDE DEF S
  <2> QED
    BY <2>1, <2>2, <2>3, AnsweredSound
<1>20. CASE Announce
  <2>1. ASSUME NEW d \in Drivers PROVE Sound([drv[d] EXCEPT !.at = Hearing(@)])
    <3> DEFINE r == [drv[d] EXCEPT !.at = Hearing(@)]
    <3>1. drv[d] \in Driver /\ Sound(drv[d])
      BY InvFacts
    <3>2. r.at = Hearing(drv[d].at) /\ r.run = drv[d].run /\ r.a = drv[d].a /\ r.out = drv[d].out
      BY <3>1 DEF Driver
    <3>3. CASE Hearing(drv[d].at) = drv[d].at
      <4>1. r = drv[d]
        BY <3>1, <3>3 DEF Driver
      <4> QED
        BY <3>1, <4>1
    <3>4. CASE drv[d].at \in AtWork /\ Hearing(drv[d].at) \in {"look", "overtaken"}
      <4>1. r \in Driver
        BY <3>1, <3>4 DEF Driver, Places, Inside, Held
      <4> HIDE DEF r
      <4>2. drv[d].at \in Held /\ drv[d].at \in Inside /\ r.at \in {"look", "overtaken"}
        BY <3>2, <3>4 DEF AtWork, Inside, Held
      <4>3. Sound(r)
        BY <3>1, <3>2, <4>1, <4>2 DEF Sound
      <4> QED
        BY <4>3 DEF r
    <3> QED
      BY <3>3, <3>4, Hears
  <2>2. drv' = [d \in Drivers |-> [drv[d] EXCEPT !.at = Hearing(@)]]
    BY <1>20 DEF Announce
  <2>3. \A d \in Drivers : Sound(drv'[d])
    BY <2>1, <2>2
  <2>4. drv' \in [Drivers -> Driver]
    BY <2>2, <2>3 DEF Sound
  <2> QED
    BY <2>3, <2>4 DEF DriversSound, Sound
<1>21. CASE Crash \/ Reload
  <2>1. drv' = [d \in Drivers |-> Asleep]
    BY <1>21 DEF Crash, Reload
  <2> QED
    BY <2>1, AsleepSound DEF DriversSound, Sound
<1>22. ASSUME \/ \E a \in Attempts : AgentStep(a)
              \/ \E e \in Envs : (Persist(e) /\ UNCHANGED wfVars) \/ Cancel(e)
       PROVE  UNCHANGED drv
  BY <1>22 DEF AgentStep, Cancel, wfVars
<1> QED
  BY <1>1, <1>7, <1>8, <1>9, <1>10, <1>11, <1>12, <1>13, <1>14, <1>15, <1>16, <1>17, <1>18,
     <1>19, <1>20, <1>21, <1>22
  DEF Next, DriverStep, Calls

-----------------------------------------------------------------------------
(* Theorems.                                                               *)

(* The run does not exist, the ledger is empty and no driver runs. *)
LEMMA InvInit == Init => Inv
<1> SUFFICES ASSUME Init PROVE Inv
  OBVIOUS
<1>1. env = [e \in Envs |-> NoEnvelope] /\ NoEnvelope \in Envelope
  BY LedgerAssumption DEF Init, LedgerInit, NoEnvelope, Envelope, Tries
<1>2. LedgerShape
  BY <1>1 DEF Init, LedgerInit, LedgerShape
<1>3. LedgerTrue
  <2>1. ASSUME NEW e \in Envs PROVE EnvelopeTrue(e)
    <3>1. /\ env[e].status = "absent" /\ env[e].count = 0
          /\ env[e].tries = [k \in 1 .. AttemptCap |-> "none"]
      BY <1>1 DEF NoEnvelope
    <3>2. StatusFor(e) = "absent"
      BY <3>1 DEF StatusFor
    <3>3. ASSUME NEW k \in 1 .. AttemptCap PROVE (env[e].tries[k] = "none" <=> k > 0) /\ ~(k < 0)
      BY <3>1, <3>3
    <3> QED
      BY <3>1, <3>2, <3>3 DEF EnvelopeTrue
  <2> QED
    BY <2>1 DEF LedgerTrue
<1>4. wf \in Run /\ RunTrue
  <2>1. wf = NoRun /\ NoRun.current = NoStep /\ NoRun.status = "absent"
        /\ NoRun.state = [s \in Steps |-> "pending"]
    BY DEF Init, NoRun
  <2> QED
    BY <2>1, AsleepSound DEF RunTrue
<1>5. DriversSound
  BY AsleepSound DEF Init, DriversSound, Sound
<1> QED
  BY <1>2, <1>3, <1>4, <1>5 DEF Inv

(* The three parts together. *)
LEMMA InvNext == Inv /\ [Next]_vars => Inv'
<1>1. ASSUME Inv, Next PROVE Inv'
  <2>1. LedgerShape' /\ LedgerTrue'
    BY <1>1, LedgerStep DEF LedgerMoves, LedgerTrue
  <2>2. (wf \in Run)' /\ RunTrue'
    BY <1>1, RunStep
  <2>3. DriversSound'
    BY <1>1, <2>2, DriversStep
  <2> QED
    BY <2>1, <2>2, <2>3 DEF Inv
<1>2. ASSUME Inv, UNCHANGED vars PROVE Inv'
  BY <1>2 DEF Inv, vars, ledgerVars, wfVars, LedgerShape, LedgerTrue, EnvelopeTrue, StatusFor,
       RunTrue, DriversSound, Sound
<1> QED
  BY <1>1, <1>2

(* The invariant holds for good. *)
LEMMA InvAlways == Spec => []Inv
BY InvInit, InvNext, PTL DEF Spec

\* Every variable keeps to the values its rows and fields allow, the round of a
\* step and the attempts of an envelope among them (workflow.rs and tasks.rs).
THEOREM TypeCorrect == Spec => []TypeOK
<1> DEFINE Rest == hasty \in BOOLEAN /\ faults \in 0 .. MaxFaults
<1>1. Init => Rest
  <2>1. Init => hasty \in BOOLEAN
    BY DEF Init
  <2>2. Init => faults \in 0 .. MaxFaults
    BY WorkflowAssumption DEF Init
  <2> QED
    BY <2>1, <2>2
<1>2. Rest /\ [Next]_vars => Rest'
  <2> SUFFICES ASSUME Rest, [Next]_vars PROVE Rest'
    OBVIOUS
  <2>1. UNCHANGED hasty \/ hasty' \in BOOLEAN
    BY DEF Next, DriverStep, Calls, Read, Finish, Inspect, ReserveTask, RecordAttempt,
         Launch, Spawn, NotStarted, Track, Look, Returned, Failover, TryAgain, Gate, GitOp, Pause,
         Advance, Create, Answer, Deliver, Resume, SpawnEnds, AgentStep, wfVars, Cancel, Announce,
         Crash, Reload, vars
  <2>2. UNCHANGED faults \/ Fault
    BY DEF Next, DriverStep, Calls, Read, Finish, Inspect, ReserveTask, RecordAttempt,
         Launch, Spawn, NotStarted, Track, Look, Returned, Failover, TryAgain, Gate, GitOp, Pause,
         Advance, Create, Answer, Deliver, Resume, SpawnEnds, AgentStep, wfVars, Cancel, Announce,
         Crash, Reload, vars
  <2> QED
    BY <2>1, <2>2, WorkflowAssumption DEF Fault
<1>3. Inv /\ Rest => TypeOK
  <2> SUFFICES ASSUME Inv, Rest PROVE TypeOK
    OBVIOUS
  <2>1. LedgerTypeOK
    <3>1. ASSUME NEW e \in Envs
          PROVE  env[e] \in [status : {"absent", "running", "blocked", "ready"} \union Final,
                             count : 0 .. AttemptCap, meta : {"workflow", "history"},
                             purpose : {env[f].purpose : f \in Envs},
                             tries : [1 .. AttemptCap -> Tries]]
      BY InvFacts DEF Envelope
    <3> QED
      BY <3>1, InvFacts DEF LedgerTypeOK, Inv, LedgerShape, Tries
  <2>2. \A e \in Envs : env[e].purpose \in (Steps \X Nat) \union {NoPurpose}
    BY InvFacts DEF Envelope
  <2>3. /\ wf.status \in {"absent", "running", "waiting", "interrupted"} \union Ends
        /\ wf.current \in Steps \union {NoStep}
        /\ \A s \in Steps : wf.state[s] \in StepStates /\ wf.round[s] \in Nat
                            /\ wf.last[s] \in Attempts \union {NoAttempt}
    BY InvFacts DEF Run, Statuses
  <2>4. \A d \in Drivers : A(d) \in Attempts \union {NoAttempt}
    BY InvFacts DEF Driver, A
  <2> QED
    BY <2>1, <2>2, <2>3, <2>4 DEF TypeOK, StepStates
<1> QED
  BY <1>1, <1>2, <1>3, InvAlways, PTL DEF Spec

\* Whatever happens to a task - retried, cancelled while its terminal is made,
\* settled twice, swept after a crash - its envelope has the status its last
\* attempt calls for (tasks.rs, every mutate).
THEOREM LedgerStaysTrue == Spec => []LedgerTrue
<1>1. Inv => LedgerTrue
  BY DEF Inv
<1> QED
  BY <1>1, InvAlways, PTL

\* However many drivers race and wherever the app ends, the run's row and the
\* rows of its steps agree (workflow.rs).
THEOREM RunStaysTrue == Spec => []RunTrue
<1>1. Inv => RunTrue
  BY DEF Inv
<1> QED
  BY <1>1, InvAlways, PTL

\* No terminal, report or sweep moves an attempt that has ended
\* (tasks.rs, settle_attempt, start_attempt, wait_attempt).
THEOREM EndsForGood == Spec => SettledStays
<1>1. ASSUME Inv, [Next]_vars, NEW a \in Attempts, State(a) \in Settled
      PROVE  env'[a[1]].tries[a[2]] = State(a)
  <2>1. CASE Next
    <3>1. Onward(a)
      BY <1>1, <2>1, LedgerStep DEF LedgerMoves
    <3>2. State(a)' = State(a)
      BY <1>1, <3>1 DEF Onward, Settled, Active
    <3> QED
      BY <3>2 DEF State
  <2>2. CASE UNCHANGED vars
    BY <2>2 DEF vars, ledgerVars, State
  <2> QED
    BY <1>1, <2>1, <2>2
<1>2. Inv /\ [Next]_vars
        => [\A a \in Attempts : State(a) \in Settled => env'[a[1]].tries[a[2]] = State(a)]_vars
  BY <1>1
<1> QED
  BY <1>2, InvAlways, PTL DEF Spec, SettledStays

-----------------------------------------------------------------------------
(* One agent at a time.                                                    *)

(* What is for a round stays for it, and who is not made stays not made. *)
LEMMA Steady ==
    ASSUME Inv, Calm, Next, (agents \union spawning)' \subseteq agents \union spawning
    PROVE  /\ AboardTrue' /\ Live' \subseteq Live
           /\ \A e \in Envs : env[e].count > 0 => env'[e].count > 0 /\ env'[e].purpose = env[e].purpose
           /\ \A a \in Live' : a \in Attempts /\ a[1] \in Envs
<1>1. LedgerMoves /\ LedgerShape'
  BY LedgerStep
<1>2. \A e \in Envs : env[e].count > 0 => env'[e].count > 0 /\ env'[e].purpose = env[e].purpose
  <2>1. ASSUME NEW e \in Envs, env[e].count > 0 PROVE env'[e].count > 0 /\ env'[e].purpose = env[e].purpose
    <3>1. env[e].count \in Nat /\ env'[e].count \in Nat
      BY <1>1, InvFacts, LedgerAssumption DEF LedgerMoves, Envelope
    <3> QED
      BY <1>1, <2>1, <3>1 DEF LedgerMoves
  <2> QED
    BY <2>1
<1>3. ASSUME NEW a \in (agents \union spawning)'
      PROVE  /\ a \in Attempts /\ a \in agents \union spawning /\ State(a)' \notin {"none", "reserved"}
             /\ State(a)' \in Active => State(a) \in Active
  <2>1. a \in Attempts /\ a \in agents \union spawning
    BY <1>3 DEF Inv, LedgerShape
  <2>2. State(a) \notin {"none", "reserved"} /\ Onward(a)
    BY <1>1, <2>1 DEF Calm, AboardTrue, LedgerMoves
  <2> QED
    BY <2>1, <2>2 DEF Onward, Begun, Settled, Active
<1>4. AboardTrue'
  BY <1>3 DEF AboardTrue
<1>5. ASSUME NEW a \in Live' PROVE a \in Live /\ a \in Attempts /\ a[1] \in Envs
  BY <1>3, <1>5 DEF Live, Attempts
<1> QED
  BY <1>2, <1>4, <1>5

(* A driver that is not at work, or whose attempt has ended, is alone. *)
LEMMA NobodyLive ==
    ASSUME Calm, NEW d \in Drivers, Busy(d), drv[d].at \notin AtWork \/ State(A(d)) \notin Active
    PROVE  Live = {} /\ \A c \in Drivers \ {d} : ~Busy(c)
<1>1. ASSUME NEW a \in Live PROVE FALSE
  <2>1. A(d) = a /\ drv[d].at \in AtWork /\ State(a) \in Active
    BY <1>1 DEF Calm, LiveTrue, AtWork, Live
  <2> QED
    BY <2>1
<1> QED
  BY <1>1 DEF Calm, OneDriver

(* The one driver moves while no agent works. *)
LEMMA AloneMoves ==
    ASSUME Inv, Calm, Next, (agents \union spawning)' \subseteq agents \union spawning,
           NEW d \in Drivers, Live = {}, \A c \in Drivers \ {d} : ~Busy(c),
           NEW r, drv' = [drv EXCEPT ![d] = r],
           r.at \notin {"idle", "answer"} =>
             /\ wf'.status \in {"running"} \union Ends
             /\ r.at # "read" => r.run.current = wf'.current /\ r.run.round = wf'.round,
           r.at \in Held =>
             /\ env'[r.a[1]].count > 0
             /\ env'[r.a[1]].purpose = <<r.run.current, r.run.round[r.run.current]>>
    PROVE  Calm'
<1>1. AboardTrue' /\ Live' = {}
  BY Steady
<1>2. \A c \in Drivers : drv'[c] = IF c = d THEN r ELSE drv[c]
  BY InvFacts
<1>3. ASSUME NEW c \in Drivers, Busy(c)' PROVE c = d
  BY <1>2, <1>3 DEF Busy
<1>4. ASSUME NEW c \in Drivers, drv'[c].at \in Held PROVE c = d
  BY <1>3, <1>4 DEF Busy, Held
<1>5. OneDriver'
  BY <1>3 DEF OneDriver
<1>6. DriverKnows'
  BY <1>2, <1>3 DEF DriverKnows, Busy, At
<1>7. HeldTrue'
  BY <1>2, <1>4 DEF HeldTrue, A, At
<1>8. LiveTrue'
  BY <1>1 DEF LiveTrue
<1> QED
  BY <1>1, <1>5, <1>6, <1>7, <1>8 DEF Calm

(* A driver comes to rest, or reads the run to answer it. *)
LEMMA RestMoves ==
    ASSUME Inv, Calm, Next, (agents \union spawning)' \subseteq agents \union spawning,
           UNCHANGED wf, drv' \in [Drivers -> Driver],
           \A d \in Drivers : drv'[d].at \in {"idle", "answer"} \/ drv'[d] = drv[d]
    PROVE  Calm'
<1>1. /\ AboardTrue' /\ Live' \subseteq Live
      /\ \A e \in Envs : env[e].count > 0 => env'[e].count > 0 /\ env'[e].purpose = env[e].purpose
      /\ \A a \in Live' : a \in Attempts /\ a[1] \in Envs
  BY Steady
<1>2. ASSUME NEW d \in Drivers, Busy(d)' PROVE drv'[d] = drv[d] /\ Busy(d)
  BY <1>2 DEF Busy
<1>3. OneDriver'
  BY <1>2 DEF OneDriver, Calm
<1>4. DriverKnows'
  BY <1>2 DEF DriverKnows, Calm, At
<1>5. HeldTrue'
  <2>1. ASSUME NEW d \in Drivers, drv'[d].at \in Held
        PROVE  /\ env'[drv'[d].a[1]].count > 0
               /\ env'[drv'[d].a[1]].purpose = <<drv'[d].run.current, drv'[d].run.round[drv'[d].run.current]>>
    <3>1. drv'[d] = drv[d] /\ A(d) \in Attempts /\ A(d)[1] \in Envs
      <4>1. drv'[d] = drv[d]
        BY <2>1 DEF Held
      <4> QED
        BY <2>1, <4>1, InvFacts DEF Sound, A, Attempts
    <3> QED
      BY <1>1, <2>1, <3>1 DEF HeldTrue, Calm, A, At
  <2> QED
    BY <2>1 DEF HeldTrue, A, At
<1>6. LiveTrue'
  <2>1. ASSUME NEW a \in Live'
        PROVE  /\ wf'.status = "running" /\ env'[a[1]].count > 0
               /\ env'[a[1]].purpose = <<wf'.current, wf'.round[wf'.current]>>
    BY <1>1, <2>1 DEF LiveTrue, Calm
  <2>2. ASSUME NEW a \in Live', NEW d \in Drivers, Busy(d)' PROVE A(d)' = a /\ drv'[d].at \in AtWork
    BY <1>1, <1>2, <2>2 DEF LiveTrue, Calm, AtWork, A
  <2> QED
    BY <1>1, <2>1, <2>2 DEF LiveTrue, Calm, AtWork
<1> QED
  BY <1>1, <1>3, <1>4, <1>5, <1>6 DEF Calm

(* Drivers at work go on working. *)
LEMMA WorkMoves ==
    ASSUME Inv, Calm, Next, (agents \union spawning)' \subseteq agents \union spawning,
           UNCHANGED wf,
           \A d \in Drivers :
             /\ drv'[d].run = drv[d].run /\ drv'[d].a = drv[d].a
             /\ \/ drv'[d].at = drv[d].at
                \/ drv[d].at \in AtWork /\ drv'[d].at \in AtWork
                \/ drv[d].at \in AtWork /\ drv'[d].at = "unstarted" /\ A(d) \notin Live'
    PROVE  Calm'
<1>1. /\ AboardTrue' /\ Live' \subseteq Live
      /\ \A e \in Envs : env[e].count > 0 => env'[e].count > 0 /\ env'[e].purpose = env[e].purpose
      /\ \A a \in Live' : a \in Attempts /\ a[1] \in Envs
  BY Steady
<1>2. ASSUME NEW d \in Drivers
      PROVE  /\ Busy(d)' => Busy(d) /\ (drv'[d].at = "read" <=> drv[d].at = "read")
             /\ drv'[d].at \in Held <=> drv[d].at \in Held
  BY DEF Busy, AtWork, Held
<1>3. OneDriver'
  BY <1>2 DEF OneDriver, Calm
<1>4. DriverKnows'
  BY <1>2 DEF DriverKnows, Calm, At
<1>5. HeldTrue'
  <2>1. ASSUME NEW d \in Drivers, drv'[d].at \in Held
        PROVE  /\ env'[drv'[d].a[1]].count > 0
               /\ env'[drv'[d].a[1]].purpose = <<drv'[d].run.current, drv'[d].run.round[drv'[d].run.current]>>
    <3>1. drv[d].at \in Held /\ A(d) \in Attempts /\ A(d)[1] \in Envs
      BY <1>2, <2>1, InvFacts DEF Sound, A, Attempts
    <3> QED
      BY <1>1, <3>1 DEF HeldTrue, Calm, A, At
  <2> QED
    BY <2>1 DEF HeldTrue, A, At
<1>6. LiveTrue'
  <2>1. ASSUME NEW a \in Live'
        PROVE  /\ wf'.status = "running" /\ env'[a[1]].count > 0
               /\ env'[a[1]].purpose = <<wf'.current, wf'.round[wf'.current]>>
    BY <1>1, <2>1 DEF LiveTrue, Calm
  <2>2. ASSUME NEW a \in Live', NEW d \in Drivers, Busy(d)' PROVE A(d)' = a /\ drv'[d].at \in AtWork
    BY <1>1, <1>2, <2>2 DEF LiveTrue, Calm, AtWork, A
  <2> QED
    BY <1>1, <2>1, <2>2 DEF LiveTrue, Calm, AtWork
<1> QED
  BY <1>1, <1>3, <1>4, <1>5, <1>6 DEF Calm

(* The one driver goes on with the run it knows and the attempt it holds. *)
LEMMA GoesAlone ==
    ASSUME Inv, Calm, Next, (agents \union spawning)' \subseteq agents \union spawning,
           UNCHANGED wf, NEW d \in Drivers, Busy(d), drv[d].at # "read",
           drv[d].at \notin AtWork \/ State(A(d)) \notin Active,
           NEW r, drv' = [drv EXCEPT ![d] = r], r.at # "read", r.run = drv[d].run,
           r.at \in Held => drv[d].at \in Held /\ r.a = A(d)
    PROVE  Calm'
<1>1. Live = {} /\ \A c \in Drivers \ {d} : ~Busy(c)
  BY NobodyLive
<1>2. wf.status \in {"running"} \union Ends /\ r.run.current = wf.current /\ r.run.round = wf.round
  BY DEF Calm, DriverKnows, At
<1>3. ASSUME r.at \in Held
      PROVE  /\ env'[r.a[1]].count > 0
             /\ env'[r.a[1]].purpose = <<r.run.current, r.run.round[r.run.current]>>
  <2>1. A(d) \in Attempts /\ A(d)[1] \in Envs
    BY <1>3, InvFacts DEF Sound, A, Attempts
  <2>2. env[A(d)[1]].count > 0 /\ env[A(d)[1]].purpose = <<At(d), drv[d].run.round[At(d)]>>
    BY <1>3 DEF Calm, HeldTrue
  <2> QED
    BY <1>3, <2>1, <2>2, Steady DEF At
<1> QED
  BY <1>1, <1>2, <1>3, AloneMoves

(* No step breaks the calm but an answer to a run that does not wait. *)
LEMMA CalmStep ==
    ASSUME Inv, Calm, Next, ~hasty'
    PROVE  Calm'
<1> USE InvFacts
<1> DEFINE Quiet == (agents \union spawning)' \subseteq agents \union spawning
<1>1. ASSUME NEW d \in Drivers, UNCHANGED wf, Ended(d), Quiet PROVE Calm'
  <2>1. \A c \in Drivers : drv'[c] = IF c = d THEN Asleep ELSE drv[c]
    BY <1>1 DEF Ended
  <2>2. drv' \in [Drivers -> Driver] /\ Asleep.at = "idle"
    BY <1>1, AsleepSound DEF Ended, Sound, Asleep
  <2> QED
    BY <1>1, <2>1, <2>2, RestMoves
<1>2. ASSUME NEW d \in Drivers, UNCHANGED wf, Quiet,
             NEW at \in Places \ {"read"}, Goes(d, at), Busy(d), drv[d].at # "read",
             drv[d].at \notin AtWork \/ State(A(d)) \notin Active,
             at \in Held => drv[d].at \in Held
      PROVE  Calm'
  <2> DEFINE r == [drv[d] EXCEPT !.at = at]
  <2>1. drv' = [drv EXCEPT ![d] = r] /\ r.at = at /\ r.run = drv[d].run /\ r.a = A(d)
    BY <1>2 DEF Goes, Driver, A
  <2> HIDE DEF r
  <2> QED
    BY <1>2, <2>1, GoesAlone
<1>3. ASSUME NEW d \in Drivers, UNCHANGED wf, Quiet,
             NEW out, Decides(d, out), Busy(d), drv[d].at # "read",
             drv[d].at \notin AtWork \/ State(A(d)) \notin Active
      PROVE  Calm'
  <2> DEFINE r == [drv[d] EXCEPT !.at = "advance", !.out = out]
  <2>1. drv' = [drv EXCEPT ![d] = r] /\ r.at = "advance" /\ r.run = drv[d].run
    BY <1>3 DEF Decides, Driver
  <2> HIDE DEF r
  <2>2. r.at \notin Held /\ r.at # "read"
    BY <2>1 DEF Held
  <2> QED
    BY <1>3, <2>1, <2>2, GoesAlone
<1>4. ASSUME NEW d \in Drivers, Read(d) PROVE Calm'
  <2>1. Quiet /\ UNCHANGED wf
    BY <1>4 DEF Read, ledgerVars
  <2>2. CASE Ended(d)
    BY <1>1, <2>1, <2>2
  <2>3. CASE drv' = [drv EXCEPT ![d].at = "step", ![d].run = wf]
    <3> DEFINE r == [drv[d] EXCEPT !.at = "step", !.run = wf]
    <3>1. drv' = [drv EXCEPT ![d] = r] /\ r.at = "step" /\ r.run = wf
      BY <2>3 DEF Driver
    <3> HIDE DEF r
    <3>2. Busy(d) /\ drv[d].at \notin AtWork
      BY <1>4 DEF Read, Busy, AtWork
    <3>3. wf.status \in {"running"} \union Ends
      BY <3>2 DEF Calm, DriverKnows
    <3>4. r.at \notin Held
      BY <3>1 DEF Held
    <3> QED
      BY <2>1, <3>1, <3>2, <3>3, <3>4, NobodyLive, AloneMoves
  <2> QED
    BY <1>4, <2>2, <2>3 DEF Read
<1>5. ASSUME NEW d \in Drivers, Finish(d) PROVE Calm'
  BY <1>1, <1>5 DEF Finish, ledgerVars
<1>6. ASSUME NEW d \in Drivers, drv[d].at = "step", Inspect(d) \/ Gate(d) \/ GitOp(d) PROVE Calm'
  <2>1. Quiet /\ UNCHANGED wf
    BY <1>6 DEF Inspect, Gate, GitOp, ledgerVars
  <2>2. Busy(d) /\ drv[d].at # "read" /\ drv[d].at \notin AtWork
    BY <1>6 DEF Busy, AtWork
  <2>3. CASE Ended(d)
    BY <1>1, <2>1, <2>3
  <2>4. CASE \E out : Decides(d, out)
    BY <1>3, <2>1, <2>2, <2>4
  <2>5. CASE Goes(d, "reserve")
    <3>1. "reserve" \in Places \ {"read"} /\ "reserve" \notin Held
      BY DEF Places, Inside, Held
    <3> QED
      BY <1>2, <2>1, <2>2, <2>5, <3>1
  <2> QED
    BY <1>6, <2>3, <2>4, <2>5 DEF Inspect, Gate, GitOp
<1>7. ASSUME NEW d \in Drivers, ReserveTask(d) PROVE Calm'
  <2>1. Quiet /\ UNCHANGED wf
    BY <1>7 DEF ReserveTask
  <2>2. Busy(d) /\ drv[d].at # "read" /\ drv[d].at \notin AtWork
    BY <1>7 DEF ReserveTask, Busy, AtWork
  <2>3. PICK e \in Unused :
          /\ Reserve(e, <<At(d), drv[d].run.round[At(d)]>>)
          /\ drv' = [drv EXCEPT ![d].at = "record", ![d].a = <<e, 1>>]
    BY <1>7 DEF ReserveTask
  <2>4. <<At(d), drv[d].run.round[At(d)]>> \in (Steps \X Nat) \union {NoPurpose}
    BY <1>7 DEF ReserveTask, Sound, Inside, At, Driver, Run
  <2>5. env'[e].count > 0 /\ env'[e].purpose = <<At(d), drv[d].run.round[At(d)]>>
    BY <2>3, <2>4, ReserveMoves
  <2> DEFINE r == [drv[d] EXCEPT !.at = "record", !.a = <<e, 1>>]
  <2>6. drv' = [drv EXCEPT ![d] = r] /\ r.at = "record" /\ r.run = drv[d].run /\ r.a = <<e, 1>>
    BY <2>3 DEF Driver
  <2> HIDE DEF r
  <2>7. wf.status \in {"running"} \union Ends /\ r.run.current = wf.current /\ r.run.round = wf.round
    BY <2>2, <2>6 DEF Calm, DriverKnows, At
  <2>8. r.a[1] = e
    BY <2>6
  <2> QED
    BY <2>1, <2>2, <2>5, <2>6, <2>7, <2>8, NobodyLive, AloneMoves DEF At
<1>8. ASSUME NEW d \in Drivers, RecordAttempt(d) PROVE Calm'
  <2>1. Quiet
    BY <1>8 DEF RecordAttempt, ledgerVars
  <2>2. CASE Ended(d) /\ UNCHANGED wf
    BY <1>1, <2>1, <2>2
  <2>3. CASE /\ CurrentActive(At(d))
             /\ wf' = [Recorded(At(d), "running") EXCEPT !.last[At(d)] = A(d)]
             /\ drv' = [drv EXCEPT ![d].at = "launch", ![d].run = wf']
    <3>1. Busy(d) /\ drv[d].at \notin AtWork /\ drv[d].at \in Held /\ drv[d].at # "read"
      BY <1>8 DEF RecordAttempt, Busy, AtWork, Held
    <3>2. wf'.status = "running" /\ wf'.current = At(d) /\ wf'.round = wf.round
      BY <2>3 DEF Recorded, CurrentActive, Run
    <3> DEFINE r == [drv[d] EXCEPT !.at = "launch", !.run = wf']
    <3>3. drv' = [drv EXCEPT ![d] = r] /\ r.at = "launch" /\ r.run = wf' /\ r.a = A(d)
      BY <2>3 DEF Driver, A
    <3> HIDE DEF r
    <3>4. A(d) \in Attempts /\ A(d)[1] \in Envs
      BY <3>1 DEF Sound, A, Attempts
    <3>5. /\ env[A(d)[1]].count > 0
          /\ env[A(d)[1]].purpose = <<At(d), wf.round[At(d)]>>
      BY <3>1 DEF Calm, HeldTrue, DriverKnows
    <3>6. /\ env'[r.a[1]].count > 0
          /\ env'[r.a[1]].purpose = <<r.run.current, r.run.round[r.run.current]>>
      BY <2>1, <3>2, <3>3, <3>4, <3>5, Steady
    <3> QED
      BY <2>1, <3>1, <3>2, <3>3, <3>6, NobodyLive, AloneMoves
  <2> QED
    BY <1>8, <2>2, <2>3 DEF RecordAttempt
<1>9. ASSUME NEW d \in Drivers,
             Launch(d) \/ NotStarted(d) \/ Failover(d) \/ (Spawn(d) /\ ~MayBind(A(d)))
      PROVE Calm'
  <2>1. Quiet /\ UNCHANGED wf
    BY <1>9 DEF Launch, NotStarted, Failover, Spawn, ledgerVars
  <2>2. Busy(d) /\ drv[d].at \notin AtWork /\ drv[d].at \in Held /\ drv[d].at # "read"
    BY <1>9 DEF Launch, NotStarted, Failover, Spawn, Busy, AtWork, Held
  <2>3. CASE \E at \in {"unstarted", "spawn", "decide", "again"} : Goes(d, at)
    <3>1. {"unstarted", "spawn", "decide", "again"} \subseteq Places \ {"read"}
      BY DEF Places, Inside, Held
    <3> QED
      BY <1>2, <2>1, <2>2, <2>3, <3>1
  <2>4. CASE \E out : Decides(d, out)
    BY <1>3, <2>1, <2>2, <2>4
  <2> QED
    BY <1>9, <2>3, <2>4 DEF Launch, NotStarted, Failover, Spawn
<1>10. ASSUME NEW d \in Drivers, TryAgain(d) PROVE Calm'
  <2> DEFINE e == A(d)[1]
  <2>1. Quiet /\ UNCHANGED wf
    BY <1>10 DEF TryAgain
  <2>2. Busy(d) /\ drv[d].at \notin AtWork /\ drv[d].at \in Held /\ drv[d].at # "read"
    BY <1>10 DEF TryAgain, Busy, AtWork, Held
  <2>3. CASE Ended(d)
    BY <1>1, <2>1, <2>3
  <2>4. CASE drv' = [drv EXCEPT ![d].at = "record", ![d].a = <<e, env[e].count + 1>>]
    <3> DEFINE r == [drv[d] EXCEPT !.at = "record", !.a = <<e, env[e].count + 1>>]
    <3>1. /\ drv' = [drv EXCEPT ![d] = r] /\ r.at = "record" /\ r.run = drv[d].run
          /\ r.a = <<e, env[e].count + 1>>
      BY <2>4 DEF Driver
    <3> HIDE DEF r
    <3>2. e \in Envs /\ r.a[1] = e
      BY <2>2, <3>1 DEF Sound, A, Attempts
    <3>3. env[e].count > 0 /\ env[e].purpose = <<At(d), drv[d].run.round[At(d)]>>
      BY <2>2 DEF Calm, HeldTrue
    <3>4. env'[e].count > 0 /\ env'[e].purpose = <<At(d), drv[d].run.round[At(d)]>>
      BY <2>1, <3>2, <3>3, Steady
    <3>5. wf.status \in {"running"} \union Ends /\ r.run.current = wf.current /\ r.run.round = wf.round
      BY <2>2, <3>1 DEF Calm, DriverKnows, At
    <3> QED
      BY <2>1, <2>2, <3>1, <3>2, <3>4, <3>5, NobodyLive, AloneMoves DEF At
  <2> QED
    BY <1>10, <2>3, <2>4 DEF TryAgain

<1>11. ASSUME NEW d \in Drivers, Spawn(d), MayBind(A(d)) PROVE Calm'
  <2>0. PICK a \in Attempts : a = A(d)
    BY <1>11 DEF Spawn, Held, Sound, A
  <2>1. /\ Bind(a) /\ UNCHANGED <<wf, agents>> /\ spawning' = spawning \union {a}
        /\ Goes(d, "spawning")
    BY <1>11, <2>0 DEF Spawn, Bind
  <2>2. /\ Busy(d) /\ drv[d].at \notin AtWork /\ drv[d].at \in Held /\ drv[d].at \in Inside
        /\ drv[d].at # "read" /\ "spawning" \in Held
    BY <1>11 DEF Spawn, Busy, AtWork, Held, Inside
  <2>3. Live = {} /\ \A c \in Drivers \ {d} : ~Busy(c)
    BY <2>2, NobodyLive
  <2>4. a \in Attempts /\ a[1] \in Envs /\ At(d) \in Steps
    BY <2>2 DEF Sound, At, Attempts
  <2>5. State(a) = "reserved" /\ Current(a) /\ State(a) \in Active /\ "running" = Fit("launching", a[2])
    BY <1>11, <2>0 DEF MayBind, Active, Fit
  <2>6. /\ LedgerMoves /\ State(a)' = "launching"
        /\ \A b \in Attempts : b # a => State(b)' = State(b)
    BY <2>1, <2>4, <2>5, PutMoves DEF Bind, Begun
  <2>7. env'[a[1]].count > 0 /\ env'[a[1]].purpose = <<At(d), drv[d].run.round[At(d)]>>
    <3>1. env[a[1]].count > 0 /\ env[a[1]].purpose = <<At(d), drv[d].run.round[At(d)]>>
      BY <2>0, <2>2 DEF Calm, HeldTrue
    <3>2. env[a[1]].count <= env'[a[1]].count /\ env[a[1]] \in Envelope /\ env'[a[1]] \in Envelope
      BY <2>4, <2>6 DEF LedgerMoves
    <3>3. \A x \in Envelope : x.count \in Nat
      BY LedgerAssumption DEF Envelope
    <3> QED
      BY <2>4, <2>6, <3>1, <3>2, <3>3 DEF LedgerMoves
  <2>8. /\ wf.status = "running" /\ At(d) = wf.current /\ drv[d].run.round = wf.round
    <3>1. wf.status \in {"running"} \union Ends /\ At(d) = wf.current /\ drv[d].run.round = wf.round
      BY <2>2 DEF Calm, DriverKnows
    <3>2. wf.current # NoStep /\ RunTrue
      BY <2>4, <3>1, WorkflowAssumption DEF Inv
    <3> QED
      BY <3>1, <3>2 DEF RunTrue
  <2>9. \A b \in agents \union spawning : b \in Attempts
    BY DEF Inv, LedgerShape
  <2>10. ASSUME NEW b \in agents \union spawning PROVE b # a /\ State(b)' = State(b)
    BY <2>5, <2>6, <2>9, <2>10 DEF Calm, AboardTrue
  <2>11. AboardTrue'
    <3>1. ASSUME NEW b \in (agents \union spawning)' PROVE State(b)' \notin {"none", "reserved"}
      <4>1. CASE b = a
        BY <2>6, <4>1
      <4>2. CASE b # a
        <5>1. b \in agents \union spawning
          BY <2>1, <3>1, <4>2
        <5> QED
          BY <2>10, <5>1 DEF Calm, AboardTrue
      <4> QED
        BY <4>1, <4>2
    <3> QED
      BY <3>1 DEF AboardTrue
  <2>12. ASSUME NEW b \in Live' PROVE b = a
    <3>1. SUFFICES ASSUME b # a PROVE FALSE
      OBVIOUS
    <3>2. b \in agents \union spawning
      BY <2>1, <2>12, <3>1 DEF Live
    <3>3. b \in Live
      BY <2>10, <2>12, <3>2 DEF Live
    <3> QED
      BY <2>3, <3>3
  <2>13. \A c \in Drivers : /\ c # d => drv'[c] = drv[c]
                            /\ drv'[d].at = "spawning" /\ drv'[d].a = a /\ drv'[d].run = drv[d].run
    BY <2>0, <2>1 DEF Goes, Driver, A
  <2>14. ASSUME NEW c \in Drivers, Busy(c)' PROVE c = d
    BY <2>3, <2>13, <2>14 DEF Busy
  <2>15. OneDriver'
    BY <2>14 DEF OneDriver
  <2>16. DriverKnows'
    BY <2>1, <2>8, <2>13, <2>14 DEF DriverKnows, At
  <2>17. HeldTrue'
    <3>1. ASSUME NEW c \in Drivers, drv'[c].at \in Held PROVE c = d
      BY <2>14, <3>1 DEF Busy, Held
    <3> QED
      BY <2>7, <2>13, <3>1 DEF HeldTrue, A, At
  <2>18. LiveTrue'
    <3>1. ASSUME NEW b \in Live', NEW c \in Drivers, Busy(c)'
          PROVE  A(c)' = b /\ drv'[c].at = "spawning"
      BY <2>12, <2>13, <2>14, <3>1 DEF A
    <3>2. ASSUME NEW b \in Live'
          PROVE  wf'.status = "running" /\ env'[b[1]].count > 0
                 /\ env'[b[1]].purpose = <<wf'.current, wf'.round[wf'.current]>>
      BY <2>1, <2>7, <2>8, <2>12, <3>2
    <3> QED
      BY <2>12, <3>1, <3>2 DEF LiveTrue, AtWork
  <2> QED
    BY <2>11, <2>15, <2>16, <2>17, <2>18 DEF Calm
<1>12. ASSUME NEW a \in Attempts, SpawnEnds(a) PROVE Calm'
  <2>1. UNCHANGED wf
    BY <1>12 DEF SpawnEnds
  <2>2. Quiet
    BY <1>12 DEF SpawnEnds, SpawnSucceeds, SpawnFails
  <2>3. CASE SpawnSucceeds(a) /\ Answered(a, "spawned")
    <3>1. ASSUME NEW d \in Drivers
          PROVE  /\ drv'[d].run = drv[d].run /\ drv'[d].a = drv[d].a
                 /\ drv'[d].at = drv[d].at \/ (drv[d].at \in AtWork /\ drv'[d].at \in AtWork)
      BY <2>3 DEF Answered, Driver, AtWork
    <3> QED
      BY <2>1, <2>2, <3>1, WorkMoves
  <2>4. CASE SpawnFails(a) /\ Answered(a, "unstarted")
    <3>1. State(a)' \notin Active
      BY <2>4, SettleMoves DEF SpawnFails, Settled
    <3>2. a \notin Live'
      BY <3>1 DEF Live
    <3>3. ASSUME NEW d \in Drivers
          PROVE  /\ drv'[d].run = drv[d].run /\ drv'[d].a = drv[d].a
                 /\ drv'[d].at = drv[d].at
                    \/ (drv[d].at \in AtWork /\ drv'[d].at = "unstarted" /\ A(d) \notin Live')
      BY <2>4, <3>2 DEF Answered, Driver, AtWork
    <3> QED
      BY <2>1, <2>2, <3>3, WorkMoves
  <2> QED
    BY <1>12, <2>3, <2>4 DEF SpawnEnds
<1>13. ASSUME NEW d \in Drivers, Track(d) \/ Returned(d) PROVE Calm'
  <2>1. Quiet /\ UNCHANGED wf
    BY <1>13 DEF Track, Returned, ledgerVars
  <2>2. ASSUME NEW c \in Drivers
        PROVE  /\ drv'[c].run = drv[c].run /\ drv'[c].a = drv[c].a
               /\ drv'[c].at = drv[c].at \/ (drv[c].at \in AtWork /\ drv'[c].at \in AtWork)
    BY <1>13 DEF Track, Returned, Goes, Driver, AtWork
  <2> QED
    BY <2>1, <2>2, WorkMoves
<1>14. ASSUME NEW d \in Drivers, Look(d) PROVE Calm'
  <2>1. Quiet /\ UNCHANGED wf
    BY <1>14 DEF Look, ledgerVars
  <2>2. Busy(d) /\ drv[d].at # "read" /\ drv[d].at \in Held
    BY <1>14 DEF Look, Busy, Held
  <2>3. CASE State(A(d)) \in Settled
    <3>1. State(A(d)) \notin Active
      BY <2>3 DEF Settled, Active
    <3>2. CASE \E out : Decides(d, out)
      BY <1>3, <2>1, <2>2, <3>1, <3>2
    <3>3. CASE Goes(d, "decide")
      <4>1. "decide" \in Places \ {"read"}
        BY DEF Places, Inside, Held
      <4> QED
        BY <1>2, <2>1, <2>2, <3>1, <3>3, <4>1
    <3> QED
      BY <1>14, <2>3, <3>2, <3>3 DEF Look
  <2>4. CASE State(A(d)) \notin Settled
    <3>1. Goes(d, "seen") /\ drv[d].at \in AtWork
      BY <1>14, <2>4 DEF Look, Settled, AtWork
    <3>2. ASSUME NEW c \in Drivers
          PROVE  /\ drv'[c].run = drv[c].run /\ drv'[c].a = drv[c].a
                 /\ drv'[c].at = drv[c].at \/ (drv[c].at \in AtWork /\ drv'[c].at \in AtWork)
      BY <3>1 DEF Goes, Driver, AtWork
    <3> QED
      BY <2>1, <3>2, WorkMoves
  <2> QED
    BY <2>3, <2>4
<1>15. CASE Announce
  <2>1. Quiet /\ UNCHANGED wf
    BY <1>15 DEF Announce
  <2>2. ASSUME NEW c \in Drivers
        PROVE  /\ drv'[c].run = drv[c].run /\ drv'[c].a = drv[c].a
               /\ drv'[c].at = drv[c].at \/ (drv[c].at \in AtWork /\ drv'[c].at \in AtWork)
    <3>1. drv[c] \in Driver /\ drv'[c] = [drv[c] EXCEPT !.at = Hearing(@)]
      BY <1>15, InvFacts DEF Announce
    <3>2. drv'[c].run = drv[c].run /\ drv'[c].a = drv[c].a /\ drv'[c].at = Hearing(drv[c].at)
      BY <3>1 DEF Driver
    <3> QED
      BY <3>2, Hears DEF AtWork
  <2> QED
    BY <2>1, <2>2, WorkMoves

<1>16. ASSUME NEW d \in Drivers, Pause(d) PROVE Calm'
  <2>1. Quiet /\ Ended(d) /\ drv[d].at = "step"
    BY <1>16 DEF Pause, OnStep, ledgerVars
  <2>2. CASE UNCHANGED wf
    BY <1>1, <2>1, <2>2
  <2>3. CASE CurrentActive(At(d))
    <3>1. Busy(d) /\ drv[d].at \notin AtWork
      BY <2>1 DEF Busy, AtWork
    <3>2. Asleep.at = "idle" /\ Asleep.at \notin Held
      BY DEF Asleep, Held
    <3> QED
      BY <2>1, <3>1, <3>2, NobodyLive, AloneMoves DEF Ended
  <2> QED
    BY <1>16, <2>2, <2>3 DEF Pause
<1>17. ASSUME wf.status \in {"absent", "waiting", "interrupted"}
       PROVE  Live = {} /\ \A c \in Drivers : ~Busy(c)
  BY <1>17 DEF Calm, LiveTrue, DriverKnows, Ends
<1>18. ASSUME NEW d \in Drivers, Advance(d) PROVE Calm'
  <2>1. Quiet
    BY <1>18 DEF Advance, ledgerVars
  <2>2. CASE Ended(d) /\ UNCHANGED wf
    BY <1>1, <2>1, <2>2
  <2>3. CASE CurrentActive(At(d))
    <3> DEFINE r == [Asleep EXCEPT !.at = IF drv[d].at = "answer" THEN "read" ELSE "step", !.run = wf']
    <3>1. /\ wf'.status \in {"running"} \union Ends
          /\ drv' = [drv EXCEPT ![d] = r]
          /\ hasty' = (hasty \/ (drv[d].at = "answer" /\ wf.status # "waiting"))
      BY <1>18, <2>3, AdvanceRun
    <3>2. r.at \in {"read", "step"} /\ r.at \notin Held /\ r.run = wf'
      BY DEF Asleep, Held
    <3> HIDE DEF r
    <3>3. Live = {} /\ \A c \in Drivers \ {d} : ~Busy(c)
      <4>1. CASE drv[d].at = "answer"
        BY <1>17, <3>1, <4>1
      <4>2. CASE drv[d].at = "advance"
        <5>1. Busy(d) /\ drv[d].at \notin AtWork
          BY <4>2 DEF Busy, AtWork
        <5> QED
          BY <5>1, NobodyLive
      <4> QED
        BY <1>18, <4>1, <4>2 DEF Advance
    <3> QED
      BY <2>1, <3>1, <3>2, <3>3, AloneMoves
  <2> QED
    BY <1>18, <2>2, <2>3 DEF Advance
<1>19. ASSUME NEW d \in Drivers, Create(d) \/ Resume(d) PROVE Calm'
  <2>1. Quiet /\ wf.status \in {"absent", "interrupted"} /\ Goes(d, "read")
    BY <1>19 DEF Create, Resume, ledgerVars
  <2>2. wf'.status = "running"
    BY <1>19 DEF Create, Resume, NoRun, Run
  <2> DEFINE r == [drv[d] EXCEPT !.at = "read"]
  <2>3. drv' = [drv EXCEPT ![d] = r] /\ r.at = "read" /\ r.at \notin Held
    BY <2>1 DEF Goes, Driver, Held
  <2> HIDE DEF r
  <2> QED
    BY <1>17, <2>1, <2>2, <2>3, AloneMoves
<1>20. ASSUME NEW d \in Drivers, Answer(d) \/ Deliver(d) PROVE Calm'
  <2>1. Quiet /\ UNCHANGED wf
    BY <1>20 DEF Answer, Deliver, ledgerVars
  <2>2. \A c \in Drivers : drv'[c].at = "answer" \/ drv'[c] = drv[c]
    BY <1>20 DEF Answer, Deliver, Answering
  <2>3. drv' \in [Drivers -> Driver]
    <3>1. (wf \in Run)'
      BY <2>1
    <3> QED
      BY <3>1, DriversStep DEF DriversSound
  <2> QED
    BY <2>1, <2>2, <2>3, RestMoves
<1>21. ASSUME \/ \E a \in Attempts : AgentStep(a)
              \/ \E e \in Envs : (Persist(e) /\ UNCHANGED wfVars) \/ Cancel(e)
       PROVE  Calm'
  <2>1. UNCHANGED <<wf, drv>>
    BY <1>21 DEF AgentStep, Cancel, wfVars
  <2>2. Quiet
    BY <1>21 DEF AgentStep, JobDone, JobBlocked, StopRun, AgentExits, Abandon, SweepOne,
         Persist, Cancel, CancelRun
  <2> QED
    BY <2>1, <2>2, RestMoves
<1>22. CASE Crash
  <2>1. agents' = {} /\ spawning' = {} /\ drv' = [d \in Drivers |-> Asleep]
    BY <1>22 DEF Crash, LedgerCrash
  <2>2. Live' = {} /\ \A d \in Drivers : drv'[d].at = "idle"
    BY <2>1 DEF Live, Asleep
  <2>3. \A d \in Drivers : ~Busy(d)' /\ drv'[d].at \notin Held
    BY <2>2 DEF Busy, Held
  <2> QED
    BY <2>1, <2>2, <2>3 DEF Calm, OneDriver, DriverKnows, HeldTrue, AboardTrue, LiveTrue
<1>23. CASE Reload
  <2>1. Quiet /\ UNCHANGED wf /\ drv' = [d \in Drivers |-> Asleep]
    BY <1>23 DEF Reload, LedgerReload
  <2>2. drv' \in [Drivers -> Driver] /\ \A d \in Drivers : drv'[d].at = "idle"
    BY <2>1, AsleepSound DEF Sound, Asleep
  <2> QED
    BY <2>1, <2>2, RestMoves
<1>24. ASSUME NEW d \in Drivers, Spawn(d) PROVE Calm'
  BY <1>9, <1>11, <1>24
<1>25. ASSUME NEW d \in Drivers, Inspect(d) \/ Gate(d) \/ GitOp(d) PROVE Calm'
  <2>1. drv[d].at = "step"
    BY <1>25 DEF Inspect, Gate, GitOp, OnStep
  <2> QED
    BY <1>6, <1>25, <2>1
<1> HIDE DEF Quiet
<1> QED
  BY <1>4, <1>5, <1>7, <1>8, <1>9, <1>10, <1>12, <1>13, <1>14, <1>15, <1>16, <1>18, <1>19,
     <1>20, <1>21, <1>22, <1>23, <1>24, <1>25
  DEF Next, DriverStep, Calls

(* An answer that came early is not forgotten. *)
LEMMA HastyStays ==
    ASSUME Next, hasty
    PROVE  hasty'
<1>1. \/ UNCHANGED hasty
      \/ \E d \in Drivers : Advance(d)
  BY DEF Next, DriverStep, Calls, Read, Finish, Inspect, ReserveTask, RecordAttempt, Launch,
     Spawn, NotStarted, Track, Look, Returned, Failover, TryAgain, Gate, GitOp, Pause, Create, Answer,
     Deliver, Resume, SpawnEnds, AgentStep, wfVars, Cancel, Announce, Crash, Reload
<1>2. ASSUME NEW d \in Drivers, Advance(d) PROVE hasty'
  <2>1. hasty' = (hasty \/ (drv[d].at = "answer" /\ wf.status # "waiting")) \/ UNCHANGED hasty
    BY <1>2 DEF Advance
  <2> QED
    BY <2>1
<1> QED
  BY <1>1, <1>2

(* The calm lasts until an answer comes early. *)
LEMMA OneInvAlways == Spec => []OneInv
<1>1. Init => OneInv
  <2> SUFFICES ASSUME Init PROVE Calm
    BY DEF OneInv
  <2>1. agents = {} /\ spawning = {} /\ drv = [d \in Drivers |-> Asleep]
    BY DEF Init, LedgerInit
  <2>2. Live = {} /\ \A d \in Drivers : drv[d].at = "idle"
    BY <2>1 DEF Live, Asleep
  <2>3. \A d \in Drivers : ~Busy(d) /\ drv[d].at \notin Held
    BY <2>2 DEF Busy, Held
  <2> QED
    BY <2>1, <2>2, <2>3 DEF Calm, OneDriver, DriverKnows, HeldTrue, AboardTrue, LiveTrue
<1>2. Inv /\ OneInv /\ [Next]_vars => OneInv'
  <2> SUFFICES ASSUME Inv, OneInv, [Next]_vars PROVE OneInv'
    OBVIOUS
  <2>1. CASE UNCHANGED vars
    <3>1. UNCHANGED <<env, agents, spawning, wf, drv, hasty>>
      BY <2>1 DEF vars, ledgerVars, wfVars
    <3>2. CASE hasty
      BY <3>1, <3>2 DEF OneInv
    <3>3. CASE Calm
      <4>1. Live' = Live
        BY <3>1 DEF Live, State
      <4>2. OneDriver' /\ DriverKnows'
        BY <3>1, <3>3 DEF Calm, OneDriver, DriverKnows, Busy, At
      <4>3. HeldTrue' /\ AboardTrue'
        BY <3>1, <3>3 DEF Calm, HeldTrue, AboardTrue, State, A, At
      <4>4. LiveTrue'
        BY <3>1, <3>3, <4>1 DEF Calm, LiveTrue, Busy, A
      <4> QED
        BY <4>2, <4>3, <4>4 DEF OneInv, Calm
    <3> QED
      BY <3>2, <3>3 DEF OneInv
  <2>2. CASE hasty'
    BY <2>2 DEF OneInv
  <2>3. CASE Next /\ ~hasty'
    <3>1. ~hasty
      BY <2>3, HastyStays
    <3> QED
      BY <2>3, <3>1, CalmStep DEF OneInv
  <2> QED
    BY <2>1, <2>2, <2>3
<1> QED
  BY <1>1, <1>2, InvAlways, PTL DEF Spec

\* While every answer came to a run that waited for it, at most one agent works
\* for the run, and it works for the step and round the run is at
\* (workflowExecutor.ts, executeAgent).
THEOREM OneAgentAtATime == Spec => []OneAgentWorks
<1>1. OneInv => OneAgentWorks
  <2> SUFFICES ASSUME Calm PROVE /\ \A a, b \in Working : a = b
                                 /\ \A a \in Working :
                                      /\ wf.status = "running"
                                      /\ env[a[1]].purpose = <<wf.current, wf.round[wf.current]>>
    BY DEF OneInv, OneAgentWorks
  <2>1. Working \subseteq Live
    BY DEF Working, Live
  <2> QED
    BY <2>1 DEF Calm, LiveTrue
<1> QED
  BY <1>1, OneInvAlways, PTL
=============================================================================
