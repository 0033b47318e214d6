--------------------------- MODULE HostRelayProofs --------------------------
(***************************************************************************)
(* Theorems about HostRelay, for any number of jobs, messages, teams and   *)
(* attempts, any page and mailbox size, and any number of crashes.         *)
(***************************************************************************)
EXTENDS HostRelay, TLAPS

\* An attempt goes through one of the client's teams.
LEMMA TeamOfRange == \A e \in Envelopes : TeamOf(e) \in 1..Teams
<1> SUFFICES ASSUME NEW e \in Envelopes PROVE TeamOf(e) \in 1..Teams
  OBVIOUS
<1>1. e.try - 1 \in Nat /\ Teams \in Nat \ {0}
  BY HostRelayAssumption DEF Envelopes
<1>2. (e.try - 1) % Teams \in 0..(Teams - 1)
  BY <1>1
<1> QED BY <1>1, <1>2 DEF TeamOf

\* The sequences of the model grow at their end and change in place.
LEMMA Elements ==
    ASSUME NEW S, NEW s \in Seq(S), NEW k \in DOMAIN s
    PROVE  s[k] \in S /\ k \in 1..Len(s) /\ k \in Nat
OBVIOUS

LEMMA Appended ==
    ASSUME NEW S, NEW s \in Seq(S), NEW x \in S
    PROVE  /\ Append(s, x) \in Seq(S) /\ Len(Append(s, x)) = Len(s) + 1
           /\ DOMAIN Append(s, x) = DOMAIN s \union {Len(s) + 1}
           /\ \A k \in DOMAIN s : Append(s, x)[k] = s[k]
           /\ Append(s, x)[Len(s) + 1] = x
           /\ Len(s) \in Nat /\ Len(s) + 1 \notin DOMAIN s
OBVIOUS

LEMMA Updated ==
    ASSUME NEW S, NEW s \in Seq(S), NEW k \in DOMAIN s, NEW x \in S
    PROVE  /\ [s EXCEPT ![k] = x] \in Seq(S)
           /\ Len([s EXCEPT ![k] = x]) = Len(s)
           /\ DOMAIN [s EXCEPT ![k] = x] = DOMAIN s
OBVIOUS

LEMMA Tabulated ==
    ASSUME NEW S, NEW n \in Nat, NEW f, f = [k \in 1..n |-> f[k]],
           \A k \in 1..n : f[k] \in S
    PROVE  f \in Seq(S) /\ Len(f) = n
<1>1. f \in [1..n -> S]
  OBVIOUS
<1> QED BY <1>1

-----------------------------------------------------------------------------
(* Type correctness.  A status is routed by the team stored with its job,  *)
(* so the types need every job a task can report on to have one.           *)

\* An item that was asked for has an attempt.
Asked == \A i \in Items : post[i] # "unsent" => try[i] # 0

\* A job whose envelope was recorded has a row, and the team of its sender.
Routed ==
    /\ \A e \in Envelopes : inbox[e] # "none" /\ IsJob(e) => job[e.item] # "none"
    /\ \A j \in Jobs : job[j] # "none" => jobTeam[j] # NoTeam

\* What the tasks hold has been recorded.
Held ==
    /\ \A e \in handing : inbox[e] = "accepted"
    /\ \A e \in failing : inbox[e] = "failed" /\ IsJob(e)
    /\ \A k \in DOMAIN rows : inbox[rows[k].env] = "handed"
    /\ \A k \in DOMAIN rows : \A n \in Slots :
          run[k][n] \in {"started", "failed"} => IsJob(rows[k].env)
    /\ \A k \in DOMAIN rows : cut[k] = "job" => IsJob(rows[k].env)

TypeInv == TypeOK /\ Asked /\ Routed /\ Held

LEMMA TypeInit == Init => TypeInv
  BY HostRelayAssumption
  DEF Init, TypeInv, TypeOK, Asked, Routed, Held, NoTeam, Envelopes, Items, IsJob, Slots

LEMMA RowType ==
    ASSUME TypeInv
    PROVE  \A k \in DOMAIN rows : rows[k] \in Rows /\ rows[k].env \in Envelopes
<1>1. ASSUME NEW k \in DOMAIN rows PROVE rows[k] \in Rows
  <2>1. rows \in Seq(Rows)
    BY DEF TypeInv, TypeOK
  <2> QED BY <2>1, Elements
<1> QED BY <1>1 DEF Rows

LEMMA OutboxType ==
    ASSUME TypeInv
    PROVE  \A k \in DOMAIN outbox :
             outbox[k] \in Outgoing /\ outbox[k].reply \in Replies
<1>1. ASSUME NEW k \in DOMAIN outbox PROVE outbox[k] \in Outgoing
  <2>1. outbox \in Seq(Outgoing)
    BY DEF TypeInv, TypeOK
  <2> QED BY <2>1, Elements
<1> QED BY <1>1 DEF Outgoing

LEMMA ClientKeepsTypes == TypeInv /\ ClientStep => TypeInv'
<1> SUFFICES ASSUME TypeInv, ClientStep PROVE TypeInv'
  OBVIOUS
<1> USE DEF TypeInv, TypeOK, Asked, Routed, Held, clientVars, netVars, pollVars,
            jobVars, rowVars, history, tasks, hostVars
<1>1. CASE Hear
  <2> DEFINE r == Head(mailbox)
  <2>1. r \in Replies /\ Tail(mailbox) \in Seq(Replies)
    BY <1>1 DEF Hear
  <2>2. r.item \in Items /\ r.state \in Statuses /\ NoTeam \in 0..Teams
    BY <2>1, HostRelayAssumption DEF Replies, NoTeam
  <2>3. shown' \in [Items -> SUBSET Statuses]
    <3>1. CASE shown' = shown
      BY <3>1
    <3>2. CASE shown' = [shown EXCEPT ![r.item] = @ \union {r.state}]
      BY <3>2, <2>2
    <3> QED BY <1>1, <3>1, <3>2 DEF Hear
  <2>4. route' \in [Items -> 0..Teams]
    <3>1. CASE route' = route
      BY <3>1
    <3>2. CASE route' = [route EXCEPT ![r.item] =
                           IF Final(r.item, r.state) THEN NoTeam ELSE @]
      <4>1. CASE Final(r.item, r.state)
        BY <3>2, <4>1, <2>2
      <4>2. CASE ~Final(r.item, r.state)
        BY <3>2, <4>2, <2>2
      <4> QED BY <4>1, <4>2
    <3> QED BY <1>1, <3>1, <3>2 DEF Hear
  <2> QED BY <1>1, <2>1, <2>3, <2>4 DEF Hear
<1>2. ASSUME NEW i \in Items, Ask(i) PROVE TypeInv'
  BY <1>2, HostRelayAssumption DEF Ask
<1>3. ASSUME NEW i \in Items, RelayTakes(i) PROVE TypeInv'
  <2>1. try[i] \in 1..MaxAttempts
    BY <1>3, HostRelayAssumption DEF RelayTakes
  <2>2. Current(i) \in Envelopes
    BY <2>1 DEF Current, Envelopes
  <2> QED BY <1>3, <2>2 DEF RelayTakes
<1>4. ASSUME NEW i \in Items, Answered(i) PROVE TypeInv'
  <2>1. try[i] \in 1..MaxAttempts
    BY <1>4, HostRelayAssumption DEF Answered
  <2>2. Current(i) \in Envelopes
    BY <2>1 DEF Current, Envelopes
  <2>3. TeamOf(Current(i)) \in 0..Teams
    BY <2>2, TeamOfRange, HostRelayAssumption
  <2> QED BY <1>4, <2>3 DEF Answered
<1>5. ASSUME NEW i \in Items, Unanswered(i) PROVE TypeInv'
  BY <1>5 DEF Unanswered
<1> QED BY <1>1, <1>2, <1>3, <1>4, <1>5 DEF ClientStep

\* A reply to a known envelope or about a routed job is well formed.
LEMMA ReplyType ==
    ASSUME NEW i \in Items, NEW t \in 1..Teams, NEW s \in Statuses
    PROVE  /\ Reply(i, t, s) \in Replies
           /\ Queued(Reply(i, t, s)) \in Outgoing
BY DEF Reply, Replies, Queued, Outgoing

LEMMA EnvelopeItem ==
    ASSUME NEW e \in Envelopes
    PROVE  e.item \in Items /\ (IsJob(e) => e.item \in Jobs)
BY DEF Envelopes, IsJob

\* What Transition does to the types it touches.
LEMMA TransitionTypes ==
    ASSUME TypeInv, NEW j \in Jobs, job[j] # "none",
           NEW s \in {"started", "done", "blocked", "failed", "uncertain"},
           Transition(j, s)
    PROVE  /\ outbox' \in Seq(Outgoing) /\ Len(outbox') = Len(outbox) + 1
           /\ job' \in [Jobs -> {"none", "accepted", "declined", "started", "done",
                                 "blocked", "failed", "uncertain"}]
           /\ jobTeam' = jobTeam
           /\ \A i \in Jobs : job'[i] # "none" <=> job[i] # "none"
<1>1. jobTeam[j] \in 1..Teams
  BY HostRelayAssumption DEF TypeInv, TypeOK, Routed, NoTeam
<1>2. Wire(s) \in Statuses /\ j \in Items
  BY DEF Wire, Statuses, Items
<1>3. Queued(Reply(j, jobTeam[j], Wire(s))) \in Outgoing
  BY <1>1, <1>2, ReplyType
<1> QED BY <1>3 DEF Transition, Push, TypeInv, TypeOK

\* A longer outbox keeps the page's numbers.
LEMMA PageKept ==
    ASSUME TypeInv, outbox' \in Seq(Outgoing), Len(outbox') >= Len(outbox)
    PROVE  page \subseteq 1..Len(outbox')
BY DEF TypeInv, TypeOK

\* The first answer for a job makes its row and says whose it is.
JobRows ==
    /\ job \in [Jobs -> {"none", "accepted", "declined", "started", "done", "blocked",
                         "failed", "uncertain"}]
    /\ jobTeam \in [Jobs -> 0..Teams]
    /\ \A j \in Jobs : job[j] # "none" => jobTeam[j] # NoTeam

LEMMA InsertJobTypes ==
    ASSUME JobRows, NEW e \in Envelopes, e.item \in Jobs,
           NEW s \in {"accepted", "declined"}, InsertJob(e, s)
    PROVE  /\ JobRows'
           /\ \A j \in Jobs : job[j] # "none" => job'[j] # "none" /\ jobTeam'[j] = jobTeam[j]
           /\ job'[e.item] # "none"
<1>1. TeamOf(e) \in 0..Teams /\ TeamOf(e) # NoTeam
  BY TeamOfRange, HostRelayAssumption DEF NoTeam
<1>2. CASE job[e.item] = "none"
  <2>1. /\ job' = [job EXCEPT ![e.item] = s]
        /\ jobTeam' = [jobTeam EXCEPT ![e.item] = TeamOf(e)]
    BY <1>2 DEF InsertJob
  <2> QED BY <2>1, <1>1, <1>2 DEF JobRows
<1>3. CASE job[e.item] # "none"
  <2>1. jobTeam' = jobTeam /\ (job' = job \/ job' = [job EXCEPT ![e.item] = "declined"])
    BY <1>3 DEF InsertJob
  <2> QED BY <2>1, <1>3 DEF JobRows
<1> QED BY <1>2, <1>3

\* A recorded envelope has a row that says how it was judged.
LEMMA AdmitInbox ==
    ASSUME inbox \in [Envelopes -> {"none", "accepted", "refused", "handed", "failed"}],
           NEW e \in Envelopes, Admit(e)
    PROVE  /\ inbox' \in [Envelopes -> {"none", "accepted", "refused", "handed", "failed"}]
           /\ inbox'[e] \in {"accepted", "refused"}
           /\ \A f \in Envelopes : f # e => inbox'[f] = inbox[f]
           /\ inbox[e] = "none"
<1>1. inbox[e] = "none" /\ \E v \in {"accepted", "refused"} : inbox' = [inbox EXCEPT ![e] = v]
  BY DEF Admit, Record, Accept, Refuse
<1> QED BY <1>1

LEMMA PollerKeepsTypes == TypeInv /\ PollerStep => TypeInv'
<1> SUFFICES ASSUME TypeInv, PollerStep PROVE TypeInv'
  OBVIOUS
<1> USE DEF TypeInv, TypeOK, Asked, Routed, Held, clientVars, netVars, pollVars,
            jobVars, rowVars, history, tasks, hostVars, AtRest, At
<1>1. CASE Poll
  BY <1>1 DEF Poll
<1>2. CASE PollFails
  BY <1>2 DEF PollFails
<1>3. CASE Ack
  BY <1>3 DEF Ack
<1>4. CASE ReadPage
  BY <1>4 DEF ReadPage, FirstUnsent, Unsent
<1>5. ASSUME NEW e \in Envelopes, Admit(e) PROVE TypeInv'
  <2>1. e.item \in Items /\ (IsJob(e) => e.item \in Jobs)
    BY EnvelopeItem
  <2>2. TeamOf(e) \in 1..Teams /\ TeamOf(e) \in 0..Teams /\ TeamOf(e) # NoTeam
    BY TeamOfRange, HostRelayAssumption DEF NoTeam
  <2>3. /\ Queued(Reply(e.item, TeamOf(e), "accepted")) \in Outgoing
        /\ Queued(Reply(e.item, TeamOf(e), "declined")) \in Outgoing
        /\ Queued(Reply(e.item, TeamOf(e), "refused")) \in Outgoing
    BY <2>1, <2>2, ReplyType DEF Statuses
  <2>4. /\ outbox' \in Seq(Outgoing) /\ Len(outbox') >= Len(outbox)
    <3>1. \/ outbox' = outbox
          \/ outbox' = Append(outbox, Queued(Reply(e.item, TeamOf(e), "accepted")))
          \/ outbox' = Append(outbox, Queued(Reply(e.item, TeamOf(e), "declined")))
          \/ outbox' = Append(outbox, Queued(Reply(e.item, TeamOf(e), "refused")))
      BY <1>5 DEF Admit, Record, Accept, Refuse, Push
    <3>2. outbox \in Seq(Outgoing) /\ Len(outbox) \in Nat
      OBVIOUS
    <3> HIDE DEF TypeInv, TypeOK
    <3> QED BY <2>3, <3>1, <3>2, Appended
  <2>5. page' \subseteq 1..Len(outbox')
    BY <1>5, <2>4, PageKept DEF Admit
  <2>6. /\ inbox' \in [Envelopes -> {"none", "accepted", "refused", "handed", "failed"}]
        /\ inbox'[e] \in {"accepted", "refused"}
        /\ \A f \in Envelopes : f # e => inbox'[f] = inbox[f]
        /\ inbox[e] = "none"
    BY <1>5, AdmitInbox
  <2>7. /\ job' \in [Jobs -> {"none", "accepted", "declined", "started", "done",
                              "blocked", "failed", "uncertain"}]
        /\ jobTeam' \in [Jobs -> 0..Teams]
        /\ \A j \in Jobs : job[j] # "none" => job'[j] # "none" /\ jobTeam'[j] = jobTeam[j]
        /\ \A j \in Jobs : job'[j] # "none" => jobTeam'[j] # NoTeam
        /\ IsJob(e) => job'[e.item] # "none"
    <3>1. CASE ~IsJob(e)
      BY <1>5, <3>1 DEF Admit, Record, Accept, Refuse
    <3>2. CASE IsJob(e)
      <4>1. PICK state \in {"accepted", "declined"} : InsertJob(e, state)
        BY <1>5, <3>2 DEF Admit, Record, Accept, Refuse
      <4>2. e.item \in Jobs
        BY <3>2, <2>1
      <4>3. JobRows
        BY DEF JobRows
      <4> HIDE DEF TypeInv, TypeOK, Asked, Routed, Held
      <4> QED BY <4>1, <4>2, <4>3, <3>2, InsertJobTypes DEF JobRows
    <3> QED BY <3>1, <3>2
  <2>8. /\ handing' \subseteq Envelopes
        /\ \A f \in handing' : inbox'[f] = "accepted"
    BY <1>5, <2>6 DEF Admit, Record, Accept, Refuse
  <2>9. Routed'
    <3>1. ASSUME NEW f \in Envelopes, inbox'[f] # "none", IsJob(f)
          PROVE  job'[f.item] # "none"
      <4>1. CASE f = e
        BY <4>1, <3>1, <2>7
      <4>2. CASE f # e
        BY <4>2, <3>1, <2>6, <2>7, EnvelopeItem
      <4> QED BY <4>1, <4>2
    <3> QED BY <3>1, <2>7 DEF IsJob, NoTeam
  <2>10. Held'
    <3>1. \A f \in failing' : inbox'[f] = "failed" /\ IsJob(f)
      BY <1>5, <2>6 DEF Admit
    <3>2. \A k \in DOMAIN rows' : inbox'[rows'[k].env] = "handed"
      <4>1. \A k \in DOMAIN rows : rows[k].env \in Envelopes
        BY RowType
      <4> QED BY <1>5, <2>6, <4>1 DEF Admit
    <3> QED BY <1>5, <2>8, <3>1, <3>2 DEF Admit, IsJob
  <2> QED BY <1>5, <2>4, <2>5, <2>6, <2>7, <2>8, <2>9, <2>10 DEF Admit
<1>6. ASSUME NEW e \in Envelopes, Duplicate(e) PROVE TypeInv'
  BY <1>6 DEF Duplicate
<1>7. ASSUME NEW e \in Envelopes, Keep(e) PROVE TypeInv'
  BY <1>7 DEF Keep
<1>8. ASSUME NEW k \in DOMAIN outbox, PostOk(k) PROVE TypeInv'
  <2>1. outbox[k].reply \in Replies
    BY OutboxType
  <2> QED BY <1>8, <2>1 DEF PostOk, Posted
<1>9. ASSUME NEW k \in DOMAIN outbox, PostFails(k) PROVE TypeInv'
  <2>1. outbox[k].reply \in Replies
    BY OutboxType
  <2>2. mailbox' \in Seq(Replies)
    <3>1. mailbox' = mailbox \/ mailbox' = Append(mailbox, outbox[k].reply)
      BY <1>9 DEF PostFails, Posted
    <3>2. mailbox \in Seq(Replies)
      OBVIOUS
    <3> HIDE DEF TypeInv, TypeOK
    <3> QED BY <2>1, <3>1, <3>2, Appended
  <2> QED BY <1>9, <2>2 DEF PostFails
<1>10. ASSUME NEW k \in DOMAIN outbox, RecordSent(k) PROVE TypeInv'
  <2>1. [outbox[k] EXCEPT !.sent = TRUE] \in Outgoing
    <3>1. outbox[k] \in Outgoing
      BY OutboxType
    <3> HIDE DEF TypeInv, TypeOK
    <3> QED BY <3>1 DEF Outgoing
  <2>2. outbox' \in Seq(Outgoing) /\ Len(outbox') = Len(outbox)
    BY <1>10, <2>1 DEF RecordSent
  <2> QED BY <1>10, <2>2 DEF RecordSent
<1> QED
  BY <1>1, <1>2, <1>3, <1>4, <1>5, <1>6, <1>7, <1>8, <1>9, <1>10 DEF PollerStep

Marks == {"none", "row", "job"}

\* The parts of the types the tasks and recovery of the rows disturb.
RowTypes ==
    /\ rows \in Seq(Rows)
    /\ run \in Seq([Slots -> Labels]) /\ Len(run) = Len(rows)
    /\ cut \in Seq(Marks) /\ Len(cut) = Len(rows)
    /\ puts \in Slots
    /\ touched \subseteq DOMAIN rows /\ been \subseteq (DOMAIN rows) \X Outcomes

LEMMA RowTypesHold == TypeInv => /\ RowTypes /\ MaxPuts \in Nat
                                 /\ DOMAIN run = DOMAIN rows /\ DOMAIN cut = DOMAIN rows
<1> SUFFICES ASSUME TypeInv
             PROVE  /\ RowTypes /\ MaxPuts \in Nat
                    /\ DOMAIN run = DOMAIN rows /\ DOMAIN cut = DOMAIN rows
  OBVIOUS
<1>1. RowTypes
  BY DEF TypeInv, TypeOK, RowTypes, Marks
<1> QED BY <1>1, HostRelayAssumption DEF RowTypes

\* A row's tasks before anything happened, and when its delivery is to begin.
LEMMA IdleFresh ==
    /\ Idle \in [Slots -> Labels] /\ Fresh \in [Slots -> Labels]
    /\ \A n \in Slots : Idle[n] = "none"
    /\ 0 \in Slots /\ Fresh[0] = "wait" /\ \A n \in Slots : n # 0 => Fresh[n] = "none"
BY HostRelayAssumption DEF Idle, Fresh, Slots, Labels

\* A row keeps its envelope and its place; a task changes one label.
LEMMA RowSet ==
    ASSUME RowTypes, NEW k \in DOMAIN rows,
           NEW s \in {"queued", "writing"} \union Outcomes, SetRow(k, s)
    PROVE  /\ rows' \in Seq(Rows) /\ Len(rows') = Len(rows)
           /\ DOMAIN rows' = DOMAIN rows
           /\ \A l \in DOMAIN rows : rows'[l].env = rows[l].env
           /\ rows'[k].state = s
           /\ \A l \in DOMAIN rows : l # k => rows'[l] = rows[l]
           /\ been' \subseteq (DOMAIN rows) \X Outcomes /\ been \subseteq been'
           /\ s \in Outcomes => <<k, s>> \in been'
<1>1. rows \in Seq(Rows) /\ rows[k] \in Rows
  BY Elements DEF RowTypes
<1>2. /\ [rows[k] EXCEPT !.state = s] \in Rows
      /\ [rows[k] EXCEPT !.state = s].env = rows[k].env
      /\ [rows[k] EXCEPT !.state = s].state = s
  BY <1>1 DEF Rows
<1>3. rows' = [rows EXCEPT ![k] = [rows[k] EXCEPT !.state = s]]
  BY DEF SetRow
<1>4. /\ rows' \in Seq(Rows) /\ Len(rows') = Len(rows) /\ DOMAIN rows' = DOMAIN rows
  BY <1>1, <1>2, <1>3, Updated
<1>5. /\ rows'[k] = [rows[k] EXCEPT !.state = s]
      /\ \A l \in DOMAIN rows : l # k => rows'[l] = rows[l]
  BY <1>3
<1>6. \A l \in DOMAIN rows : rows'[l].env = rows[l].env
  BY <1>2, <1>5
<1>7. /\ been' \subseteq (DOMAIN rows) \X Outcomes /\ been \subseteq been'
      /\ s \in Outcomes => <<k, s>> \in been'
  BY DEF SetRow, RowTypes
<1> QED BY <1>2, <1>4, <1>5, <1>6, <1>7

LEMMA RunSet ==
    ASSUME RowTypes, NEW k \in DOMAIN rows, NEW n \in Slots, NEW label \in Labels,
           Goto(k, n, label)
    PROVE  /\ run' \in Seq([Slots -> Labels]) /\ Len(run') = Len(run)
           /\ run'[k][n] = label
           /\ \A m \in Slots : m # n => run'[k][m] = run[k][m]
           /\ \A l \in DOMAIN rows : l # k => run'[l] = run[l]
<1>1. run \in Seq([Slots -> Labels]) /\ k \in DOMAIN run /\ DOMAIN rows = DOMAIN run
  BY DEF RowTypes
<1>2. run[k] \in [Slots -> Labels]
  BY <1>1, Elements
<1>3. [run[k] EXCEPT ![n] = label] \in [Slots -> Labels]
  BY <1>2
<1>4. run' = [run EXCEPT ![k] = [run[k] EXCEPT ![n] = label]]
  BY DEF Goto
<1>5. run' \in Seq([Slots -> Labels]) /\ Len(run') = Len(run)
  BY <1>1, <1>3, <1>4, Updated
<1>6. /\ run'[k] = [run[k] EXCEPT ![n] = label]
      /\ \A l \in DOMAIN rows : l # k => run'[l] = run[l]
  BY <1>1, <1>4
<1>7. run'[k][n] = label /\ \A m \in Slots : m # n => run'[k][m] = run[k][m]
  BY <1>2, <1>6
<1> QED BY <1>5, <1>6, <1>7

LEMMA CutSet ==
    ASSUME RowTypes, NEW k \in DOMAIN rows, NEW mark \in Marks, CutTo(k, mark)
    PROVE  /\ cut' \in Seq(Marks) /\ Len(cut') = Len(cut)
           /\ cut'[k] = mark
           /\ \A l \in DOMAIN rows : l # k => cut'[l] = cut[l]
<1>1. cut \in Seq(Marks) /\ k \in DOMAIN cut /\ DOMAIN rows = DOMAIN cut
  BY DEF RowTypes
<1>2. cut' = [cut EXCEPT ![k] = mark]
  BY DEF CutTo
<1>3. cut' \in Seq(Marks) /\ Len(cut') = Len(cut)
  BY <1>1, <1>2, Updated
<1>4. cut'[k] = mark /\ \A l \in DOMAIN rows : l # k => cut'[l] = cut[l]
  BY <1>1, <1>2
<1> QED BY <1>3, <1>4

\* deliver's commit adds a queued row with one task to run.
LEMMA RowAdded ==
    ASSUME RowTypes, NEW e \in Envelopes,
           rows' = Append(rows, [env |-> e, state |-> "queued"]),
           run' = Append(run, Fresh), cut' = Append(cut, "none"),
           UNCHANGED <<puts, touched, been>>
    PROVE  /\ RowTypes'
           /\ DOMAIN rows' = DOMAIN rows \union {Len(rows) + 1}
           /\ Len(rows) + 1 \notin DOMAIN rows
           /\ rows'[Len(rows) + 1] = [env |-> e, state |-> "queued"]
           /\ run'[Len(rows) + 1] = Fresh /\ cut'[Len(rows) + 1] = "none"
           /\ \A k \in DOMAIN rows :
                 rows'[k] = rows[k] /\ run'[k] = run[k] /\ cut'[k] = cut[k]
<1>1. /\ rows \in Seq(Rows) /\ [env |-> e, state |-> "queued"] \in Rows
      /\ run \in Seq([Slots -> Labels]) /\ Fresh \in [Slots -> Labels]
      /\ cut \in Seq(Marks) /\ "none" \in Marks
      /\ Len(run) = Len(rows) /\ Len(cut) = Len(rows)
      /\ DOMAIN run = DOMAIN rows /\ DOMAIN cut = DOMAIN rows
  BY IdleFresh DEF RowTypes, Rows, Marks
<1>2. /\ rows' \in Seq(Rows) /\ Len(rows') = Len(rows) + 1
      /\ DOMAIN rows' = DOMAIN rows \union {Len(rows) + 1}
      /\ \A k \in DOMAIN rows : rows'[k] = rows[k]
      /\ rows'[Len(rows) + 1] = [env |-> e, state |-> "queued"]
      /\ Len(rows) + 1 \notin DOMAIN rows
  BY <1>1, Appended
<1>3. /\ run' \in Seq([Slots -> Labels]) /\ Len(run') = Len(run) + 1
      /\ \A k \in DOMAIN rows : run'[k] = run[k]
      /\ run'[Len(rows) + 1] = Fresh
  BY <1>1, Appended
<1>4. /\ cut' \in Seq(Marks) /\ Len(cut') = Len(cut) + 1
      /\ \A k \in DOMAIN rows : cut'[k] = cut[k]
      /\ cut'[Len(rows) + 1] = "none"
  BY <1>1, Appended
<1>5. puts' \in Slots /\ touched' \subseteq DOMAIN rows'
      /\ been' \subseteq (DOMAIN rows') \X Outcomes
  BY <1>2 DEF RowTypes
<1>6. RowTypes'
  BY <1>1, <1>2, <1>3, <1>4, <1>5 DEF RowTypes
<1> QED BY <1>2, <1>3, <1>4, <1>6

LEMMA TasksKeepTypes ==
    ASSUME TypeInv,
           (\E e \in Envelopes : HandOffStep(e)) \/ (\E k \in DOMAIN rows : RunStep(k))
    PROVE  TypeInv'
<1>0. RowTypes
  BY RowTypesHold
<1>1. ASSUME NEW e \in Envelopes, HandOff(e) PROVE TypeInv'
  <2>1. /\ rows' = Append(rows, [env |-> e, state |-> "queued"])
        /\ run' = Append(run, Fresh) /\ cut' = Append(cut, "none")
        /\ UNCHANGED <<puts, touched, been>>
    BY <1>1 DEF HandOff, history
  <2>2. /\ RowTypes'
        /\ DOMAIN rows' = DOMAIN rows \union {Len(rows) + 1}
        /\ rows'[Len(rows) + 1] = [env |-> e, state |-> "queued"]
        /\ run'[Len(rows) + 1] = Fresh /\ cut'[Len(rows) + 1] = "none"
        /\ \A k \in DOMAIN rows :
              rows'[k] = rows[k] /\ run'[k] = run[k] /\ cut'[k] = cut[k]
    BY <1>0, <2>1, RowAdded
  <2>3. e \in handing /\ inbox[e] = "accepted"
    BY <1>1 DEF HandOff, TypeInv, Held
  <2>4. /\ inbox' \in [Envelopes -> {"none", "accepted", "refused", "handed", "failed"}]
        /\ \A f \in Envelopes : inbox'[f] = IF f = e THEN "handed" ELSE inbox[f]
    BY <1>1 DEF HandOff, TypeInv, TypeOK
  <2>5. /\ job' \in [Jobs -> {"none", "accepted", "declined", "started", "done",
                              "blocked", "failed", "uncertain"}]
        /\ \A j \in Jobs : job'[j] # "none" <=> job[j] # "none"
    <3>1. CASE ~IsJob(e)
      BY <1>1, <3>1 DEF HandOff, TypeInv, TypeOK
    <3>2. CASE IsJob(e)
      <4>1. e.item \in Jobs /\ job[e.item] # "none"
        BY <2>3, <3>2, EnvelopeItem DEF TypeInv, Routed
      <4>2. job' = [job EXCEPT ![e.item] = "accepted"]
        BY <1>1, <3>2 DEF HandOff
      <4>3. job \in [Jobs -> {"none", "accepted", "declined", "started", "done",
                              "blocked", "failed", "uncertain"}]
        BY DEF TypeInv, TypeOK
      <4> QED BY <4>1, <4>2, <4>3
    <3> QED BY <3>1, <3>2
  <2>6. Routed'
    BY <1>1, <2>3, <2>4, <2>5, EnvelopeItem
    DEF HandOff, TypeInv, TypeOK, Routed, IsJob, NoTeam
  <2>7. Held'
    <3>1. \A f \in handing' : inbox'[f] = "accepted"
      BY <1>1, <2>4 DEF HandOff, TypeInv, TypeOK, Held
    <3>2. \A f \in failing' : inbox'[f] = "failed" /\ IsJob(f)
      BY <1>1, <2>3, <2>4 DEF HandOff, TypeInv, TypeOK, Held, tasks
    <3>3. \A k \in DOMAIN rows' : inbox'[rows'[k].env] = "handed"
      BY <2>2, <2>4, RowType DEF TypeInv, Held
    <3>4. \A k \in DOMAIN rows' : \A n \in Slots :
            run'[k][n] \in {"started", "failed"} => IsJob(rows'[k].env)
      BY <2>2, IdleFresh DEF TypeInv, Held
    <3>5. \A k \in DOMAIN rows' : cut'[k] = "job" => IsJob(rows'[k].env)
      BY <2>2 DEF TypeInv, Held
    <3> QED BY <3>1, <3>2, <3>3, <3>4, <3>5 DEF Held, IsJob
  <2>8. handing' \subseteq Envelopes /\ UNCHANGED <<post, try, route, shown, queue, mailbox,
            gone, up, crashes, phase, batch, acks, page, jobTeam, outbox, failing>>
    BY <1>1 DEF HandOff, TypeInv, TypeOK, clientVars, netVars, pollVars
  <2>9. TypeOK'
    BY <2>2, <2>4, <2>5, <2>8 DEF TypeInv, TypeOK, RowTypes, Marks
  <2> QED BY <2>6, <2>7, <2>8, <2>9 DEF TypeInv, Asked
<1>2. ASSUME NEW e \in Envelopes, HandOffFails(e) PROVE TypeInv'
  <2>1. e \in handing /\ inbox[e] = "accepted"
    BY <1>2 DEF HandOffFails, TypeInv, Held
  <2>2. /\ inbox' \in [Envelopes -> {"none", "accepted", "refused", "handed", "failed"}]
        /\ \A f \in Envelopes : inbox'[f] = IF f = e THEN "failed" ELSE inbox[f]
    BY <1>2 DEF HandOffFails, TypeInv, TypeOK
  <2>3. /\ outbox' \in Seq(Outgoing) /\ Len(outbox') >= Len(outbox)
    <3>1. e.item \in Items /\ TeamOf(e) \in 1..Teams /\ "failed" \in Statuses
      BY EnvelopeItem, TeamOfRange DEF Statuses
    <3>2. Queued(Reply(e.item, TeamOf(e), "failed")) \in Outgoing
      BY <3>1, ReplyType
    <3>3. \/ outbox' = outbox
          \/ outbox' = Append(outbox, Queued(Reply(e.item, TeamOf(e), "failed")))
      BY <1>2 DEF HandOffFails, Push
    <3>4. outbox \in Seq(Outgoing) /\ Len(outbox) \in Nat
      BY DEF TypeInv, TypeOK
    <3> QED BY <3>2, <3>3, <3>4, Appended
  <2>4. page' \subseteq 1..Len(outbox')
    BY <1>2, <2>3, PageKept DEF HandOffFails, pollVars
  <2>5. Routed'
    BY <1>2, <2>1, <2>2 DEF HandOffFails, TypeInv, TypeOK, Routed, IsJob, NoTeam, jobVars
  <2>6. Held'
    <3>1. \A f \in handing' : inbox'[f] = "accepted"
      BY <1>2, <2>2 DEF HandOffFails, TypeInv, TypeOK, Held
    <3>2. \A f \in failing' : inbox'[f] = "failed" /\ IsJob(f)
      BY <1>2, <2>2 DEF HandOffFails, TypeInv, TypeOK, Held
    <3>3. \A k \in DOMAIN rows' : inbox'[rows'[k].env] = "handed"
      BY <1>2, <2>1, <2>2, RowType DEF HandOffFails, TypeInv, Held, rowVars, history
    <3> QED BY <1>2, <3>1, <3>2, <3>3 DEF HandOffFails, TypeInv, Held, IsJob, rowVars, history
  <2>7. handing' \subseteq Envelopes /\ failing' \subseteq Envelopes
    BY <1>2 DEF HandOffFails, TypeInv, TypeOK
  <2> QED BY <1>2, <2>2, <2>3, <2>4, <2>5, <2>6, <2>7
    DEF HandOffFails, TypeInv, TypeOK, Asked, clientVars, netVars, pollVars, jobVars, rowVars, history
<1>3. ASSUME NEW e \in Envelopes, ReportFailure(e) PROVE TypeInv'
  <2>1. e \in failing /\ inbox[e] = "failed" /\ IsJob(e) /\ e.item \in Jobs
    BY <1>3, EnvelopeItem DEF ReportFailure, TypeInv, Held
  <2>2. job[e.item] # "none" /\ Transition(e.item, "failed")
    BY <1>3, <2>1 DEF ReportFailure, TypeInv, Routed
  <2>3. /\ outbox' \in Seq(Outgoing) /\ Len(outbox') = Len(outbox) + 1
        /\ job' \in [Jobs -> {"none", "accepted", "declined", "started", "done",
                              "blocked", "failed", "uncertain"}]
        /\ jobTeam' = jobTeam
        /\ \A i \in Jobs : job'[i] # "none" <=> job[i] # "none"
    BY <2>1, <2>2, TransitionTypes
  <2>4. page \subseteq 1..Len(outbox')
    BY <2>3, PageKept DEF TypeInv, TypeOK
  <2>5. Routed'
    BY <1>3, <2>3, EnvelopeItem DEF ReportFailure, TypeInv, Routed, IsJob, NoTeam
  <2> QED BY <1>3, <2>3, <2>4, <2>5
    DEF ReportFailure, TypeInv, TypeOK, Asked, Held, IsJob, clientVars, netVars, pollVars,
        rowVars, history
<1>4. ASSUME NEW k \in DOMAIN rows, NEW n \in Slots, StartTyping(k, n) \/ EndTyping(k, n)
      PROVE  TypeInv'
  <2>1. PICK s \in {"queued", "writing"} \union Outcomes, label \in Labels :
          /\ SetRow(k, s) /\ Goto(k, n, label)
          /\ label \in {"started", "failed"} => IsJob(rows[k].env)
    <3>1. CASE StartTyping(k, n)
      BY <3>1 DEF StartTyping, Labels
    <3>2. CASE EndTyping(k, n)
      <4>1. PICK end \in {<<"submitted", "started">>, <<"failed", "failed">>} :
              /\ SetRow(k, end[1])
              /\ Goto(k, n, IF IsJob(rows[k].env) THEN end[2] ELSE "none")
        BY <3>2 DEF EndTyping
      <4>2. end[1] \in Outcomes /\ end[2] \in Labels /\ "none" \in Labels
        BY DEF Outcomes, Labels
      <4>3. CASE IsJob(rows[k].env)
        BY <4>1, <4>2, <4>3
      <4>4. CASE ~IsJob(rows[k].env)
        BY <4>1, <4>2, <4>4
      <4> QED BY <4>3, <4>4
    <3> QED BY <1>4, <3>1, <3>2
  <2>2. /\ rows' \in Seq(Rows) /\ Len(rows') = Len(rows)
        /\ DOMAIN rows' = DOMAIN rows
        /\ \A l \in DOMAIN rows : rows'[l].env = rows[l].env
        /\ been' \subseteq (DOMAIN rows) \X Outcomes
    BY <1>0, <2>1, RowSet
  <2>3. /\ run' \in Seq([Slots -> Labels]) /\ Len(run') = Len(run)
        /\ run'[k][n] = label
        /\ \A m \in Slots : m # n => run'[k][m] = run[k][m]
        /\ \A l \in DOMAIN rows : l # k => run'[l] = run[l]
    BY <1>0, <2>1, RunSet
  <2>4. UNCHANGED <<post, try, route, shown, queue, mailbox, gone, up, crashes, phase,
            batch, acks, page, inbox, job, jobTeam, outbox, handing, failing, cut, puts,
            touched>>
    BY <1>4 DEF StartTyping, EndTyping, clientVars, netVars, pollVars, jobVars, tasks
  <2>5. RowTypes'
    BY <1>0, <2>2, <2>3, <2>4 DEF RowTypes
  <2>6. TypeOK'
    BY <2>4, <2>5 DEF TypeInv, TypeOK, RowTypes, Marks
  <2>7. Held'
    <3>1. \A l \in DOMAIN rows' : \A m \in Slots :
            run'[l][m] \in {"started", "failed"} => IsJob(rows'[l].env)
      BY <2>1, <2>2, <2>3 DEF TypeInv, Held, IsJob
    <3> QED BY <2>2, <2>4, <3>1 DEF TypeInv, Held, IsJob
  <2>8. Asked' /\ Routed'
    BY <2>4 DEF TypeInv, Asked, Routed, IsJob
  <2> QED BY <2>6, <2>7, <2>8 DEF TypeInv
<1>5. ASSUME NEW k \in DOMAIN rows, NEW n \in Slots, ReportJob(k, n) PROVE TypeInv'
  <2> DEFINE j == rows[k].env.item
  <2>1. /\ run[k][n] \in {"started", "failed"} /\ IsJob(rows[k].env)
        /\ inbox[rows[k].env] = "handed" /\ rows[k].env \in Envelopes
    BY <1>5, RowType DEF ReportJob, Reporting, TypeInv, Held
  <2>2. j \in Jobs /\ job[j] # "none"
    BY <2>1, EnvelopeItem DEF TypeInv, Routed
  <2>3. Transition(j, run[k][n]) /\ Goto(k, n, "none") /\ "none" \in Labels
    BY <1>5 DEF ReportJob, Labels
  <2>4. /\ outbox' \in Seq(Outgoing) /\ Len(outbox') = Len(outbox) + 1
        /\ job' \in [Jobs -> {"none", "accepted", "declined", "started", "done",
                              "blocked", "failed", "uncertain"}]
        /\ jobTeam' = jobTeam
        /\ \A i \in Jobs : job'[i] # "none" <=> job[i] # "none"
    BY <2>1, <2>2, <2>3, TransitionTypes
  <2>5. /\ run' \in Seq([Slots -> Labels]) /\ Len(run') = Len(run)
        /\ run'[k][n] = "none"
        /\ \A m \in Slots : m # n => run'[k][m] = run[k][m]
        /\ \A l \in DOMAIN rows : l # k => run'[l] = run[l]
    BY <1>0, <2>3, RunSet
  <2>6. page \subseteq 1..Len(outbox')
    BY <2>4, PageKept DEF TypeInv, TypeOK
  <2>7. UNCHANGED <<post, try, route, shown, queue, mailbox, gone, up, crashes, phase,
            batch, acks, page, inbox, jobTeam, rows, handing, failing, cut, puts,
            touched, been>>
    BY <1>5, <2>4 DEF ReportJob, clientVars, netVars, pollVars, tasks, history
  <2>8. RowTypes'
    BY <1>0, <2>5, <2>7 DEF RowTypes
  <2>9. TypeOK'
    BY <2>4, <2>6, <2>7, <2>8 DEF TypeInv, TypeOK, RowTypes, Marks
  <2>10. Routed'
    BY <2>4, <2>7, EnvelopeItem DEF TypeInv, Routed, IsJob, NoTeam
  <2>11. Held'
    BY <2>5, <2>7 DEF TypeInv, Held, IsJob
  <2> QED BY <2>7, <2>9, <2>10, <2>11 DEF TypeInv, Asked
<1> QED BY <1>1, <1>2, <1>3, <1>4, <1>5 DEF HandOffStep, RunStep

LEMMA JobDoneKeepsTypes ==
    ASSUME TypeInv, NEW j \in Jobs, NEW status \in {"done", "blocked"},
           JobDone(j, status)
    PROVE  TypeInv'
<1>1. job[j] # "none" /\ Transition(j, status)
  BY DEF JobDone
<1>2. /\ outbox' \in Seq(Outgoing) /\ Len(outbox') = Len(outbox) + 1
      /\ job' \in [Jobs -> {"none", "accepted", "declined", "started", "done",
                            "blocked", "failed", "uncertain"}]
      /\ jobTeam' = jobTeam
      /\ \A i \in Jobs : job'[i] # "none" <=> job[i] # "none"
  BY <1>1, TransitionTypes
<1>3. page \subseteq 1..Len(outbox')
  BY <1>2, PageKept DEF TypeInv, TypeOK
<1>4. Routed'
  BY <1>2, EnvelopeItem DEF JobDone, TypeInv, Routed, IsJob, NoTeam
<1> QED BY <1>2, <1>3, <1>4
  DEF JobDone, TypeInv, TypeOK, Asked, Held, IsJob, clientVars, netVars, pollVars,
      rowVars, history, tasks

\* What recovery cuts is what it reads in the ledger.
LEMMA CutRowsType ==
    ASSUME RowTypes
    PROVE  /\ CutRows \in Seq(Marks) /\ Len(CutRows) = Len(rows)
           /\ \A k \in DOMAIN rows :
                 CutRows[k] = IF rows[k].state = "writing" THEN "row" ELSE "none"
BY DEF RowTypes, CutRows, Marks

LEMMA CrashKeepsTypes ==
    ASSUME TypeInv, Crash \/ Restart \/ Reregister
    PROVE  TypeInv'
<1>0. RowTypes /\ MaxPuts \in Nat /\ DOMAIN run = DOMAIN rows /\ DOMAIN cut = DOMAIN rows
  BY RowTypesHold
<1>1. CASE Crash
  <2>1. /\ run' = [k \in DOMAIN run |-> Idle] /\ cut' = [k \in DOMAIN cut |-> "none"]
        /\ UNCHANGED <<post, try, route, shown, queue, mailbox, gone, inbox, job, jobTeam,
                       rows, puts, touched, been, outbox>>
        /\ crashes' = crashes + 1 /\ phase' = "recover" /\ up' = FALSE
        /\ batch' = {} /\ acks' = {} /\ page' = {} /\ handing' = {} /\ failing' = {}
    BY <1>1 DEF Crash, clientVars, netVars, jobVars, history
  <2>2. /\ run' \in Seq([Slots -> Labels]) /\ Len(run') = Len(run)
        /\ \A k \in DOMAIN rows : run'[k] = Idle
    BY <1>0, <2>1, IdleFresh DEF RowTypes
  <2>3. /\ cut' \in Seq(Marks) /\ Len(cut') = Len(cut)
        /\ \A k \in DOMAIN rows : cut'[k] = "none"
    BY <1>0, <2>1 DEF RowTypes, Marks
  <2>4. RowTypes'
    BY <1>0, <2>1, <2>2, <2>3 DEF RowTypes
  <2>5. crashes' \in Nat
    <3>1. crashes \in Nat
      BY DEF TypeInv, TypeOK
    <3> QED BY <2>1, <3>1
  <2>6. TypeOK'
    BY <2>1, <2>4, <2>5 DEF TypeInv, TypeOK, RowTypes, Marks
  <2>7. Held'
    BY <2>1, <2>2, <2>3, IdleFresh DEF TypeInv, Held
  <2> QED BY <2>1, <2>6, <2>7 DEF TypeInv, Asked, Routed, IsJob
<1>2. CASE Restart
  <2>1. /\ run' = [k \in DOMAIN run |-> IF rows[k].state = "queued" THEN Fresh ELSE Idle]
        /\ cut' = CutRows /\ up' = TRUE
        /\ UNCHANGED <<post, try, route, shown, queue, mailbox, gone, crashes, phase, batch,
                       acks, page, inbox, job, jobTeam, rows, puts, touched, been, outbox,
                       handing, failing>>
    BY <1>2 DEF Restart, clientVars, netVars, jobVars, pollVars, tasks, history
  <2>2. /\ run' \in Seq([Slots -> Labels]) /\ Len(run') = Len(run)
        /\ \A k \in DOMAIN rows : run'[k] \in {Fresh, Idle}
    BY <1>0, <2>1, IdleFresh DEF RowTypes
  <2>3. /\ cut' \in Seq(Marks) /\ Len(cut') = Len(rows)
        /\ \A k \in DOMAIN rows : cut'[k] # "job"
    BY <1>0, <2>1, CutRowsType
  <2>4. RowTypes'
    BY <1>0, <2>1, <2>2, <2>3 DEF RowTypes
  <2>5. TypeOK'
    BY <2>1, <2>4 DEF TypeInv, TypeOK, RowTypes, Marks
  <2>6. \A k \in DOMAIN rows : \A n \in Slots : run'[k][n] \notin {"started", "failed"}
    BY <2>2, IdleFresh
  <2>7. Held'
    BY <2>1, <2>3, <2>6 DEF TypeInv, Held, IsJob
  <2> QED BY <2>1, <2>5, <2>7 DEF TypeInv, Asked, Routed, IsJob
<1>3. CASE Reregister
  <2>1. /\ run' = [k \in DOMAIN run |-> IF rows[k].state = "queued"
                                        THEN [run[k] EXCEPT ![puts + 1] = "wait"]
                                        ELSE run[k]]
        /\ cut' = CutRows /\ puts' = puts + 1 /\ puts < MaxPuts
        /\ touched' = touched \union Unfinished
        /\ UNCHANGED <<post, try, route, shown, queue, mailbox, gone, up, crashes, phase,
                       batch, acks, page, inbox, job, jobTeam, rows, been, outbox, handing,
                       failing>>
    BY <1>3 DEF Reregister, clientVars, netVars, jobVars, pollVars, tasks
  <2>2. /\ run' \in Seq([Slots -> Labels]) /\ Len(run') = Len(run)
        /\ \A k \in DOMAIN rows : \A n \in Slots : run'[k][n] \in {run[k][n], "wait"}
    <3>1. \A k \in DOMAIN rows : run[k] \in [Slots -> Labels]
      BY <1>0, Elements DEF RowTypes
    <3>2. \A k \in DOMAIN rows :
            /\ [run[k] EXCEPT ![puts + 1] = "wait"] \in [Slots -> Labels]
            /\ \A n \in Slots : [run[k] EXCEPT ![puts + 1] = "wait"][n] \in {run[k][n], "wait"}
      BY <3>1 DEF Labels
    <3>3. \A k \in DOMAIN rows :
            /\ run'[k] \in [Slots -> Labels]
            /\ \A n \in Slots : run'[k][n] \in {run[k][n], "wait"}
      BY <1>0, <2>1, <3>1, <3>2
    <3>4. run \in Seq([Slots -> Labels])
      BY <1>0 DEF RowTypes
    <3>5. /\ Len(run) \in Nat /\ DOMAIN run = 1..Len(run) /\ DOMAIN rows = 1..Len(run)
          /\ DOMAIN run' = 1..Len(run)
      BY <1>0, <2>1, <3>4
    <3>6. run' = [k \in 1..Len(run) |-> run'[k]]
      BY <2>1, <3>5
    <3>7. run' \in Seq([Slots -> Labels]) /\ Len(run') = Len(run)
      BY <3>3, <3>5, <3>6, Tabulated
    <3> QED BY <3>3, <3>7
  <2>3. /\ cut' \in Seq(Marks) /\ Len(cut') = Len(rows)
        /\ \A k \in DOMAIN rows : cut'[k] # "job"
    BY <1>0, <2>1, CutRowsType
  <2>4. puts' \in Slots /\ touched' \subseteq DOMAIN rows
    BY <1>0, <2>1 DEF RowTypes, Slots, Unfinished
  <2>5. RowTypes'
    BY <1>0, <2>1, <2>2, <2>3, <2>4 DEF RowTypes
  <2>6. TypeOK'
    BY <2>1, <2>5 DEF TypeInv, TypeOK, RowTypes, Marks
  <2>7. Held'
    BY <2>1, <2>2, <2>3 DEF TypeInv, Held, IsJob
  <2> QED BY <2>1, <2>6, <2>7 DEF TypeInv, Asked, Routed, IsJob
<1> QED BY <1>1, <1>2, <1>3

LEMMA RecoveryKeepsTypes == TypeInv /\ RecoveryStep => TypeInv'
<1> SUFFICES ASSUME TypeInv, RecoveryStep PROVE TypeInv'
  OBVIOUS
<1>0. RowTypes
  BY RowTypesHold
<1>1. CASE RecoveryEnds
  BY <1>1 DEF RecoveryEnds, AcceptedInbox, TypeInv, TypeOK, Asked, Routed, Held, IsJob,
              clientVars, netVars, jobVars, rowVars, history
<1>2. ASSUME NEW k \in DOMAIN rows, MarkUncertain(k) PROVE TypeInv'
  <2>1. SetRow(k, "uncertain") /\ "uncertain" \in Outcomes
    BY <1>2 DEF MarkUncertain, Outcomes
  <2>2. PICK mark \in Marks : CutTo(k, mark) /\ (mark = "job" => IsJob(rows[k].env))
    BY <1>2 DEF MarkUncertain, Marks
  <2>3. /\ rows' \in Seq(Rows) /\ Len(rows') = Len(rows)
        /\ DOMAIN rows' = DOMAIN rows
        /\ \A l \in DOMAIN rows : rows'[l].env = rows[l].env
        /\ been' \subseteq (DOMAIN rows) \X Outcomes
    BY <1>0, <2>1, RowSet
  <2>4. /\ cut' \in Seq(Marks) /\ Len(cut') = Len(cut)
        /\ cut'[k] = mark
        /\ \A l \in DOMAIN rows : l # k => cut'[l] = cut[l]
    BY <1>0, <2>2, CutSet
  <2>5. UNCHANGED <<post, try, route, shown, queue, mailbox, gone, up, crashes, phase,
            batch, acks, page, inbox, job, jobTeam, outbox, handing, failing, run, puts,
            touched>>
    BY <1>2 DEF MarkUncertain, clientVars, netVars, pollVars, jobVars, tasks
  <2>6. RowTypes'
    BY <1>0, <2>3, <2>4, <2>5 DEF RowTypes
  <2>7. TypeOK'
    BY <2>5, <2>6 DEF TypeInv, TypeOK, RowTypes, Marks
  <2>8. Held'
    BY <2>2, <2>3, <2>4, <2>5 DEF TypeInv, Held, IsJob
  <2> QED BY <2>5, <2>7, <2>8 DEF TypeInv, Asked, Routed, IsJob
<1>3. ASSUME NEW k \in DOMAIN rows, ReportUncertain(k) PROVE TypeInv'
  <2> DEFINE j == rows[k].env.item
  <2>1. /\ cut[k] = "job" /\ IsJob(rows[k].env) /\ inbox[rows[k].env] = "handed"
        /\ rows[k].env \in Envelopes
    BY <1>3, RowType DEF ReportUncertain, TypeInv, Held
  <2>2. j \in Jobs /\ job[j] # "none"
    BY <2>1, EnvelopeItem DEF TypeInv, Routed
  <2>3. Transition(j, "uncertain") /\ CutTo(k, "none") /\ "none" \in Marks
    BY <1>3 DEF ReportUncertain, Marks
  <2>4. /\ outbox' \in Seq(Outgoing) /\ Len(outbox') = Len(outbox) + 1
        /\ job' \in [Jobs -> {"none", "accepted", "declined", "started", "done",
                              "blocked", "failed", "uncertain"}]
        /\ jobTeam' = jobTeam
        /\ \A i \in Jobs : job'[i] # "none" <=> job[i] # "none"
    BY <2>2, <2>3, TransitionTypes
  <2>5. /\ cut' \in Seq(Marks) /\ Len(cut') = Len(cut)
        /\ cut'[k] = "none"
        /\ \A l \in DOMAIN rows : l # k => cut'[l] = cut[l]
    BY <1>0, <2>3, CutSet
  <2>6. page \subseteq 1..Len(outbox')
    BY <2>4, PageKept DEF TypeInv, TypeOK
  <2>7. UNCHANGED <<post, try, route, shown, queue, mailbox, gone, up, crashes, phase,
            batch, acks, page, inbox, jobTeam, rows, handing, failing, run, puts,
            touched, been>>
    BY <1>3, <2>4 DEF ReportUncertain, clientVars, netVars, pollVars, tasks, history
  <2>8. RowTypes'
    BY <1>0, <2>5, <2>7 DEF RowTypes
  <2>9. TypeOK'
    BY <2>4, <2>6, <2>7, <2>8 DEF TypeInv, TypeOK, RowTypes, Marks
  <2>10. Routed'
    BY <2>4, <2>7, EnvelopeItem DEF TypeInv, Routed, IsJob, NoTeam
  <2>11. Held'
    BY <2>5, <2>7 DEF TypeInv, Held, IsJob
  <2> QED BY <2>7, <2>9, <2>10, <2>11 DEF TypeInv, Asked
<1> QED BY <1>1, <1>2, <1>3 DEF RecoveryStep

LEMMA TypeStep == TypeInv /\ [Next]_vars => TypeInv'
<1> SUFFICES ASSUME TypeInv, [Next]_vars PROVE TypeInv'
  OBVIOUS
<1>1. CASE ClientStep
  BY <1>1, ClientKeepsTypes
<1>2. CASE ControlPlane
  BY <1>2 DEF ControlPlane, Leaves, TypeInv, TypeOK, Asked, Routed, Held, IsJob,
              clientVars, hostVars, pollVars, jobVars, rowVars, history, tasks
<1>3. CASE PollerStep
  BY <1>3, PollerKeepsTypes
<1>4. CASE (\E e \in Envelopes : HandOffStep(e)) \/ (\E k \in DOMAIN rows : RunStep(k))
  BY <1>4, TasksKeepTypes
<1>5. CASE \E j \in Jobs, status \in {"done", "blocked"} : JobDone(j, status)
  BY <1>5, JobDoneKeepsTypes
<1>6. CASE Crash \/ Restart \/ Reregister
  BY <1>6, CrashKeepsTypes
<1>7. CASE RecoveryStep
  BY <1>7, RecoveryKeepsTypes
<1>8. CASE UNCHANGED vars
  BY <1>8 DEF vars, clientVars, netVars, hostVars, pollVars, jobVars, rowVars, history, tasks,
              TypeInv, TypeOK, Asked, Routed, Held, IsJob
<1> QED BY <1>1, <1>2, <1>3, <1>4, <1>5, <1>6, <1>7, <1>8 DEF Next, HostStep

\* Every variable of the mail path keeps its type.
THEOREM TypeCorrect == Spec => []TypeOK
<1>1. TypeInv => TypeOK
  BY DEF TypeInv
<1> QED BY <1>1, TypeInit, TypeStep, PTL DEF Spec

-----------------------------------------------------------------------------
(* What the ledger has settled stays, and a new row is an accepted         *)
(* envelope's.  The safety theorems rest on these.                         *)

\* A task stands where its row's state says, unless a changed registration gave
\* the row a second one; what a task or recovery has left to report was so.
RowLabel ==
    /\ \A k \in DOMAIN rows : k \notin touched =>
          /\ \A n \in Slots : n # 0 => run[k][n] = "none"
          /\ run[k][0] = "wait" => rows[k].state = "queued"
          /\ run[k][0] = "typing" => rows[k].state = "writing"
          /\ cut[k] = "row" => rows[k].state = "writing"
          /\ cut[k] # "none" => run[k][0] = "none"
    /\ \A k \in DOMAIN rows : k \notin touched =>
          /\ run[k][0] = "started" => rows[k].state = "submitted"
          /\ run[k][0] = "failed" => rows[k].state = "failed"
          /\ cut[k] = "job" => rows[k].state = "uncertain"
    /\ \A k \in DOMAIN rows : \A n \in Slots :
          /\ run[k][n] = "started" => <<k, "submitted">> \in been
          /\ run[k][n] = "failed" => <<k, "failed">> \in been
    /\ \A k \in DOMAIN rows :
          /\ cut[k] = "job" => <<k, "uncertain">> \in been
          /\ rows[k].state \in Outcomes => <<k, rows[k].state>> \in been

RowsGrow ==
    /\ \A k \in DOMAIN rows :
          /\ k \in DOMAIN rows' /\ rows'[k].env = rows[k].env
          /\ rows[k].state \in Outcomes /\ k \notin touched'
                => rows'[k].state = rows[k].state
    /\ touched \subseteq touched' /\ been \subseteq been'
    /\ \A k \in DOMAIN rows' :
          k \notin DOMAIN rows => /\ inbox[rows'[k].env] = "accepted"
                                  /\ k = Len(rows) + 1

InboxGrows ==
    \A e \in Envelopes :
        /\ inbox[e] \in {"refused", "failed", "handed"} => inbox'[e] = inbox[e]
        /\ inbox[e] = "accepted" => inbox'[e] \in {"accepted", "handed", "failed"}

\* A step that types a row: StartTyping, EndTyping, or recovery's verdict.
LEMMA TypingGrows ==
    ASSUME TypeInv, RowLabel, NEW k \in DOMAIN rows,
           \/ \E n \in Slots : StartTyping(k, n) \/ EndTyping(k, n)
           \/ MarkUncertain(k)
    PROVE  RowsGrow /\ InboxGrows /\ RowLabel'
<1>0. RowTypes /\ DOMAIN run = DOMAIN rows /\ DOMAIN cut = DOMAIN rows /\ 0 \in Slots
  BY RowTypesHold, IdleFresh
<1>1. ASSUME NEW n \in Slots, StartTyping(k, n)
      PROVE  RowsGrow /\ InboxGrows /\ RowLabel'
  <2>1. /\ SetRow(k, "writing") /\ Goto(k, n, "typing") /\ "typing" \in Labels
        /\ run[k][n] = "wait" /\ UNCHANGED <<inbox, cut, touched>>
        /\ "writing" \notin Outcomes
    BY <1>1 DEF StartTyping, Labels, Outcomes
  <2>2. /\ DOMAIN rows' = DOMAIN rows
        /\ \A l \in DOMAIN rows : rows'[l].env = rows[l].env
        /\ rows'[k].state = "writing"
        /\ \A l \in DOMAIN rows : l # k => rows'[l] = rows[l]
        /\ been \subseteq been'
    BY <1>0, <2>1, RowSet
  <2>3. /\ run'[k][n] = "typing"
        /\ \A m \in Slots : m # n => run'[k][m] = run[k][m]
        /\ \A l \in DOMAIN rows : l # k => run'[l] = run[l]
    BY <1>0, <2>1, RunSet
  <2>4. k \notin touched => n = 0 /\ rows[k].state = "queued" /\ cut[k] = "none"
    BY <1>0, <2>1 DEF RowLabel
  <2>5. RowsGrow
    BY <2>1, <2>2, <2>4 DEF RowsGrow, Outcomes
  <2>6. RowLabel'
    <3>1. ASSUME NEW l \in DOMAIN rows, l \notin touched
          PROVE  /\ \A m \in Slots : m # 0 => run'[l][m] = "none"
                 /\ run'[l][0] = "wait" => rows'[l].state = "queued"
                 /\ run'[l][0] = "typing" => rows'[l].state = "writing"
                 /\ cut[l] = "row" => rows'[l].state = "writing"
                 /\ cut[l] # "none" => run'[l][0] = "none"
                 /\ run'[l][0] = "started" => rows'[l].state = "submitted"
                 /\ run'[l][0] = "failed" => rows'[l].state = "failed"
                 /\ cut[l] = "job" => rows'[l].state = "uncertain"
      <4>1. CASE l = k
        BY <1>0, <2>2, <2>3, <2>4, <3>1, <4>1 DEF RowLabel
      <4>2. CASE l # k
        BY <2>2, <2>3, <3>1, <4>2 DEF RowLabel
      <4> QED BY <4>1, <4>2
    <3>2. ASSUME NEW l \in DOMAIN rows, NEW m \in Slots
          PROVE  /\ run'[l][m] = "started" => <<l, "submitted">> \in been'
                 /\ run'[l][m] = "failed" => <<l, "failed">> \in been'
      BY <2>2, <2>3 DEF RowLabel
    <3>3. ASSUME NEW l \in DOMAIN rows
          PROVE  /\ cut[l] = "job" => <<l, "uncertain">> \in been'
                 /\ rows'[l].state \in Outcomes => <<l, rows'[l].state>> \in been'
      BY <2>1, <2>2 DEF RowLabel
    <3> QED BY <2>1, <2>2, <3>1, <3>2, <3>3 DEF RowLabel
  <2> QED BY <2>1, <2>5, <2>6 DEF InboxGrows
<1>2. ASSUME NEW n \in Slots, EndTyping(k, n)
      PROVE  RowsGrow /\ InboxGrows /\ RowLabel'
  <2>1. PICK s \in {"submitted", "failed"}, label \in {"none", "started", "failed"} :
          /\ SetRow(k, s) /\ Goto(k, n, label)
          /\ label = "started" => s = "submitted"
          /\ label = "failed" => s = "failed"
    BY <1>2 DEF EndTyping
  <2>2. /\ run[k][n] = "typing" /\ UNCHANGED <<inbox, cut, touched>>
        /\ s \in Outcomes /\ label \in Labels
    BY <1>2 DEF EndTyping, Labels, Outcomes
  <2>3. /\ DOMAIN rows' = DOMAIN rows
        /\ \A l \in DOMAIN rows : rows'[l].env = rows[l].env
        /\ rows'[k].state = s /\ <<k, s>> \in been'
        /\ \A l \in DOMAIN rows : l # k => rows'[l] = rows[l]
        /\ been \subseteq been'
    BY <1>0, <2>1, <2>2, RowSet
  <2>4. /\ run'[k][n] = label
        /\ \A m \in Slots : m # n => run'[k][m] = run[k][m]
        /\ \A l \in DOMAIN rows : l # k => run'[l] = run[l]
    BY <1>0, <2>1, <2>2, RunSet
  <2>5. k \notin touched => n = 0 /\ rows[k].state = "writing" /\ cut[k] = "none"
    BY <1>0, <2>2 DEF RowLabel
  <2>6. RowsGrow
    BY <2>2, <2>3, <2>5 DEF RowsGrow, Outcomes
  <2>7. RowLabel'
    <3>1. ASSUME NEW l \in DOMAIN rows, l \notin touched
          PROVE  /\ \A m \in Slots : m # 0 => run'[l][m] = "none"
                 /\ run'[l][0] = "wait" => rows'[l].state = "queued"
                 /\ run'[l][0] = "typing" => rows'[l].state = "writing"
                 /\ cut[l] = "row" => rows'[l].state = "writing"
                 /\ cut[l] # "none" => run'[l][0] = "none"
                 /\ run'[l][0] = "started" => rows'[l].state = "submitted"
                 /\ run'[l][0] = "failed" => rows'[l].state = "failed"
                 /\ cut[l] = "job" => rows'[l].state = "uncertain"
      <4>1. CASE l = k
        BY <1>0, <2>1, <2>3, <2>4, <2>5, <3>1, <4>1 DEF RowLabel
      <4>2. CASE l # k
        BY <2>3, <2>4, <3>1, <4>2 DEF RowLabel
      <4> QED BY <4>1, <4>2
    <3>2. ASSUME NEW l \in DOMAIN rows, NEW m \in Slots
          PROVE  /\ run'[l][m] = "started" => <<l, "submitted">> \in been'
                 /\ run'[l][m] = "failed" => <<l, "failed">> \in been'
      <4>1. CASE l = k /\ m = n
        BY <2>1, <2>3, <2>4, <4>1
      <4>2. CASE ~(l = k /\ m = n)
        BY <2>3, <2>4, <4>2 DEF RowLabel
      <4> QED BY <4>1, <4>2
    <3>3. ASSUME NEW l \in DOMAIN rows
          PROVE  /\ cut[l] = "job" => <<l, "uncertain">> \in been'
                 /\ rows'[l].state \in Outcomes => <<l, rows'[l].state>> \in been'
      BY <2>3 DEF RowLabel
    <3> QED BY <2>2, <2>3, <3>1, <3>2, <3>3 DEF RowLabel
  <2> QED BY <2>2, <2>6, <2>7 DEF InboxGrows
<1>3. CASE MarkUncertain(k)
  <2>1. /\ SetRow(k, "uncertain") /\ "uncertain" \in Outcomes /\ cut[k] = "row"
        /\ UNCHANGED <<inbox, run, touched>>
    BY <1>3 DEF MarkUncertain, Outcomes
  <2>2. PICK mark \in {"none", "job"} : CutTo(k, mark)
    BY <1>3 DEF MarkUncertain
  <2>3. mark \in Marks
    BY DEF Marks
  <2>4. /\ DOMAIN rows' = DOMAIN rows
        /\ \A l \in DOMAIN rows : rows'[l].env = rows[l].env
        /\ rows'[k].state = "uncertain" /\ <<k, "uncertain">> \in been'
        /\ \A l \in DOMAIN rows : l # k => rows'[l] = rows[l]
        /\ been \subseteq been'
    BY <1>0, <2>1, RowSet
  <2>5. cut'[k] = mark /\ \A l \in DOMAIN rows : l # k => cut'[l] = cut[l]
    BY <1>0, <2>2, <2>3, CutSet
  <2>6. k \notin touched => rows[k].state = "writing" /\ run[k][0] = "none"
    BY <1>0, <2>1 DEF RowLabel
  <2>7. RowsGrow
    BY <2>1, <2>4, <2>6 DEF RowsGrow, Outcomes
  <2>8. RowLabel'
    <3>1. ASSUME NEW l \in DOMAIN rows, l \notin touched
          PROVE  /\ \A m \in Slots : m # 0 => run[l][m] = "none"
                 /\ run[l][0] = "wait" => rows'[l].state = "queued"
                 /\ run[l][0] = "typing" => rows'[l].state = "writing"
                 /\ cut'[l] = "row" => rows'[l].state = "writing"
                 /\ cut'[l] # "none" => run[l][0] = "none"
                 /\ run[l][0] = "started" => rows'[l].state = "submitted"
                 /\ run[l][0] = "failed" => rows'[l].state = "failed"
                 /\ cut'[l] = "job" => rows'[l].state = "uncertain"
      <4>1. CASE l = k
        BY <2>2, <2>4, <2>5, <2>6, <3>1, <4>1 DEF RowLabel
      <4>2. CASE l # k
        BY <2>4, <2>5, <3>1, <4>2 DEF RowLabel
      <4> QED BY <4>1, <4>2
    <3>2. ASSUME NEW l \in DOMAIN rows, NEW m \in Slots
          PROVE  /\ run[l][m] = "started" => <<l, "submitted">> \in been'
                 /\ run[l][m] = "failed" => <<l, "failed">> \in been'
      BY <2>4 DEF RowLabel
    <3>3. ASSUME NEW l \in DOMAIN rows
          PROVE  /\ cut'[l] = "job" => <<l, "uncertain">> \in been'
                 /\ rows'[l].state \in Outcomes => <<l, rows'[l].state>> \in been'
      <4>1. CASE l = k
        BY <2>4, <4>1
      <4>2. CASE l # k
        BY <2>4, <2>5, <4>2 DEF RowLabel
      <4> QED BY <4>1, <4>2
    <3> QED BY <2>1, <2>4, <3>1, <3>2, <3>3 DEF RowLabel
  <2> QED BY <2>1, <2>7, <2>8 DEF InboxGrows
<1> QED BY <1>1, <1>2, <1>3

\* A crash and a restart begin the tasks again; a changed registration gives a
\* second one only to rows it touches.
LEMMA RestartsGrow ==
    ASSUME TypeInv, RowLabel, Crash \/ Restart \/ Reregister
    PROVE  RowsGrow /\ InboxGrows /\ RowLabel'
<1>0. RowTypes /\ DOMAIN run = DOMAIN rows /\ DOMAIN cut = DOMAIN rows /\ 0 \in Slots
  BY RowTypesHold, IdleFresh
<1>1. CASE Crash
  <2>1. UNCHANGED <<rows, inbox, touched, been>>
    BY <1>1 DEF Crash, history
  <2>2. \A k \in DOMAIN rows : run'[k] = Idle /\ cut'[k] = "none"
    BY <1>0, <1>1 DEF Crash
  <2>3. \A k \in DOMAIN rows : \A n \in Slots : run'[k][n] = "none" /\ cut'[k] = "none"
    BY <2>2, IdleFresh
  <2>4. RowLabel'
    BY <1>0, <2>1, <2>3 DEF RowLabel
  <2> QED BY <2>1, <2>4 DEF RowsGrow, InboxGrows
<1>2. CASE Restart
  <2>1. UNCHANGED <<rows, inbox, touched, been>>
    BY <1>2 DEF Restart, history
  <2>2. \A k \in DOMAIN rows :
          /\ run'[k] = IF rows[k].state = "queued" THEN Fresh ELSE Idle
          /\ cut'[k] = IF rows[k].state = "writing" THEN "row" ELSE "none"
    BY <1>0, <1>2, CutRowsType DEF Restart
  <2>3. \A k \in DOMAIN rows :
          /\ \A n \in Slots : n # 0 => run'[k][n] = "none"
          /\ run'[k][0] = IF rows[k].state = "queued" THEN "wait" ELSE "none"
    BY <2>2, IdleFresh
  <2>4. RowLabel'
    BY <1>0, <2>1, <2>2, <2>3 DEF RowLabel
  <2> QED BY <2>1, <2>4 DEF RowsGrow, InboxGrows
<1>3. CASE Reregister
  <2>1. UNCHANGED <<rows, inbox, been>> /\ touched' = touched \union Unfinished /\ NoneCut
    BY <1>3 DEF Reregister
  <2>2. \A k \in DOMAIN rows :
          /\ run'[k] = IF rows[k].state = "queued"
                       THEN [run[k] EXCEPT ![puts + 1] = "wait"] ELSE run[k]
          /\ cut'[k] = IF rows[k].state = "writing" THEN "row" ELSE "none"
    BY <1>0, <1>3, CutRowsType DEF Reregister
  <2>3. \A k \in DOMAIN rows :
          /\ k \notin touched' => /\ k \notin touched /\ rows[k].state \in Outcomes
                                  /\ run'[k] = run[k] /\ cut'[k] = "none"
          /\ cut'[k] # "job"
    BY <2>1, <2>2 DEF Unfinished, Outcomes
  <2>4. ASSUME NEW k \in DOMAIN rows, NEW n \in Slots
        PROVE  run'[k][n] \in {run[k][n], "wait"}
    <3>1. run[k] \in [Slots -> Labels]
      BY <1>0, Elements DEF RowTypes
    <3> QED BY <2>2, <3>1
  <2>5. RowLabel'
    <3>1. ASSUME NEW k \in DOMAIN rows, k \notin touched'
          PROVE  /\ \A n \in Slots : n # 0 => run'[k][n] = "none"
                 /\ run'[k][0] = "wait" => rows[k].state = "queued"
                 /\ run'[k][0] = "typing" => rows[k].state = "writing"
                 /\ run'[k][0] = "started" => rows[k].state = "submitted"
                 /\ run'[k][0] = "failed" => rows[k].state = "failed"
      BY <2>3, <3>1 DEF RowLabel
    <3>2. ASSUME NEW k \in DOMAIN rows, NEW n \in Slots
          PROVE  /\ run'[k][n] = "started" => <<k, "submitted">> \in been
                 /\ run'[k][n] = "failed" => <<k, "failed">> \in been
      BY <2>4 DEF RowLabel
    <3> QED BY <2>1, <2>3, <3>1, <3>2 DEF RowLabel
  <2> QED BY <2>1, <2>5 DEF RowsGrow, InboxGrows
<1> QED BY <1>1, <1>2, <1>3

\* A report leaves the rows alone and frees the task, or the row, it was of.
LEMMA ReportsGrow ==
    ASSUME TypeInv, RowLabel, NEW k \in DOMAIN rows,
           (\E n \in Slots : ReportJob(k, n)) \/ ReportUncertain(k)
    PROVE  RowsGrow /\ InboxGrows /\ RowLabel'
<1>0. RowTypes /\ 0 \in Slots
  BY RowTypesHold, IdleFresh
<1>1. UNCHANGED <<rows, inbox, touched, been>>
  BY DEF ReportJob, ReportUncertain, history
<1>2. \A l \in DOMAIN rows : \A m \in Slots : run'[l][m] \in {run[l][m], "none"}
  <2>1. CASE run' = run
    BY <2>1
  <2>2. ASSUME NEW n \in Slots, ReportJob(k, n)
        PROVE  \A l \in DOMAIN rows : \A m \in Slots : run'[l][m] \in {run[l][m], "none"}
    <3>1. Goto(k, n, "none") /\ "none" \in Labels
      BY <2>2 DEF ReportJob, Labels
    <3> QED BY <1>0, <3>1, RunSet
  <2> QED BY <2>1, <2>2 DEF ReportUncertain
<1>3. \A l \in DOMAIN rows : cut'[l] \in {cut[l], "none"}
  <2>1. CASE cut' = cut
    BY <2>1
  <2>2. CASE ReportUncertain(k)
    <3>1. CutTo(k, "none") /\ "none" \in Marks
      BY <2>2 DEF ReportUncertain, Marks
    <3> QED BY <1>0, <3>1, CutSet
  <2> QED BY <2>1, <2>2 DEF ReportJob
<1>4. RowLabel'
  BY <1>0, <1>1, <1>2, <1>3 DEF RowLabel
<1> QED BY <1>1, <1>4 DEF RowsGrow, InboxGrows

LEMMA HandOffGrows ==
    ASSUME TypeInv, RowLabel, NEW e \in Envelopes, HandOff(e)
    PROVE  RowsGrow /\ InboxGrows /\ RowLabel'
<1>0. RowTypes
  BY RowTypesHold
<1>1. inbox[e] = "accepted"
  BY DEF HandOff, TypeInv, Held
<1>2. \A f \in Envelopes : inbox'[f] = IF f = e THEN "handed" ELSE inbox[f]
  BY DEF HandOff, TypeInv, TypeOK
<1>3. /\ rows' = Append(rows, [env |-> e, state |-> "queued"])
      /\ run' = Append(run, Fresh) /\ cut' = Append(cut, "none")
      /\ UNCHANGED <<puts, touched, been>>
  BY DEF HandOff, history
<1>4. /\ DOMAIN rows' = DOMAIN rows \union {Len(rows) + 1}
      /\ Len(rows) + 1 \notin DOMAIN rows
      /\ rows'[Len(rows) + 1] = [env |-> e, state |-> "queued"]
      /\ run'[Len(rows) + 1] = Fresh /\ cut'[Len(rows) + 1] = "none"
      /\ \A k \in DOMAIN rows :
            rows'[k] = rows[k] /\ run'[k] = run[k] /\ cut'[k] = cut[k]
  BY <1>0, <1>3, RowAdded
<1>5. RowsGrow /\ InboxGrows
  BY <1>1, <1>2, <1>3, <1>4 DEF RowsGrow, InboxGrows
<1>6. RowLabel'
  <2>1. ASSUME NEW k \in DOMAIN rows', k \notin DOMAIN rows
        PROVE  /\ rows'[k].state = "queued" /\ cut'[k] = "none" /\ run'[k][0] = "wait"
               /\ \A n \in Slots : run'[k][n] \in {"none", "wait"}
               /\ \A n \in Slots : n # 0 => run'[k][n] = "none"
    BY <1>4, <2>1, IdleFresh
  <2>2. "queued" \notin Outcomes
    BY DEF Outcomes
  <2>3. UNCHANGED <<touched, been>> /\ touched \subseteq DOMAIN rows
    BY <1>0, <1>3 DEF RowTypes
  <2>4. ASSUME NEW k \in DOMAIN rows', k \notin touched'
        PROVE  /\ \A n \in Slots : n # 0 => run'[k][n] = "none"
               /\ run'[k][0] = "wait" => rows'[k].state = "queued"
               /\ run'[k][0] = "typing" => rows'[k].state = "writing"
               /\ cut'[k] = "row" => rows'[k].state = "writing"
               /\ cut'[k] # "none" => run'[k][0] = "none"
               /\ run'[k][0] = "started" => rows'[k].state = "submitted"
               /\ run'[k][0] = "failed" => rows'[k].state = "failed"
               /\ cut'[k] = "job" => rows'[k].state = "uncertain"
    <3>1. CASE k \in DOMAIN rows
      BY <1>4, <2>3, <2>4, <3>1 DEF RowLabel
    <3>2. CASE k \notin DOMAIN rows
      BY <2>1, <3>2
    <3> QED BY <3>1, <3>2
  <2>5. ASSUME NEW k \in DOMAIN rows', NEW n \in Slots
        PROVE  /\ run'[k][n] = "started" => <<k, "submitted">> \in been'
               /\ run'[k][n] = "failed" => <<k, "failed">> \in been'
    <3>1. CASE k \in DOMAIN rows
      BY <1>4, <2>3, <3>1 DEF RowLabel
    <3>2. CASE k \notin DOMAIN rows
      BY <2>1, <3>2
    <3> QED BY <3>1, <3>2
  <2>6. ASSUME NEW k \in DOMAIN rows'
        PROVE  /\ cut'[k] = "job" => <<k, "uncertain">> \in been'
               /\ rows'[k].state \in Outcomes => <<k, rows'[k].state>> \in been'
    <3>1. CASE k \in DOMAIN rows
      BY <1>4, <2>3, <3>1 DEF RowLabel
    <3>2. CASE k \notin DOMAIN rows
      BY <2>1, <2>2, <3>2
    <3> QED BY <3>1, <3>2
  <2> QED BY <2>4, <2>5, <2>6 DEF RowLabel
<1> QED BY <1>5, <1>6

LEMMA LedgerGrows ==
    ASSUME TypeInv, RowLabel, [Next]_vars
    PROVE  RowsGrow /\ InboxGrows /\ RowLabel'
<1> USE DEF clientVars, netVars, pollVars, jobVars, rowVars, history, tasks, hostVars
<1>0. ASSUME UNCHANGED <<inbox, rows, run, cut, touched, been>>
      PROVE  RowsGrow /\ InboxGrows /\ RowLabel'
  BY <1>0 DEF RowsGrow, InboxGrows, RowLabel
<1>1. CASE ClientStep
  BY <1>0, <1>1 DEF ClientStep, Hear, Ask, RelayTakes, Answered, Unanswered
<1>2. CASE ControlPlane
  BY <1>0, <1>2 DEF ControlPlane, Leaves
<1>3. CASE PollerStep
  <2>1. CASE \E e \in Envelopes : Admit(e)
    <3>1. PICK e \in Envelopes : Admit(e)
      BY <2>1
    <3>2. UNCHANGED <<rows, run, cut, touched, been>> /\ inbox[e] = "none"
      BY <3>1 DEF Admit
    <3>3. \A f \in Envelopes : f # e => inbox'[f] = inbox[f]
      BY <3>1 DEF Admit, Record, Accept, Refuse, TypeInv, TypeOK
    <3> QED BY <3>2, <3>3 DEF RowsGrow, InboxGrows, RowLabel
  <2>2. CASE Poll \/ PollFails \/ Ack \/ ReadPage
    BY <1>0, <2>2 DEF Poll, PollFails, Ack, ReadPage
  <2>3. CASE \E e \in Envelopes : Duplicate(e) \/ Keep(e)
    BY <1>0, <2>3 DEF Duplicate, Keep
  <2>4. CASE \E k \in DOMAIN outbox : PostOk(k) \/ PostFails(k) \/ RecordSent(k)
    BY <1>0, <2>4 DEF PostOk, PostFails, RecordSent
  <2> QED BY <1>3, <2>1, <2>2, <2>3, <2>4 DEF PollerStep
<1>4. CASE \E e \in Envelopes : HandOff(e)
  BY <1>4, HandOffGrows
<1>5. ASSUME NEW e \in Envelopes, HandOffFails(e) \/ ReportFailure(e)
      PROVE  RowsGrow /\ InboxGrows /\ RowLabel'
  <2>1. UNCHANGED <<rows, run, cut, touched, been>>
    BY <1>5 DEF HandOffFails, ReportFailure
  <2>2. \A f \in Envelopes :
          \/ inbox'[f] = inbox[f]
          \/ (inbox[f] = "accepted" /\ inbox'[f] = "failed")
    <3>1. CASE HandOffFails(e)
      <4>1. inbox[e] = "accepted" /\ inbox' = [inbox EXCEPT ![e] = "failed"]
        BY <3>1 DEF HandOffFails, TypeInv, Held
      <4>2. inbox \in [Envelopes -> {"none", "accepted", "refused", "handed", "failed"}]
        BY DEF TypeInv, TypeOK
      <4> QED BY <4>1, <4>2
    <3>2. CASE ReportFailure(e)
      BY <3>2 DEF ReportFailure
    <3> QED BY <1>5, <3>1, <3>2
  <2> QED BY <2>1, <2>2 DEF RowsGrow, InboxGrows, RowLabel
<1>6. ASSUME NEW k \in DOMAIN rows, RunStep(k) \/ MarkUncertain(k) \/ ReportUncertain(k)
      PROVE  RowsGrow /\ InboxGrows /\ RowLabel'
  BY <1>6, TypingGrows, ReportsGrow DEF RunStep
<1>7. CASE \E j \in Jobs, status \in {"done", "blocked"} : JobDone(j, status)
  BY <1>0, <1>7 DEF JobDone
<1>8. CASE Crash \/ Restart \/ Reregister
  BY <1>8, RestartsGrow
<1>9. CASE RecoveryEnds
  BY <1>0, <1>9 DEF RecoveryEnds
<1>10. CASE UNCHANGED vars
  BY <1>0, <1>10 DEF vars
<1> QED BY <1>1, <1>2, <1>3, <1>4, <1>5, <1>6, <1>7, <1>8, <1>9, <1>10
  DEF Next, HostStep, HandOffStep, RecoveryStep

LEMMA RowLabelInit == Init => RowLabel
  BY DEF Init, RowLabel

-----------------------------------------------------------------------------
(* An envelope is delivered once.                                          *)

OnceInv == TypeInv /\ RowLabel /\ HandedOnce

LEMMA OnceInit == Init => OnceInv
  BY TypeInit, RowLabelInit DEF Init, OnceInv, HandedOnce

\* A new row is an accepted envelope's; every other row's envelope is handed.
LEMMA OnceStep == OnceInv /\ [Next]_vars => OnceInv'
<1> SUFFICES ASSUME OnceInv, [Next]_vars PROVE OnceInv'
  OBVIOUS
<1>1. TypeInv' /\ RowLabel' /\ RowsGrow
  BY TypeStep, LedgerGrows DEF OnceInv
<1>2. \A k \in DOMAIN rows : inbox[rows[k].env] = "handed"
  BY DEF OnceInv, TypeInv, Held
<1>3. ASSUME NEW k \in DOMAIN rows', NEW l \in DOMAIN rows', rows'[k].env = rows'[l].env
      PROVE  k = l
  <2>1. CASE k \in DOMAIN rows /\ l \in DOMAIN rows
    BY <1>1, <1>3, <2>1 DEF RowsGrow, OnceInv, HandedOnce
  <2>2. CASE k \notin DOMAIN rows
    BY <1>1, <1>2, <1>3, <2>2 DEF RowsGrow
  <2>3. CASE l \notin DOMAIN rows
    BY <1>1, <1>2, <1>3, <2>3 DEF RowsGrow
  <2> QED BY <2>1, <2>2, <2>3
<1> QED BY <1>1, <1>3 DEF OnceInv, HandedOnce

\* admit and resume_admitted: polled again, resumed after a crash, an envelope
\* gets one delivery row.
THEOREM DeliveredOnce == Spec => []HandedOnce
<1>1. OnceInv => HandedOnce
  BY DEF OnceInv
<1> QED BY <1>1, OnceInit, OnceStep, PTL DEF Spec

-----------------------------------------------------------------------------
(* Nothing leaves the relay before it is durable.                          *)

AcksDurable == \A e \in acks : inbox[e] # "none"

KeptInv == TypeInv /\ RowLabel /\ AcksDurable

LEMMA KeptInit == Init => KeptInv
  BY TypeInit, RowLabelInit DEF Init, KeptInv, AcksDurable

LEMMA KeptStep ==
    ASSUME KeptInv, [Next]_vars
    PROVE  /\ KeptInv'
           /\ \A e \in Envelopes : e \in queue \ queue' => inbox'[e] # "none"
<1> USE DEF clientVars, netVars, pollVars, jobVars, rowVars, history, tasks, hostVars
<1>1. TypeInv' /\ RowLabel' /\ InboxGrows
  BY TypeStep, LedgerGrows DEF KeptInv
<1>2. \A e \in Envelopes : inbox[e] # "none" => inbox'[e] # "none"
  BY <1>1 DEF InboxGrows, KeptInv, TypeInv, TypeOK
<1>3. acks \subseteq Envelopes /\ AcksDurable
  BY DEF KeptInv, TypeInv, TypeOK
<1>4. ASSUME UNCHANGED <<acks, queue>> \/ (UNCHANGED queue /\ acks' = {})
      PROVE  /\ AcksDurable'
             /\ \A e \in Envelopes : e \in queue \ queue' => inbox'[e] # "none"
  BY <1>2, <1>3, <1>4 DEF AcksDurable
<1>5. /\ AcksDurable'
      /\ \A e \in Envelopes : e \in queue \ queue' => inbox'[e] # "none"
  <2>1. CASE ClientStep
    <3>1. acks' = acks /\ queue \subseteq queue'
      BY <2>1 DEF ClientStep, Hear, Ask, RelayTakes, Answered, Unanswered
    <3> QED BY <1>2, <1>3, <3>1 DEF AcksDurable
  <2>2. CASE ControlPlane
    BY <1>4, <2>2 DEF ControlPlane, Leaves
  <2>3. CASE PollerStep
    <3>1. CASE \E e \in Envelopes : Admit(e) \/ Duplicate(e)
      <4>1. PICK e \in Envelopes : Admit(e) \/ Duplicate(e)
        BY <3>1
      <4>2. acks' = acks \union {e} /\ queue' = queue
        BY <4>1 DEF Admit, Duplicate
      <4>3. inbox'[e] # "none"
        <5>1. CASE Admit(e)
          <6>1. inbox' = [inbox EXCEPT ![e] = "accepted"]
                \/ inbox' = [inbox EXCEPT ![e] = "refused"]
            BY <5>1 DEF Admit, Record, Accept, Refuse
          <6>2. inbox \in [Envelopes -> {"none", "accepted", "refused", "handed",
                                         "failed"}]
            BY DEF KeptInv, TypeInv, TypeOK
          <6> QED BY <6>1, <6>2
        <5>2. CASE Duplicate(e)
          BY <5>2 DEF Duplicate
        <5> QED BY <4>1, <5>1, <5>2
      <4> QED BY <1>2, <1>3, <4>2, <4>3 DEF AcksDurable
    <3>2. CASE Poll \/ PollFails \/ ReadPage
      BY <1>4, <3>2 DEF Poll, PollFails, ReadPage
    <3>3. CASE Ack
      <4>1. acks' = {} /\ (queue' = queue \ acks \/ queue' = queue) /\ inbox' = inbox
        BY <3>3 DEF Ack
      <4> QED BY <1>3, <4>1 DEF AcksDurable
    <3>4. CASE \E e \in Envelopes : Keep(e)
      BY <1>4, <3>4 DEF Keep
    <3>5. CASE \E k \in DOMAIN outbox : PostOk(k) \/ PostFails(k) \/ RecordSent(k)
      BY <1>4, <3>5 DEF PostOk, PostFails, RecordSent
    <3> QED BY <2>3, <3>1, <3>2, <3>3, <3>4, <3>5 DEF PollerStep
  <2>4. CASE \E e \in Envelopes : HandOffStep(e)
    BY <1>4, <2>4 DEF HandOffStep, HandOff, HandOffFails, ReportFailure
  <2>5. CASE \E k \in DOMAIN rows : RunStep(k)
    BY <1>4, <2>5 DEF RunStep, StartTyping, EndTyping, ReportJob
  <2>6. CASE \E j \in Jobs, status \in {"done", "blocked"} : JobDone(j, status)
    BY <1>4, <2>6 DEF JobDone
  <2>7. CASE Crash \/ Restart \/ Reregister
    BY <1>4, <2>7 DEF Crash, Restart, Reregister
  <2>8. CASE RecoveryStep
    BY <1>4, <2>8 DEF RecoveryStep, RecoveryEnds, MarkUncertain, ReportUncertain
  <2>9. CASE UNCHANGED vars
    BY <1>4, <2>9 DEF vars
  <2> QED BY <2>1, <2>2, <2>3, <2>4, <2>5, <2>6, <2>7, <2>8, <2>9 DEF Next, HostStep
<1> QED BY <1>1, <1>5 DEF KeptInv

\* poll_workspace: an envelope is acknowledged, and so leaves the relay, only
\* once its inbox row is committed, whatever fails or crashes.
THEOREM LeavesOnceDurable == Spec => NothingLost
<1>1. KeptInv /\ [Next]_vars
        => [\A e \in Envelopes : e \in queue \ queue' => inbox[e]' # "none"]_vars
  BY KeptStep
<1>2. KeptInv /\ [Next]_vars => KeptInv'
  BY KeptStep
<1> QED BY <1>1, <1>2, KeptInit, PTL DEF Spec, NothingLost

-----------------------------------------------------------------------------
(* What the client is shown is true.  A reply is true of the ledger when   *)
(* it is queued, and the ledger only grows in ways that keep it true.      *)

LEMMA TruthStays ==
    ASSUME TypeInv, RowLabel, [Next]_vars,
           NEW i \in Items, NEW s \in Statuses, TrueOf(i, s)
    PROVE  TrueOf(i, s)'
<1>1. RowsGrow /\ InboxGrows
  BY LedgerGrows
<1>2. \A k \in DOMAIN rows' : k \notin DOMAIN rows => inbox[rows'[k].env] = "accepted"
  BY <1>1 DEF RowsGrow
<1>3. ASSUME NEW states \in SUBSET {"refused", "failed"}, Verdict(i, states)
      PROVE  Verdict(i, states)'
  <2>1. PICK e \in Envelopes : e.item = i /\ inbox[e] \in states /\ ~HasRow(e)
    BY <1>3 DEF Verdict
  <2>2. inbox'[e] = inbox[e] /\ inbox[e] # "accepted"
    BY <1>1, <2>1 DEF InboxGrows
  <2>3. ASSUME NEW k \in DOMAIN rows', rows'[k].env = e PROVE FALSE
    <3>1. CASE k \in DOMAIN rows
      BY <1>1, <2>1, <2>3, <3>1 DEF RowsGrow, HasRow
    <3>2. CASE k \notin DOMAIN rows
      BY <1>2, <2>2, <2>3, <3>2
    <3> QED BY <3>1, <3>2
  <2> QED BY <2>1, <2>2, <2>3 DEF Verdict, HasRow
<1>4. ASSUME NEW states \in SUBSET Outcomes, RowIn(i, states)
      PROVE  RowIn(i, states)'
  <2>1. PICK k \in DOMAIN rows :
          /\ rows[k].env.item = i
          /\ IF k \in touched THEN \E state \in states : <<k, state>> \in been
             ELSE rows[k].state \in states
    BY <1>4 DEF RowIn
  <2>2. /\ k \in DOMAIN rows' /\ rows'[k].env = rows[k].env
        /\ touched \subseteq touched' /\ been \subseteq been'
    BY <1>1, <2>1 DEF RowsGrow
  <2>3. CASE k \in touched'
    <3>1. \E state \in states : <<k, state>> \in been'
      BY <2>1, <2>2 DEF RowLabel
    <3> QED BY <2>1, <2>2, <2>3, <3>1 DEF RowIn
  <2>4. CASE k \notin touched'
    <3>1. rows[k].state \in states /\ rows[k].state \in Outcomes
      BY <1>4, <2>1, <2>2, <2>4
    <3>2. rows'[k].state = rows[k].state
      BY <1>1, <2>1, <2>4, <3>1 DEF RowsGrow
    <3> QED BY <2>1, <2>2, <2>4, <3>1, <3>2 DEF RowIn
  <2> QED BY <2>3, <2>4
<1>5. ASSUME NEW e \in Envelopes, HasRow(e) PROVE HasRow(e)'
  BY <1>1, <1>5 DEF RowsGrow, HasRow
<1>6. ASSUME NEW e \in Envelopes, inbox[e] \in {"accepted", "handed", "failed"}
      PROVE  inbox'[e] \in {"accepted", "handed", "failed"}
  BY <1>1, <1>6 DEF InboxGrows
<1>7. s \in {"refused", "declined"} => Verdict(i, {"refused"})'
  BY <1>3 DEF TrueOf
<1>8. s = "failed" => \/ Verdict(i, {"failed"})'
                      \/ i \in Jobs /\ RowIn(i, {"failed", "uncertain"})'
  BY <1>3, <1>4 DEF TrueOf, Outcomes
<1>9. s = "started" => RowIn(i, {"submitted"})'
  BY <1>4 DEF TrueOf, Outcomes
<1>10. s \in {"done", "blocked"} => \E e \in Envelopes : e.item = i /\ HasRow(e)'
  BY <1>5 DEF TrueOf
<1>11. s = "accepted" => \E e \in Envelopes :
                            e.item = i /\ inbox'[e] \in {"accepted", "handed", "failed"}
  BY <1>6 DEF TrueOf
<1> QED BY <1>7, <1>8, <1>9, <1>10, <1>11 DEF TrueOf

\* A row's envelope was handed, so an envelope that was not has no row.
LEMMA NoRowYet ==
    ASSUME TypeInv, NEW e \in Envelopes, inbox[e] # "handed"
    PROVE  ~HasRow(e)
BY DEF TypeInv, Held, HasRow

\* What a step may do to the outbox: nothing, mark a row sent, or queue a reply
\* that is true when it is queued.
NewReplyTrue ==
    \/ outbox' = outbox
    \/ \E k \in DOMAIN outbox : outbox' = [outbox EXCEPT ![k].sent = TRUE]
    \/ \E r \in Replies : outbox' = Append(outbox, Queued(r)) /\ TrueOf(r.item, r.state)'

LEMMA RepliesTrue == TypeInv /\ RowLabel /\ [Next]_vars => NewReplyTrue
<1> SUFFICES ASSUME TypeInv, RowLabel, [Next]_vars PROVE NewReplyTrue
  OBVIOUS
<1> USE DEF clientVars, netVars, pollVars, jobVars, rowVars, history, tasks, hostVars
\* Transition queues the job's status through the team it came from.
<1>1. ASSUME NEW j \in Jobs, job[j] # "none",
             NEW s \in {"started", "done", "blocked", "failed", "uncertain"},
             Transition(j, s), TrueOf(j, Wire(s))'
      PROVE  NewReplyTrue
  <2>1. jobTeam[j] \in 1..Teams /\ Wire(s) \in Statuses /\ j \in Items
    BY <1>1, HostRelayAssumption
    DEF TypeInv, TypeOK, Routed, NoTeam, Wire, Statuses, Items
  <2>2. Reply(j, jobTeam[j], Wire(s)) \in Replies
    BY <2>1, ReplyType
  <2>3. outbox' = Append(outbox, Queued(Reply(j, jobTeam[j], Wire(s))))
    BY <1>1 DEF Transition, Push
  <2>4. /\ Reply(j, jobTeam[j], Wire(s)).item = j
        /\ Reply(j, jobTeam[j], Wire(s)).state = Wire(s)
    BY DEF Reply
  <2>5. \E r \in Replies : outbox' = Append(outbox, Queued(r)) /\ TrueOf(r.item, r.state)'
    BY <1>1, <2>2, <2>3, <2>4
  <2> QED BY <2>5 DEF NewReplyTrue
<1>2. ASSUME NEW e \in Envelopes, NEW s \in Statuses,
             Push(Reply(e.item, TeamOf(e), s)), TrueOf(e.item, s)'
      PROVE  NewReplyTrue
  <2>1. Reply(e.item, TeamOf(e), s) \in Replies
    BY EnvelopeItem, TeamOfRange, ReplyType
  <2>2. /\ Reply(e.item, TeamOf(e), s).item = e.item
        /\ Reply(e.item, TeamOf(e), s).state = s
    BY DEF Reply
  <2>3. outbox' = Append(outbox, Queued(Reply(e.item, TeamOf(e), s)))
    BY <1>2 DEF Push
  <2>4. \E r \in Replies : outbox' = Append(outbox, Queued(r)) /\ TrueOf(r.item, r.state)'
    BY <1>2, <2>1, <2>2, <2>3
  <2> QED BY <2>4 DEF NewReplyTrue
<1>3. ASSUME NEW e \in Envelopes, Admit(e) PROVE NewReplyTrue
  <2>1. inbox[e] = "none" /\ rows' = rows /\ ~HasRow(e)
    BY <1>3, NoRowYet DEF Admit
  <2>2. ~HasRow(e)'
    BY <2>1 DEF HasRow
  <2>3. inbox \in [Envelopes -> {"none", "accepted", "refused", "handed", "failed"}]
    BY DEF TypeInv, TypeOK
  <2>4. CASE Accept(e)
    <3>1. inbox'[e] = "accepted"
      BY <2>3, <2>4 DEF Accept
    <3>2. TrueOf(e.item, "accepted")'
      BY <3>1 DEF TrueOf
    <3>3. CASE IsJob(e)
      BY <1>2, <2>4, <3>2, <3>3 DEF Accept, Statuses
    <3>4. CASE ~IsJob(e)
      BY <2>4, <3>4 DEF Accept, NewReplyTrue
    <3> QED BY <3>3, <3>4
  <2>5. CASE Refuse(e)
    <3>1. inbox'[e] = "refused"
      BY <2>3, <2>5 DEF Refuse
    <3>2. Verdict(e.item, {"refused"})'
      BY <2>2, <3>1 DEF Verdict
    <3>3. TrueOf(e.item, "refused")' /\ TrueOf(e.item, "declined")'
      BY <3>2 DEF TrueOf
    <3> QED BY <1>2, <2>5, <3>3 DEF Refuse, Statuses
  <2> QED BY <1>3, <2>4, <2>5 DEF Admit, Record
<1>4. ASSUME NEW e \in Envelopes, HandOffFails(e) PROVE NewReplyTrue
  <2>1. CASE IsJob(e)
    BY <1>4, <2>1 DEF HandOffFails, NewReplyTrue
  <2>2. CASE ~IsJob(e)
    <3>1. e \in handing /\ inbox[e] = "accepted" /\ rows' = rows
      BY <1>4 DEF HandOffFails, TypeInv, Held
    <3>2. ~HasRow(e)'
      BY <3>1, NoRowYet DEF HasRow
    <3>3. inbox'[e] = "failed"
      BY <1>4 DEF HandOffFails, TypeInv, TypeOK
    <3>4. Verdict(e.item, {"failed"})'
      BY <3>2, <3>3 DEF Verdict
    <3>5. TrueOf(e.item, "failed")'
      BY <3>4 DEF TrueOf
    <3>6. Push(Reply(e.item, TeamOf(e), "failed"))
      BY <1>4, <2>2 DEF HandOffFails
    <3> QED BY <1>2, <3>5, <3>6 DEF Statuses
  <2> QED BY <2>1, <2>2
<1>5. ASSUME NEW e \in Envelopes, ReportFailure(e) PROVE NewReplyTrue
  <2>1. inbox[e] = "failed" /\ IsJob(e) /\ UNCHANGED <<inbox, rows>>
    BY <1>5 DEF ReportFailure, TypeInv, Held
  <2>2. e.item \in Jobs /\ job[e.item] # "none"
    BY <2>1, EnvelopeItem DEF TypeInv, Routed
  <2>3. ~HasRow(e)'
    BY <2>1, NoRowYet DEF HasRow
  <2>4. Verdict(e.item, {"failed"})'
    BY <2>1, <2>3 DEF Verdict
  <2>5. TrueOf(e.item, Wire("failed"))'
    BY <2>4 DEF TrueOf, Wire
  <2> QED BY <1>1, <1>5, <2>2, <2>5 DEF ReportFailure
<1>6. ASSUME NEW k \in DOMAIN rows, NEW n \in Slots, ReportJob(k, n) PROVE NewReplyTrue
  <2>1. /\ run[k][n] \in {"started", "failed"}
        /\ UNCHANGED <<inbox, rows, touched, been>>
        /\ IsJob(rows[k].env) /\ rows[k].env \in Envelopes
        /\ inbox[rows[k].env] = "handed"
    BY <1>6, RowType DEF ReportJob, Reporting, TypeInv, Held
  <2>2. rows[k].env.item \in Jobs /\ job[rows[k].env.item] # "none"
    BY <2>1, EnvelopeItem DEF TypeInv, Routed
  <2>3. PICK j \in Jobs : j = rows[k].env.item
    BY <2>2
  <2>4. CASE run[k][n] = "started"
    <3>1. Transition(j, "started")
      BY <1>6, <2>3, <2>4 DEF ReportJob
    <3>2. /\ <<k, "submitted">> \in been
          /\ k \notin touched => rows[k].state = "submitted"
      BY <2>4 DEF RowLabel
    <3>3. RowIn(j, {"submitted"})'
      BY <2>1, <2>3, <3>2 DEF RowIn
    <3>4. TrueOf(j, Wire("started"))'
      BY <3>3 DEF TrueOf, Wire
    <3> QED BY <1>1, <2>2, <2>3, <3>1, <3>4
  <2>5. CASE run[k][n] = "failed"
    <3>1. Transition(j, "failed")
      BY <1>6, <2>3, <2>5 DEF ReportJob
    <3>2. /\ <<k, "failed">> \in been
          /\ k \notin touched => rows[k].state = "failed"
      BY <2>5 DEF RowLabel
    <3>3. RowIn(j, {"failed", "uncertain"})'
      BY <2>1, <2>3, <3>2 DEF RowIn
    <3>4. TrueOf(j, Wire("failed"))'
      BY <3>3 DEF TrueOf, Wire
    <3> QED BY <1>1, <2>2, <2>3, <3>1, <3>4
  <2> QED BY <2>1, <2>4, <2>5
<1>7. ASSUME NEW k \in DOMAIN rows, ReportUncertain(k) PROVE NewReplyTrue
  <2>1. /\ cut[k] = "job" /\ UNCHANGED <<inbox, rows, touched, been>>
        /\ IsJob(rows[k].env) /\ rows[k].env \in Envelopes
        /\ inbox[rows[k].env] = "handed"
    BY <1>7, RowType DEF ReportUncertain, TypeInv, Held
  <2>2. rows[k].env.item \in Jobs /\ job[rows[k].env.item] # "none"
    BY <2>1, EnvelopeItem DEF TypeInv, Routed
  <2>3. /\ <<k, "uncertain">> \in been
        /\ k \notin touched => rows[k].state = "uncertain"
    BY <2>1 DEF RowLabel
  <2>4. PICK j \in Jobs : j = rows[k].env.item
    BY <2>2
  <2>5. Transition(j, "uncertain")
    BY <1>7, <2>4 DEF ReportUncertain
  <2>6. RowIn(j, {"failed", "uncertain"})'
    BY <2>1, <2>3, <2>4 DEF RowIn
  <2>7. TrueOf(j, Wire("uncertain"))'
    BY <2>6 DEF TrueOf, Wire
  <2> QED BY <1>1, <2>2, <2>4, <2>5, <2>7
<1>8. ASSUME NEW j \in Jobs, NEW status \in {"done", "blocked"}, JobDone(j, status)
      PROVE  NewReplyTrue
  <2>1. PICK k \in DOMAIN rows : rows[k].env.item = j
    BY <1>8 DEF JobDone
  <2>2. rows[k].env \in Envelopes /\ HasRow(rows[k].env)' /\ rows' = rows
    BY <1>8, RowType DEF JobDone, HasRow
  <2>3. TrueOf(j, Wire(status))'
    BY <2>1, <2>2 DEF TrueOf, Wire
  <2> QED BY <1>1, <1>8, <2>3 DEF JobDone
<1>9. CASE ClientStep
  BY <1>9 DEF ClientStep, Hear, Ask, RelayTakes, Answered, Unanswered, NewReplyTrue
<1>10. CASE PollerStep
  <2>1. CASE \E k \in DOMAIN outbox : RecordSent(k)
    BY <2>1 DEF RecordSent, NewReplyTrue
  <2>2. CASE Poll \/ PollFails \/ Ack \/ ReadPage
    BY <2>2 DEF Poll, PollFails, Ack, ReadPage, NewReplyTrue
  <2>3. CASE \E e \in Envelopes : Duplicate(e) \/ Keep(e)
    BY <2>3 DEF Duplicate, Keep, NewReplyTrue
  <2>4. CASE \E k \in DOMAIN outbox : PostOk(k) \/ PostFails(k)
    BY <2>4 DEF PostOk, PostFails, NewReplyTrue
  <2> QED BY <1>3, <1>10, <2>1, <2>2, <2>3, <2>4 DEF PollerStep
<1>11. CASE ControlPlane \/ Crash \/ Restart \/ Reregister \/ RecoveryEnds \/ UNCHANGED vars
  BY <1>11 DEF ControlPlane, Leaves, Crash, Restart, Reregister, RecoveryEnds, vars, NewReplyTrue
<1>12. CASE \E e \in Envelopes : HandOff(e)
  BY <1>12 DEF HandOff, NewReplyTrue
<1>13. CASE \E k \in DOMAIN rows : (\E n \in Slots : StartTyping(k, n) \/ EndTyping(k, n))
                                   \/ MarkUncertain(k)
  BY <1>13 DEF StartTyping, EndTyping, MarkUncertain, NewReplyTrue
<1>14. CASE \E k \in DOMAIN rows : RunStep(k)
  BY <1>6, <1>13, <1>14 DEF RunStep
<1>15. CASE RecoveryStep
  <2>1. CASE RecoveryEnds
    BY <1>11, <2>1
  <2>2. CASE \E k \in DOMAIN rows : MarkUncertain(k)
    BY <1>13, <2>2
  <2>3. CASE \E k \in DOMAIN rows : ReportUncertain(k)
    BY <1>7, <2>3
  <2> QED BY <1>15, <2>1, <2>2, <2>3 DEF RecoveryStep
<1> QED
  BY <1>4, <1>5, <1>8, <1>9, <1>10, <1>11, <1>12, <1>14, <1>15
  DEF Next, HostStep, HandOffStep

\* The statuses queued in the outbox, and those waiting on the relay, are true.
InOutbox(i, s)  == \E k \in DOMAIN outbox : /\ outbox[k].reply.item = i
                                            /\ outbox[k].reply.state = s
InMailbox(i, s) == \E k \in DOMAIN mailbox : mailbox[k].item = i /\ mailbox[k].state = s
OutTrue  == \A i \in Items, s \in Statuses : InOutbox(i, s) => TrueOf(i, s)
MailTrue == \A i \in Items, s \in Statuses : InMailbox(i, s) => TrueOf(i, s)
TruthInv == TypeInv /\ RowLabel /\ OutTrue /\ MailTrue /\ UpdatesTrue

LEMMA TruthInit == Init => TruthInv
BY TypeInit, RowLabelInit
DEF Init, TruthInv, OutTrue, MailTrue, UpdatesTrue, InOutbox, InMailbox

LEMMA OutStaysTrue == TruthInv /\ [Next]_vars => OutTrue'
<1> SUFFICES ASSUME TruthInv, [Next]_vars,
                    NEW i \in Items, NEW s \in Statuses, InOutbox(i, s)'
             PROVE  TrueOf(i, s)'
  BY DEF OutTrue
<1>1. TypeInv /\ RowLabel /\ OutTrue /\ NewReplyTrue
  BY RepliesTrue DEF TruthInv
<1>2. outbox \in Seq(Outgoing)
  BY <1>1 DEF TypeInv, TypeOK
<1>3. CASE InOutbox(i, s)
  <2>1. TrueOf(i, s)
    BY <1>1, <1>3 DEF OutTrue
  <2> QED BY <1>1, <2>1, TruthStays
<1>4. CASE outbox' = outbox
  BY <1>3, <1>4 DEF InOutbox
<1>5. ASSUME NEW k \in DOMAIN outbox, outbox' = [outbox EXCEPT ![k].sent = TRUE]
      PROVE  TrueOf(i, s)'
  <2>1. \A l \in DOMAIN outbox : outbox[l] \in [reply : Replies, sent : BOOLEAN]
    BY <1>1, OutboxType DEF Outgoing
  <2>2. /\ DOMAIN outbox' = DOMAIN outbox
        /\ \A l \in DOMAIN outbox : outbox'[l].reply = outbox[l].reply
    BY <1>5, <2>1
  <2>3. InOutbox(i, s)
    BY <2>2 DEF InOutbox
  <2> QED BY <1>3, <2>3
<1>6. ASSUME NEW r \in Replies, outbox' = Append(outbox, Queued(r)),
             TrueOf(r.item, r.state)'
      PROVE  TrueOf(i, s)'
  <2>1. PICK k \in DOMAIN outbox' : /\ outbox'[k].reply.item = i
                                    /\ outbox'[k].reply.state = s
    BY DEF InOutbox
  <2>2. Queued(r) \in Outgoing /\ Queued(r).reply = r
    BY DEF Queued, Outgoing
  <2>3. \/ k \in DOMAIN outbox /\ outbox'[k] = outbox[k]
        \/ outbox'[k] = Queued(r)
    BY <1>2, <1>6, <2>1, <2>2
  <2>4. CASE k \in DOMAIN outbox /\ outbox'[k] = outbox[k]
    <3>1. InOutbox(i, s)
      BY <2>1, <2>4 DEF InOutbox
    <3> QED BY <1>3, <3>1
  <2>5. CASE outbox'[k] = Queued(r)
    <3>1. r.item = i /\ r.state = s
      BY <2>1, <2>2, <2>5
    <3> QED BY <1>6, <3>1
  <2> QED BY <2>3, <2>4, <2>5
<1> QED BY <1>1, <1>4, <1>5, <1>6 DEF NewReplyTrue

\* Posted hands the relay what the outbox holds; Hear takes the oldest.
LEMMA MailStaysTrue == TruthInv /\ [Next]_vars => MailTrue'
<1> SUFFICES ASSUME TruthInv, [Next]_vars,
                    NEW i \in Items, NEW s \in Statuses, InMailbox(i, s)'
             PROVE  TrueOf(i, s)'
  BY DEF MailTrue
<1> USE DEF clientVars, netVars, pollVars, jobVars, rowVars, history, tasks, hostVars
<1>1. TypeInv /\ RowLabel /\ OutTrue /\ MailTrue
  BY DEF TruthInv
<1>2. mailbox \in Seq(Replies) /\ outbox \in Seq(Outgoing)
  BY <1>1 DEF TypeInv, TypeOK
<1>3. ASSUME TrueOf(i, s) PROVE TrueOf(i, s)'
  BY <1>1, <1>3, TruthStays
<1>4. CASE mailbox' = mailbox
  <2>1. InMailbox(i, s)
    BY <1>4 DEF InMailbox
  <2> QED BY <1>1, <1>3, <2>1 DEF MailTrue
<1>5. CASE mailbox # <<>> /\ mailbox' = Tail(mailbox)
  <2>1. PICK k \in DOMAIN mailbox' : mailbox'[k].item = i /\ mailbox'[k].state = s
    BY DEF InMailbox
  <2>2. k + 1 \in DOMAIN mailbox /\ mailbox'[k] = mailbox[k + 1]
    BY <1>2, <1>5, <2>1
  <2>3. InMailbox(i, s)
    BY <2>1, <2>2 DEF InMailbox
  <2> QED BY <1>1, <1>3, <2>3 DEF MailTrue
<1>6. ASSUME NEW l \in DOMAIN outbox, mailbox' = Append(mailbox, outbox[l].reply)
      PROVE  TrueOf(i, s)'
  <2>1. PICK k \in DOMAIN mailbox' : mailbox'[k].item = i /\ mailbox'[k].state = s
    BY DEF InMailbox
  <2>2. outbox[l].reply \in Replies
    BY <1>1, OutboxType
  <2>3. \/ k \in DOMAIN mailbox /\ mailbox'[k] = mailbox[k]
        \/ mailbox'[k] = outbox[l].reply
    BY <1>2, <1>6, <2>1, <2>2
  <2>4. InMailbox(i, s) \/ InOutbox(i, s)
    BY <2>1, <2>3 DEF InMailbox, InOutbox
  <2> QED BY <1>1, <1>3, <2>4 DEF MailTrue, OutTrue
<1>7. \/ mailbox' = mailbox
      \/ mailbox # <<>> /\ mailbox' = Tail(mailbox)
      \/ \E l \in DOMAIN outbox : mailbox' = Append(mailbox, outbox[l].reply)
  <2>1. CASE ClientStep
    BY <2>1 DEF ClientStep, Hear, Ask, RelayTakes, Answered, Unanswered
  <2>2. CASE PollerStep
    BY <2>2 DEF PollerStep, Poll, PollFails, Ack, ReadPage, Admit, Duplicate, Keep,
                PostOk, PostFails, RecordSent, Posted
  <2>3. CASE HostStep /\ ~PollerStep
    BY <2>3 DEF HostStep, HandOffStep, HandOff, HandOffFails, ReportFailure, RunStep,
                StartTyping, EndTyping, ReportJob, JobDone
  <2>4. CASE ControlPlane \/ Crash \/ Restart \/ Reregister \/ UNCHANGED vars
    BY <2>4 DEF ControlPlane, Leaves, Crash, Restart, Reregister, vars
  <2>5. CASE RecoveryStep
    BY <2>5 DEF RecoveryStep, RecoveryEnds, MarkUncertain, ReportUncertain
  <2> QED BY <2>1, <2>2, <2>3, <2>4, <2>5 DEF Next, HostStep
<1> QED BY <1>4, <1>5, <1>6, <1>7

\* Only Hear changes what is shown, by the update it takes from the mailbox.
LEMMA ShownStaysTrue == TruthInv /\ [Next]_vars => UpdatesTrue'
<1> SUFFICES ASSUME TruthInv, [Next]_vars, NEW i \in Items, NEW s \in shown'[i]
             PROVE  TrueOf(i, s)'
  BY DEF UpdatesTrue
<1> USE DEF clientVars, netVars, pollVars, jobVars, rowVars, history, tasks, hostVars
<1>1. TypeInv /\ RowLabel /\ MailTrue /\ UpdatesTrue
  BY DEF TruthInv
<1>2. mailbox \in Seq(Replies) /\ shown \in [Items -> SUBSET Statuses]
  BY <1>1 DEF TypeInv, TypeOK
<1>3. ASSUME s \in Statuses, TrueOf(i, s) PROVE TrueOf(i, s)'
  BY <1>1, <1>3, TruthStays
<1>4. CASE shown' = shown
  <2>1. s \in shown[i] /\ s \in Statuses
    BY <1>2, <1>4
  <2> QED BY <1>1, <1>3, <2>1 DEF UpdatesTrue
<1>5. CASE Hear
  <2>1. PICK r \in Replies : r = Head(mailbox) /\ mailbox # <<>>
    BY <1>2, <1>5 DEF Hear
  <2>2. r = mailbox[1] /\ 1 \in DOMAIN mailbox
    BY <1>2, <2>1
  <2>3. r.item \in Items /\ r.state \in Statuses
    BY DEF Replies
  <2>4. s \in shown[i] \/ (i = r.item /\ s = r.state)
    BY <1>2, <1>5, <2>1, <2>3 DEF Hear
  <2>5. CASE s \in shown[i]
    <3>1. s \in Statuses
      BY <1>2, <2>5
    <3> QED BY <1>1, <1>3, <2>5, <3>1 DEF UpdatesTrue
  <2>6. CASE i = r.item /\ s = r.state
    <3>1. InMailbox(i, s) /\ s \in Statuses
      BY <2>2, <2>3, <2>6 DEF InMailbox
    <3> QED BY <1>1, <1>3, <3>1 DEF MailTrue
  <2> QED BY <2>4, <2>5, <2>6
<1>6. shown' = shown \/ Hear
  <2>1. CASE ClientStep
    BY <2>1 DEF ClientStep, Ask, RelayTakes, Answered, Unanswered
  <2>2. CASE PollerStep
    BY <2>2 DEF PollerStep, Poll, PollFails, Ack, ReadPage, Admit, Duplicate, Keep,
                PostOk, PostFails, RecordSent
  <2>3. CASE HostStep /\ ~PollerStep
    BY <2>3 DEF HostStep, HandOffStep, HandOff, HandOffFails, ReportFailure, RunStep,
                StartTyping, EndTyping, ReportJob, JobDone
  <2>4. CASE ControlPlane \/ Crash \/ Restart \/ Reregister \/ UNCHANGED vars
    BY <2>4 DEF ControlPlane, Leaves, Crash, Restart, Reregister, vars
  <2>5. CASE RecoveryStep
    BY <2>5 DEF RecoveryStep, RecoveryEnds, MarkUncertain, ReportUncertain
  <2> QED BY <2>1, <2>2, <2>3, <2>4, <2>5 DEF Next, HostStep
<1> QED BY <1>4, <1>5, <1>6

\* meshJobs.ts shows what the daemon answered: whatever is lost, repeated or cut
\* short between them, every update of a job or a message is true of the ledger.
THEOREM ShownIsTrue == Spec => []UpdatesTrue
<1>1. TruthInv /\ [Next]_vars => TruthInv'
  <2>1. TruthInv /\ [Next]_vars => TypeInv' /\ RowLabel'
    BY TypeStep, LedgerGrows DEF TruthInv
  <2> QED BY <2>1, OutStaysTrue, MailStaysTrue, ShownStaysTrue DEF TruthInv
<1>2. TruthInv => UpdatesTrue
  BY DEF TruthInv
<1> QED BY <1>1, <1>2, TruthInit, PTL DEF Spec
=============================================================================
