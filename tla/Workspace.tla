------------------------------ MODULE Workspace ------------------------------
(* One workspace of canopy-service as its agents, its gateway, its user and   *)
(* the window that mirrors it meet it: terminals and claims (Claims),         *)
(* questions (Attention) and the change stream (EventStream) in one daemon    *)
(* that may die at any step and be started again over what is on disk.  A     *)
(* message of an agent or the user is followed here as far as the stores the  *)
(* window copies; Delivery follows it to the terminal.  Bound: one message at *)
(* a time is on its way.                                                      *)
EXTENDS Claims, Attention

VARIABLE sending  \* what is still to be done of the message on its way

parts == <<termVars, claimVars, attentionVars>>
vars == <<streamVars, parts, sending, budget>>

Init ==
  /\ budget \in Mixes
  /\ StreamInit /\ ClaimsInit /\ AttentionInit
  /\ sending = {}

\* A note or a research entry is written.
Write(s) ==
  /\ s \in Written /\ Spend("writes")
  /\ Changed(s)
  /\ UNCHANGED <<parts, sending>>

\* Changes announced under names of their own: an agent's status, a signed
\* access snapshot.
Note(s) ==
  /\ s \in Noted /\ Spend("notes")
  /\ Announced(s)
  /\ UNCHANGED <<parts, sending>>

-----------------------------------------------------------------------------
(* A message: recorded and announced, then typed by a task of its own, which  *)
(* ends it, while the caller that was told of the typing writes the line.     *)

Send ==
  /\ sending = {} /\ Spend("sends")
  /\ sending' = {"note", "end"}
  /\ Changed("mesh")
  /\ UNCHANGED parts

\* note_delivery: the caller writes the line that was typed, and announces nothing.
NoteDelivery ==
  /\ "note" \in sending
  /\ sending' = sending \ {"note"}
  /\ Committed({Notice}, No)
  /\ UNCHANGED <<log, cursor, parts, budget>>

\* The Return landed: mark_submitted, and the row's end.
Submit ==
  /\ "end" \in sending
  /\ sending' = sending \ {"end"}
  /\ Committed({"mesh"}, Both("mesh", "deliveries"))
  /\ UNCHANGED <<log, cursor, parts, budget>>

\* It did not, or the line was never typed: then nobody notes it.
Fail ==
  /\ "end" \in sending
  /\ sending' \in {sending \ {"end"}, {}}
  /\ Announced("deliveries")
  /\ UNCHANGED <<parts, budget>>

\* recover_deliveries: what was queued is begun again, for nobody; of what may
\* have been typed the user is told.
Recover ==
  /\ "recover" \in sending
  /\ \/ sending' = {"end"} /\ UNCHANGED <<streamVars, attentionVars>>
     \/ /\ sending' = {} /\ Posted
        /\ Committed({"attention"}, Both("attention", "deliveries"))
        /\ UNCHANGED <<log, cursor>>
  /\ UNCHANGED <<termVars, claimVars, budget>>

SendStep == Send \/ NoteDelivery \/ Submit \/ Fail \/ Recover

-----------------------------------------------------------------------------

\* The window opens when the mix has one.
WindowRuns ==
  /\ budget.window > 0
  /\ WindowStep
  /\ UNCHANGED <<parts, sending, budget>>

Cut ==
  /\ Drop /\ Spend("faults")
  /\ UNCHANGED <<parts, sending>>

Published ==
  /\ \E s \in Stores : Publish(s)
  /\ UNCHANGED <<parts, sending, budget>>

\* The daemon dies and is started: reconcile runs again at activation, and a
\* message that had no end is recovered.
Restart ==
  /\ Spend("faults")
  /\ StreamRestart /\ ClaimsRestart /\ AttentionRestart
  /\ sending' = IF sending \subseteq {"note"} THEN {} ELSE {"recover"}

Next ==
  \/ ClaimsNext /\ UNCHANGED <<attentionVars, sending>>
  \/ AttentionNext /\ UNCHANGED <<termVars, claimVars, sending>>
  \/ \E s \in Stores : Write(s) \/ Note(s)
  \/ SendStep
  \/ WindowRuns \/ Cut \/ Published \/ Restart

Spec == Init /\ [][Next]_vars

(* Tasks run, time passes, the window reconnects for as long as it is open.   *)
Fairness ==
  /\ WF_vars(WindowRuns)
  /\ \A s \in Stores : WF_vars(Publish(s) /\ UNCHANGED <<parts, sending, budget>>)
  /\ \A q \in Requests :
       /\ WF_vars(Deadline(q) /\ UNCHANGED <<termVars, claimVars, sending>>)
       /\ WF_vars(Expire(q) /\ UNCHANGED <<termVars, claimVars, sending>>)
       /\ WF_vars(Tell(q) /\ UNCHANGED <<termVars, claimVars, sending>>)

FairSpec == Spec /\ Fairness

TypeOK == StreamTypeOK /\ ClaimsTypeOK /\ AttentionTypeOK
            /\ sending \subseteq {"note", "end", "recover"}
=============================================================================
