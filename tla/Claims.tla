------------------------------- MODULE Claims -------------------------------
(* Terminal credentials and file claims of a workspace: TerminalRegistry      *)
(* (canopy-service/src/terminals.rs), the claim operations of workspace.rs    *)
(* with canopy-core's release_paths, Service::reconcile (service.rs:214), and *)
(* the gateway that mints, binds and revokes (remote-host/service-harness.mjs *)
(* over runner.mjs's sessions).  A terminal t is a spawn request; the runner  *)
(* gives each its own session id and never reuses one, so t names it too.     *)
(* Left out: describe, structured runners, refusals and notes on claims, the  *)
(* prune of ended terminals, a claims file that cannot be written.            *)
EXTENDS EventStream, Aged

CONSTANTS Terms,     \* spawn requests
          Paths,     \* the paths agents claim
          Within,    \* pairs <<p, q>>: p lies inside directory q
          Wants,     \* sets of paths a call may name
          MaxEnded   \* MAX_ENDED_CLAIMS

ASSUME ClaimsAssumption == /\ Within \subseteq Paths \X Paths
                           /\ Wants \subseteq SUBSET Paths
                           /\ MaxEnded \in Nat

\* Before bind a record's pty id is 0, whichever terminal it is.
Unbound == "pty 0"
Keys == Terms \cup {Unbound}

VARIABLES terms,     \* TerminalRecord by request: its state, and whether minted long ago
          children,  \* the runner's session of each spawn
          gateway,   \* the gateway's entry: none, credential minted, bind sent, bound
          swept,     \* observeSessions: the live sessions, the entries still to judge
          recon,     \* reconcile: where it is, what it holds
          ending,    \* terminals revoked whose claims are not released yet
          calls,     \* claim calls between the caller's lookup and the transaction
          rows       \* the claims file, by age

termVars == <<terms, children, gateway, swept, recon, ending>>
claimVars == <<calls, rows>>

Idle == [at |-> "idle", late |-> {}, old |-> {}, list |-> {}, doomed |-> {}]
NoSweep == [at |-> "idle", list |-> {}, left |-> {}]

\* The daemon is started over its files: either fresh ones, or a registry whose
\* terminals are all bound and running.
ClaimsInit ==
  /\ terms = [t \in Terms |-> [state |-> IF budget.running > 0 THEN "bound" ELSE "none",
                               old |-> FALSE]]
  /\ children = [t \in Terms |-> IF budget.running > 0 THEN "alive" ELSE "none"]
  /\ gateway = [t \in Terms |-> IF budget.running > 0 THEN "known" ELSE "none"]
  /\ swept = NoSweep /\ recon = Idle
  /\ ending = {} /\ calls = {} /\ rows = <<>>

Live(t) == terms[t].state \in {"minted", "bound"}
\* A record keeps its pty id when it is revoked.
Key(t) == IF terms[t].state \in {"bound", "ended"} THEN t ELSE Unbound

-----------------------------------------------------------------------------
(* The gateway and the runner.                                                *)

Mint(t) ==
  /\ terms[t].state = "none" /\ Spend("terminals")
  /\ terms' = [terms EXCEPT ![t].state = "minted"]
  /\ gateway' = [gateway EXCEPT ![t] = "minted"]
  /\ Announced("mesh")
  /\ UNCHANGED <<children, swept, recon, ending, claimVars>>

\* A credential not bound for UNBOUND_TTL_MS.
Age(t) ==
  /\ terms[t] = [state |-> "minted", old |-> FALSE] /\ Spend("faults")
  /\ terms' = [terms EXCEPT ![t].old = TRUE]
  /\ UNCHANGED <<children, gateway, swept, recon, ending, claimVars, streamVars>>

\* The runner starts the child; the gateway's call is not answered yet.
Spawn(t) ==
  /\ gateway[t] = "minted" /\ children[t] = "none"
  /\ children' = [children EXCEPT ![t] = "alive"]
  /\ UNCHANGED <<terms, gateway, swept, recon, ending, claimVars, streamVars, budget>>

Exit(t) ==
  /\ children[t] = "alive"
  /\ children' = [children EXCEPT ![t] = "exited"]
  /\ UNCHANGED <<terms, gateway, swept, recon, ending, claimVars, streamVars, budget>>

\* The spawn's answer arrives: the entry knows its session, and bind is sent.
Spawned(t) ==
  /\ gateway[t] = "minted" /\ children[t] # "none"
  /\ gateway' = [gateway EXCEPT ![t] = "binding"]
  /\ UNCHANGED <<terms, children, swept, recon, ending, claimVars, streamVars, budget>>

Bind(t) ==
  /\ gateway[t] = "binding" /\ terms[t].state = "minted"
  /\ terms' = [terms EXCEPT ![t].state = "bound"]
  /\ recon' = [recon EXCEPT !.late = IF recon.at \in {"asked", "listed"} THEN @ \cup {t} ELSE @]
  /\ Announced("mesh")
  /\ UNCHANGED <<children, gateway, swept, ending, claimVars, budget>>

\* Its answer arrives.
Answered(t) ==
  /\ gateway[t] = "binding" /\ terms[t].state \in {"bound", "ended"}
  /\ gateway' = [gateway EXCEPT ![t] = "known"]
  /\ UNCHANGED <<terms, children, swept, recon, ending, claimVars, streamVars, budget>>

\* TerminalRegistry::revoke.  The record's key outlives it.
Revoked(t) ==
  /\ terms' = [terms EXCEPT ![t] = [state |-> IF @.state = "bound" THEN "ended" ELSE "revoked",
                                    old |-> FALSE]]
  /\ ending' = ending \cup {t}

\* The gateway forgets an entry and has it revoked.
Forgets(t) ==
  /\ gateway' = [gateway EXCEPT ![t] = "none"]
  /\ IF Live(t) THEN Revoked(t) ELSE UNCHANGED <<terms, ending>>
  /\ UNCHANGED <<children, recon, claimVars, streamVars, budget>>

\* A spawn refused, an exit or a stop.
Revoke(t) ==
  /\ gateway[t] # "none" /\ (children[t] # "alive" \/ ~Live(t))
  /\ Forgets(t) /\ UNCHANGED swept

\* bind is refused, or fails on its way whether or not it was done: the
\* terminal is revoked while its child runs.
BindFails(t) == gateway[t] = "binding" /\ Forgets(t) /\ UNCHANGED swept

\* The gateway asks the runner for its sessions ...
Sweep ==
  /\ swept.at = "idle" /\ Spend("sweeps")
  /\ swept' = [NoSweep EXCEPT !.at = "asked", !.list = {t \in Terms : children[t] = "alive"}]
  /\ UNCHANGED <<terms, children, gateway, recon, ending, claimVars, streamVars>>

\* ... and copies its entries when the answer is there ...
Observe ==
  /\ swept.at = "asked"
  /\ swept' = [swept EXCEPT !.at = "walking", !.left = {t \in Terms : gateway[t] # "none"}]
  /\ UNCHANGED <<terms, children, gateway, recon, ending, claimVars, streamVars, budget>>

\* ... each of which is judged in its turn: one the answer does not list goes.
ObserveOne(t) ==
  /\ t \in swept.left
  /\ swept' = [swept EXCEPT !.left = @ \ {t}]
  /\ IF gateway[t] \in {"binding", "known"} /\ t \notin swept.list THEN Forgets(t)
     ELSE UNCHANGED <<terms, children, gateway, recon, ending, claimVars, streamVars, budget>>

Observed ==
  /\ swept.at = "walking" /\ swept.left = {}
  /\ swept' = NoSweep
  /\ UNCHANGED <<terms, children, gateway, recon, ending, claimVars, streamVars, budget>>

\* revoke_terminal after the registry: the claims end, then both changes are
\* published.
Released(k) == [i \in DOMAIN rows |->
                 IF rows[i].key = k THEN [rows[i] EXCEPT !.live = FALSE] ELSE rows[i]]
Holds(k) == \E i \in DOMAIN rows : rows[i].live /\ rows[i].key = k

Release(t) ==
  /\ t \in ending
  /\ ending' = ending \ {t}
  /\ rows' = Released(Key(t))
  /\ Committed({}, IF Holds(Key(t)) THEN Both("mesh", "terminals") ELSE One("terminals"))
  /\ UNCHANGED <<log, cursor, terms, children, gateway, swept, recon, calls, budget>>

-----------------------------------------------------------------------------
(* Reconciliation with the runner.                                            *)

\* The time is taken before the list is asked for.
Reconcile ==
  /\ recon.at = "idle" /\ Spend("reconciles")
  /\ recon' = [Idle EXCEPT !.at = "asked", !.old = {t \in Terms : terms[t].old}]
  /\ UNCHANGED <<terms, children, gateway, swept, ending, claimVars, streamVars>>

ListSessions ==
  /\ recon.at = "asked"
  /\ recon' = [recon EXCEPT !.at = "listed", !.list = {t \in Terms : children[t] = "alive"}]
  /\ UNCHANGED <<terms, children, gateway, swept, ending, claimVars, streamVars, budget>>

\* Defect: one bound while the list was on its way is judged by it.
KeptIfListed(t) == IF terms[t].state = "bound" THEN t \in recon.list ELSE t \notin recon.old

\* Bound and listed, or unbound and young; one bound since is left for later.
Kept(t) == IF terms[t].state = "bound" THEN t \in recon.late \cup recon.list
           ELSE t \notin recon.old

\* The records are copied and judged; each is revoked in a step of its own.
Judge ==
  /\ recon.at = "listed"
  /\ recon' = [Idle EXCEPT !.at = "judged",
                 !.doomed = {[term |-> t, bound |-> terms[t].state = "bound"] :
                             t \in {x \in Terms : Live(x) /\ ~Kept(x)}}]
  /\ UNCHANGED <<terms, children, gateway, swept, ending, claimVars, streamVars, budget>>

Doom(d) ==
  /\ recon.at = "judged"
  /\ recon' = [recon EXCEPT !.doomed = @ \ {d}]
  /\ IF Live(d.term) THEN Revoked(d.term) ELSE UNCHANGED <<terms, ending>>
  /\ UNCHANGED <<children, gateway, swept, claimVars, streamVars, budget>>

Reconciled ==
  /\ recon.at = "judged" /\ recon.doomed = {}
  /\ recon' = Idle
  /\ UNCHANGED <<terms, children, gateway, swept, ending, claimVars, streamVars, budget>>

-----------------------------------------------------------------------------
(* Claims.                                                                    *)

Inside(p, q) == p = q \/ <<p, q>> \in Within
Overlap(p, q) == Inside(p, q) \/ Inside(q, p)

Held(k) == UNION {rows[i].paths : i \in {j \in DOMAIN rows : rows[j].live /\ rows[j].key = k}}

\* The caller is looked up by its credential, outside the transaction; a call
\* made before bind carries the key of pty 0.
Call(t, op, P) ==
  /\ op \in {"claim", "release"} /\ P \in Wants /\ (op = "claim" => P # {})
  /\ Live(t) /\ children[t] = "alive" /\ Spend("claims")
  /\ calls' = calls \cup {[key |-> Key(t), op |-> op, paths |-> P]}
  /\ UNCHANGED <<termVars, rows, streamVars>>

\* hotspot_claim, made by the window for the terminal by_pty finds.
Hotspot(t, P) ==
  /\ terms[t].state = "bound" /\ P \in Wants \ {{}} /\ Spend("claims")
  /\ calls' = calls \cup {[key |-> t, op |-> "hotspot", paths |-> P]}
  /\ UNCHANGED <<termVars, rows, streamVars>>

\* The user ends what one key holds (release_claims_of).
Free(k) ==
  /\ Spend("claims")
  /\ calls' = calls \cup {[key |-> k, op |-> "free", paths |-> {}]}
  /\ UNCHANGED <<termVars, rows, streamVars>>

Collides(k, P) == \E i \in DOMAIN rows :
  /\ rows[i].live /\ rows[i].key # k
  /\ \E p \in rows[i].paths, q \in P : Overlap(p, q)

\* The oldest ended rows beyond MaxEnded go.
Prune(file) == CutOld(file, {i \in DOMAIN file : ~file[i].live}, MaxEnded)

\* apply_claim: refused on a collision, else in place of what the key held.
ApplyClaim(k, P) ==
  IF Collides(k, P) THEN rows
  ELSE Prune(Added(Released(k), [key |-> k, paths |-> P, live |-> TRUE]))

\* Defect: a successor is pushed even when nothing is left to hold.
ReleaseToNothing(k, P) ==
  Added(Released(k), [key |-> k, live |-> TRUE,
                       paths |-> {p \in Held(k) : \A q \in P : ~Inside(p, q)}])

\* release_paths: the rest of what the key holds goes on in one successor.
\* A release that names no path ends all.
ReleasePaths(k, P) ==
  LET kept == {p \in Held(k) : \A q \in P : ~Inside(p, q)} IN
  IF P = {} \/ kept = {} THEN Released(k)
  ELSE IF kept = Held(k) THEN rows
  ELSE Added(Released(k), [key |-> k, paths |-> kept, live |-> TRUE])

\* Defect: the hotspot is added without asking who else holds it.
HotspotUnchecked(k, P) ==
  Added(Released(k), [key |-> k, paths |-> Held(k) \cup P, live |-> TRUE])
\* Defect: the hotspot's claim takes the place of what the terminal held.
HotspotReplaces(k, P) == ApplyClaim(k, P)

\* What the hotspot names is added to what the terminal holds.
ApplyHotspot(k, P) ==
  IF \A p \in P : \E h \in Held(k) : Inside(p, h) THEN rows
  ELSE ApplyClaim(k, Held(k) \cup P)

Outcome(c) ==
  CASE c.op = "claim" -> ApplyClaim(c.key, c.paths)
    [] c.op = "release" -> ReleasePaths(c.key, c.paths)
    [] c.op = "free" -> Released(c.key)
    [] c.op = "hotspot" -> ApplyHotspot(c.key, c.paths)

\* One transaction on the claims file.
Transact(c) ==
  /\ calls' = calls \ {c}
  /\ rows' = Outcome(c)
  /\ IF c.op \in {"claim", "release"} \/ rows' # rows
       THEN Announced("mesh") ELSE UNCHANGED streamVars
  /\ UNCHANGED <<termVars, budget>>

-----------------------------------------------------------------------------

\* The daemon dies: the registry and the claims file are on disk.
ClaimsRestart ==
  /\ recon' = Idle /\ ending' = {} /\ calls' = {}
  /\ UNCHANGED <<terms, children, gateway, swept, rows>>

ClaimsNext ==
  \/ \E t \in Terms : \/ Mint(t) \/ Age(t) \/ Spawn(t) \/ Exit(t) \/ Spawned(t)
                      \/ Bind(t) \/ Answered(t) \/ BindFails(t) \/ Revoke(t) \/ Release(t)
                      \/ \E P \in Wants : \/ \E op \in {"claim", "release"} : Call(t, op, P)
                                          \/ Hotspot(t, P)
  \/ Sweep \/ Observe \/ (\E t \in Terms : ObserveOne(t)) \/ Observed
  \/ Reconcile \/ ListSessions \/ Judge \/ Reconciled
  \/ \E d \in recon.doomed : Doom(d)
  \/ \E k \in Keys : Free(k)
  \/ \E c \in calls : Transact(c)

-----------------------------------------------------------------------------

ClaimsTypeOK ==
  /\ \A t \in Terms : terms[t].state \in {"none", "minted", "bound", "revoked", "ended"}
  /\ \A t \in Terms : children[t] \in {"none", "alive", "exited"}
  /\ \A t \in Terms : gateway[t] \in {"none", "minted", "binding", "known"}
  /\ recon.at \in {"idle", "asked", "listed", "judged"}
  /\ ending \subseteq Terms
  /\ \A i \in DOMAIN rows : rows[i].key \in Keys /\ rows[i].paths \in (SUBSET Paths) \ {{}}

\* Two agents never hold overlapping paths, whatever was claimed, widened by a
\* hotspot, split by a partial release or superseded in between; and a key has
\* one live claim (workspace.rs:690-780, claims.rs:78-135).
Disjoint == \A i, j \in DOMAIN rows : rows[i].live /\ rows[j].live /\ i # j =>
  /\ rows[i].key # rows[j].key
  /\ \A p \in rows[i].paths, q \in rows[j].paths : ~Overlap(p, q)

\* What reconcile is about to revoke as bound has really ended: a terminal
\* bound while the session list was on its way is not taken for a dead one
\* (service.rs:250-254).
LiveSpared == \A d \in recon.doomed : d.bound => children[d.term] # "alive"

\* A path held under a key is let go only by a call under that key, by the
\* revocation of that terminal, or by the user; not by a call under another
\* key, a hotspot that widens it, or the prune of ended claims.  Agents that
\* are not bound yet share one key, and a claim of one replaces another's.
HeldStays == [][
  \A k \in Keys : \/ Held(k) \subseteq Held(k)'
                  \/ \E c \in calls \ calls' : c.key = k /\ c.op # "hotspot"
                  \/ \E t \in ending \ ending' : Key(t) = k]_<<claimVars, termVars>>
=============================================================================
