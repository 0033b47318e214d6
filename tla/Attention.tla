------------------------------ MODULE Attention ------------------------------
(* Questions agents put to the user: AttentionStore                           *)
(* (canopy-service/src/attention.rs) and the ask handler that waits on it     *)
(* (agent.rs:1030).  A question is named by the caller's request id; an agent *)
(* whose connection broke asks again under the same.  Fyi items matter to the *)
(* others through the prune only.  Left out: a caller whose key changes, and  *)
(* an item that cannot be written.                                            *)
EXTENDS EventStream, Aged

CONSTANTS Requests,    \* request ids of questions
          Answers,     \* what the user may answer
          MaxResolved  \* MAX_RESOLVED

\* Names and answers are apart from the words for their absence.
ASSUME AttentionAssumption ==
  /\ MaxResolved \in Nat \ {0}
  /\ "fyi" \notin Requests
  /\ Answers \cap {"pending", "expired", "nothing", "none"} = {}

Pending == "pending"
Expired == "expired"
Nothing == "nothing"     \* unwrap_or_default: the waiter found no item

VARIABLES items,   \* the items, by age: name ("fyi" or a request), resolution, whether due
          asks,    \* requests whose call waits on its item
          won,     \* history: the resolutions each request has had
          pruned,  \* history: requests whose item was pruned
          told     \* history: what each request's callers were answered

attentionVars == <<items, asks, won, pruned, told>>

AttentionInit ==
  /\ items = <<>>
  /\ asks = {}
  /\ won = [q \in Requests |-> {}]
  /\ pruned = {}
  /\ told = [q \in Requests |-> {}]

At(q) == {i \in DOMAIN items : items[i].name = q}
Has(q) == At(q) # {}
Of(q) == items[CHOOSE i \in At(q) : TRUE]

\* The oldest items that do not wait for the user, beyond MaxResolved, go.
PruneItems(file) == CutOld(file, {i \in DOMAIN file : file[i].res # Pending}, MaxResolved)

\* The items become file, less what prune takes.
Keep(file) ==
  /\ items' = PruneItems(file)
  /\ pruned' = pruned \cup {q \in Requests : /\ \E i \in DOMAIN file : file[i].name = q
                                             /\ \A i \in DOMAIN items' : items'[i].name # q}

\* fyi: an item that asks nothing.
Posted ==
  /\ Keep(Added(items, [name |-> "fyi", res |-> "none", due |-> FALSE]))
  /\ UNCHANGED <<asks, won, told>>

Fyi == Spend("fyis") /\ Posted /\ Changed("attention")

\* A new question, or the caller's own of the same request id.
AskUser(q) ==
  /\ q \notin asks /\ Spend("asks")
  /\ asks' = asks \cup {q}
  /\ IF Has(q) THEN UNCHANGED <<items, streamVars>>
     ELSE /\ items' = Added(items, [name |-> q, res |-> Pending, due |-> FALSE])
          /\ Changed("attention")
  /\ UNCHANGED <<won, pruned, told>>

\* Defect: a second resolution replaces the first.
OpenWhileThere(q) == Has(q)
Open(q) == Has(q) /\ Of(q).res = Pending

\* resolve: the first resolution stays.
Resolve(q, v) ==
  /\ Open(q)
  /\ Keep([i \in DOMAIN items |-> IF i \in At(q) THEN [items[i] EXCEPT !.res = v] ELSE items[i]])
  /\ won' = [won EXCEPT ![q] = @ \cup {v}]
  /\ Changed("attention")
  /\ UNCHANGED <<asks, told, budget>>

Answer(q, a) == Resolve(q, a)

\* The deadline passes ...
Deadline(q) ==
  /\ Open(q) /\ ~Of(q).due
  /\ items' = [i \in DOMAIN items |->
                IF i \in At(q) THEN [items[i] EXCEPT !.due = TRUE] ELSE items[i]]
  /\ UNCHANGED <<asks, won, pruned, told, streamVars, budget>>

\* ... and the sweeper, or the waiter, expires it.
Expire(q) == Has(q) /\ Of(q).due /\ Resolve(q, Expired)

\* Defect: a waiter whose item is gone goes on waiting.
TellFound(q) ==
  /\ q \in asks /\ Has(q) /\ Of(q).res # Pending
  /\ asks' = asks \ {q}
  /\ told' = [told EXCEPT ![q] = @ \cup {Of(q).res}]
  /\ UNCHANGED <<items, won, pruned, streamVars, budget>>

\* wait returns, and the handler answers its caller.
Tell(q) ==
  /\ q \in asks
  /\ Has(q) => Of(q).res # Pending
  /\ asks' = asks \ {q}
  /\ told' = [told EXCEPT ![q] = @ \cup {IF Has(q) THEN Of(q).res ELSE Nothing}]
  /\ UNCHANGED <<items, won, pruned, streamVars, budget>>

\* The daemon dies: each item is a file, written before anyone learns of it;
\* the calls that waited are cut.
AttentionRestart ==
  /\ asks' = {}
  /\ UNCHANGED <<items, won, pruned, told>>

AttentionNext ==
  \/ Fyi
  \/ \E q \in Requests : \/ AskUser(q) \/ Deadline(q) \/ Expire(q) \/ Tell(q)
                         \/ \E a \in Answers : Answer(q, a)

-----------------------------------------------------------------------------

AttentionTypeOK ==
  /\ \A i \in DOMAIN items : /\ items[i].name \in Requests \cup {"fyi"}
                             /\ items[i].res \in Answers \cup {Pending, Expired, "none"}
  /\ asks \subseteq Requests /\ pruned \subseteq Requests

\* What a caller is answered is the one resolution its question had, also when
\* it asks again after the daemon was started anew and when an answer meets the
\* deadline; an expiry never reads as an answer.  Only a question that was
\* pruned may tell its caller nothing, or be put to the user twice
\* (attention.rs:1-5, 162-222).
OneAnswer == \A q \in Requests : q \notin pruned =>
  Cardinality(won[q]) <= 1 /\ told[q] \subseteq won[q]

\* A caller is answered in the end: the question resolves at its deadline if
\* nobody answers.
AskerTold == \A q \in Requests : q \in asks ~> q \notin asks
=============================================================================
