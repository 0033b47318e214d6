---------------------------- MODULE EventStream ----------------------------
(* The change stream of a workspace (canopy-service/src/stream.rs) with the   *)
(* handler that serves it and the one window that mirrors the workspace       *)
(* (src/remoteExecution/harnessStream.ts).  A store is written, and only then *)
(* is the change published: numbered, kept in a ring of Window and queued for *)
(* the subscriber.  One write is not published: the line typed for a message, *)
(* which note_delivery adds to the mesh store (canopy-core/src/mesh.rs).  The *)
(* window holds a copy of each store in HARNESS_STORES; what the copy says is *)
(* abstracted to whether the store was written since it was read ("stale"),   *)
(* that line apart from the rest of mesh.  Left out: several windows, and the *)
(* gateway between, which passes bytes and may close (Drop).                  *)
EXTENDS Integers, Sequences, FiniteSets

CONSTANTS Window,     \* REPLAY_WINDOW
          QueueSize,  \* SUBSCRIBER_QUEUE
          Written,    \* bound: which of notes and research are written
          Noted,      \* bound: the names that are announced by themselves
          Mixes       \* bound: the budgets a behaviour may start with

HARNESS_STORES == {"mesh", "notes", "research", "attention"}

\* The field of a mesh message that is written without an event, and the parts
\* of the window's copy it makes.
Notice == "delivered"
Parts == HARNESS_STORES \cup {Notice}
StoreOf(p) == IF p = Notice THEN "mesh" ELSE p
PartsOf(s) == {p \in Parts : StoreOf(p) = s}

ASSUME StreamAssumption == /\ Window \in Nat \ {0} /\ QueueSize \in Nat
                           /\ QueueSize > Window
                           /\ Written \subseteq {"notes", "research"}

\* Every name the service gives to publish.
Stores == HARNESS_STORES \cup {"terminals", "access", "deliveries"}
NoCursor == [epoch |-> 0, seq |-> 0]

VARIABLES log,     \* EventLog: the epoch, the last number, the ring of changes
          pubs,    \* changes committed whose publish has not run, by store
          sub,     \* the window's connection and the subscription behind it
          cursor,  \* the window's HarnessStream.cursor
          stale,   \* parts written since the window's copy was read
          budget   \* bound: how many operations and faults of each kind are left

streamVars == <<log, pubs, sub, cursor, stale>>

Off == [at |-> "off", mark |-> 0, rx |-> <<>>, over |-> FALSE, since |-> {}]

\* One operation or fault of kind k is spent.
Spend(k) == budget[k] > 0 /\ budget' = [budget EXCEPT ![k] = @ - 1]

StreamInit ==
  /\ log = [epoch |-> 1, seq |-> 0, ring |-> <<>>]
  /\ pubs = [s \in Stores |-> 0]
  /\ sub = Off
  /\ cursor = NoCursor
  /\ stale = IF budget.window > 0 THEN Parts ELSE {}

-----------------------------------------------------------------------------
(* Writers: an operation commits to its stores, and publishes later.          *)

\* The parts in changed are written; each count in events is to be published.
\* A behaviour that has no window has no reader of the stream, and leaves it out.
Committed(changed, events) ==
  IF budget.window = 0 THEN UNCHANGED <<pubs, stale, sub>> ELSE
  /\ pubs' = [s \in Stores |-> pubs[s] + events[s]]
  /\ stale' = stale \cup changed
  /\ sub' = [sub EXCEPT !.since =
               IF sub.at \in {"sent", "asked"} THEN @ \cup changed ELSE @]

No == [x \in Stores |-> 0]
One(s) == [x \in Stores |-> IF x = s THEN 1 ELSE 0]
Both(s, t) == [x \in Stores |-> One(s)[x] + One(t)[x]]
\* A store of the mirror was written.
Changed(s) == Committed({s}, One(s)) /\ UNCHANGED <<log, cursor>>
\* Something no window copies changed, and is announced under the name s.
Announced(s) == Committed({}, One(s)) /\ UNCHANGED <<log, cursor>>

\* The newest Window of the changes.
Ring(q) == IF Len(q) > Window THEN Tail(q) ELSE q

\* Defect: a full queue loses the change.
SentOrLost(change) ==
  IF sub.at = "off" \/ Len(sub.rx) >= QueueSize THEN sub
  ELSE [sub EXCEPT !.rx = Append(@, change)]

\* A subscriber whose queue is full is dropped and told so.
Sent(change) ==
  IF sub.at = "off" \/ sub.over THEN sub
  ELSE IF Len(sub.rx) < QueueSize THEN [sub EXCEPT !.rx = Append(@, change)]
  ELSE [sub EXCEPT !.over = TRUE]

Publish(s) ==
  LET change == [seq |-> log.seq + 1, store |-> s] IN
  /\ pubs[s] > 0
  /\ pubs' = [pubs EXCEPT ![s] = @ - 1]
  /\ log' = [log EXCEPT !.seq = @ + 1, !.ring = Ring(Append(@, change))]
  /\ sub' = Sent(change)
  /\ UNCHANGED <<cursor, stale>>

-----------------------------------------------------------------------------
(* The window.                                                                *)

\* The changes of the ring with a number above n; they are numbered without a
\* hole up to log.seq.
After(n) == LET k == log.seq - n IN
  [i \in 1 .. k |-> log.ring[Len(log.ring) - k + i]]

\* Defect: the epoch of a cursor is not looked at.
ResumableByNumber(c) ==
  /\ c.epoch > 0 /\ c.seq <= log.seq
  /\ log.ring = <<>> \/ c.seq + 1 >= Head(log.ring).seq

\* subscribe's filters: of this epoch, not of the future, and nothing between
\* the cursor and the ring.
Resumable(c) ==
  /\ c.epoch = log.epoch
  /\ c.seq <= log.seq
  /\ log.ring = <<>> \/ c.seq + 1 >= Head(log.ring).seq

Subscribe ==
  /\ sub.at = "off"
  /\ sub' = IF Resumable(cursor)
              THEN [Off EXCEPT !.at = "on", !.rx = After(cursor.seq)]
              ELSE [Off EXCEPT !.at = "owed", !.mark = log.seq]
  /\ UNCHANGED <<log, pubs, cursor, stale>>

\* The handler reads the stores after the subscriber is registered.
BuildSnapshot ==
  /\ sub.at = "owed"
  /\ sub' = [sub EXCEPT !.at = "sent"]
  /\ UNCHANGED <<log, pubs, cursor, stale>>

TakeSnapshot ==
  /\ sub.at = "sent"
  /\ stale' = sub.since
  /\ cursor' = [epoch |-> log.epoch, seq |-> sub.mark]
  /\ sub' = [sub EXCEPT !.at = "on", !.since = {}, !.mark = 0]
  /\ UNCHANGED <<log, pubs>>

\* A change names a store, which the window reads again ...
Ask ==
  /\ sub.at = "on" /\ sub.rx # <<>> /\ Head(sub.rx).store \in HARNESS_STORES
  /\ sub' = [sub EXCEPT !.at = "asked"]
  /\ UNCHANGED <<log, pubs, cursor, stale>>

\* ... and only with the answer in hand does the cursor move.
Apply ==
  LET c == Head(sub.rx) IN
  /\ sub.at = "asked"
  /\ stale' = (stale \ PartsOf(c.store)) \cup (sub.since \cap PartsOf(c.store))
  /\ cursor' = [epoch |-> log.epoch, seq |-> c.seq]
  /\ sub' = [sub EXCEPT !.at = "on", !.rx = Tail(@), !.since = {}]
  /\ UNCHANGED <<log, pubs>>

\* 'Invalid harness change': a store the window does not know ends the
\* connection, and the cursor stays before that change.
Refuse ==
  /\ sub.at = "on" /\ sub.rx # <<>> /\ Head(sub.rx).store \notin HARNESS_STORES
  /\ sub' = Off
  /\ UNCHANGED <<log, pubs, cursor, stale>>

\* The queue of a dropped subscriber has run dry.
Resnapshot ==
  /\ sub.at = "on" /\ sub.rx = <<>> /\ sub.over
  /\ cursor' = NoCursor
  /\ sub' = Off
  /\ UNCHANGED <<log, pubs, stale>>

WindowStep == Subscribe \/ BuildSnapshot \/ TakeSnapshot \/ Ask \/ Apply
                \/ Refuse \/ Resnapshot

\* The connection is lost, at the gateway's side or on the way.
Drop ==
  /\ sub.at # "off"
  /\ sub' = Off
  /\ UNCHANGED <<log, pubs, cursor, stale>>

\* The daemon is started again: a new epoch, and nothing left to publish.
StreamRestart ==
  /\ log' = [epoch |-> log.epoch + 1, seq |-> 0, ring |-> <<>>]
  /\ pubs' = [s \in Stores |-> 0]
  /\ sub' = Off
  /\ UNCHANGED <<cursor, stale>>

-----------------------------------------------------------------------------

StreamTypeOK ==
  /\ log.epoch \in Nat \ {0} /\ log.seq \in Nat /\ Len(log.ring) <= Window
  /\ \A i \in DOMAIN log.ring :
       log.ring[i] = [seq |-> log.seq - Len(log.ring) + i, store |-> log.ring[i].store]
  /\ pubs \in [Stores -> Nat]
  /\ sub.at \in {"off", "owed", "sent", "on", "asked"}
  /\ Len(sub.rx) <= QueueSize /\ sub.over \in BOOLEAN /\ sub.since \subseteq Parts
  /\ cursor.epoch <= log.epoch
  /\ stale \subseteq Parts

Named(q, s) == \E i \in DOMAIN q : q[i].store = s

\* The window is going to read part p again without anything more happening.
Learns(p) ==
  LET s == StoreOf(p) IN
  \/ sub.over
  \/ Named(sub.rx, s) /\ ~(sub.at = "asked" /\ p \in sub.since /\ ~Named(Tail(sub.rx), s))
  \/ CASE sub.at = "off" -> ~Resumable(cursor) \/ Named(After(cursor.seq), s)
       [] sub.at = "owed" -> TRUE
       [] sub.at = "sent" -> p \notin sub.since
       [] OTHER -> FALSE

\* A publication of it is coming, or a snapshot or a change on its way.
Coming(p) == pubs[StoreOf(p)] > 0 \/ Learns(p)

\* No write but that of a typed line is missed without the window's knowing: a
\* copy that is older than its store has a publication coming, or a snapshot or
\* change on its way that replaces it - through dropped connections, full
\* queues, a ring that has moved on, a snapshot raced by writes and a daemon
\* started again (stream.rs:115-119), and beside lines that are written without
\* a word (mesh.rs:319-328).
NoHiddenGap == \A s \in stale \ {Notice} : Coming(s)

\* A change the window refuses lies ahead of its cursor.
Refused == \E i \in DOMAIN log.ring :
             /\ log.ring[i].store \notin HARNESS_STORES
             /\ cursor.epoch = log.epoch => log.ring[i].seq > cursor.seq
\* The window catches up with every write that is announced unless it meets a
\* change it refuses.
CatchesUp == \A s \in HARNESS_STORES : s \in stale ~> (s \notin stale \/ Refused)
\* The window mirrors what the service reports into its own stores
\* (harnessStream.ts:1-4): every announced write reaches it in the end.
Mirrors == \A s \in HARNESS_STORES : s \in stale ~> s \notin stale
=============================================================================
