--------------------------- MODULE CollabSession ----------------------------
(***************************************************************************)
(* One shared document (collab.ts): the OwnerSession that orders all edits *)
(* by revision, the GuestSession of each teammate with one operation in    *)
(* flight and others queued behind it, and of the CollabManager and        *)
(* ProjectView what opens, serves and closes the document.                 *)
(*                                                                         *)
(* Frames between two members keep their order and are not lost.  What an  *)
(* operation is, how it is applied and transformed is left to parameters,  *)
(* for which collab-ot.ts (CollabOT) is put in the model.                  *)
(***************************************************************************)
EXTENDS Naturals, Sequences, FiniteSets

CONSTANTS
    Guests, Owner,       \* members: those who may open the document, its owner
    NoOps, NoHash,       \* null
    Texts, Ops,          \* all texts, all operations
    InitialText,
    HashEvery,           \* HASH_EVERY: a broadcast in so many carries a hash
    BaseLen(_),          \* baseLength of an operation
    Apply(_, _),         \* the text an operation makes of a text
    Transform(_, _),     \* <<a over b, b over a>>
    Changes(_, _),       \* the operations a member may make of a text
    MaxEdits,            \* bound on the edits of all members
    MaxAsks,             \* bound on the times the document is asked for
    MaxWaiting           \* bound on the asks a guest has waiting at one time

ASSUME CollabAssumption ==
    /\ Owner \notin Guests /\ NoOps \notin Ops /\ NoHash \notin Texts
    /\ InitialText \in Texts
    /\ HashEvery \in Nat \ {0}
    /\ MaxEdits \in Nat /\ MaxAsks \in Nat /\ MaxWaiting \in Nat

VARIABLES
    session,    \* the owner's session: none, live or closed
    text,       \* the owner's text
    history,    \* history[r]: the operation that led to revision r
    allowed,    \* members the document was offered to
    roster,     \* members who opened it
    guest,      \* each guest's session
    toOwner,    \* frames on their way from each guest to the owner
    toGuest,    \* frames on their way from the owner to each guest
    edits,      \* edits made so far
    asks        \* times a guest asked for the document

ownerVars == <<session, text, history, allowed, roster>>
counters  == <<edits, asks>>
vars      == <<ownerVars, guest, toOwner, toGuest, counters>>

revision == Len(history)

NoSession == [st |-> "out", offered |-> FALSE, text |-> InitialText, rev |-> 0,
              outstanding |-> NoOps, queued |-> <<>>]

Init ==
    /\ session = "none" /\ text = InitialText /\ history = <<>>
    /\ allowed = {} /\ roster = {}
    /\ guest = [g \in Guests |-> NoSession]
    /\ toOwner = [g \in Guests |-> <<>>]
    /\ toGuest = [g \in Guests |-> <<>>]
    /\ edits = 0
    /\ asks = 0

SessionRecords ==
    [st : {"out", "in", "orphaned"}, offered : BOOLEAN, text : Texts, rev : 0..revision,
     outstanding : Ops \union {NoOps}, queued : Seq(Ops)]

GuestFrames ==
    [kind : {"ask", "open", "resync", "close"}]
    \union [kind : {"ops"}, rev : 0..revision, ops : Ops]

OwnerFrames ==
    [kind : {"offer", "close"}]
    \union [kind : {"snapshot"}, rev : 0..revision, text : Texts]
    \union [kind : {"ops"}, rev : 1..revision, ops : Ops,
            author : Guests \union {Owner}, hash : Texts \union {NoHash}]

TypeOK ==
    /\ session \in {"none", "live", "closed"}
    /\ text \in Texts /\ history \in Seq(Ops)
    /\ allowed \subseteq Guests /\ roster \subseteq allowed
    /\ guest \in [Guests -> SessionRecords]
    /\ toOwner \in [Guests -> Seq(GuestFrames)]
    /\ toGuest \in [Guests -> Seq(OwnerFrames)]
    /\ edits \in 0..MaxEdits /\ asks \in 0..MaxAsks

Put(link, g, frame) == [link EXCEPT ![g] = Append(@, frame)]
Take(link, g)       == [link EXCEPT ![g] = Tail(@)]

\* Fault: a snapshot names the revision that comes next.
SnapshotAhead == [kind |-> "snapshot", rev |-> revision + 1, text |-> text]

Offer    == [kind |-> "offer"]
Snapshot == [kind |-> "snapshot", rev |-> revision, text |-> text]
Ask      == [kind |-> "ask"]
Open     == [kind |-> "open"]
Resync   == [kind |-> "resync"]
Close    == [kind |-> "close"]
Edit(rev, ops) == [kind |-> "ops", rev |-> rev, ops |-> ops]

-----------------------------------------------------------------------------
(* OwnerSession.                                                           *)

\* broadcast: the next revision, told to every member of the relay.
Broadcast(ops, author) ==
    /\ text' = Apply(text, ops)
    /\ history' = Append(history, ops)
    /\ LET rev == revision + 1
           frame == [kind |-> "ops", rev |-> rev, ops |-> ops, author |-> author,
                     hash |-> IF rev % HashEvery = 0 THEN text' ELSE NoHash]
       IN  toGuest' = [g \in Guests |-> Append(toGuest[g], frame)]

OwnerEdits(ops) ==
    /\ session = "live" /\ edits < MaxEdits
    /\ Broadcast(ops, Owner)
    /\ edits' = edits + 1
    /\ UNCHANGED <<session, allowed, roster, guest, toOwner, asks>>

\* The owner closes the file or stops sharing: whoever has it open is told.
OwnerCloses ==
    /\ session = "live" /\ session' = "closed"
    /\ toGuest' = [g \in Guests |-> Append(toGuest[g], Close)]
    /\ UNCHANGED <<text, history, allowed, roster, guest, toOwner, counters>>

OwnerReads(g, kind) == toOwner[g] # <<>> /\ Head(toOwner[g]).kind = kind

\* onServeFile: the file is shared, once for all, and offered to who asked.
ServeFile(g) ==
    /\ OwnerReads(g, "ask") /\ session # "closed"
    /\ session' = "live"
    /\ allowed' = allowed \union {g}
    /\ toGuest' = Put(toGuest, g, Offer)
    /\ toOwner' = Take(toOwner, g)
    /\ UNCHANGED <<text, history, roster, guest, counters>>

\* open, from whom it was offered to, or resync, from whom opened it.
Admits(g, f) == IF f.kind = "open" THEN g \in allowed
                ELSE f.kind = "resync" /\ g \in roster

SendSnapshot(g) ==
    /\ toOwner[g] # <<>> /\ session = "live" /\ Admits(g, Head(toOwner[g]))
    /\ roster' = roster \union {g}
    /\ toGuest' = Put(toGuest, g, Snapshot)
    /\ toOwner' = Take(toOwner, g)
    /\ UNCHANGED <<session, text, history, allowed, guest, counters>>

\* Fault: the peer's operation is the first argument.
ForwardTheirsFirst(base, ops) ==
    LET over[r \in base..revision] ==
          IF r = base THEN ops ELSE Transform(over[r - 1], history[r])[1]
    IN  over

\* The operation brought forward over all that was sequenced since its base:
\* the history is the FIRST argument at every step.
Forward(base, ops) ==
    LET over[r \in base..revision] ==
          IF r = base THEN ops ELSE Transform(history[r], over[r - 1])[2]
    IN  over

\* transform throws when the two operations are not about one text.
Fits(base, ops) ==
    \A r \in (base + 1)..revision :
        BaseLen(history[r]) = BaseLen(Forward(base, ops)[r - 1])

Sequences(g, f) == f.kind = "ops" /\ g \in roster
                   /\ f.rev <= revision /\ Fits(f.rev, f.ops)

\* An edit of a guest becomes a revision, for its author too.
Sequence(g) ==
    LET f == Head(toOwner[g]) IN
    /\ toOwner[g] # <<>> /\ session = "live" /\ Sequences(g, f)
    /\ Broadcast(Forward(f.rev, f.ops)[revision], g)
    /\ toOwner' = Take(toOwner, g)
    /\ UNCHANGED <<session, allowed, roster, guest, counters>>

Forget(g) ==
    /\ OwnerReads(g, "close") /\ session = "live"
    /\ roster' = roster \ {g}
    /\ toOwner' = Take(toOwner, g)
    /\ UNCHANGED <<session, text, history, allowed, guest, toGuest, counters>>

\* Nobody is served once the session is closed, and an edit is dropped, with a
\* notice to the owner alone, that cannot be brought forward.
Ignore(g) ==
    LET f == Head(toOwner[g]) IN
    /\ toOwner[g] # <<>>
    /\ session # "closed" => f.kind \in {"open", "resync", "ops"}
                             /\ ~Admits(g, f) /\ ~Sequences(g, f)
    /\ toOwner' = Take(toOwner, g)
    /\ UNCHANGED <<ownerVars, guest, toGuest, counters>>

OwnerHears(g) == \/ ServeFile(g) \/ SendSnapshot(g) \/ Sequence(g)
                 \/ Forget(g) \/ Ignore(g)

-----------------------------------------------------------------------------
(* GuestSession and the guest's CollabManager.                             *)

In(g) == guest[g].st # "out"
SetGuest(g, s) == guest' = [guest EXCEPT ![g] = s]
GuestReads(g, kind) == toGuest[g] # <<>> /\ Head(toGuest[g]).kind = kind

\* Asks that no session has come of yet.
Asking(up)      == {i \in DOMAIN up : up[i].kind \in {"ask", "open"}}
Answering(down) == {i \in DOMAIN down : down[i].kind \in {"offer", "snapshot"}}
Waiting(g) == Cardinality(Asking(toOwner[g])) + Cardinality(Answering(toGuest[g]))

\* openProjectFile: a click on the file in the owner's tree.
GuestAsks(g) ==
    /\ asks < MaxAsks /\ Waiting(g) < MaxWaiting
    /\ asks' = asks + 1
    /\ toOwner' = Put(toOwner, g, Ask)
    /\ UNCHANGED <<ownerVars, guest, toGuest, edits>>

\* Fault: the next edit waits for a later one instead of this answer.
KeepQueued(g, s) == SetGuest(g, s) /\ UNCHANGED toOwner

\* flush: one operation at a time is in flight.
Flushes(s) == s.outstanding = NoOps /\ s.queued # <<>>
Flush(g, s) ==
    IF Flushes(s)
    THEN /\ SetGuest(g, [s EXCEPT !.outstanding = Head(s.queued),
                                  !.queued = Tail(s.queued)])
         /\ toOwner' = Put(toOwner, g, Edit(s.rev, Head(s.queued)))
    ELSE SetGuest(g, s) /\ UNCHANGED toOwner

\* An edit is applied at once; an orphaned copy keeps it to itself.
GuestEdits(g, ops) ==
    LET s == [guest[g] EXCEPT !.text = Apply(@, ops)] IN
    /\ In(g) /\ edits < MaxEdits
    /\ edits' = edits + 1
    /\ IF s.st = "orphaned" THEN SetGuest(g, s) /\ UNCHANGED toOwner
       ELSE Flush(g, [s EXCEPT !.queued = Append(@, ops)])
    /\ UNCHANGED <<ownerVars, toGuest, asks>>

\* The guest closes the tab; its session and text are disposed of.
GuestLeaves(g) ==
    /\ In(g)
    /\ SetGuest(g, [NoSession EXCEPT !.offered = guest[g].offered])
    /\ toOwner' = IF guest[g].st = "in" THEN Put(toOwner, g, Close) ELSE toOwner
    /\ UNCHANGED <<ownerVars, toGuest, counters>>

\* An offer by an owner whose project was joined is accepted at once.
HearOffer(g) ==
    /\ GuestReads(g, "offer") /\ ~In(g)
    /\ SetGuest(g, [guest[g] EXCEPT !.offered = TRUE])
    /\ toOwner' = Put(toOwner, g, Open)

\* A first snapshot makes the session, a later one replaces what it holds.
HearSnapshot(g) ==
    LET f == Head(toGuest[g]) IN
    /\ GuestReads(g, "snapshot") /\ (In(g) \/ guest[g].offered)
    /\ SetGuest(g, [st |-> IF In(g) THEN guest[g].st ELSE "in",
                    offered |-> In(g) /\ guest[g].offered,
                    text |-> f.text, rev |-> f.rev,
                    outstanding |-> NoOps, queued |-> <<>>])
    /\ UNCHANGED toOwner

HearClose(g) ==
    /\ GuestReads(g, "close") /\ In(g)
    /\ SetGuest(g, [guest[g] EXCEPT !.st = "orphaned"])
    /\ UNCHANGED toOwner

AskResync(g, s) ==
    /\ SetGuest(g, [s EXCEPT !.outstanding = NoOps, !.queued = <<>>])
    /\ toOwner' = Put(toOwner, g, Resync)

InFlight(s) == s.outstanding # NoOps \/ s.queued # <<>>
Disagrees(s, f) == f.hash # NoHash /\ s.text # f.hash /\ ~InFlight(s)

\* An operation of the owner's against a list of the guest's own, in turn:
\* over[i] is the owner's after the first i of them.
OverOwn(theirs, own) ==
    LET over[i \in 0..Len(own)] ==
          IF i = 0 THEN theirs ELSE Transform(over[i - 1], own[i])[1]
    IN  over

\* Fault: the operations that wait are left as they were.
OwnUnmoved(theirs, own) == own

OwnOver(theirs, own) ==
    [i \in DOMAIN own |-> Transform(OverOwn(theirs, own)[i - 1], own[i])[2]]

Pending(s) == IF s.outstanding = NoOps THEN s.queued
              ELSE <<s.outstanding>> \o s.queued

\* Fault: somebody else's edit is applied as it came.
RebasedRaw(s, f) ==
    LET new == OwnOver(f.ops, Pending(s)) IN
    [s EXCEPT !.text = Apply(@, f.ops), !.rev = f.rev,
              !.outstanding = IF @ = NoOps THEN NoOps ELSE Head(new),
              !.queued = IF s.outstanding = NoOps THEN new ELSE Tail(new)]

\* Somebody else's edit, brought past the guest's own, and those past it.
Rebased(s, f) ==
    LET own == Pending(s)
        new == OwnOver(f.ops, own)
    IN  [s EXCEPT !.text = Apply(@, OverOwn(f.ops, own)[Len(own)]),
                  !.rev = f.rev,
                  !.outstanding = IF @ = NoOps THEN NoOps ELSE Head(new),
                  !.queued = IF s.outstanding = NoOps THEN new ELSE Tail(new)]

Rebases(s, f) ==
    LET own == Pending(s) IN
    \A i \in DOMAIN own : BaseLen(OverOwn(f.ops, own)[i - 1]) = BaseLen(own[i])

\* Our own operation coming back: advance and send the next.
HearAck(g, f) ==
    LET s == [guest[g] EXCEPT !.rev = f.rev, !.outstanding = NoOps] IN
    IF Disagrees(s, f) THEN AskResync(g, s) ELSE Flush(g, s)

HearOthers(g, f) ==
    LET s == Rebased(guest[g], f) IN
    CASE ~Rebases(guest[g], f) -> AskResync(g, guest[g])
      [] Rebases(guest[g], f) /\ Disagrees(s, f) -> AskResync(g, s)
      [] OTHER -> SetGuest(g, s) /\ UNCHANGED toOwner

HearOps(g) ==
    LET f == Head(toGuest[g]) IN
    /\ GuestReads(g, "ops") /\ In(g)
    /\ IF f.rev # guest[g].rev + 1 THEN AskResync(g, guest[g])
       ELSE IF f.author = g THEN HearAck(g, f) ELSE HearOthers(g, f)

\* A frame about a document that is not open here, an offer of one that is.
Drop(g) ==
    /\ toGuest[g] # <<>>
    /\ IF In(g) THEN GuestReads(g, "offer")
       ELSE GuestReads(g, "snapshot") => ~guest[g].offered
    /\ ~In(g) => ~GuestReads(g, "offer")
    /\ UNCHANGED <<guest, toOwner>>

GuestHears(g) ==
    /\ HearOffer(g) \/ HearSnapshot(g) \/ HearClose(g) \/ HearOps(g) \/ Drop(g)
    /\ toGuest' = Take(toGuest, g)
    /\ UNCHANGED <<ownerVars, counters>>

-----------------------------------------------------------------------------

Edits == \/ \E ops \in Changes(text, Owner) : OwnerEdits(ops)
         \/ \E g \in Guests : \E ops \in Changes(guest[g].text, g) :
                GuestEdits(g, ops)

Next ==
    \/ Edits \/ OwnerCloses
    \/ \E g \in Guests : \/ OwnerHears(g) \/ GuestHears(g)
                         \/ GuestAsks(g) \/ GuestLeaves(g)

Spec == Init /\ [][Next]_vars

-----------------------------------------------------------------------------
(* Properties.                                                             *)

\* The operations about one text: apply and transform throw on any other.
OpsOn(t) == {ops \in Ops : BaseLen(ops) = Len(t)}

\* TP1, what collab-ot.ts promises of transform: "apply(apply(d, a), b') ===
\* apply(apply(d, b), a')" for a and b "composed against the same document".
Converges(t, a, b) ==
    LET over == Transform(a, b) IN
    /\ over[1] \in OpsOn(Apply(t, b)) /\ over[2] \in OpsOn(Apply(t, a))
    /\ Apply(Apply(t, a), over[2]) = Apply(Apply(t, b), over[1])

\* All that a session needs of its operations: an edit is about the text it is
\* made in, an operation about a text makes a text, and TP1.
OperationsOn(t) ==
    /\ \A m \in Guests \union {Owner} : Changes(t, m) \subseteq OpsOn(t)
    /\ \A a \in OpsOn(t) : Apply(t, a) \in Texts
    /\ \A a, b \in OpsOn(t) : Converges(t, a, b)
Operations == \A t \in Texts : OperationsOn(t)

Settled(g) == /\ session = "live" /\ guest[g].st = "in"
              /\ toOwner[g] = <<>> /\ toGuest[g] = <<>>

\* When nothing is on its way, a guest's text is the owner's: however the edits
\* of all met, no buffer has drifted from another.
Converged == \A g \in Guests : Settled(g) => guest[g].text = text

\* And then nothing waits at the guest: every edit became a revision.
EditsArrive == \A g \in Guests : Settled(g) => ~InFlight(guest[g])

\* collab.ts: "Our own operation coming back.  We already applied it locally
\* and, by TP1, transformed it to exactly what the owner applied".
AckMatches ==
    \A g \in Guests :
        GuestReads(g, "ops") /\ guest[g].st = "in" /\ Head(toGuest[g]).author = g
            => guest[g].outstanding = Head(toGuest[g]).ops

\* A resync is for what TCP through the star should make impossible: while no
\* frame is lost, no guest meets a gap, a hash that disagrees or operations
\* that do not fit, and no edit is dropped at the owner.
NoResync ==
    \A g \in Guests :
        /\ \A i \in DOMAIN toOwner[g] : toOwner[g][i].kind # "resync"
        /\ OwnerReads(g, "ops") /\ session = "live" => Sequences(g, Head(toOwner[g]))
=============================================================================
