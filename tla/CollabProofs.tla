----------------------------- MODULE CollabProofs -----------------------------
(***************************************************************************)
(* Proofs about CollabSession: while no guest asks again for a document    *)
(* before its ask was answered, every member ends up with the owner's      *)
(* text, an operation comes back to its author as the one the author       *)
(* holds, and no resync is ever asked for.  All that is assumed of the     *)
(* operations is Operations: TP1, and that an edit is about the text it is *)
(* made in.                                                                *)
(*                                                                         *)
(* The invariant, LinkOK, is about one guest and its two links.  T[r] is   *)
(* the owner's text at revision r, and at[i] the revision a guest is at    *)
(* when it has heard i of the frames on their way to it.                   *)
(***************************************************************************)
EXTENDS CollabSession, FiniteSetTheorems, WellFoundedInduction, TLAPS

-----------------------------------------------------------------------------
(* The invariant.                                                          *)

SessionsTo(n) ==
    [st : {"out", "in", "orphaned"}, offered : BOOLEAN, text : Texts, rev : 0..n,
     outstanding : Ops \union {NoOps}, queued : Seq(Ops)]

GuestFramesTo(n) ==
    [kind : {"ask", "open", "resync", "close"}]
    \union [kind : {"ops"}, rev : 0..n, ops : Ops]

OwnerFramesTo(n) ==
    [kind : {"offer", "close"}]
    \union [kind : {"snapshot"}, rev : 0..n, text : Texts]
    \union [kind : {"ops"}, rev : 1..n, ops : Ops,
            author : Guests \union {Owner}, hash : Texts \union {NoHash}]

Typed(n, s, up, down) ==
    /\ s \in SessionsTo(n)
    /\ up \in Seq(GuestFramesTo(n)) /\ down \in Seq(OwnerFramesTo(n))

\* T leads along the history to the owner's text.
HistoryOK(h, T, t) ==
    /\ h \in Seq(Ops) /\ T \in [0..Len(h) -> Texts] /\ T[Len(h)] = t
    /\ \A r \in 1..Len(h) : h[r] \in OpsOn(T[r - 1]) /\ T[r] = Apply(T[r - 1], h[r])

\* What comes to a guest takes it revision by revision to the present, and a
\* snapshot holds the text of the revision it comes at.
Marks(h, T, down, at) ==
    /\ at \in [0..Len(down) -> 0..Len(h)] /\ at[Len(down)] = Len(h)
    /\ \A i, j \in 0..Len(down) : i <= j => at[i] <= at[j]
    /\ \A i \in 1..Len(down) :
        /\ down[i].kind = "ops" =>
             /\ at[i] = at[i - 1] + 1 /\ down[i].rev = at[i]
             /\ down[i].ops = h[at[i]] /\ down[i].hash \in {NoHash, T[at[i]]}
        /\ down[i].kind # "ops" => at[i] = at[i - 1]
        /\ down[i].kind = "snapshot" => down[i].rev = at[i] /\ down[i].text = T[at[i]]

DownOK(h, T, s, down) ==
    \E at : Marks(h, T, down, at) /\ (s.st = "in" => s.rev = at[0])

\* A guest has at most one edit on its way, about a text the owner had, and
\* sent before the guest said that it closed the document.
UpOK(h, T, joined, up) ==
    \A i \in 1..Len(up) :
        /\ up[i].kind # "resync"
        /\ up[i].kind = "ops" =>
             /\ joined /\ up[i].rev \in 0..Len(h) /\ up[i].ops \in OpsOn(T[up[i].rev])
             /\ \A j \in 1..Len(up) : /\ up[j].kind = "ops" => i = j
                                      /\ up[j].kind = "close" => i < j

\* One ask is under way, and after an open the guest sends nothing.
AskOK(s, up, down) ==
    /\ \A i, j \in Asking(up) : i = j
    /\ \A i, j \in Answering(down) : i = j
    /\ Asking(up) = {} \/ Answering(down) = {}
    /\ \A i \in 1..Len(up) : up[i].kind = "open" => i = Len(up) /\ s.st = "out"

\* Frames with operations of g's own.
Own(g, down) == {k \in 1..Len(down) : down[k].kind = "ops" /\ down[k].author = g}
EditsIn(up) == {i \in 1..Len(up) : up[i].kind = "ops"}

\* A snapshot finds the guest without a session, and with nothing of its own
\* on the way that could come back to the session it makes.
SnapshotOK(g, ses, joined, s, up, down) ==
    \A i \in 1..Len(down) : down[i].kind = "snapshot" =>
        /\ ses # "none" /\ joined /\ s.st = "out" /\ up = <<>>
        /\ \A k \in Own(g, down) : k < i

StateOK(ses, joined, s, up, down) ==
    /\ joined => ses # "none"
    /\ s.st = "in" => joined /\ \A i \in 1..Len(up) : up[i].kind # "close"
    /\ s.st = "orphaned" => ses = "closed" /\ down = <<>>
    /\ \A i \in 1..Len(down) : down[i].kind = "close" => i = Len(down) /\ ses = "closed"

\* U leads along the operations own from one text to another.
Path(t, own, U) ==
    /\ U \in [0..Len(own) -> Texts] /\ U[0] = t
    /\ \A i \in 1..Len(own) : own[i] \in OpsOn(U[i - 1]) /\ U[i] = Apply(U[i - 1], own[i])

\* The guest's text is the owner's at its revision and its own edits on top.
TextOK(T, s) ==
    /\ s.outstanding = NoOps => s.queued = <<>>
    /\ \E U : Path(T[s.rev], Pending(s), U) /\ U[Len(Pending(s))] = s.text

\* F[r] is the operation o of revision b brought forward to revision r.
Follows(h, b, m, o, F) ==
    /\ F \in [b..m -> Ops] /\ F[b] = o
    /\ \A r \in (b + 1)..m : F[r] = Transform(h[r], F[r - 1])[2]
Leads(h, b, m, o, x) == \E F : Follows(h, b, m, o, F) /\ F[m] = x

\* The operation in flight was sequenced, as what it becomes over the others
\* that come before it, or is on its way to the owner, and was sent as what it
\* was before the guest brought it over those it heard since.
Sequenced(g, h, s, up, down) ==
    /\ EditsIn(up) = {}
    /\ \E k \in Own(g, down) :
        /\ Own(g, down) = {k}
        /\ Leads(h, s.rev, down[k].rev - 1, s.outstanding, h[down[k].rev])
Sent(g, ses, h, s, up, down) ==
    /\ Own(g, down) = {}
    /\ ses = "live" =>
        \E i \in EditsIn(up) :
            up[i].rev <= s.rev /\ Leads(h, up[i].rev, s.rev, up[i].ops, s.outstanding)
FlightOK(g, ses, h, s, up, down) ==
    /\ s.outstanding = NoOps => EditsIn(up) = {} /\ Own(g, down) = {}
    /\ s.outstanding # NoOps => \/ Sequenced(g, h, s, up, down)
                                \/ Sent(g, ses, h, s, up, down)

LinkOK(g, ses, h, T, joined, s, up, down) ==
    /\ Typed(Len(h), s, up, down)
    /\ DownOK(h, T, s, down)
    /\ UpOK(h, T, joined, up)
    /\ AskOK(s, up, down)
    /\ SnapshotOK(g, ses, joined, s, up, down)
    /\ StateOK(ses, joined, s, up, down)
    /\ s.st = "in" => TextOK(T, s) /\ FlightOK(g, ses, h, s, up, down)

OwnerOK ==
    /\ session \in {"none", "live", "closed"}
    /\ allowed \subseteq Guests /\ roster \subseteq allowed
    /\ guest = [g \in Guests |-> guest[g]]
    /\ toOwner = [g \in Guests |-> toOwner[g]]
    /\ toGuest = [g \in Guests |-> toGuest[g]]
    /\ edits \in 0..MaxEdits /\ asks \in 0..MaxAsks

LinksOK(T) ==
    /\ HistoryOK(history, T, text)
    /\ \A g \in Guests : LinkOK(g, session, history, T, g \in roster,
                                guest[g], toOwner[g], toGuest[g])

CollabInv == OwnerOK /\ \E T : LinksOK(T)

CarriedOver(h, b, o) ==
    LET over[r \in b..Len(h)] == IF r = b THEN o ELSE Transform(h[r], over[r - 1])[2]
    IN  over

-----------------------------------------------------------------------------
(* Induction over numbers, in a form without operator parameters.          *)

\* A set of numbers that is not empty has a least element.
LEMMA LeastNumber ==
    ASSUME NEW N \in SUBSET Nat, N # {}
    PROVE  \E m \in N : \A n \in N : m <= n
PROOF
  <1> DEFINE Less == OpToRel(<, Nat)
  <1>1. \A x, y \in Nat : x < y => <<x, y>> \in Less
    BY DEF OpToRel
  <1>2. IsWellFoundedOn(Less, Nat)
    BY NatLessThanWellFounded
  <1> HIDE DEF Less
  <1>3. PICK m \in N : \A n \in N : <<n, m>> \notin Less
    BY <1>2, WFMin
  <1>4. \A n \in N : ~ (n < m)
    <2> TAKE n \in N
    <2>1. n \in Nat /\ m \in Nat
      OBVIOUS
    <2>2. n < m => <<n, m>> \in Less
      BY <1>1, <2>1, Zenon
    <2> QED BY <1>3, <2>2, Zenon
  <1> QED BY <1>4

\* A set that holds b, and n + 1 whenever it holds n, holds b..m.
LEMMA Counting ==
    ASSUME NEW b \in Nat, NEW m \in Nat, NEW S, b \in S,
           \A n \in b..(m - 1) : n \in S => n + 1 \in S
    PROVE  b..m \subseteq S
PROOF
  <1> DEFINE N == {n \in b..m : n \notin S}
  <1>1. SUFFICES ASSUME N # {} PROVE FALSE
    BY DEF N
  <1>2. N \in SUBSET Nat
    OBVIOUS
  <1>3. PICK n \in N : \A k \in N : n <= k
    BY <1>1, <1>2, LeastNumber
  <1>4. n # b /\ n - 1 \in b..(m - 1)
    BY <1>3
  <1>5. n - 1 \in S
    BY <1>3, <1>4
  <1>6. (n - 1) + 1 \in S
    BY <1>4, <1>5
  <1> QED BY <1>3, <1>4, <1>6

-----------------------------------------------------------------------------
(* Operations brought past others.                                         *)

LEMMA OneStep ==
    ASSUME Operations, NEW t \in Texts, NEW a \in OpsOn(t), NEW b \in OpsOn(t)
    PROVE  /\ a \in Ops /\ BaseLen(a) = Len(t) /\ BaseLen(a) = BaseLen(b)
           /\ Apply(t, a) \in Texts /\ Apply(t, b) \in Texts
           /\ Transform(a, b)[1] \in OpsOn(Apply(t, b))
           /\ Transform(a, b)[2] \in OpsOn(Apply(t, a))
           /\ Apply(Apply(t, a), Transform(a, b)[2])
                = Apply(Apply(t, b), Transform(a, b)[1])
PROOF
  <1>1. OperationsOn(t)
    BY DEF Operations
  <1>2. Apply(t, a) \in Texts /\ Apply(t, b) \in Texts /\ Converges(t, a, b)
    BY <1>1 DEF OperationsOn
  <1>3. a \in Ops /\ BaseLen(a) = Len(t) /\ BaseLen(b) = Len(t)
    BY DEF OpsOn
  <1> QED BY <1>2, <1>3, Zenon DEF Converges

\* The recursion of OwnerSession.receive is a function.
LEMMA CarriedIs ==
    ASSUME NEW h, NEW o, Len(h) \in Nat, NEW b \in 0..Len(h)
    PROVE  CarriedOver(h, b, o) =
             [r \in b..Len(h) |->
                IF r = b THEN o ELSE Transform(h[r], CarriedOver(h, b, o)[r - 1])[2]]
PROOF
  <1> DEFINE Is(f, m) == f = [r \in b..m |->
                                IF r = b THEN o ELSE Transform(h[r], f[r - 1])[2]]
             S == {m \in Nat : \E f : Is(f, m)}
  <1>1. b \in S
    <2>1. Is([r \in b..b |-> o], b)
      OBVIOUS
    <2>2. \E f : Is(f, b)
      BY <2>1
    <2> HIDE DEF Is
    <2> QED BY <2>2
  <1>2. ASSUME NEW m \in b..(Len(h) - 1), m \in S PROVE m + 1 \in S
    <2>1. PICK f : Is(f, m)
      BY <1>2
    <2> DEFINE e == [r \in b..(m + 1) |->
                       IF r <= m THEN f[r] ELSE Transform(h[r], f[m])[2]]
    <2>2. \A r \in b..m : f[r] = IF r = b THEN o ELSE Transform(h[r], f[r - 1])[2]
      BY <2>1
    <2>3. \A r \in b..(m + 1) : e[r] = IF r = b THEN o ELSE Transform(h[r], e[r - 1])[2]
      <3> TAKE r \in b..(m + 1)
      <3>1. CASE r = m + 1
        <4>1. r - 1 = m /\ e[r - 1] = f[m] /\ r # b
          BY <3>1
        <4> QED BY <3>1, <4>1
      <3>2. CASE r <= m
        <4>1. e[r] = f[r]
          BY <3>2
        <4>2. r # b => e[r - 1] = f[r - 1]
          BY <3>2
        <4> HIDE DEF e
        <4> QED BY <2>2, <3>2, <4>1, <4>2
      <3> QED BY <3>1, <3>2
    <2>4. Is(e, m + 1)
      <3>1. e = [r \in b..(m + 1) |-> e[r]]
        OBVIOUS
      <3> HIDE DEF e
      <3> QED BY <2>3, <3>1
    <2>5. \E e2 : Is(e2, m + 1)
      BY <2>4
    <2> HIDE DEF Is
    <2> QED BY <2>5
  <1>3. b..Len(h) \subseteq S
    <2>1. b \in Nat /\ Len(h) \in Nat
      OBVIOUS
    <2> HIDE DEF S
    <2>2. \A m \in b..(Len(h) - 1) : m \in S => m + 1 \in S
      BY <1>2
    <2> QED BY <1>1, <2>1, <2>2, Counting, Zenon
  <1>4. \E f : Is(f, Len(h))
    BY <1>3
  <1>5. CarriedOver(h, b, o) = CHOOSE f : Is(f, Len(h))
    BY DEF CarriedOver
  <1> HIDE DEF Is
  <1>6. Is(CarriedOver(h, b, o), Len(h))
    BY <1>4, <1>5, Zenon
  <1> QED BY <1>6 DEF Is

\* What is carried forward stays an operation about the text it is carried to.
LEMMA CarriedFits ==
    ASSUME Operations, NEW h, NEW T, NEW t, HistoryOK(h, T, t),
           NEW b \in 0..Len(h), NEW o \in OpsOn(T[b])
    PROVE  /\ \A r \in b..Len(h) : CarriedOver(h, b, o)[r] \in OpsOn(T[r])
           /\ Follows(h, b, Len(h), o, CarriedOver(h, b, o))
PROOF
  <1> DEFINE F == CarriedOver(h, b, o)
             S == {r \in b..Len(h) : F[r] \in OpsOn(T[r])}
  <1>1. Len(h) \in Nat /\ b \in Nat
    BY DEF HistoryOK
  <1>2. F = [r \in b..Len(h) |-> IF r = b THEN o ELSE Transform(h[r], F[r - 1])[2]]
    BY <1>1, CarriedIs
  <1> HIDE DEF F
  <1>3. F[b] = o /\ \A r \in (b + 1)..Len(h) : F[r] = Transform(h[r], F[r - 1])[2]
    BY <1>1, <1>2
  <1>4. b \in S
    BY <1>1, <1>3
  <1>5. \A r \in b..(Len(h) - 1) : r \in S => r + 1 \in S
    <2> SUFFICES ASSUME NEW r \in b..(Len(h) - 1), F[r] \in OpsOn(T[r])
                 PROVE  F[r + 1] \in OpsOn(T[r + 1])
      BY <1>1
    <2>1. r + 1 \in 1..Len(h) /\ (r + 1) - 1 = r /\ r + 1 \in (b + 1)..Len(h)
      BY <1>1
    <2>2. T[r] \in Texts /\ h[r + 1] \in OpsOn(T[r]) /\ T[r + 1] = Apply(T[r], h[r + 1])
      BY <1>1, <2>1 DEF HistoryOK
    <2>3. F[r + 1] = Transform(h[r + 1], F[r])[2]
      BY <1>3, <2>1
    <2> QED BY <2>2, <2>3, OneStep, Zenon
  <1>6. b..Len(h) \subseteq S
    <2> HIDE DEF S
    <2> QED BY <1>1, <1>4, <1>5, Counting, Zenon
  <1>7. \A r \in b..Len(h) : F[r] \in OpsOn(T[r]) /\ F[r] \in Ops
    BY <1>6 DEF OpsOn
  <1>8. F \in [b..Len(h) -> Ops]
    BY <1>2, <1>7
  <1> QED BY <1>3, <1>7, <1>8, Zenon DEF F, Follows

LEMMA FollowsUnique ==
    ASSUME NEW h, NEW o, NEW b \in Nat, NEW m \in Nat, NEW k \in Nat,
           NEW F, Follows(h, b, m, o, F), NEW G, Follows(h, b, k, o, G),
           NEW n \in b..m, n <= k
    PROVE  F[n] = G[n]
PROOF
  <1> DEFINE S == {r \in b..n : F[r] = G[r]}
  <1>1. b \in S
    BY DEF Follows
  <1>2. \A r \in b..(n - 1) : r \in S => r + 1 \in S
    <2> SUFFICES ASSUME NEW r \in b..(n - 1), F[r] = G[r] PROVE F[r + 1] = G[r + 1]
      OBVIOUS
    <2>1. r + 1 \in (b + 1)..m /\ r + 1 \in (b + 1)..k /\ (r + 1) - 1 = r
      OBVIOUS
    <2> QED BY <2>1 DEF Follows
  <1>3. n \in Nat /\ n \in b..n
    OBVIOUS
  <1>4. b..n \subseteq S
    <2> HIDE DEF S
    <2> QED BY <1>1, <1>2, <1>3, Counting, Zenon
  <1> QED BY <1>3, <1>4

\* An operation that comes next joins what was brought forward, and what was
\* brought forward from b can be brought forward from later on.
LEMMA FollowsGrows ==
    ASSUME NEW h, NEW o, NEW F, NEW b \in Nat, NEW m \in Nat, b <= m,
           Follows(h, b, m, o, F), Transform(h[m + 1], F[m])[2] \in Ops
    PROVE  Leads(h, b, m + 1, o, Transform(h[m + 1], F[m])[2])
PROOF
  <1> DEFINE x == Transform(h[m + 1], F[m])[2]
             G == [r \in b..(m + 1) |-> IF r <= m THEN F[r] ELSE x]
  <1>1. \A r \in b..m : F[r] \in Ops
    BY DEF Follows
  <1>2. F[b] = o /\ \A r \in (b + 1)..m : F[r] = Transform(h[r], F[r - 1])[2]
    BY DEF Follows
  <1> HIDE DEF x
  <1>3. G \in [b..(m + 1) -> Ops]
    BY <1>1 DEF x
  <1>4. G[b] = o /\ G[m + 1] = x
    BY <1>2
  <1>5. \A r \in (b + 1)..(m + 1) : G[r] = Transform(h[r], G[r - 1])[2]
    <2> TAKE r \in (b + 1)..(m + 1)
    <2>1. CASE r <= m
      <3>1. G[r] = F[r] /\ G[r - 1] = F[r - 1] /\ r \in (b + 1)..m
        BY <2>1
      <3> HIDE DEF G
      <3> QED BY <1>2, <3>1
    <2>2. CASE r = m + 1
      <3>1. G[r] = x /\ G[r - 1] = F[m]
        BY <2>2
      <3> HIDE DEF G
      <3> QED BY <2>2, <3>1 DEF x
    <2> QED BY <2>1, <2>2
  <1> HIDE DEF G
  <1>6. Follows(h, b, m + 1, o, G)
    BY <1>3, <1>4, <1>5 DEF Follows
  <1> QED BY <1>4, <1>6 DEF Leads, x

LEMMA FollowsLater ==
    ASSUME NEW h, NEW o, NEW F, NEW b \in Nat, NEW m \in Nat, NEW c \in b..m,
           Follows(h, b, m, o, F)
    PROVE  Leads(h, c, m, F[c], F[m])
PROOF
  <1> DEFINE G == [r \in c..m |-> F[r]]
  <1>1. G \in [c..m -> Ops] /\ G[c] = F[c] /\ G[m] = F[m]
    BY DEF Follows
  <1>2. \A r \in (c + 1)..m : G[r] = Transform(h[r], G[r - 1])[2]
    BY DEF Follows
  <1>3. Follows(h, c, m, F[c], G)
    <2> HIDE DEF G
    <2> QED BY <1>1, <1>2 DEF Follows
  <1> HIDE DEF G
  <1> QED BY <1>1, <1>3 DEF Leads

\* Only the history up to m counts.
LEMMA FollowsSame ==
    ASSUME NEW h, NEW i, NEW o, NEW x, NEW b \in Nat, NEW m \in Nat,
           \A r \in (b + 1)..m : i[r] = h[r], Leads(h, b, m, o, x)
    PROVE  Leads(i, b, m, o, x)
  BY DEF Leads, Follows

\* So is the recursion of GuestSession.receive.
LEMMA OverOwnIs ==
    ASSUME NEW o, NEW own, Len(own) \in Nat
    PROVE  OverOwn(o, own) =
             [i \in 0..Len(own) |->
                IF i = 0 THEN o ELSE Transform(OverOwn(o, own)[i - 1], own[i])[1]]
PROOF
  <1> DEFINE Is(f, m) == f = [i \in 0..m |->
                                IF i = 0 THEN o ELSE Transform(f[i - 1], own[i])[1]]
             S == {m \in Nat : \E f : Is(f, m)}
  <1>1. 0 \in S
    <2>1. Is([i \in 0..0 |-> o], 0)
      OBVIOUS
    <2>2. \E f : Is(f, 0)
      BY <2>1
    <2> HIDE DEF Is
    <2> QED BY <2>2
  <1>2. ASSUME NEW m \in 0..(Len(own) - 1), m \in S PROVE m + 1 \in S
    <2>1. PICK f : Is(f, m)
      BY <1>2
    <2> DEFINE e == [i \in 0..(m + 1) |->
                       IF i <= m THEN f[i] ELSE Transform(f[m], own[i])[1]]
    <2>2. \A i \in 0..m : f[i] = IF i = 0 THEN o ELSE Transform(f[i - 1], own[i])[1]
      BY <2>1
    <2>3. \A i \in 0..(m + 1) : e[i] = IF i = 0 THEN o ELSE Transform(e[i - 1], own[i])[1]
      <3> TAKE i \in 0..(m + 1)
      <3>1. CASE i = m + 1
        <4>1. i - 1 = m /\ e[i - 1] = f[m] /\ i # 0
          BY <3>1
        <4> QED BY <3>1, <4>1
      <3>2. CASE i <= m
        <4>1. e[i] = f[i]
          BY <3>2
        <4>2. i # 0 => e[i - 1] = f[i - 1]
          BY <3>2
        <4> HIDE DEF e
        <4> QED BY <2>2, <3>2, <4>1, <4>2
      <3> QED BY <3>1, <3>2
    <2>4. Is(e, m + 1)
      <3>1. e = [i \in 0..(m + 1) |-> e[i]]
        OBVIOUS
      <3> HIDE DEF e
      <3> QED BY <2>3, <3>1
    <2>5. \E f1 : Is(f1, m + 1)
      BY <2>4
    <2> HIDE DEF Is
    <2> QED BY <2>5
  <1>3. 0..Len(own) \subseteq S
    <2> HIDE DEF S
    <2>1. \A m \in 0..(Len(own) - 1) : m \in S => m + 1 \in S
      BY <1>2
    <2>2. 0 \in Nat
      OBVIOUS
    <2> QED BY <1>1, <2>1, <2>2, Counting, Zenon
  <1>4. \E f : Is(f, Len(own))
    BY <1>3
  <1>5. OverOwn(o, own) = CHOOSE f : Is(f, Len(own))
    BY DEF OverOwn
  <1> HIDE DEF Is
  <1>6. Is(OverOwn(o, own), Len(own))
    BY <1>4, <1>5, Zenon
  <1> QED BY <1>6 DEF Is

\* Somebody else's operation over a guest's own: both come to the same text,
\* and the guest's own, brought past it, lead to it from the owner's new text.
LEMMA Rebasing ==
    ASSUME Operations, NEW t \in Texts, NEW own \in Seq(Ops), NEW U, Path(t, own, U),
           NEW o \in OpsOn(t)
    PROVE  /\ OverOwn(o, own)[0] = o
           /\ \A i \in 0..Len(own) : OverOwn(o, own)[i] \in OpsOn(U[i])
           /\ \A i \in 1..Len(own) : BaseLen(OverOwn(o, own)[i - 1]) = BaseLen(own[i])
           /\ OwnOver(o, own) \in Seq(Ops) /\ Len(OwnOver(o, own)) = Len(own)
           /\ own # <<>> => OwnOver(o, own)[1] = Transform(o, own[1])[2]
           /\ Path(Apply(t, o), OwnOver(o, own),
                   [i \in 0..Len(own) |-> Apply(U[i], OverOwn(o, own)[i])])
PROOF
  <1> DEFINE n == Len(own)
             V == OverOwn(o, own)
             W == OwnOver(o, own)
             S == {i \in 0..n : V[i] \in OpsOn(U[i])}
  <1>1. n \in Nat /\ \A i \in 0..n : U[i] \in Texts
    BY DEF Path
  <1>2. V = [i \in 0..n |-> IF i = 0 THEN o ELSE Transform(V[i - 1], own[i])[1]]
    BY <1>1, OverOwnIs
  <1> HIDE DEF V
  <1>3. V[0] = o /\ \A i \in 1..n : V[i] = Transform(V[i - 1], own[i])[1]
    BY <1>1, <1>2
  <1>4. \A i \in 1..n : own[i] \in OpsOn(U[i - 1]) /\ U[i] = Apply(U[i - 1], own[i])
    BY DEF Path
  <1>5. ASSUME NEW i \in 1..n, V[i - 1] \in OpsOn(U[i - 1])
        PROVE  /\ BaseLen(V[i - 1]) = BaseLen(own[i])
               /\ V[i] \in OpsOn(U[i])
               /\ Transform(V[i - 1], own[i])[2] \in OpsOn(Apply(U[i - 1], V[i - 1]))
               /\ Apply(Apply(U[i - 1], V[i - 1]), Transform(V[i - 1], own[i])[2])
                    = Apply(U[i], V[i])
    <2>1. U[i - 1] \in Texts
      BY <1>1
    <2>2. own[i] \in OpsOn(U[i - 1]) /\ U[i] = Apply(U[i - 1], own[i])
          /\ V[i] = Transform(V[i - 1], own[i])[1]
      BY <1>3, <1>4
    <2>3. PICK u, a, b : u = U[i - 1] /\ a = V[i - 1] /\ b = own[i]
      OBVIOUS
    <2>4. u \in Texts /\ a \in OpsOn(u) /\ b \in OpsOn(u)
      BY <1>5, <2>1, <2>2, <2>3
    <2>5. /\ BaseLen(a) = BaseLen(b) /\ Transform(a, b)[1] \in OpsOn(Apply(u, b))
          /\ Transform(a, b)[2] \in OpsOn(Apply(u, a))
          /\ Apply(Apply(u, a), Transform(a, b)[2]) = Apply(Apply(u, b), Transform(a, b)[1])
      BY <2>4, OneStep
    <2> QED BY <2>2, <2>3, <2>5
  <1>6. 0 \in S
    BY <1>1, <1>3 DEF Path
  <1>7. \A i \in 0..(n - 1) : i \in S => i + 1 \in S
    <2> SUFFICES ASSUME NEW i \in 0..(n - 1), V[i] \in OpsOn(U[i])
                 PROVE  V[i + 1] \in OpsOn(U[i + 1])
      BY <1>1
    <2>1. i + 1 \in 1..n /\ (i + 1) - 1 = i
      BY <1>1
    <2> QED BY <1>5, <2>1
  <1>8. 0..n \subseteq S
    <2>1. 0 \in Nat
      OBVIOUS
    <2> HIDE DEF S, n
    <2> QED BY <1>1, <1>6, <1>7, <2>1, Counting, Zenon
  <1>9. \A i \in 0..n : V[i] \in OpsOn(U[i]) /\ Apply(U[i], V[i]) \in Texts
    <2> TAKE i \in 0..n
    <2>1. V[i] \in OpsOn(U[i]) /\ U[i] \in Texts
      BY <1>1, <1>8
    <2> QED BY <2>1, OneStep, Zenon
  <1>10. \A i \in 1..n : V[i - 1] \in OpsOn(U[i - 1])
    BY <1>1, <1>9
  <1>11. W = [i \in 1..n |-> Transform(V[i - 1], own[i])[2]]
    <2>1. DOMAIN own = 1..n
      OBVIOUS
    <2> QED BY <2>1 DEF OwnOver, V
  <1> HIDE DEF W
  <1>12. \A i \in 1..n : /\ W[i] \in OpsOn(Apply(U[i - 1], V[i - 1])) /\ W[i] \in Ops
                         /\ Apply(Apply(U[i - 1], V[i - 1]), W[i]) = Apply(U[i], V[i])
    <2> TAKE i \in 1..n
    <2>1. W[i] = Transform(V[i - 1], own[i])[2]
      BY <1>11
    <2>2. W[i] \in OpsOn(Apply(U[i - 1], V[i - 1]))
          /\ Apply(Apply(U[i - 1], V[i - 1]), W[i]) = Apply(U[i], V[i])
      BY <1>5, <1>10, <2>1
    <2> QED BY <2>2 DEF OpsOn
  <1>13. W \in Seq(Ops) /\ Len(W) = n
    BY <1>1, <1>11, <1>12
  <1>14. own # <<>> => W[1] = Transform(o, own[1])[2]
    <2>1. own # <<>> => 1 \in 1..n /\ 1 - 1 = 0
      OBVIOUS
    <2> QED BY <1>3, <1>11, <2>1
  <1> DEFINE X == [i \in 0..n |-> Apply(U[i], V[i])]
  <1>15. X \in [0..n -> Texts] /\ X[0] = Apply(t, o)
    BY <1>1, <1>3, <1>9 DEF Path
  <1>16. \A i \in 1..n : X[i - 1] = Apply(U[i - 1], V[i - 1]) /\ X[i] = Apply(U[i], V[i])
    BY <1>1
  <1>17. Path(Apply(t, o), W, X)
    <2> HIDE DEF X, n
    <2> QED BY <1>12, <1>13, <1>15, <1>16 DEF Path
  <1>18. \A i \in 1..n : BaseLen(V[i - 1]) = BaseLen(own[i])
    BY <1>5, <1>10
  <1> HIDE DEF X
  <1> QED BY <1>3, <1>9, <1>13, <1>14, <1>17, <1>18 DEF V, W, X

-----------------------------------------------------------------------------
(* Links.                                                                  *)

LEMMA Longer ==
    ASSUME NEW S, NEW q \in Seq(S), NEW x
    PROVE  /\ Len(q) \in Nat /\ Len(Append(q, x)) = Len(q) + 1
           /\ \A i \in 1..Len(q) : Append(q, x)[i] = q[i]
           /\ Append(q, x)[Len(q) + 1] = x
           /\ DOMAIN q = 1..Len(q) /\ DOMAIN Append(q, x) = 1..(Len(q) + 1)
  OBVIOUS

LEMMA Shorter ==
    ASSUME NEW S, NEW q \in Seq(S), q # <<>>
    PROVE  /\ Len(q) \in Nat \ {0} /\ Len(Tail(q)) = Len(q) - 1
           /\ \A i \in 1..(Len(q) - 1) : Tail(q)[i] = q[i + 1]
           /\ Head(q) = q[1] /\ Tail(q) \in Seq(S)
           /\ DOMAIN q = 1..Len(q) /\ DOMAIN Tail(q) = 1..(Len(q) - 1)
  OBVIOUS

LEMMA TypesGrow ==
    ASSUME NEW n \in Nat, NEW m \in Nat, n <= m
    PROVE  /\ SessionsTo(n) \subseteq SessionsTo(m)
           /\ GuestFramesTo(n) \subseteq GuestFramesTo(m)
           /\ OwnerFramesTo(n) \subseteq OwnerFramesTo(m)
PROOF
  <1>1. 0..n \subseteq 0..m /\ 1..n \subseteq 1..m
    OBVIOUS
  <1>2. SessionsTo(n) \subseteq SessionsTo(m)
    BY <1>1 DEF SessionsTo
  <1>3. GuestFramesTo(n) \subseteq GuestFramesTo(m)
    BY <1>1 DEF GuestFramesTo
  <1>4. OwnerFramesTo(n) \subseteq OwnerFramesTo(m)
    BY <1>1 DEF OwnerFramesTo
  <1> QED BY <1>2, <1>3, <1>4

\* One revision more.
Grown(h, T, o, i, V) ==
    /\ Len(h) \in Nat /\ Len(i) = Len(h) + 1
    /\ \A r \in 1..Len(h) : i[r] = h[r]
    /\ \A r \in 0..Len(h) : V[r] = T[r]
    /\ i[Len(h) + 1] = o

LEMMA HistoryGrows ==
    ASSUME Operations, NEW h, NEW T, NEW t, HistoryOK(h, T, t), NEW o \in OpsOn(t)
    PROVE  /\ t \in Texts /\ o \in Ops /\ Apply(t, o) \in Texts
           /\ \E V : /\ HistoryOK(Append(h, o), V, Apply(t, o))
                     /\ Grown(h, T, o, Append(h, o), V)
PROOF
  <1> DEFINE n == Len(h)
             V == [r \in 0..(n + 1) |-> IF r <= n THEN T[r] ELSE Apply(t, o)]
             i == Append(h, o)
  <1>1. n \in Nat /\ h \in Seq(Ops) /\ T \in [0..n -> Texts] /\ T[n] = t
    BY DEF HistoryOK
  <1>2. t \in Texts
    BY <1>1
  <1>3. o \in Ops /\ Apply(t, o) \in Texts
    BY <1>2, OneStep
  <1>4. /\ Len(i) = n + 1 /\ i \in Seq(Ops) /\ i[n + 1] = o
        /\ \A r \in 1..n : i[r] = h[r]
    BY <1>1, <1>3
  <1>5. /\ V \in [0..(n + 1) -> Texts] /\ V[n + 1] = Apply(t, o)
        /\ \A r \in 0..n : V[r] = T[r]
    BY <1>1, <1>3
  <1> HIDE DEF i, V
  <1>6. \A r \in 1..(n + 1) : i[r] \in OpsOn(V[r - 1]) /\ V[r] = Apply(V[r - 1], i[r])
    <2> TAKE r \in 1..(n + 1)
    <2>1. CASE r \in 1..n
      BY <1>1, <1>4, <1>5, <2>1 DEF HistoryOK
    <2>2. CASE r = n + 1
      BY <1>1, <1>4, <1>5, <2>2
    <2> QED BY <1>1, <2>1, <2>2
  <1>7. HistoryOK(i, V, Apply(t, o))
    BY <1>4, <1>5, <1>6 DEF HistoryOK
  <1>8. Grown(h, T, o, i, V)
    BY <1>1, <1>4, <1>5 DEF Grown
  <1> QED BY <1>2, <1>3, <1>7, <1>8 DEF i

\* A frame more from the owner: an operation, or what leaves the revision.
LEMMA DownOps ==
    ASSUME NEW S, NEW h, NEW T, NEW o, NEW i, NEW V, Grown(h, T, o, i, V),
           NEW s, NEW down \in Seq(S), DownOK(h, T, s, down),
           NEW f, f.kind = "ops", f.rev = Len(i), f.ops = o,
           f.hash \in {NoHash, V[Len(i)]}
    PROVE  DownOK(i, V, s, Append(down, f))
PROOF
  <1> DEFINE n == Len(h)
             m == Len(down)
             down2 == Append(down, f)
  <1>1. PICK at : Marks(h, T, down, at) /\ (s.st = "in" => s.rev = at[0])
    BY DEF DownOK
  <1> DEFINE at2 == [k \in 0..(m + 1) |-> IF k <= m THEN at[k] ELSE n + 1]
  <1>2. n \in Nat /\ m \in Nat /\ Len(i) = n + 1 /\ Len(down2) = m + 1
        /\ down2[m + 1] = f /\ \A k \in 1..m : down2[k] = down[k]
    <2>1. n \in Nat /\ Len(i) = n + 1
      BY DEF Grown
    <2>2. m \in Nat /\ Len(down2) = m + 1 /\ down2[m + 1] = f
          /\ \A k \in 1..m : down2[k] = down[k]
      BY Longer
    <2> QED BY <2>1, <2>2
  <1>3. at \in [0..m -> 0..n] /\ at[m] = n /\ \A j, k \in 0..m : j <= k => at[j] <= at[k]
    BY <1>1 DEF Marks
  <1>4. at2 \in [0..(m + 1) -> 0..(n + 1)] /\ at2[m + 1] = n + 1
        /\ \A k \in 0..m : at2[k] = at[k]
    BY <1>2, <1>3
  <1> HIDE DEF at2, down2, m, n
  <1>5. \A j, k \in 0..(m + 1) : j <= k => at2[j] <= at2[k]
    BY <1>2, <1>3, <1>4
  <1>6. \A k \in 1..m :
          /\ down[k].kind = "ops" =>
               /\ at[k] = at[k - 1] + 1 /\ down[k].rev = at[k]
               /\ down[k].ops = h[at[k]] /\ down[k].hash \in {NoHash, T[at[k]]}
          /\ down[k].kind # "ops" => at[k] = at[k - 1]
          /\ down[k].kind = "snapshot" => down[k].rev = at[k] /\ down[k].text = T[at[k]]
    BY <1>1 DEF Marks, m
  <1>7. ASSUME NEW k \in 1..m
        PROVE  /\ down2[k].kind = "ops" =>
                    /\ at2[k] = at2[k - 1] + 1 /\ down2[k].rev = at2[k]
                    /\ down2[k].ops = i[at2[k]] /\ down2[k].hash \in {NoHash, V[at2[k]]}
               /\ down2[k].kind # "ops" => at2[k] = at2[k - 1]
               /\ down2[k].kind = "snapshot" =>
                    down2[k].rev = at2[k] /\ down2[k].text = V[at2[k]]
    <2>1. down2[k] = down[k] /\ at2[k] = at[k] /\ at2[k - 1] = at[k - 1]
          /\ at[k] \in 0..n /\ at[k - 1] \in 0..n
      BY <1>2, <1>3, <1>4
    <2>2. V[at[k]] = T[at[k]]
      BY <2>1 DEF Grown, n
    <2>3. at[k] = at[k - 1] + 1 => i[at[k]] = h[at[k]]
      BY <1>2, <2>1 DEF Grown, n
    <2> QED BY <1>6, <2>1, <2>2, <2>3
  <1>8. /\ at2[m + 1] = at2[(m + 1) - 1] + 1 /\ f.rev = at2[m + 1]
        /\ f.ops = i[at2[m + 1]] /\ f.hash \in {NoHash, V[at2[m + 1]]}
    BY <1>2, <1>3, <1>4 DEF Grown, n
  <1>9. \A k \in 1..(m + 1) :
          /\ down2[k].kind = "ops" =>
               /\ at2[k] = at2[k - 1] + 1 /\ down2[k].rev = at2[k]
               /\ down2[k].ops = i[at2[k]] /\ down2[k].hash \in {NoHash, V[at2[k]]}
          /\ down2[k].kind # "ops" => at2[k] = at2[k - 1]
          /\ down2[k].kind = "snapshot" =>
               down2[k].rev = at2[k] /\ down2[k].text = V[at2[k]]
    <2> TAKE k \in 1..(m + 1)
    <2>1. CASE k \in 1..m
      BY <1>7, <2>1
    <2>2. CASE k = m + 1
      BY <1>2, <1>8, <2>2
    <2> QED BY <1>2, <2>1, <2>2
  <1>10. Marks(i, V, down2, at2)
    BY <1>2, <1>4, <1>5, <1>9 DEF Marks
  <1>11. at2[0] = at[0]
    BY <1>2, <1>4
  <1> QED BY <1>1, <1>10, <1>11 DEF DownOK, down2

LEMMA DownOther ==
    ASSUME NEW S, NEW h, NEW T, NEW s, NEW down \in Seq(S), DownOK(h, T, s, down),
           NEW f, f.kind # "ops",
           f.kind = "snapshot" => f.rev = Len(h) /\ f.text = T[Len(h)]
    PROVE  DownOK(h, T, s, Append(down, f))
PROOF
  <1> DEFINE n == Len(h)
             m == Len(down)
             down2 == Append(down, f)
  <1>1. PICK at : Marks(h, T, down, at) /\ (s.st = "in" => s.rev = at[0])
    BY DEF DownOK
  <1> DEFINE at2 == [k \in 0..(m + 1) |-> IF k <= m THEN at[k] ELSE n]
  <1>2. m \in Nat /\ Len(down2) = m + 1 /\ down2[m + 1] = f
        /\ \A k \in 1..m : down2[k] = down[k]
    BY Longer
  <1>3. at \in [0..m -> 0..n] /\ at[m] = n /\ \A j, k \in 0..m : j <= k => at[j] <= at[k]
    BY <1>1 DEF Marks
  <1>4. at2 \in [0..(m + 1) -> 0..n] /\ at2[m + 1] = n
        /\ \A k \in 0..m : at2[k] = at[k]
    BY <1>2, <1>3
  <1> HIDE DEF at2, down2, m, n
  <1>5. \A j, k \in 0..(m + 1) : j <= k => at2[j] <= at2[k]
    BY <1>2, <1>3, <1>4
  <1>6. \A k \in 1..(m + 1) :
          /\ down2[k].kind = "ops" =>
               /\ at2[k] = at2[k - 1] + 1 /\ down2[k].rev = at2[k]
               /\ down2[k].ops = h[at2[k]] /\ down2[k].hash \in {NoHash, T[at2[k]]}
          /\ down2[k].kind # "ops" => at2[k] = at2[k - 1]
          /\ down2[k].kind = "snapshot" =>
               down2[k].rev = at2[k] /\ down2[k].text = T[at2[k]]
    <2> TAKE k \in 1..(m + 1)
    <2>1. CASE k \in 1..m
      <3>1. down2[k] = down[k] /\ at2[k] = at[k] /\ at2[k - 1] = at[k - 1]
        BY <1>2, <1>4, <2>1
      <3> QED BY <1>1, <2>1, <3>1 DEF Marks, m
    <2>2. CASE k = m + 1
      BY <1>2, <1>3, <1>4, <2>2 DEF n
    <2> QED BY <1>2, <2>1, <2>2
  <1>7. Marks(h, T, down2, at2)
    BY <1>2, <1>4, <1>5, <1>6 DEF Marks, n
  <1>8. at2[0] = at[0]
    BY <1>2, <1>4
  <1> QED BY <1>1, <1>7, <1>8 DEF DownOK, down2

\* A frame is heard: it is the next revision, or leaves the guest where it is.
LEMMA DownHeard ==
    ASSUME NEW S, NEW h, NEW T, NEW s, NEW down \in Seq(S), down # <<>>,
           DownOK(h, T, s, down), Len(h) \in Nat
    PROVE  \E a \in 0..Len(h), b \in 0..Len(h) :
             /\ s.st = "in" => s.rev = a
             /\ \A z : (z.st = "in" => z.rev = b) => DownOK(h, T, z, Tail(down))
             /\ down[1].kind = "ops" =>
                  /\ b = a + 1 /\ down[1].rev = b /\ down[1].ops = h[b]
                  /\ down[1].hash \in {NoHash, T[b]}
                  /\ \A k \in 2..Len(down) : down[k].kind = "ops" => down[k].rev > b
             /\ down[1].kind # "ops" => b = a
             /\ down[1].kind = "snapshot" => down[1].rev = b /\ down[1].text = T[b]
PROOF
  <1> DEFINE m == Len(down)
             rest == Tail(down)
  <1>1. PICK at : Marks(h, T, down, at) /\ (s.st = "in" => s.rev = at[0])
    BY DEF DownOK
  <1> DEFINE at2 == [k \in 0..(m - 1) |-> at[k + 1]]
  <1>2. m \in Nat \ {0} /\ Len(rest) = m - 1
        /\ \A k \in 1..(m - 1) : rest[k] = down[k + 1]
    BY Shorter
  <1>3. at \in [0..m -> 0..Len(h)] /\ at[m] = Len(h)
        /\ \A j, k \in 0..m : j <= k => at[j] <= at[k]
    BY <1>1 DEF Marks
  <1>4. at2 \in [0..(m - 1) -> 0..Len(h)] /\ at2[m - 1] = Len(h)
        /\ \A k \in 0..(m - 1) : at2[k] = at[k + 1]
    BY <1>2, <1>3
  <1> HIDE DEF at2, rest, m
  <1>5. \A j, k \in 0..(m - 1) : j <= k => at2[j] <= at2[k]
    BY <1>2, <1>3, <1>4
  <1>6. \A k \in 1..m :
          /\ down[k].kind = "ops" =>
               /\ at[k] = at[k - 1] + 1 /\ down[k].rev = at[k]
               /\ down[k].ops = h[at[k]] /\ down[k].hash \in {NoHash, T[at[k]]}
          /\ down[k].kind # "ops" => at[k] = at[k - 1]
          /\ down[k].kind = "snapshot" => down[k].rev = at[k] /\ down[k].text = T[at[k]]
    BY <1>1 DEF Marks, m
  <1>7. \A k \in 1..(m - 1) :
          /\ rest[k].kind = "ops" =>
               /\ at2[k] = at2[k - 1] + 1 /\ rest[k].rev = at2[k]
               /\ rest[k].ops = h[at2[k]] /\ rest[k].hash \in {NoHash, T[at2[k]]}
          /\ rest[k].kind # "ops" => at2[k] = at2[k - 1]
          /\ rest[k].kind = "snapshot" => rest[k].rev = at2[k] /\ rest[k].text = T[at2[k]]
    <2> TAKE k \in 1..(m - 1)
    <2>1. k + 1 \in 1..m /\ (k + 1) - 1 = k /\ (k - 1) + 1 = k
          /\ rest[k] = down[k + 1] /\ at2[k] = at[k + 1] /\ at2[k - 1] = at[k]
      BY <1>2, <1>4
    <2> QED BY <1>6, <2>1
  <1>8. Marks(h, T, rest, at2)
    BY <1>2, <1>4, <1>5, <1>7 DEF Marks
  <1>9. at2[0] = at[1]
    BY <1>2, <1>4
  <1>10. \A z : (z.st = "in" => z.rev = at[1]) => DownOK(h, T, z, rest)
    BY <1>8, <1>9 DEF DownOK
  <1>11. 1 \in 1..m /\ 1 - 1 = 0 /\ at[0] \in 0..Len(h) /\ at[1] \in 0..Len(h)
    BY <1>2, <1>3
  <1>12. \A k \in 2..m : down[k].kind = "ops" => down[k].rev > at[1]
    <2> SUFFICES ASSUME NEW k \in 2..m, down[k].kind = "ops" PROVE down[k].rev > at[1]
      OBVIOUS
    <2>1. k \in 1..m /\ k - 1 \in 0..m /\ 1 \in 0..m /\ 1 <= k - 1
      BY <1>2
    <2>2. at[k] = at[k - 1] + 1 /\ down[k].rev = at[k]
      BY <1>6, <2>1
    <2>3. at[1] <= at[k - 1] /\ at[1] \in Nat /\ at[k - 1] \in Nat
      BY <1>3, <2>1
    <2> QED BY <2>2, <2>3
  <1>13. /\ s.st = "in" => s.rev = at[0]
         /\ down[1].kind = "ops" =>
              /\ at[1] = at[0] + 1 /\ down[1].rev = at[1] /\ down[1].ops = h[at[1]]
              /\ down[1].hash \in {NoHash, T[at[1]]}
         /\ down[1].kind # "ops" => at[1] = at[0]
         /\ down[1].kind = "snapshot" => down[1].rev = at[1] /\ down[1].text = T[at[1]]
    BY <1>1, <1>6, <1>11
  <1> QED
    <2> DEFINE a == at[0]
               b == at[1]
    <2> HIDE DEF a, b
    <2> QED BY <1>10, <1>11, <1>12, <1>13 DEF rest, m, a, b

\* One frame more from the guest, one fewer.
LEMMA UpOther ==
    ASSUME NEW S, NEW h, NEW T, NEW joined, NEW up \in Seq(S), UpOK(h, T, joined, up),
           NEW f, f.kind \in {"ask", "open", "close"}
    PROVE  UpOK(h, T, joined, Append(up, f))
PROOF
  <1> DEFINE n == Len(up)
             up2 == Append(up, f)
  <1>1. n \in Nat /\ Len(up2) = n + 1 /\ up2[n + 1] = f
        /\ \A i \in 1..n : up2[i] = up[i]
    BY Longer
  <1>2. up2[n + 1].kind # "resync" /\ up2[n + 1].kind # "ops"
    BY <1>1
  <1>3. \A i \in 1..n :
          /\ up[i].kind # "resync"
          /\ up[i].kind = "ops" =>
               /\ joined /\ up[i].rev \in 0..Len(h) /\ up[i].ops \in OpsOn(T[up[i].rev])
               /\ \A j \in 1..n : /\ up[j].kind = "ops" => i = j
                                  /\ up[j].kind = "close" => i < j
    BY DEF UpOK
  <1> HIDE DEF n, up2
  <1>4. \A i \in 1..(n + 1) : i \in 1..n \/ i = n + 1
    BY <1>1
  <1>5. ASSUME NEW i \in 1..n, up2[i].kind = "ops", NEW j \in 1..(n + 1)
        PROVE  /\ up2[j].kind = "ops" => i = j
               /\ up2[j].kind = "close" => i < j
    <2>1. CASE j \in 1..n
      BY <1>1, <1>3, <1>5, <2>1
    <2>2. CASE j = n + 1
      BY <1>1, <1>2, <2>2
    <2> QED BY <1>4, <2>1, <2>2
  <1>6. \A i \in 1..(n + 1) :
          /\ up2[i].kind # "resync"
          /\ up2[i].kind = "ops" =>
               /\ joined /\ up2[i].rev \in 0..Len(h)
               /\ up2[i].ops \in OpsOn(T[up2[i].rev])
               /\ \A j \in 1..(n + 1) : /\ up2[j].kind = "ops" => i = j
                                        /\ up2[j].kind = "close" => i < j
    BY <1>1, <1>2, <1>3, <1>4, <1>5
  <1> QED BY <1>1, <1>6 DEF UpOK, up2

LEMMA UpEdit ==
    ASSUME NEW S, NEW h, NEW T, NEW up \in Seq(S), UpOK(h, T, TRUE, up),
           EditsIn(up) = {}, \A i \in 1..Len(up) : up[i].kind # "close",
           NEW f, f.kind = "ops", f.rev \in 0..Len(h), f.ops \in OpsOn(T[f.rev])
    PROVE  UpOK(h, T, TRUE, Append(up, f))
PROOF
  <1> DEFINE n == Len(up)
             up2 == Append(up, f)
  <1>1. n \in Nat /\ Len(up2) = n + 1 /\ up2[n + 1] = f
        /\ \A i \in 1..n : up2[i] = up[i]
    BY Longer
  <1>2. \A i \in 1..n : up[i].kind \notin {"resync", "ops", "close"}
    BY DEF UpOK, EditsIn
  <1> HIDE DEF n, up2
  <1>3. \A i \in 1..(n + 1) : up2[i].kind \in {"ops", "close", "resync"} => i = n + 1
    BY <1>1, <1>2
  <1>4. f.kind # "resync" /\ f.kind # "close"
    OBVIOUS
  <1> QED BY <1>1, <1>3, <1>4 DEF UpOK, up2

LEMMA UpHeard ==
    ASSUME NEW S, NEW h, NEW T, NEW joined, NEW up \in Seq(S), UpOK(h, T, joined, up),
           up # <<>>
    PROVE  /\ UpOK(h, T, joined, Tail(up))
           /\ up[1].kind = "close" => UpOK(h, T, FALSE, Tail(up))
           /\ up[1].kind = "ops" => EditsIn(Tail(up)) = {}
           /\ up[1].kind # "ops" =>
                \A i \in EditsIn(up) : /\ i - 1 \in EditsIn(Tail(up))
                                       /\ Tail(up)[i - 1] = up[i]
           /\ EditsIn(up) = {} => EditsIn(Tail(up)) = {}
PROOF
  <1> DEFINE n == Len(up)
             rest == Tail(up)
  <1>1. n \in Nat \ {0} /\ Len(rest) = n - 1
        /\ \A i \in 1..(n - 1) : rest[i] = up[i + 1]
    BY Shorter
  <1>2. \A i \in 1..n :
          /\ up[i].kind # "resync"
          /\ up[i].kind = "ops" =>
               /\ joined /\ up[i].rev \in 0..Len(h) /\ up[i].ops \in OpsOn(T[up[i].rev])
               /\ \A j \in 1..n : /\ up[j].kind = "ops" => i = j
                                  /\ up[j].kind = "close" => i < j
    BY DEF UpOK
  <1> HIDE DEF n, rest
  <1>3. ASSUME NEW i \in 1..(n - 1)
        PROVE  i + 1 \in 1..n /\ rest[i] = up[i + 1] /\ i + 1 # 1
    BY <1>1
  <1>4. \A i \in 1..(n - 1) : \A j \in 1..(n - 1) :
          rest[i].kind = "ops" => /\ rest[j].kind = "ops" => i = j
                                  /\ rest[j].kind = "close" => i < j
    <2> TAKE i \in 1..(n - 1)
    <2> TAKE j \in 1..(n - 1)
    <2>1. i + 1 \in 1..n /\ j + 1 \in 1..n /\ rest[i] = up[i + 1] /\ rest[j] = up[j + 1]
      BY <1>3
    <2>2. rest[i].kind = "ops" => /\ rest[j].kind = "ops" => i + 1 = j + 1
                                  /\ rest[j].kind = "close" => i + 1 < j + 1
      BY <1>2, <2>1
    <2> QED BY <2>2
  <1>5. \A i \in 1..(n - 1) :
          /\ rest[i].kind # "resync"
          /\ rest[i].kind = "ops" => /\ joined /\ rest[i].rev \in 0..Len(h)
                                     /\ rest[i].ops \in OpsOn(T[rest[i].rev])
    BY <1>2, <1>3
  <1>6. UpOK(h, T, joined, rest)
    BY <1>1, <1>4, <1>5 DEF UpOK
  <1>7. 1 \in 1..n
    BY <1>1
  <1>8. up[1].kind = "close" => \A i \in 1..(n - 1) : rest[i].kind # "ops"
    <2> SUFFICES ASSUME up[1].kind = "close", NEW i \in 1..(n - 1), rest[i].kind = "ops"
                 PROVE  FALSE
      OBVIOUS
    <2>1. i + 1 \in 1..n /\ up[i + 1].kind = "ops"
      BY <1>3
    <2>2. i + 1 < 1
      BY <1>2, <1>7, <2>1
    <2> QED BY <2>2
  <1>9. up[1].kind = "close" => UpOK(h, T, FALSE, rest)
    BY <1>1, <1>5, <1>8 DEF UpOK
  <1>10. up[1].kind = "ops" => \A i \in 1..(n - 1) : rest[i].kind # "ops"
    BY <1>2, <1>3, <1>7
  <1>11. \A i \in EditsIn(up) : i # 1 => i - 1 \in EditsIn(rest) /\ rest[i - 1] = up[i]
    <2> SUFFICES ASSUME NEW i \in 1..n, up[i].kind = "ops", i # 1
                 PROVE  i - 1 \in 1..(n - 1) /\ rest[i - 1] = up[i]
      BY <1>1 DEF EditsIn, n
    <2>1. i - 1 \in 1..(n - 1) /\ (i - 1) + 1 = i
      BY <1>1
    <2> QED BY <1>1, <2>1
  <1>12. up[1].kind # "ops" => \A i \in EditsIn(up) : i # 1
    BY DEF EditsIn
  <1>13. EditsIn(up) = {} => EditsIn(rest) = {}
    BY <1>1, <1>3 DEF EditsIn, n
  <1>14. up[1].kind = "ops" => EditsIn(rest) = {}
    BY <1>1, <1>10 DEF EditsIn
  <1> QED BY <1>6, <1>9, <1>11, <1>12, <1>13, <1>14 DEF rest

LEMMA UpGrows ==
    ASSUME NEW S, NEW h, NEW T, NEW o, NEW i, NEW V, Grown(h, T, o, i, V),
           NEW joined, NEW up \in Seq(S), UpOK(h, T, joined, up)
    PROVE  UpOK(i, V, joined, up)
PROOF
  <1>1. \A r \in 0..Len(h) : r \in 0..Len(i) /\ V[r] = T[r]
    BY DEF Grown
  <1> QED BY <1>1 DEF UpOK

LEMMA UpJoined ==
    ASSUME NEW h, NEW T, NEW joined, NEW up, UpOK(h, T, joined, up)
    PROVE  UpOK(h, T, TRUE, up)
  BY DEF UpOK

\* Where the frames of some kinds are.
KindAt(q, K) == {i \in 1..Len(q) : q[i].kind \in K}
One(N) == \A i, j \in N : i = j

LEMMA KindAppend ==
    ASSUME NEW S, NEW q \in Seq(S), NEW f, NEW K
    PROVE  /\ f.kind \notin K => KindAt(Append(q, f), K) = KindAt(q, K)
           /\ f.kind \in K => KindAt(Append(q, f), K) = KindAt(q, K) \union {Len(q) + 1}
PROOF
  <1> DEFINE n == Len(q)
             p == Append(q, f)
  <1>1. n \in Nat /\ Len(p) = n + 1 /\ p[n + 1] = f /\ \A i \in 1..n : p[i] = q[i]
    BY Longer
  <1>2. \A i : i \in 1..(n + 1) <=> i \in 1..n \/ i = n + 1
    BY <1>1
  <1> HIDE DEF n, p
  <1>3. \A i : i \in KindAt(p, K) <=> i \in KindAt(q, K) \/ (i = n + 1 /\ f.kind \in K)
    BY <1>1, <1>2 DEF KindAt, n
  <1> QED BY <1>3 DEF n, p

LEMMA KindTail ==
    ASSUME NEW S, NEW q \in Seq(S), q # <<>>, NEW K
    PROVE  /\ \A i \in KindAt(Tail(q), K) : i + 1 \in KindAt(q, K) /\ i + 1 # 1
           /\ KindAt(q, K) = {} => KindAt(Tail(q), K) = {}
           /\ One(KindAt(q, K)) => One(KindAt(Tail(q), K))
           /\ One(KindAt(q, K)) /\ q[1].kind \in K => KindAt(Tail(q), K) = {}
PROOF
  <1> DEFINE n == Len(q)
             p == Tail(q)
  <1>1. n \in Nat \ {0} /\ Len(p) = n - 1 /\ \A i \in 1..(n - 1) : p[i] = q[i + 1]
    BY Shorter
  <1>2. \A i \in 1..(n - 1) : i \in Nat /\ i + 1 \in 1..n /\ i + 1 # 1
    BY <1>1
  <1>3. 1 \in 1..n
    BY <1>1
  <1> HIDE DEF n, p
  <1>4. \A i \in KindAt(p, K) : i \in Nat /\ i + 1 \in KindAt(q, K) /\ i + 1 # 1
    BY <1>1, <1>2 DEF KindAt, n
  <1>5. q[1].kind \in K => 1 \in KindAt(q, K)
    BY <1>3 DEF KindAt, n
  <1>6. One(KindAt(q, K)) => One(KindAt(p, K))
    BY <1>4 DEF One
  <1>7. One(KindAt(q, K)) /\ q[1].kind \in K => KindAt(p, K) = {}
    BY <1>4, <1>5 DEF One
  <1> QED BY <1>4, <1>6, <1>7 DEF p

Asks    == {"ask", "open"}
Answers == {"offer", "snapshot"}

\* AskOK in these terms.
LEMMA AskKinds ==
    ASSUME NEW S, NEW R, NEW s, NEW up \in Seq(S), NEW down \in Seq(R)
    PROVE  AskOK(s, up, down) <=>
             /\ One(KindAt(up, Asks)) /\ One(KindAt(down, Answers))
             /\ KindAt(up, Asks) = {} \/ KindAt(down, Answers) = {}
             /\ \A i \in 1..Len(up) : up[i].kind = "open" => i = Len(up) /\ s.st = "out"
PROOF
  <1>1. DOMAIN up = 1..Len(up) /\ DOMAIN down = 1..Len(down)
    OBVIOUS
  <1>2. Asking(up) = KindAt(up, Asks) /\ Answering(down) = KindAt(down, Answers)
    BY <1>1 DEF Asking, Answering, KindAt, Asks, Answers
  <1> QED BY <1>2, Zenon DEF AskOK, One

LEMMA AskUpAppend ==
    ASSUME NEW S, NEW R, NEW s, NEW up \in Seq(S), NEW down \in Seq(R),
           AskOK(s, up, down), \A i \in 1..Len(up) : up[i].kind # "open",
           NEW z, NEW f,
           \/ f.kind \in {"ops", "close"}
           \/ f.kind = "ask" /\ KindAt(up, Asks) = {} /\ KindAt(down, Answers) = {}
    PROVE  AskOK(z, Append(up, f), down)
PROOF
  <1>1. Append(up, f) \in Seq(S \union {f})
    <2>1. up \in Seq(S \union {f})
      OBVIOUS
    <2> QED BY <2>1
  <1>2. /\ One(KindAt(up, Asks)) /\ One(KindAt(down, Answers))
        /\ KindAt(up, Asks) = {} \/ KindAt(down, Answers) = {}
    BY AskKinds
  <1>3. /\ f.kind \notin Asks => KindAt(Append(up, f), Asks) = KindAt(up, Asks)
        /\ f.kind \in Asks =>
             KindAt(Append(up, f), Asks) = KindAt(up, Asks) \union {Len(up) + 1}
    BY KindAppend
  <1>5. \A i \in 1..Len(Append(up, f)) : Append(up, f)[i].kind # "open"
    <2>1. /\ Len(up) \in Nat /\ Len(Append(up, f)) = Len(up) + 1
          /\ \A i \in 1..Len(up) : Append(up, f)[i] = up[i]
          /\ Append(up, f)[Len(up) + 1] = f
      BY Longer
    <2>2. f.kind # "open"
      OBVIOUS
    <2> QED BY <2>1, <2>2
  <1>6. /\ One(KindAt(Append(up, f), Asks))
        /\ KindAt(Append(up, f), Asks) = {} \/ KindAt(down, Answers) = {}
    <2>1. CASE f.kind \in {"ops", "close"}
      BY <1>2, <1>3, <2>1 DEF Asks
    <2>2. CASE f.kind = "ask" /\ KindAt(up, Asks) = {} /\ KindAt(down, Answers) = {}
      <3>1. KindAt(Append(up, f), Asks) = {Len(up) + 1}
        BY <1>3, <2>2 DEF Asks
      <3> QED BY <2>2, <3>1 DEF One
    <2> QED BY <2>1, <2>2
  <1> QED BY <1>1, <1>2, <1>5, <1>6, AskKinds

\* The answer of an offer: an open goes back.
LEMMA AskOpens ==
    ASSUME NEW S, NEW R, NEW s, NEW up \in Seq(S), NEW down \in Seq(R),
           AskOK(s, up, down), down # <<>>, down[1].kind = "offer",
           NEW z, z.st = "out", NEW f, f.kind = "open"
    PROVE  AskOK(z, Append(up, f), Tail(down))
PROOF
  <1>1. Append(up, f) \in Seq(S \union {f}) /\ Tail(down) \in Seq(R)
    <2>1. up \in Seq(S \union {f})
      OBVIOUS
    <2> QED BY <2>1, Shorter
  <1>2. /\ One(KindAt(up, Asks)) /\ One(KindAt(down, Answers))
        /\ KindAt(up, Asks) = {} \/ KindAt(down, Answers) = {}
        /\ \A i \in 1..Len(up) : up[i].kind = "open" => i = Len(up) /\ s.st = "out"
    BY AskKinds
  <1>3. f.kind \in Asks /\ down[1].kind \in Answers
    BY DEF Asks, Answers
  <1>4. 1 \in KindAt(down, Answers)
    BY <1>3 DEF KindAt
  <1>5. KindAt(up, Asks) = {}
    BY <1>2, <1>4
  <1>6. KindAt(Append(up, f), Asks) = {Len(up) + 1}
    BY <1>3, <1>5, KindAppend
  <1>7. KindAt(Tail(down), Answers) = {}
    BY <1>2, <1>3, KindTail
  <1>8. \A i \in 1..Len(Append(up, f)) :
          Append(up, f)[i].kind = "open" => i = Len(Append(up, f))
    <2>1. /\ Len(up) \in Nat /\ Len(Append(up, f)) = Len(up) + 1
          /\ \A i \in 1..Len(up) : Append(up, f)[i] = up[i]
      BY Longer
    <2>2. \A i \in 1..Len(up) : up[i].kind # "open"
      BY <1>5 DEF KindAt, Asks
    <2> QED BY <2>1, <2>2
  <1> QED BY <1>1, <1>6, <1>7, <1>8, AskKinds DEF One

LEMMA AskUpTail ==
    ASSUME NEW S, NEW R, NEW s, NEW up \in Seq(S), NEW down \in Seq(R),
           AskOK(s, up, down), up # <<>>
    PROVE  /\ AskOK(s, Tail(up), down)
           /\ up[1].kind \in Asks =>
                \A f : f.kind \in Answers => AskOK(s, Tail(up), Append(down, f))
           /\ up[1].kind = "open" => Tail(up) = <<>>
PROOF
  <1>1. Tail(up) \in Seq(S)
    BY Shorter
  <1>2. /\ One(KindAt(up, Asks)) /\ One(KindAt(down, Answers))
        /\ KindAt(up, Asks) = {} \/ KindAt(down, Answers) = {}
        /\ \A i \in 1..Len(up) : up[i].kind = "open" => i = Len(up) /\ s.st = "out"
    BY AskKinds
  <1>3. /\ One(KindAt(Tail(up), Asks))
        /\ KindAt(up, Asks) = {} => KindAt(Tail(up), Asks) = {}
        /\ up[1].kind \in Asks => KindAt(Tail(up), Asks) = {}
    BY <1>2, KindTail
  <1>4. \A i \in 1..Len(Tail(up)) :
          Tail(up)[i].kind = "open" => i = Len(Tail(up)) /\ s.st = "out"
    <2> DEFINE n == Len(up)
               p == Tail(up)
    <2>1. n \in Nat \ {0} /\ Len(p) = n - 1 /\ \A i \in 1..(n - 1) : p[i] = up[i + 1]
      BY Shorter
    <2>2. \A i \in 1..n : up[i].kind = "open" => i = n /\ s.st = "out"
      BY <1>2
    <2> HIDE DEF n, p
    <2>3. \A i \in 1..(n - 1) : p[i].kind = "open" => i = n - 1 /\ s.st = "out"
      <3> TAKE i \in 1..(n - 1)
      <3>1. i + 1 \in 1..n /\ p[i] = up[i + 1] /\ (i + 1 = n => i = n - 1)
        BY <2>1
      <3> QED BY <2>2, <3>1
    <2> QED BY <2>1, <2>3 DEF p
  <1>5. AskOK(s, Tail(up), down)
    BY <1>1, <1>2, <1>3, <1>4, AskKinds
  <1>6. ASSUME up[1].kind \in Asks, NEW f, f.kind \in Answers
        PROVE  AskOK(s, Tail(up), Append(down, f))
    <2>1. Append(down, f) \in Seq(R \union {f})
      <3>1. down \in Seq(R \union {f})
        OBVIOUS
      <3> QED BY <3>1
    <2>2. KindAt(down, Answers) = {}
      <3>1. 1 \in KindAt(up, Asks)
        BY <1>6 DEF KindAt
      <3> QED BY <1>2, <3>1
    <2>3. KindAt(Append(down, f), Answers) = {Len(down) + 1}
      BY <1>6, <2>2, KindAppend
    <2>4. KindAt(Tail(up), Asks) = {}
      BY <1>3, <1>6
    <2>5. One(KindAt(Append(down, f), Answers)) /\ One(KindAt(Tail(up), Asks))
      BY <1>3, <2>3 DEF One
    <2> QED BY <1>1, <1>4, <2>1, <2>4, <2>5, AskKinds, Zenon
  <1>7. up[1].kind = "open" => Tail(up) = <<>>
    <2>1. 1 \in 1..Len(up)
      OBVIOUS
    <2>2. up[1].kind = "open" => Len(up) = 1
      BY <1>2, <2>1
    <2>3. Len(up) = 1 => Len(Tail(up)) = 0
      BY Shorter
    <2>4. up[1].kind = "open" => Len(Tail(up)) = 0
      BY <2>2, <2>3
    <2>5. ASSUME NEW q \in Seq(S), Len(q) = 0 PROVE q = <<>>
      BY <2>5
    <2> QED BY <1>1, <2>4, <2>5
  <1> QED BY <1>5, <1>6, <1>7

LEMMA AskDown ==
    ASSUME NEW S, NEW R, NEW s, NEW up \in Seq(S), NEW down \in Seq(R),
           AskOK(s, up, down), NEW z, \A i \in 1..Len(up) : up[i].kind = "open" => z.st = "out"
    PROVE  /\ AskOK(z, up, down)
           /\ \A f : f.kind \notin Answers => AskOK(z, up, Append(down, f))
           /\ down # <<>> => AskOK(z, up, Tail(down))
PROOF
  <1>1. /\ One(KindAt(up, Asks)) /\ One(KindAt(down, Answers))
        /\ KindAt(up, Asks) = {} \/ KindAt(down, Answers) = {}
        /\ \A i \in 1..Len(up) : up[i].kind = "open" => i = Len(up) /\ z.st = "out"
    BY AskKinds
  <1>2. AskOK(z, up, down)
    BY <1>1, AskKinds
  <1>3. ASSUME NEW f, f.kind \notin Answers PROVE AskOK(z, up, Append(down, f))
    <2>1. Append(down, f) \in Seq(R \union {f})
      <3>1. down \in Seq(R \union {f})
        OBVIOUS
      <3> QED BY <3>1
    <2>2. KindAt(Append(down, f), Answers) = KindAt(down, Answers)
      BY <1>3, KindAppend
    <2> QED BY <1>1, <2>1, <2>2, AskKinds
  <1>4. ASSUME down # <<>> PROVE AskOK(z, up, Tail(down))
    <2>1. Tail(down) \in Seq(R)
      BY <1>4, Shorter
    <2>2. /\ One(KindAt(Tail(down), Answers))
          /\ KindAt(down, Answers) = {} => KindAt(Tail(down), Answers) = {}
      BY <1>1, <1>4, KindTail
    <2> QED BY <1>1, <2>1, <2>2, AskKinds
  <1> QED BY <1>2, <1>3, <1>4

LEMMA OwnAppend ==
    ASSUME NEW S, NEW g, NEW down \in Seq(S), NEW f
    PROVE  /\ f.kind # "ops" \/ f.author # g => Own(g, Append(down, f)) = Own(g, down)
           /\ f.kind = "ops" /\ f.author = g =>
                Own(g, Append(down, f)) = Own(g, down) \union {Len(down) + 1}
PROOF
  <1> DEFINE n == Len(down)
             p == Append(down, f)
  <1>1. n \in Nat /\ Len(p) = n + 1 /\ p[n + 1] = f /\ \A i \in 1..n : p[i] = down[i]
    BY Longer
  <1>2. \A i : i \in 1..(n + 1) <=> i \in 1..n \/ i = n + 1
    BY <1>1
  <1> HIDE DEF n, p
  <1>3. \A i : i \in Own(g, p) <=>
          i \in Own(g, down) \/ (i = n + 1 /\ f.kind = "ops" /\ f.author = g)
    BY <1>1, <1>2 DEF Own, n
  <1> QED BY <1>3 DEF n, p

LEMMA OwnTail ==
    ASSUME NEW S, NEW g, NEW down \in Seq(S), down # <<>>
    PROVE  /\ \A k \in Own(g, Tail(down)) : k \in Nat /\ k + 1 \in Own(g, down)
           /\ \A k \in Own(g, down) :
                k # 1 => k - 1 \in Own(g, Tail(down)) /\ Tail(down)[k - 1] = down[k]
           /\ Own(g, down) = {} => Own(g, Tail(down)) = {}
PROOF
  <1> DEFINE n == Len(down)
             p == Tail(down)
  <1>1. n \in Nat \ {0} /\ Len(p) = n - 1 /\ \A i \in 1..(n - 1) : p[i] = down[i + 1]
    BY Shorter
  <1> HIDE DEF n, p
  <1>2. \A k \in Own(g, p) : k \in Nat /\ k + 1 \in Own(g, down)
    <2> SUFFICES ASSUME NEW k \in 1..(n - 1), p[k].kind = "ops", p[k].author = g
                 PROVE  k + 1 \in 1..n /\ down[k + 1] = p[k]
      BY <1>1 DEF Own, n
    <2> QED BY <1>1
  <1>3. \A k \in Own(g, down) : k # 1 => k - 1 \in Own(g, p) /\ p[k - 1] = down[k]
    <2> SUFFICES ASSUME NEW k \in 1..n, k # 1
                 PROVE  k - 1 \in 1..(n - 1) /\ p[k - 1] = down[k]
      BY <1>1 DEF Own, n
    <2>1. k - 1 \in 1..(n - 1) /\ (k - 1) + 1 = k
      BY <1>1
    <2> QED BY <1>1, <2>1
  <1>4. Own(g, down) = {} => Own(g, p) = {}
    BY <1>2
  <1> QED BY <1>2, <1>3, <1>4 DEF p

\* What is on its way to a guest is history, later than what the guest has.
LEMMA DownRevs ==
    ASSUME NEW S, NEW h, Len(h) \in Nat, NEW T, NEW s, NEW down \in Seq(S),
           DownOK(h, T, s, down)
    PROVE  \A k \in 1..Len(down) : down[k].kind = "ops" =>
             /\ down[k].rev \in 1..Len(h) /\ down[k].ops = h[down[k].rev]
             /\ s.st = "in" => s.rev \in Nat /\ s.rev < down[k].rev
PROOF
  <1>1. PICK at : Marks(h, T, down, at) /\ (s.st = "in" => s.rev = at[0])
    BY DEF DownOK
  <1> SUFFICES ASSUME NEW k \in 1..Len(down), down[k].kind = "ops"
               PROVE  /\ down[k].rev \in 1..Len(h) /\ down[k].ops = h[down[k].rev]
                      /\ s.st = "in" => s.rev \in Nat /\ s.rev < down[k].rev
    OBVIOUS
  <1>2. k - 1 \in 0..Len(down) /\ k \in 0..Len(down) /\ 0 \in 0..Len(down) /\ 0 <= k - 1
    OBVIOUS
  <1>3. at[k] \in 0..Len(h) /\ at[k - 1] \in 0..Len(h) /\ at[0] \in 0..Len(h)
        /\ at[0] <= at[k - 1]
    BY <1>1, <1>2 DEF Marks
  <1>4. at[k] = at[k - 1] + 1 /\ down[k].rev = at[k] /\ down[k].ops = h[at[k]]
    BY <1>1 DEF Marks
  <1> QED BY <1>1, <1>3, <1>4

\* A revision more leaves what the guest has of its own as it was.
LEMMA FlightGrows ==
    ASSUME NEW S, NEW R, NEW g, NEW h, NEW T, NEW o, NEW i, NEW V, Grown(h, T, o, i, V),
           NEW joined, NEW s, s.rev \in 0..Len(h), s.st = "in",
           NEW up \in Seq(S), UpOK(h, T, joined, up),
           NEW down \in Seq(R), DownOK(h, T, s, down),
           FlightOK(g, "live", h, s, up, down)
    PROVE  FlightOK(g, "live", i, s, up, down)
PROOF
  <1>1. Len(h) \in Nat /\ \A r \in 1..Len(h) : i[r] = h[r]
    BY DEF Grown
  <1>2. ASSUME Sequenced(g, h, s, up, down) PROVE Sequenced(g, i, s, up, down)
    <2>1. PICK k \in Own(g, down) :
            /\ Own(g, down) = {k}
            /\ Leads(h, s.rev, down[k].rev - 1, s.outstanding, h[down[k].rev])
      BY <1>2 DEF Sequenced
    <2>2. down[k].rev \in 1..Len(h)
      BY <1>1, DownRevs DEF Own
    <2>3. i[down[k].rev] = h[down[k].rev]
      BY <1>1, <2>2
    <2>4. /\ s.rev \in Nat /\ down[k].rev - 1 \in Nat
          /\ \A r \in (s.rev + 1)..(down[k].rev - 1) : i[r] = h[r]
      BY <1>1, <2>2
    <2>5. Leads(i, s.rev, down[k].rev - 1, s.outstanding, h[down[k].rev])
      BY <2>1, <2>4, FollowsSame
    <2> QED BY <1>2, <2>1, <2>3, <2>5 DEF Sequenced
  <1>3. ASSUME Sent(g, "live", h, s, up, down) PROVE Sent(g, "live", i, s, up, down)
    <2>1. PICK k \in EditsIn(up) :
            up[k].rev <= s.rev /\ Leads(h, up[k].rev, s.rev, up[k].ops, s.outstanding)
      BY <1>3 DEF Sent
    <2>2. up[k].rev \in 0..Len(h)
      BY DEF EditsIn, UpOK
    <2>3. /\ s.rev \in Nat /\ up[k].rev \in Nat
          /\ \A r \in (up[k].rev + 1)..s.rev : i[r] = h[r]
      BY <1>1, <2>2
    <2>4. Leads(i, up[k].rev, s.rev, up[k].ops, s.outstanding)
      BY <2>1, <2>3, FollowsSame
    <2> QED BY <1>3, <2>1, <2>4 DEF Sent
  <1> QED BY <1>2, <1>3 DEF FlightOK

\* Frames that are not operations change nothing of it.
LEMMA FlightMore ==
    ASSUME NEW S, NEW R, NEW g, NEW ses, NEW h, NEW s, NEW up \in Seq(S),
           NEW down \in Seq(R), FlightOK(g, ses, h, s, up, down),
           NEW f, f.kind # "ops"
    PROVE  /\ FlightOK(g, ses, h, s, Append(up, f), down)
           /\ FlightOK(g, ses, h, s, up, Append(down, f))
PROOF
  <1>1. EditsIn(Append(up, f)) = EditsIn(up)
    <2>1. KindAt(Append(up, f), {"ops"}) = KindAt(up, {"ops"})
      BY KindAppend
    <2> QED BY <2>1 DEF KindAt, EditsIn
  <1>2. Own(g, Append(down, f)) = Own(g, down)
    BY OwnAppend
  <1>3. \A i \in EditsIn(up) : Append(up, f)[i] = up[i]
    BY Longer DEF EditsIn
  <1>4. \A k \in Own(g, down) : Append(down, f)[k] = down[k]
    BY Longer DEF Own
  <1>5. FlightOK(g, ses, h, s, Append(up, f), down)
    BY <1>1, <1>3 DEF FlightOK, Sequenced, Sent
  <1>6. FlightOK(g, ses, h, s, up, Append(down, f))
    BY <1>2, <1>4 DEF FlightOK, Sequenced, Sent
  <1> QED BY <1>5, <1>6

-----------------------------------------------------------------------------
(* What the owner does.                                                    *)

\* An edit becomes a revision: a guest who is not its author is told.
LEMMA LinkTold ==
    ASSUME NEW g, NEW h, NEW T, NEW o, NEW i, NEW V, Grown(h, T, o, i, V),
           NEW joined, NEW s, NEW up, NEW down, LinkOK(g, "live", h, T, joined, s, up, down),
           NEW f, f \in OwnerFramesTo(Len(i)), f.kind = "ops", f.rev = Len(i), f.ops = o,
           f.hash \in {NoHash, V[Len(i)]}, f.author # g
    PROVE  LinkOK(g, "live", i, V, joined, s, up, Append(down, f))
PROOF
  <1> DEFINE n == Len(h)
             S == GuestFramesTo(n)
             R == OwnerFramesTo(n)
  <1>1. s \in SessionsTo(n) /\ up \in Seq(S) /\ down \in Seq(R)
    BY DEF LinkOK, Typed
  <1>2. n \in Nat /\ Len(i) = n + 1
    BY DEF Grown
  <1> HIDE DEF n, S, R
  <1>3. Typed(Len(i), s, up, Append(down, f))
    <2>1. /\ SessionsTo(n) \subseteq SessionsTo(Len(i))
          /\ S \subseteq GuestFramesTo(Len(i)) /\ R \subseteq OwnerFramesTo(Len(i))
      BY <1>2, TypesGrow DEF S, R
    <2>2. up \in Seq(GuestFramesTo(Len(i))) /\ down \in Seq(OwnerFramesTo(Len(i)))
      BY <1>1, <2>1
    <2>3. Append(down, f) \in Seq(OwnerFramesTo(Len(i)))
      BY <2>2
    <2> QED BY <1>1, <2>1, <2>2, <2>3 DEF Typed
  <1>4. DownOK(i, V, s, Append(down, f))
    BY <1>1, DownOps DEF LinkOK
  <1>5. UpOK(i, V, joined, up)
    BY <1>1, UpGrows DEF LinkOK
  <1>6. AskOK(s, up, Append(down, f))
    <2>1. \A k \in 1..Len(up) : up[k].kind = "open" => s.st = "out"
      BY DEF LinkOK, AskOK
    <2>2. f.kind \notin Answers
      BY DEF Answers
    <2> QED BY <1>1, <2>1, <2>2, AskDown DEF LinkOK
  <1>7. /\ Own(g, Append(down, f)) = Own(g, down)
        /\ Len(down) \in Nat /\ Len(Append(down, f)) = Len(down) + 1
        /\ \A k \in 1..Len(down) : Append(down, f)[k] = down[k]
        /\ Append(down, f)[Len(down) + 1] = f
    BY <1>1, OwnAppend, Longer
  <1>8. SnapshotOK(g, "live", joined, s, up, Append(down, f))
    BY <1>7 DEF LinkOK, SnapshotOK
  <1>9. StateOK("live", joined, s, up, Append(down, f))
    <2>1. s.st # "orphaned" /\ \A k \in 1..Len(down) : down[k].kind # "close"
      BY DEF LinkOK, StateOK
    <2>2. \A k \in 1..Len(Append(down, f)) : Append(down, f)[k].kind # "close"
      BY <1>7, <2>1
    <2> QED BY <2>1, <2>2 DEF LinkOK, StateOK
  <1>10. ASSUME s.st = "in" PROVE TextOK(V, s) /\ FlightOK(g, "live", i, s, up, Append(down, f))
    <2>1. s.rev \in 0..n
      BY <1>1 DEF SessionsTo
    <2>2. V[s.rev] = T[s.rev]
      BY <2>1 DEF Grown, n
    <2>3. TextOK(V, s)
      BY <1>10, <2>2 DEF LinkOK, TextOK
    <2>4. FlightOK(g, "live", h, s, up, down)
      BY <1>10 DEF LinkOK
    <2>5. FlightOK(g, "live", i, s, up, down)
      BY <1>1, <1>10, <2>1, <2>4, FlightGrows DEF LinkOK, n
    <2>6. FlightOK(g, "live", i, s, up, Append(down, f))
      <3>1. \A k \in Own(g, down) : Append(down, f)[k] = down[k]
        BY <1>7 DEF Own
      <3> QED BY <1>7, <2>5, <3>1 DEF FlightOK, Sequenced, Sent
    <2> QED BY <2>3, <2>6
  <1> QED BY <1>3, <1>4, <1>5, <1>6, <1>8, <1>9, <1>10 DEF LinkOK

\* The author is told too, and what it has in flight is that revision.
LEMMA LinkSequenced ==
    ASSUME Operations, NEW g, NEW h, NEW T, NEW t, HistoryOK(h, T, t),
           NEW o, NEW i, NEW V, Grown(h, T, o, i, V),
           NEW joined, NEW s, NEW up, NEW down, LinkOK(g, "live", h, T, joined, s, up, down),
           up # <<>>, up[1].kind = "ops",
           o = CarriedOver(h, up[1].rev, up[1].ops)[Len(h)],
           NEW f, f \in OwnerFramesTo(Len(i)), f.kind = "ops", f.rev = Len(i), f.ops = o,
           f.hash \in {NoHash, V[Len(i)]}, f.author = g
    PROVE  LinkOK(g, "live", i, V, joined, s, Tail(up), Append(down, f))
PROOF
  <1> DEFINE n == Len(h)
             S == GuestFramesTo(n)
             R == OwnerFramesTo(n)
             e == up[1]
             down2 == Append(down, f)
  <1>1. s \in SessionsTo(n) /\ up \in Seq(S) /\ down \in Seq(R)
    BY DEF LinkOK, Typed
  <1>2. n \in Nat /\ Len(i) = n + 1
    BY DEF Grown
  <1>3. 1 \in 1..Len(up) /\ e.rev \in 0..n /\ e.ops \in OpsOn(T[e.rev])
    BY <1>1 DEF LinkOK, UpOK
  <1> HIDE DEF n, S, R
  <1>4. Typed(Len(i), s, Tail(up), down2)
    <2>1. /\ SessionsTo(n) \subseteq SessionsTo(Len(i))
          /\ S \subseteq GuestFramesTo(Len(i)) /\ R \subseteq OwnerFramesTo(Len(i))
      BY <1>2, TypesGrow DEF S, R
    <2>2. up \in Seq(GuestFramesTo(Len(i))) /\ down \in Seq(OwnerFramesTo(Len(i)))
      BY <1>1, <2>1
    <2>3. down2 \in Seq(OwnerFramesTo(Len(i))) /\ Tail(up) \in Seq(GuestFramesTo(Len(i)))
      BY <2>2
    <2> QED BY <1>1, <2>1, <2>3 DEF Typed
  <1>5. DownOK(i, V, s, down2)
    BY <1>1, DownOps DEF LinkOK
  <1>6. UpOK(h, T, joined, Tail(up)) /\ EditsIn(Tail(up)) = {} /\ Tail(up) \in Seq(S)
    BY <1>1, UpHeard, Shorter DEF LinkOK
  <1>7. UpOK(i, V, joined, Tail(up))
    BY <1>6, UpGrows
  <1>8. AskOK(s, Tail(up), down2)
    <2>1. AskOK(s, Tail(up), down)
      BY <1>1, AskUpTail DEF LinkOK
    <2>2. \A k \in 1..Len(Tail(up)) : Tail(up)[k].kind = "open" => s.st = "out"
      BY <2>1 DEF AskOK
    <2>3. f.kind \notin Answers
      BY DEF Answers
    <2> QED BY <1>1, <1>6, <2>1, <2>2, <2>3, AskDown
  <1>9. /\ Own(g, down2) = Own(g, down) \union {Len(down) + 1}
        /\ Len(down) \in Nat /\ Len(down2) = Len(down) + 1
        /\ \A k \in 1..Len(down) : down2[k] = down[k]
        /\ down2[Len(down) + 1] = f
    BY <1>1, OwnAppend, Longer
  <1> HIDE DEF down2
  <1>10. SnapshotOK(g, "live", joined, s, Tail(up), down2)
    <2>1. \A k \in 1..Len(down) : down[k].kind # "snapshot"
      BY DEF LinkOK, SnapshotOK
    <2>2. \A k \in 1..Len(down2) : down2[k].kind # "snapshot"
      BY <1>9, <2>1
    <2> QED BY <2>2 DEF SnapshotOK
  <1>11. StateOK("live", joined, s, Tail(up), down2)
    <2>1. s.st # "orphaned" /\ \A k \in 1..Len(down) : down[k].kind # "close"
      BY DEF LinkOK, StateOK
    <2>2. \A k \in 1..Len(down2) : down2[k].kind # "close"
      BY <1>9, <2>1
    <2>3. s.st = "in" => \A k \in 1..Len(Tail(up)) : Tail(up)[k].kind # "close"
      <3>1. /\ Len(up) \in Nat \ {0} /\ Len(Tail(up)) = Len(up) - 1
            /\ \A k \in 1..(Len(up) - 1) : Tail(up)[k] = up[k + 1]
        BY <1>1, Shorter
      <3>2. s.st = "in" => \A k \in 1..Len(up) : up[k].kind # "close"
        BY DEF LinkOK, StateOK
      <3> QED BY <3>1, <3>2
    <2> QED BY <2>1, <2>2, <2>3 DEF LinkOK, StateOK
  <1>12. ASSUME s.st = "in" PROVE TextOK(V, s) /\ FlightOK(g, "live", i, s, Tail(up), down2)
    <2>1. s.rev \in 0..n
      BY <1>1 DEF SessionsTo
    <2>2. V[s.rev] = T[s.rev]
      BY <2>1 DEF Grown, n
    <2>3. TextOK(V, s)
      BY <1>12, <2>2 DEF LinkOK, TextOK
    <2>4. FlightOK(g, "live", h, s, up, down)
      BY <1>12 DEF LinkOK
    <2>5. 1 \in EditsIn(up) /\ \A k \in EditsIn(up) : k = 1
      BY <1>3 DEF EditsIn, LinkOK, UpOK
    <2>6. s.outstanding # NoOps /\ Sent(g, "live", h, s, up, down)
      BY <2>4, <2>5 DEF FlightOK, Sequenced
    <2>7. Own(g, down) = {}
          /\ e.rev <= s.rev /\ Leads(h, e.rev, s.rev, e.ops, s.outstanding)
      BY <2>5, <2>6 DEF Sent
    <2>8. PICK F : Follows(h, e.rev, s.rev, e.ops, F) /\ F[s.rev] = s.outstanding
      BY <2>7 DEF Leads
    <2> DEFINE G == CarriedOver(h, e.rev, e.ops)
    <2>9. Follows(h, e.rev, n, e.ops, G)
      BY <1>3, CarriedFits DEF n
    <2> HIDE DEF G
    <2>10. G[s.rev] = s.outstanding
      <3>1. e.rev \in Nat /\ n \in Nat /\ s.rev \in Nat /\ s.rev \in e.rev..s.rev /\ s.rev <= n
        BY <1>2, <1>3, <2>1, <2>7
      <3> HIDE DEF e
      <3>2. F[s.rev] = G[s.rev]
        BY <2>8, <2>9, <3>1, FollowsUnique
      <3> QED BY <2>8, <3>2
    <2>11. Leads(h, s.rev, n, s.outstanding, o)
      <3>1. e.rev \in Nat /\ n \in Nat /\ s.rev \in e.rev..n
        BY <1>2, <1>3, <2>1, <2>7
      <3>2. G[n] = o
        BY DEF G, n
      <3> HIDE DEF e
      <3>3. Leads(h, s.rev, n, G[s.rev], G[n])
        BY <2>9, <3>1, FollowsLater
      <3> QED BY <2>10, <3>2, <3>3
    <2>12. Leads(i, s.rev, n, s.outstanding, o)
      <3>1. s.rev \in Nat /\ n \in Nat /\ \A r \in (s.rev + 1)..n : i[r] = h[r]
        BY <1>2, <2>1 DEF Grown, n
      <3> QED BY <2>11, <3>1, FollowsSame
    <2>13. Own(g, down2) = {Len(down) + 1} /\ down2[Len(down) + 1].rev = n + 1
      BY <1>2, <1>9, <2>7
    <2>14. i[n + 1] = o /\ (n + 1) - 1 = n
      BY <1>2 DEF Grown, n
    <2>15. Sequenced(g, i, s, Tail(up), down2)
      BY <1>6, <2>12, <2>13, <2>14 DEF Sequenced
    <2> QED BY <2>3, <2>6, <2>15 DEF FlightOK
  <1> QED BY <1>4, <1>5, <1>7, <1>8, <1>10, <1>11, <1>12 DEF LinkOK, down2

\* A frame leaves the guest's link without more, unless it is an edit that is
\* to become a revision.
LEMMA LinkPassed ==
    ASSUME NEW g, NEW ses, NEW h, NEW T, NEW joined, NEW s, NEW up, NEW down,
           LinkOK(g, ses, h, T, joined, s, up, down),
           up # <<>>, ses # "live" \/ up[1].kind # "ops"
    PROVE  /\ LinkOK(g, ses, h, T, joined, s, Tail(up), down)
           /\ ses # "none" /\ up[1].kind = "close" =>
                LinkOK(g, ses, h, T, FALSE, s, Tail(up), down)
PROOF
  <1> DEFINE S == GuestFramesTo(Len(h))
             R == OwnerFramesTo(Len(h))
             rest == Tail(up)
  <1>1. s \in SessionsTo(Len(h)) /\ up \in Seq(S) /\ down \in Seq(R)
    BY DEF LinkOK, Typed
  <1>2. /\ Len(up) \in Nat \ {0} /\ Len(rest) = Len(up) - 1
        /\ \A k \in 1..(Len(up) - 1) : rest[k] = up[k + 1]
        /\ rest \in Seq(S)
    BY <1>1, Shorter
  <1>3. Typed(Len(h), s, rest, down)
    BY <1>1, <1>2 DEF Typed
  <1>4. DownOK(h, T, s, down)
    BY DEF LinkOK
  <1>5. /\ UpOK(h, T, joined, rest)
        /\ up[1].kind = "close" => UpOK(h, T, FALSE, rest)
        /\ up[1].kind # "ops" =>
             \A k \in EditsIn(up) : k - 1 \in EditsIn(rest) /\ rest[k - 1] = up[k]
        /\ EditsIn(up) = {} => EditsIn(rest) = {}
    BY <1>1, UpHeard DEF LinkOK
  <1>6. AskOK(s, rest, down)
    BY <1>1, AskUpTail DEF LinkOK
  <1>7. \A k \in 1..Len(down) : down[k].kind # "snapshot"
    BY DEF LinkOK, SnapshotOK
  <1>8. \A j : SnapshotOK(g, ses, j, s, rest, down)
    BY <1>7 DEF SnapshotOK
  <1> HIDE DEF rest
  <1>9. s.st = "in" => /\ up[1].kind # "close"
                       /\ \A k \in 1..Len(rest) : rest[k].kind # "close"
    <2>1. s.st = "in" => \A k \in 1..Len(up) : up[k].kind # "close"
      BY DEF LinkOK, StateOK
    <2>2. 1 \in 1..Len(up) /\ \A k \in 1..Len(rest) : k + 1 \in 1..Len(up)
                                                      /\ rest[k] = up[k + 1]
      BY <1>2
    <2> QED BY <2>1, <2>2
  <1>10. StateOK(ses, joined, s, rest, down)
    BY <1>9 DEF LinkOK, StateOK
  <1>11. ASSUME s.st = "in" PROVE TextOK(T, s) /\ FlightOK(g, ses, h, s, rest, down)
    <2>1. TextOK(T, s) /\ FlightOK(g, ses, h, s, up, down) /\ ses # "none"
      BY <1>11 DEF LinkOK, StateOK
    <2>2. ASSUME Sent(g, ses, h, s, up, down) PROVE Sent(g, ses, h, s, rest, down)
      <3>1. CASE ses # "live"
        BY <2>2, <3>1 DEF Sent
      <3>2. CASE ses = "live"
        <4>1. PICK k \in EditsIn(up) :
                up[k].rev <= s.rev /\ Leads(h, up[k].rev, s.rev, up[k].ops, s.outstanding)
          BY <2>2, <3>2 DEF Sent
        <4>2. k - 1 \in EditsIn(rest) /\ rest[k - 1] = up[k]
          BY <1>5, <3>2
        <4>3. \E j \in EditsIn(rest) :
                rest[j].rev <= s.rev
                /\ Leads(h, rest[j].rev, s.rev, rest[j].ops, s.outstanding)
          BY <4>1, <4>2
        <4> QED BY <2>2, <4>3 DEF Sent
      <3> QED BY <3>1, <3>2
    <2>3. ASSUME Sequenced(g, h, s, up, down) PROVE Sequenced(g, h, s, rest, down)
      BY <1>5, <2>3 DEF Sequenced
    <2> QED BY <1>5, <2>1, <2>2, <2>3 DEF FlightOK
  <1>12. LinkOK(g, ses, h, T, joined, s, rest, down)
    BY <1>3, <1>4, <1>5, <1>6, <1>8, <1>10, <1>11 DEF LinkOK
  <1>13. ASSUME ses # "none", up[1].kind = "close"
         PROVE  LinkOK(g, ses, h, T, FALSE, s, rest, down)
    <2>1. s.st # "in"
      BY <1>9, <1>13
    <2>2. StateOK(ses, FALSE, s, rest, down)
      BY <1>10, <2>1 DEF StateOK
    <2> QED BY <1>3, <1>4, <1>5, <1>6, <1>8, <1>13, <2>1, <2>2 DEF LinkOK
  <1> QED BY <1>12, <1>13 DEF rest

\* An ask is answered by an offer, an open by a snapshot.
LEMMA LinkAnswered ==
    ASSUME NEW g, NEW ses \in {"none", "live"}, NEW h, Len(h) \in Nat, NEW T, NEW joined,
           NEW s, NEW up, NEW down, LinkOK(g, ses, h, T, joined, s, up, down),
           up # <<>>, NEW f, f \in OwnerFramesTo(Len(h)), NEW joined2,
           \/ up[1].kind = "ask" /\ f.kind = "offer" /\ joined2 = joined
           \/ /\ up[1].kind = "open" /\ joined2 = TRUE /\ ses = "live"
              /\ f.kind = "snapshot" /\ f.rev = Len(h) /\ f.text = T[Len(h)]
    PROVE  LinkOK(g, "live", h, T, joined2, s, Tail(up), Append(down, f))
PROOF
  <1> DEFINE n == Len(h)
             S == GuestFramesTo(n)
             R == OwnerFramesTo(n)
             rest == Tail(up)
             down2 == Append(down, f)
  <1>1. s \in SessionsTo(n) /\ up \in Seq(S) /\ down \in Seq(R)
    BY DEF LinkOK, Typed
  <1>2. up[1].kind # "ops" /\ up[1].kind \in Asks /\ f.kind \in Answers /\ f.kind # "ops"
        /\ f.kind # "close"
    BY DEF Asks, Answers
  <1>3. LinkOK(g, ses, h, T, joined, s, rest, down)
    BY <1>2, LinkPassed
  <1>4. rest \in Seq(S) /\ 1 \in 1..Len(up)
    BY <1>1, Shorter
  <1>5. /\ Len(down) \in Nat /\ Len(down2) = Len(down) + 1
        /\ \A k \in 1..Len(down) : down2[k] = down[k]
        /\ down2[Len(down) + 1] = f /\ Own(g, down2) = Own(g, down)
    BY <1>1, <1>2, Longer, OwnAppend
  <1>6. down2 \in Seq(R)
    BY <1>1
  <1>7. Typed(n, s, rest, down2)
    BY <1>1, <1>4, <1>6 DEF Typed
  <1>8. DownOK(h, T, s, down2)
    BY <1>1, <1>2, DownOther DEF LinkOK
  <1>9. UpOK(h, T, joined2, rest)
    BY <1>3, UpJoined DEF LinkOK
  <1>10. AskOK(s, up, down)
    BY DEF LinkOK
  <1>11. AskOK(s, rest, down2) /\ (up[1].kind = "open" => rest = <<>>)
    BY <1>1, <1>2, <1>10, AskUpTail
  <1> HIDE DEF n, S, R, rest, down2
  <1>12. \A k \in 1..Len(down) : down[k].kind # "snapshot"
    BY DEF LinkOK, SnapshotOK
  <1>13. up[1].kind = "open" => s.st = "out"
    BY <1>4, <1>10 DEF AskOK
  <1>14. SnapshotOK(g, "live", joined2, s, rest, down2)
    <2> SUFFICES ASSUME NEW k \in 1..Len(down2), down2[k].kind = "snapshot"
                 PROVE  /\ joined2 /\ s.st = "out" /\ rest = <<>>
                        /\ \A j \in Own(g, down2) : j < k
      BY DEF SnapshotOK
    <2>1. k = Len(down) + 1 /\ f.kind = "snapshot"
      BY <1>5, <1>12
    <2>2. \A j \in Own(g, down2) : j < k
      BY <1>5, <2>1 DEF Own
    <2> QED BY <1>11, <1>13, <2>1, <2>2
  <1>15. StateOK("live", joined2, s, rest, down2)
    <2>1. /\ s.st # "orphaned" /\ \A k \in 1..Len(down) : down[k].kind # "close"
          /\ s.st = "in" => joined /\ \A k \in 1..Len(rest) : rest[k].kind # "close"
      BY <1>3 DEF LinkOK, StateOK
    <2>2. \A k \in 1..Len(down2) : down2[k].kind # "close"
      BY <1>2, <1>5, <2>1
    <2> QED BY <2>1, <2>2 DEF StateOK
  <1>16. ASSUME s.st = "in" PROVE TextOK(T, s) /\ FlightOK(g, "live", h, s, rest, down2)
    <2>1. TextOK(T, s) /\ FlightOK(g, ses, h, s, rest, down) /\ ses # "none"
      BY <1>3, <1>16 DEF LinkOK, StateOK
    <2>2. FlightOK(g, "live", h, s, rest, down)
      BY <2>1
    <2>3. FlightOK(g, "live", h, s, rest, down2)
      BY <1>1, <1>2, <1>4, <2>2, FlightMore DEF down2
    <2> QED BY <2>1, <2>3
  <1> QED BY <1>7, <1>8, <1>9, <1>11, <1>14, <1>15, <1>16 DEF LinkOK, n, rest, down2

\* Sharing the file changes nothing for a guest who did not ask.
LEMMA LinkShared ==
    ASSUME NEW g, NEW ses \in {"none", "live"}, NEW h, NEW T, NEW joined,
           NEW s, NEW up, NEW down, LinkOK(g, ses, h, T, joined, s, up, down)
    PROVE  LinkOK(g, "live", h, T, joined, s, up, down)
PROOF
  <1>1. SnapshotOK(g, "live", joined, s, up, down)
    BY DEF LinkOK, SnapshotOK
  <1>2. StateOK("live", joined, s, up, down)
    BY DEF LinkOK, StateOK
  <1>3. s.st = "in" => ses = "live"
    BY DEF LinkOK, StateOK
  <1> QED BY <1>1, <1>2, <1>3 DEF LinkOK

\* The owner closes the document.
LEMMA LinkClosed ==
    ASSUME NEW g, NEW h, Len(h) \in Nat, NEW T, NEW joined, NEW s, NEW up, NEW down,
           LinkOK(g, "live", h, T, joined, s, up, down),
           NEW f, f \in OwnerFramesTo(Len(h)), f.kind = "close"
    PROVE  LinkOK(g, "closed", h, T, joined, s, up, Append(down, f))
PROOF
  <1> DEFINE n == Len(h)
             S == GuestFramesTo(n)
             R == OwnerFramesTo(n)
             down2 == Append(down, f)
  <1>1. s \in SessionsTo(n) /\ up \in Seq(S) /\ down \in Seq(R)
    BY DEF LinkOK, Typed
  <1>2. /\ Len(down) \in Nat /\ Len(down2) = Len(down) + 1
        /\ \A k \in 1..Len(down) : down2[k] = down[k]
        /\ down2[Len(down) + 1] = f /\ Own(g, down2) = Own(g, down)
    BY <1>1, Longer, OwnAppend
  <1>3. down2 \in Seq(R)
    BY <1>1
  <1>4. Typed(n, s, up, down2)
    BY <1>1, <1>3 DEF Typed
  <1>5. DownOK(h, T, s, down2)
    BY <1>1, DownOther DEF LinkOK
  <1>6. AskOK(s, up, down2)
    <2>1. \A k \in 1..Len(up) : up[k].kind = "open" => s.st = "out"
      BY DEF LinkOK, AskOK
    <2>2. f.kind \notin Answers
      BY DEF Answers
    <2> QED BY <1>1, <2>1, <2>2, AskDown DEF LinkOK
  <1> HIDE DEF n, S, R, down2
  <1>7. SnapshotOK(g, "closed", joined, s, up, down2)
    BY <1>2 DEF LinkOK, SnapshotOK
  <1>8. StateOK("closed", joined, s, up, down2)
    <2>1. s.st # "orphaned" /\ \A k \in 1..Len(down) : down[k].kind # "close"
      BY DEF LinkOK, StateOK
    <2>2. \A k \in 1..Len(down2) : down2[k].kind = "close" => k = Len(down2)
      BY <1>2, <2>1
    <2> QED BY <2>1, <2>2 DEF LinkOK, StateOK
  <1>9. ASSUME s.st = "in" PROVE TextOK(T, s) /\ FlightOK(g, "closed", h, s, up, down2)
    <2>1. TextOK(T, s) /\ FlightOK(g, "live", h, s, up, down)
      BY <1>9 DEF LinkOK
    <2>2. FlightOK(g, "closed", h, s, up, down)
      BY <2>1 DEF FlightOK, Sent
    <2>3. FlightOK(g, "closed", h, s, up, down2)
      BY <1>1, <2>2, FlightMore DEF down2
    <2> QED BY <2>1, <2>3
  <1>10. UpOK(h, T, joined, up)
    BY DEF LinkOK
  <1> QED BY <1>4, <1>5, <1>6, <1>7, <1>8, <1>9, <1>10 DEF LinkOK, n, down2

-----------------------------------------------------------------------------
(* What a guest does.                                                      *)

LEMMA PendingIs ==
    ASSUME NEW n, NEW s \in SessionsTo(n)
    PROVE  /\ Pending(s) \in Seq(Ops)
           /\ s.outstanding = NoOps => Pending(s) = s.queued
           /\ s.outstanding # NoOps =>
                /\ Pending(s) # <<>> /\ Pending(s)[1] = s.outstanding
                /\ Tail(Pending(s)) = s.queued /\ s.outstanding \in Ops
           /\ s.queued \in Seq(Ops)
PROOF
  <1>1. s.queued \in Seq(Ops) /\ s.outstanding \in Ops \union {NoOps}
    BY DEF SessionsTo
  <1>2. CASE s.outstanding = NoOps
    BY <1>1, <1>2 DEF Pending
  <1>3. CASE s.outstanding # NoOps
    <2>1. s.outstanding \in Ops /\ Pending(s) = <<s.outstanding>> \o s.queued
      BY <1>1, <1>3 DEF Pending
    <2> DEFINE x == s.outstanding
               q == s.queued
    <2>2. x \in Ops /\ q \in Seq(Ops)
      BY <1>1, <2>1
    <2> HIDE DEF x, q
    <2>3. /\ <<x>> \o q \in Seq(Ops) /\ <<x>> \o q # <<>> /\ (<<x>> \o q)[1] = x
          /\ Tail(<<x>> \o q) = q
      BY <2>2
    <2> QED BY <1>1, <1>3, <2>1, <2>3 DEF x, q
  <1> QED BY <1>2, <1>3

LEMMA PathLonger ==
    ASSUME Operations, NEW t, NEW own \in Seq(Ops), NEW U, Path(t, own, U),
           NEW o \in OpsOn(U[Len(own)])
    PROVE  \E W : Path(t, Append(own, o), W)
                  /\ W[Len(own) + 1] = Apply(U[Len(own)], o)
PROOF
  <1> DEFINE n == Len(own)
             p == Append(own, o)
             W == [i \in 0..(n + 1) |-> IF i <= n THEN U[i] ELSE Apply(U[n], o)]
  <1>1. /\ n \in Nat /\ Len(p) = n + 1 /\ p[n + 1] = o
        /\ \A i \in 1..n : p[i] = own[i]
    BY Longer
  <1>2. /\ U \in [0..n -> Texts] /\ U[0] = t
        /\ \A i \in 1..n : own[i] \in OpsOn(U[i - 1]) /\ U[i] = Apply(U[i - 1], own[i])
    BY DEF Path
  <1>3. U[n] \in Texts /\ Apply(U[n], o) \in Texts
    <2>1. U[n] \in Texts
      BY <1>1, <1>2
    <2> QED BY <2>1, OneStep
  <1>4. /\ W \in [0..(n + 1) -> Texts] /\ W[n + 1] = Apply(U[n], o)
        /\ \A i \in 0..n : W[i] = U[i]
    BY <1>1, <1>2, <1>3
  <1>5. o \in OpsOn(U[n])
    OBVIOUS
  <1> HIDE DEF n, p, W
  <1>6. \A i \in 1..(n + 1) : p[i] \in OpsOn(W[i - 1]) /\ W[i] = Apply(W[i - 1], p[i])
    <2> TAKE i \in 1..(n + 1)
    <2>1. CASE i \in 1..n
      <3>1. i \in 0..n /\ i - 1 \in 0..n
        BY <1>1, <2>1
      <3> QED BY <1>1, <1>2, <1>4, <2>1, <3>1
    <2>2. CASE i = n + 1
      <3>1. i - 1 = n /\ n \in 0..n
        BY <1>1, <2>2
      <3> QED BY <1>1, <1>4, <1>5, <2>2, <3>1
    <2> QED BY <1>1, <2>1, <2>2
  <1>7. W[0] = t
    BY <1>1, <1>2, <1>4
  <1>8. Path(t, p, W)
    BY <1>1, <1>4, <1>6, <1>7 DEF Path
  <1> QED BY <1>4, <1>8 DEF n, p

LEMMA PathTail ==
    ASSUME NEW t, NEW own \in Seq(Ops), own # <<>>, NEW U, Path(t, own, U)
    PROVE  /\ own[1] \in OpsOn(t)
           /\ \E W : Path(Apply(t, own[1]), Tail(own), W)
                     /\ W[Len(Tail(own))] = U[Len(own)]
PROOF
  <1> DEFINE n == Len(own)
             p == Tail(own)
             W == [i \in 0..(n - 1) |-> U[i + 1]]
  <1>1. n \in Nat \ {0} /\ Len(p) = n - 1 /\ \A i \in 1..(n - 1) : p[i] = own[i + 1]
    BY Shorter
  <1>2. /\ U \in [0..n -> Texts] /\ U[0] = t
        /\ \A i \in 1..n : own[i] \in OpsOn(U[i - 1]) /\ U[i] = Apply(U[i - 1], own[i])
    BY DEF Path
  <1>3. /\ W \in [0..(n - 1) -> Texts] /\ \A i \in 0..(n - 1) : W[i] = U[i + 1]
        /\ W[n - 1] = U[n] /\ W[0] = U[1]
    BY <1>1, <1>2
  <1> HIDE DEF n, p, W
  <1>4. own[1] \in OpsOn(t) /\ U[1] = Apply(t, own[1])
    <2>1. 1 \in 1..n /\ 1 - 1 = 0
      BY <1>1
    <2> QED BY <1>2, <2>1
  <1>5. \A i \in 1..(n - 1) : p[i] \in OpsOn(W[i - 1]) /\ W[i] = Apply(W[i - 1], p[i])
    <2> TAKE i \in 1..(n - 1)
    <2>1. i + 1 \in 1..n /\ (i + 1) - 1 = i /\ (i - 1) + 1 = i
          /\ i - 1 \in 0..(n - 1) /\ i \in 0..(n - 1)
      BY <1>1
    <2>2. own[i + 1] \in OpsOn(U[i]) /\ U[i + 1] = Apply(U[i], own[i + 1])
      BY <1>2, <2>1
    <2>3. W[i - 1] = U[i] /\ W[i] = U[i + 1] /\ p[i] = own[i + 1]
      BY <1>1, <1>3, <2>1
    <2> QED BY <2>2, <2>3
  <1>6. Path(Apply(t, own[1]), p, W)
    BY <1>1, <1>3, <1>4, <1>5 DEF Path
  <1> QED BY <1>1, <1>3, <1>4, <1>6 DEF n, p

\* A click on the file.
LEMMA LinkAsks ==
    ASSUME NEW g, NEW ses, NEW h, NEW T, NEW joined, NEW s, NEW up, NEW down,
           LinkOK(g, ses, h, T, joined, s, up, down),
           KindAt(up, Asks) = {}, KindAt(down, Answers) = {},
           NEW f, f \in GuestFramesTo(Len(h)), f.kind = "ask"
    PROVE  LinkOK(g, ses, h, T, joined, s, Append(up, f), down)
PROOF
  <1> DEFINE S == GuestFramesTo(Len(h))
             R == OwnerFramesTo(Len(h))
             up2 == Append(up, f)
  <1>1. s \in SessionsTo(Len(h)) /\ up \in Seq(S) /\ down \in Seq(R)
    BY DEF LinkOK, Typed
  <1>2. up2 \in Seq(S)
    BY <1>1
  <1>3. Typed(Len(h), s, up2, down)
    BY <1>1, <1>2 DEF Typed
  <1>4. UpOK(h, T, joined, up2)
    BY <1>1, UpOther DEF LinkOK
  <1>5. AskOK(s, up2, down)
    <2>1. \A i \in 1..Len(up) : up[i].kind # "open"
      BY DEF KindAt, Asks
    <2> QED BY <1>1, <2>1, AskUpAppend DEF LinkOK
  <1>6. SnapshotOK(g, ses, joined, s, up2, down)
    <2>1. \A i \in 1..Len(down) : down[i].kind # "snapshot"
      BY DEF KindAt, Answers
    <2> QED BY <2>1 DEF SnapshotOK
  <1>7. StateOK(ses, joined, s, up2, down)
    <2>1. /\ Len(up) \in Nat /\ Len(up2) = Len(up) + 1 /\ up2[Len(up) + 1] = f
          /\ \A i \in 1..Len(up) : up2[i] = up[i]
      BY <1>1, Longer
    <2> HIDE DEF up2
    <2>2. s.st = "in" => \A i \in 1..Len(up2) : up2[i].kind # "close"
      BY <2>1 DEF LinkOK, StateOK
    <2> QED BY <2>2 DEF LinkOK, StateOK
  <1>8. s.st = "in" => TextOK(T, s) /\ FlightOK(g, ses, h, s, up2, down)
    BY <1>1, FlightMore DEF LinkOK
  <1> QED BY <1>3, <1>4, <1>5, <1>6, <1>7, <1>8 DEF LinkOK

\* The tab is closed: the owner is told by a guest who had not lost them.
LEMMA LinkLeaves ==
    ASSUME NEW g, NEW ses, NEW h, NEW T, NEW joined, NEW s, NEW up, NEW down,
           LinkOK(g, ses, h, T, joined, s, up, down), s.st # "out",
           NEW z \in SessionsTo(Len(h)), z.st = "out",
           NEW f, f \in GuestFramesTo(Len(h)), f.kind = "close"
    PROVE  /\ LinkOK(g, ses, h, T, joined, z, Append(up, f), down)
           /\ LinkOK(g, ses, h, T, joined, z, up, down)
PROOF
  <1> DEFINE S == GuestFramesTo(Len(h))
             R == OwnerFramesTo(Len(h))
             up2 == Append(up, f)
  <1>1. s \in SessionsTo(Len(h)) /\ up \in Seq(S) /\ down \in Seq(R)
    BY DEF LinkOK, Typed
  <1>2. up2 \in Seq(S)
    BY <1>1
  <1>3. Typed(Len(h), z, up2, down) /\ Typed(Len(h), z, up, down)
    BY <1>1, <1>2 DEF Typed
  <1>4. UpOK(h, T, joined, up) /\ UpOK(h, T, joined, up2)
    BY <1>1, UpOther DEF LinkOK
  <1>5. AskOK(z, up2, down) /\ AskOK(z, up, down)
    <2>1. \A i \in 1..Len(up) : up[i].kind # "open"
      BY DEF LinkOK, AskOK
    <2>2. AskOK(s, up, down)
      BY DEF LinkOK
    <2>3. AskOK(z, up2, down)
      BY <1>1, <2>1, <2>2, AskUpAppend
    <2>4. AskOK(z, up, down)
      BY <1>1, <2>1, <2>2, AskDown
    <2> QED BY <2>3, <2>4
  <1>6. \A u : SnapshotOK(g, ses, joined, z, u, down)
    BY DEF LinkOK, SnapshotOK
  <1>7. \A u : StateOK(ses, joined, z, u, down)
    BY DEF LinkOK, StateOK
  <1>8. DownOK(h, T, z, down)
    BY DEF LinkOK, DownOK
  <1> QED BY <1>3, <1>4, <1>5, <1>6, <1>7, <1>8 DEF LinkOK

\* A copy that lost its owner is edited on its own.
LEMMA LinkAlone ==
    ASSUME NEW g, NEW ses, NEW h, NEW T, NEW joined, NEW s, NEW up, NEW down,
           LinkOK(g, ses, h, T, joined, s, up, down), s.st = "orphaned",
           NEW z \in SessionsTo(Len(h)), z.st = "orphaned"
    PROVE  LinkOK(g, ses, h, T, joined, z, up, down)
  BY DEF LinkOK, Typed, DownOK, AskOK, SnapshotOK, StateOK

\* A frame with the edit a guest sends when nothing of its own is on the way.
LEMMA LinkSends ==
    ASSUME NEW g, NEW ses, NEW h, Len(h) \in Nat, NEW T,
           NEW z, z.st = "in", z.outstanding # NoOps, z.rev \in 0..Len(h),
           NEW S, NEW R, NEW up \in Seq(S), NEW down \in Seq(R),
           UpOK(h, T, TRUE, up), AskOK(z, up, down),
           SnapshotOK(g, ses, TRUE, z, up, down), StateOK(ses, TRUE, z, up, down),
           EditsIn(up) = {}, Own(g, down) = {},
           z.outstanding \in OpsOn(T[z.rev]),
           NEW f, f.kind = "ops", f.rev = z.rev, f.ops = z.outstanding
    PROVE  /\ UpOK(h, T, TRUE, Append(up, f)) /\ AskOK(z, Append(up, f), down)
           /\ SnapshotOK(g, ses, TRUE, z, Append(up, f), down)
           /\ StateOK(ses, TRUE, z, Append(up, f), down)
           /\ FlightOK(g, ses, h, z, Append(up, f), down)
PROOF
  <1> DEFINE up2 == Append(up, f)
  <1>1. /\ Len(up) \in Nat /\ Len(up2) = Len(up) + 1 /\ up2[Len(up) + 1] = f
        /\ \A i \in 1..Len(up) : up2[i] = up[i]
    BY Longer
  <1>2. \A i \in 1..Len(up) : up[i].kind # "close"
    BY DEF StateOK
  <1>3. UpOK(h, T, TRUE, up2)
    BY <1>2, UpEdit
  <1>4. AskOK(z, up2, down)
    <2>1. \A i \in 1..Len(up) : up[i].kind # "open"
      BY DEF AskOK
    <2> QED BY <2>1, AskUpAppend
  <1>5. SnapshotOK(g, ses, TRUE, z, up2, down)
    BY DEF SnapshotOK
  <1> HIDE DEF up2
  <1>6. StateOK(ses, TRUE, z, up2, down)
    <2>1. \A i \in 1..Len(up2) : up2[i].kind # "close"
      BY <1>1, <1>2
    <2> QED BY <2>1 DEF StateOK
  <1>7. Len(up) + 1 \in EditsIn(up2)
    BY <1>1 DEF EditsIn
  <1>8. Leads(h, z.rev, z.rev, z.outstanding, z.outstanding)
    <2> DEFINE F == [r \in z.rev..z.rev |-> z.outstanding]
    <2>1. z.outstanding \in Ops
      BY DEF OpsOn
    <2>2. z.rev \in z.rev..z.rev /\ (z.rev + 1)..z.rev = {}
      OBVIOUS
    <2>3. F \in [z.rev..z.rev -> Ops] /\ F[z.rev] = z.outstanding
      BY <2>1, <2>2
    <2> HIDE DEF F
    <2>4. Follows(h, z.rev, z.rev, z.outstanding, F)
      BY <2>2, <2>3 DEF Follows
    <2> QED BY <2>3, <2>4 DEF Leads
  <1>9. Sent(g, ses, h, z, up2, down)
    <2>1. up2[Len(up) + 1].rev = z.rev /\ up2[Len(up) + 1].ops = z.outstanding
      BY <1>1
    <2>2. z.rev <= z.rev
      OBVIOUS
    <2> QED BY <1>7, <1>8, <2>1, <2>2 DEF Sent
  <1>10. FlightOK(g, ses, h, z, up2, down)
    BY <1>9 DEF FlightOK
  <1> QED BY <1>3, <1>4, <1>5, <1>6, <1>10 DEF up2

\* An edit of a guest's: sent at once, or put behind what is in flight.
LEMMA LinkEdits ==
    ASSUME Operations, NEW g, NEW ses, NEW h, NEW T, NEW t, HistoryOK(h, T, t),
           NEW joined, joined \in BOOLEAN, NEW s, NEW up, NEW down,
           LinkOK(g, ses, h, T, joined, s, up, down), s.st = "in",
           NEW o \in OpsOn(s.text),
           NEW z \in SessionsTo(Len(h)), z.st = "in", z.rev = s.rev,
           z.text = Apply(s.text, o)
    PROVE  /\ s.outstanding = NoOps /\ z.outstanding = o /\ z.queued = <<>> =>
                \A f : /\ f \in GuestFramesTo(Len(h)) /\ f.kind = "ops"
                       /\ f.rev = s.rev /\ f.ops = o
                       => LinkOK(g, ses, h, T, joined, z, Append(up, f), down)
           /\ s.outstanding # NoOps /\ z.outstanding = s.outstanding
                                    /\ z.queued = Append(s.queued, o) =>
                LinkOK(g, ses, h, T, joined, z, up, down)
PROOF
  <1> DEFINE n == Len(h)
             S == GuestFramesTo(n)
             R == OwnerFramesTo(n)
             own == Pending(s)
  <1>1. s \in SessionsTo(n) /\ up \in Seq(S) /\ down \in Seq(R) /\ n \in Nat
    BY DEF LinkOK, Typed, HistoryOK
  <1>2. /\ own \in Seq(Ops) /\ s.queued \in Seq(Ops)
        /\ s.outstanding = NoOps => own = s.queued
    BY <1>1, PendingIs
  <1>3. joined = TRUE
    BY DEF LinkOK, StateOK
  <1>4. /\ s.outstanding = NoOps => s.queued = <<>>
        /\ \E U : Path(T[s.rev], own, U) /\ U[Len(own)] = s.text
    BY DEF LinkOK, TextOK
  <1>5. PICK U : Path(T[s.rev], own, U) /\ U[Len(own)] = s.text
    BY <1>4
  <1>6. PICK W : Path(T[s.rev], Append(own, o), W) /\ W[Len(own) + 1] = Apply(s.text, o)
    <2> HIDE DEF own
    <2> QED BY <1>2, <1>5, PathLonger
  <1>7. Len(Append(own, o)) = Len(own) + 1
    BY <1>2, Longer
  <1>8. /\ DownOK(h, T, z, down) /\ AskOK(z, up, down)
        /\ SnapshotOK(g, ses, joined, z, up, down) /\ StateOK(ses, joined, z, up, down)
    <2>1. DownOK(h, T, z, down)
      BY DEF LinkOK, DownOK
    <2>2. AskOK(z, up, down)
      BY DEF LinkOK, AskOK
    <2>3. SnapshotOK(g, ses, joined, z, up, down) /\ StateOK(ses, joined, z, up, down)
      BY DEF LinkOK, SnapshotOK, StateOK
    <2> QED BY <2>1, <2>2, <2>3
  <1>9. UpOK(h, T, joined, up) /\ FlightOK(g, ses, h, s, up, down)
    BY DEF LinkOK
  <1>10. o \in Ops
    BY DEF OpsOn
  <1> HIDE DEF n, S, R, own
  <1>11. ASSUME s.outstanding = NoOps, z.outstanding = o, z.queued = <<>>, NEW f,
                f \in S, f.kind = "ops", f.rev = s.rev, f.ops = o
         PROVE  LinkOK(g, ses, h, T, joined, z, Append(up, f), down)
    <2>1. own = <<>> /\ z.outstanding # NoOps
      BY <1>2, <1>4, <1>10, <1>11, CollabAssumption
    <2>2. Pending(z) = Append(own, o)
      BY <1>11, <2>1 DEF Pending
    <2>3. TextOK(T, z)
      BY <1>6, <1>7, <2>1, <2>2 DEF TextOK
    <2>4. Append(up, f) \in Seq(S)
      BY <1>1, <1>11
    <2>5. Typed(n, z, Append(up, f), down)
      BY <1>1, <2>4 DEF Typed, S, R, n
    <2>6. EditsIn(up) = {} /\ Own(g, down) = {}
      BY <1>9, <1>11 DEF FlightOK
    <2>7. z.outstanding \in OpsOn(T[z.rev])
      <3>1. Append(own, o)[1] = o /\ Append(own, o) # <<>> /\ Append(own, o) \in Seq(Ops)
        BY <1>10, <2>1
      <3>2. Append(own, o)[1] \in OpsOn(T[s.rev])
        BY <1>6, <3>1, PathTail
      <3> QED BY <1>11, <3>1, <3>2
    <2>8. z.rev \in 0..Len(h) /\ Len(h) \in Nat
      BY <1>1 DEF SessionsTo, n
    <2>9. /\ UpOK(h, T, TRUE, Append(up, f)) /\ AskOK(z, Append(up, f), down)
          /\ SnapshotOK(g, ses, TRUE, z, Append(up, f), down)
          /\ StateOK(ses, TRUE, z, Append(up, f), down)
          /\ FlightOK(g, ses, h, z, Append(up, f), down)
      BY <1>1, <1>3, <1>8, <1>9, <1>11, <2>1, <2>6, <2>7, <2>8, LinkSends
    <2> QED BY <1>3, <1>8, <2>3, <2>5, <2>9 DEF LinkOK, n
  <1>12. ASSUME s.outstanding # NoOps, z.outstanding = s.outstanding,
                z.queued = Append(s.queued, o)
         PROVE  LinkOK(g, ses, h, T, joined, z, up, down)
    <2>1. Pending(z) = Append(own, o)
      <3> DEFINE x == s.outstanding
                 q == s.queued
      <3>1. x \in Ops /\ q \in Seq(Ops)
        BY <1>1, <1>2, <1>12, PendingIs
      <3> HIDE DEF x, q
      <3>2. <<x>> \o Append(q, o) = Append(<<x>> \o q, o)
        BY <1>10, <3>1
      <3> QED BY <1>12, <3>2 DEF Pending, own, x, q
    <2>2. TextOK(T, z)
      BY <1>6, <1>7, <1>12, <2>1 DEF TextOK
    <2>3. Typed(n, z, up, down)
      BY <1>1 DEF Typed, S, R, n
    <2>4. FlightOK(g, ses, h, z, up, down)
      BY <1>9, <1>12 DEF FlightOK, Sequenced, Sent
    <2> QED BY <1>8, <1>9, <2>2, <2>3, <2>4 DEF LinkOK, n
  <1> QED BY <1>11, <1>12 DEF S, n

-----------------------------------------------------------------------------
(* What a guest hears.                                                     *)

LEMMA RestHeard ==
    ASSUME NEW R, NEW g, NEW ses, NEW joined, NEW s, NEW up, NEW down \in Seq(R),
           down # <<>>, SnapshotOK(g, ses, joined, s, up, down),
           StateOK(ses, joined, s, up, down)
    PROVE  /\ Tail(down) \in Seq(R) /\ 1 \in 1..Len(down)
           /\ SnapshotOK(g, ses, joined, s, up, Tail(down))
           /\ StateOK(ses, joined, s, up, Tail(down))
           /\ s.st # "orphaned"
PROOF
  <1> DEFINE n == Len(down)
             p == Tail(down)
  <1>1. /\ n \in Nat \ {0} /\ Len(p) = n - 1 /\ \A k \in 1..(n - 1) : p[k] = down[k + 1]
        /\ p \in Seq(R)
    BY Shorter
  <1>2. \A k \in Own(g, p) : k \in Nat /\ k + 1 \in Own(g, down)
    BY OwnTail
  <1>4. \A k \in 1..n : down[k].kind = "close" => k = n /\ ses = "closed"
    BY DEF StateOK
  <1> HIDE DEF n, p
  <1>6. s.st # "orphaned"
    BY <1>1 DEF StateOK, n
  <1>7. \A k \in 1..(n - 1) : k + 1 \in 1..n /\ p[k] = down[k + 1]
    BY <1>1
  <1>8. \A k \in 1..(n - 1) : p[k].kind = "close" => k = n - 1 /\ ses = "closed"
    <2> SUFFICES ASSUME NEW k \in 1..(n - 1), p[k].kind = "close"
                 PROVE  k = n - 1 /\ ses = "closed"
      OBVIOUS
    <2>1. k + 1 = n /\ ses = "closed"
      BY <1>4, <1>7
    <2> QED BY <1>1, <2>1
  <1>9. StateOK(ses, joined, s, up, p)
    BY <1>1, <1>6, <1>8 DEF StateOK
  <1>10. SnapshotOK(g, ses, joined, s, up, p)
    <2> SUFFICES ASSUME NEW k \in 1..(n - 1), p[k].kind = "snapshot"
                 PROVE  /\ ses # "none" /\ joined /\ s.st = "out" /\ up = <<>>
                        /\ \A j \in Own(g, p) : j < k
      BY <1>1 DEF SnapshotOK
    <2>1. k + 1 \in 1..n /\ down[k + 1].kind = "snapshot"
      BY <1>7
    <2>2. /\ ses # "none" /\ joined /\ s.st = "out" /\ up = <<>>
          /\ \A j \in Own(g, down) : j < k + 1
      BY <2>1 DEF SnapshotOK, n
    <2>3. \A j \in Own(g, p) : j < k
      <3> TAKE j \in Own(g, p)
      <3>1. j \in Nat /\ j + 1 < k + 1
        BY <1>2, <2>2
      <3> QED BY <3>1
    <2> QED BY <2>2, <2>3
  <1>11. 1 \in 1..n
    BY <1>1
  <1> QED BY <1>1, <1>6, <1>9, <1>10, <1>11 DEF n, p

\* A frame about a document that is not open, or an offer of one that is.
LEMMA LinkDrops ==
    ASSUME NEW g, NEW ses, NEW h, NEW T, NEW t, HistoryOK(h, T, t),
           NEW joined, NEW s, NEW up, NEW down,
           LinkOK(g, ses, h, T, joined, s, up, down), down # <<>>,
           s.st = "out" \/ down[1].kind = "offer"
    PROVE  LinkOK(g, ses, h, T, joined, s, up, Tail(down))
PROOF
  <1> DEFINE S == GuestFramesTo(Len(h))
             R == OwnerFramesTo(Len(h))
             rest == Tail(down)
  <1>1. s \in SessionsTo(Len(h)) /\ up \in Seq(S) /\ down \in Seq(R) /\ Len(h) \in Nat
    BY DEF LinkOK, Typed, HistoryOK
  <1>2. SnapshotOK(g, ses, joined, s, up, down) /\ StateOK(ses, joined, s, up, down)
        /\ DownOK(h, T, s, down) /\ AskOK(s, up, down) /\ UpOK(h, T, joined, up)
    BY DEF LinkOK
  <1>3. /\ rest \in Seq(R) /\ s.st # "orphaned"
        /\ SnapshotOK(g, ses, joined, s, up, rest) /\ StateOK(ses, joined, s, up, rest)
    BY <1>1, <1>2, RestHeard
  <1>4. PICK a \in 0..Len(h), b \in 0..Len(h) :
          /\ s.st = "in" => s.rev = a
          /\ \A z : (z.st = "in" => z.rev = b) => DownOK(h, T, z, rest)
          /\ down[1].kind # "ops" => b = a
    BY <1>1, <1>2, DownHeard
  <1> HIDE DEF S, R, rest
  <1>5. DownOK(h, T, s, rest)
    BY <1>4
  <1>6. AskOK(s, up, rest)
    <2>1. \A i \in 1..Len(up) : up[i].kind = "open" => s.st = "out"
      BY <1>2 DEF AskOK
    <2> QED BY <1>1, <1>2, <2>1, AskDown DEF rest
  <1>7. Typed(Len(h), s, up, rest)
    BY <1>1, <1>3 DEF Typed, S, R
  <1>8. ASSUME s.st = "in" PROVE TextOK(T, s) /\ FlightOK(g, ses, h, s, up, rest)
    <2>1. TextOK(T, s) /\ FlightOK(g, ses, h, s, up, down) /\ down[1].kind = "offer"
      BY <1>8 DEF LinkOK
    <2>2. /\ \A k \in Own(g, rest) : k \in Nat /\ k + 1 \in Own(g, down)
          /\ \A k \in Own(g, down) : k # 1 => k - 1 \in Own(g, rest) /\ rest[k - 1] = down[k]
          /\ Own(g, down) = {} => Own(g, rest) = {}
      BY <1>1, OwnTail DEF rest
    <2>3. \A k \in Own(g, down) : k # 1 /\ k \in Nat
      BY <2>1 DEF Own
    <2>4. ASSUME Sequenced(g, h, s, up, down) PROVE Sequenced(g, h, s, up, rest)
      <3>1. PICK k \in Own(g, down) :
              /\ Own(g, down) = {k}
              /\ Leads(h, s.rev, down[k].rev - 1, s.outstanding, h[down[k].rev])
        BY <2>4 DEF Sequenced
      <3>2. k - 1 \in Own(g, rest) /\ rest[k - 1] = down[k]
        BY <2>2, <2>3
      <3>3. Own(g, rest) = {k - 1}
        <4>1. \A j \in Own(g, rest) : j \in Nat /\ j + 1 = k
          BY <2>2, <3>1
        <4> QED BY <2>3, <3>2, <4>1
      <3>4. Leads(h, s.rev, rest[k - 1].rev - 1, s.outstanding, h[rest[k - 1].rev])
        BY <3>1, <3>2
      <3> QED BY <2>4, <3>2, <3>3, <3>4 DEF Sequenced
    <2>5. ASSUME Sent(g, ses, h, s, up, down) PROVE Sent(g, ses, h, s, up, rest)
      BY <2>2, <2>5 DEF Sent
    <2> QED BY <2>1, <2>2, <2>4, <2>5 DEF FlightOK
  <1> QED BY <1>2, <1>3, <1>5, <1>6, <1>7, <1>8 DEF LinkOK, rest

\* An offer is accepted.
LEMMA LinkOpens ==
    ASSUME NEW g, NEW ses, NEW h, NEW T, NEW t, HistoryOK(h, T, t),
           NEW joined, NEW s, NEW up, NEW down,
           LinkOK(g, ses, h, T, joined, s, up, down), down # <<>>,
           down[1].kind = "offer", s.st = "out",
           NEW z \in SessionsTo(Len(h)), z.st = "out",
           NEW f, f \in GuestFramesTo(Len(h)), f.kind = "open"
    PROVE  LinkOK(g, ses, h, T, joined, z, Append(up, f), Tail(down))
PROOF
  <1> DEFINE S == GuestFramesTo(Len(h))
             R == OwnerFramesTo(Len(h))
             rest == Tail(down)
             up2 == Append(up, f)
  <1>1. up \in Seq(S) /\ down \in Seq(R)
    BY DEF LinkOK, Typed
  <1>2. up2 \in Seq(S) /\ rest \in Seq(R)
    BY <1>1, Shorter
  <1>3. Typed(Len(h), z, up2, rest)
    BY <1>2 DEF Typed
  <1>4. LinkOK(g, ses, h, T, joined, s, up, rest)
    BY LinkDrops
  <1>5. DownOK(h, T, z, rest)
    BY <1>4 DEF LinkOK, DownOK
  <1>6. UpOK(h, T, joined, up2)
    BY <1>1, UpOther DEF LinkOK
  <1>7. AskOK(z, up2, rest)
    BY <1>1, AskOpens DEF LinkOK
  <1>8. SnapshotOK(g, ses, joined, z, up2, rest)
    <2>1. One(KindAt(down, Answers))
      BY <1>1, AskKinds DEF LinkOK
    <2>2. KindAt(rest, Answers) = {}
      BY <1>1, <2>1, KindTail DEF Answers
    <2>3. \A k \in 1..Len(rest) : rest[k].kind # "snapshot"
      <3> HIDE DEF rest
      <3> QED BY <2>2 DEF KindAt, Answers
    <2> QED BY <2>3 DEF SnapshotOK
  <1>9. StateOK(ses, joined, z, up2, rest)
    BY <1>4 DEF LinkOK, StateOK
  <1> QED BY <1>3, <1>5, <1>6, <1>7, <1>8, <1>9 DEF LinkOK

\* A snapshot makes the session.
LEMMA LinkStarts ==
    ASSUME NEW g, NEW ses, NEW h, NEW T, NEW t, HistoryOK(h, T, t),
           NEW joined, joined \in BOOLEAN, NEW s, NEW up, NEW down,
           LinkOK(g, ses, h, T, joined, s, up, down), down # <<>>,
           down[1].kind = "snapshot",
           NEW z \in SessionsTo(Len(h)), z.st = "in", z.rev = down[1].rev,
           z.text = down[1].text, z.outstanding = NoOps, z.queued = <<>>
    PROVE  LinkOK(g, ses, h, T, joined, z, up, Tail(down))
PROOF
  <1> DEFINE S == GuestFramesTo(Len(h))
             R == OwnerFramesTo(Len(h))
             rest == Tail(down)
  <1>1. up \in Seq(S) /\ down \in Seq(R) /\ Len(h) \in Nat
    BY DEF LinkOK, Typed, HistoryOK
  <1>2. rest \in Seq(R) /\ 1 \in 1..Len(down)
    BY <1>1, Shorter
  <1>3. /\ ses # "none" /\ joined /\ s.st = "out" /\ up = <<>>
        /\ \A k \in Own(g, down) : k < 1
    BY <1>2 DEF LinkOK, SnapshotOK
  <1>4. LinkOK(g, ses, h, T, joined, s, up, rest)
    BY <1>3, LinkDrops
  <1>5. Typed(Len(h), z, up, rest)
    BY <1>1, <1>2 DEF Typed
  <1>6. DownOK(h, T, z, rest) /\ z.text = T[z.rev]
    <2>1. PICK a \in 0..Len(h), b \in 0..Len(h) :
            /\ \A y : (y.st = "in" => y.rev = b) => DownOK(h, T, y, rest)
            /\ down[1].rev = b /\ down[1].text = T[b]
      BY <1>1, DownHeard DEF LinkOK
    <2> QED BY <2>1
  <1>7. Own(g, rest) = {}
    <2>1. \A k \in Own(g, down) : FALSE
      BY <1>3 DEF Own
    <2>2. Own(g, down) = {}
      BY <2>1
    <2> QED BY <1>1, <2>2, OwnTail
  <1>8. AskOK(z, up, rest)
    <2>1. \A i \in 1..Len(up) : up[i].kind = "open" => z.st = "out"
      BY <1>3
    <2> QED BY <1>1, <2>1, AskDown DEF LinkOK
  <1>9. SnapshotOK(g, ses, joined, z, up, rest)
    <2>1. One(KindAt(down, Answers))
      BY <1>1, AskKinds DEF LinkOK
    <2>2. KindAt(rest, Answers) = {}
      BY <1>1, <2>1, KindTail DEF Answers
    <2>3. \A k \in 1..Len(rest) : rest[k].kind # "snapshot"
      <3> HIDE DEF rest
      <3> QED BY <2>2 DEF KindAt, Answers
    <2> QED BY <2>3 DEF SnapshotOK
  <1> HIDE DEF rest
  <1>10. StateOK(ses, joined, z, up, rest)
    <2>1. \A k \in 1..Len(up) : up[k].kind # "close"
      BY <1>3
    <2> QED BY <1>3, <1>4, <2>1 DEF LinkOK, StateOK
  <1>11. TextOK(T, z)
    <2> DEFINE U == [i \in 0..0 |-> z.text]
    <2>1. Pending(z) = <<>> /\ Len(<<>>) = 0 /\ z.text \in Texts
      BY DEF Pending, SessionsTo
    <2>2. U \in [0..0 -> Texts] /\ U[0] = z.text
      BY <2>1
    <2> HIDE DEF U
    <2>3. Path(T[z.rev], <<>>, U)
      BY <1>6, <2>2 DEF Path
    <2> QED BY <2>1, <2>2, <2>3 DEF TextOK
  <1>12. FlightOK(g, ses, h, z, up, rest)
    <2>1. EditsIn(up) = {}
      BY <1>3 DEF EditsIn
    <2> QED BY <1>7, <2>1 DEF FlightOK
  <1>13. UpOK(h, T, joined, up)
    BY DEF LinkOK
  <1> QED BY <1>5, <1>6, <1>8, <1>9, <1>10, <1>11, <1>12, <1>13 DEF LinkOK, rest

\* The owner is gone.
LEMMA LinkOrphaned ==
    ASSUME NEW g, NEW ses, NEW h, NEW T, NEW t, HistoryOK(h, T, t),
           NEW joined, NEW s, NEW up, NEW down,
           LinkOK(g, ses, h, T, joined, s, up, down), down # <<>>,
           down[1].kind = "close", s.st # "out",
           NEW z \in SessionsTo(Len(h)), z.st = "orphaned"
    PROVE  LinkOK(g, ses, h, T, joined, z, up, Tail(down))
PROOF
  <1> DEFINE S == GuestFramesTo(Len(h))
             R == OwnerFramesTo(Len(h))
             rest == Tail(down)
  <1>1. up \in Seq(S) /\ down \in Seq(R) /\ Len(h) \in Nat
    BY DEF LinkOK, Typed, HistoryOK
  <1>2. rest = <<>> /\ ses = "closed" /\ rest \in Seq(R)
    <2>1. SnapshotOK(g, ses, joined, s, up, down) /\ StateOK(ses, joined, s, up, down)
      BY DEF LinkOK
    <2>2. ses = "closed" /\ Len(down) = 1
      <3>1. \A k \in 1..Len(down) : down[k].kind = "close" => k = Len(down) /\ ses = "closed"
        BY <2>1 DEF StateOK
      <3>2. 1 \in 1..Len(down)
        BY <1>1
      <3> QED BY <3>1, <3>2
    <2>3. rest \in Seq(R) /\ Len(rest) = 0
      <3>1. Len(rest) = Len(down) - 1 /\ rest \in Seq(R)
        BY <1>1, Shorter
      <3> HIDE DEF rest
      <3> QED BY <2>2, <3>1
    <2>4. ASSUME NEW q \in Seq(R), Len(q) = 0 PROVE q = <<>>
      BY <2>4
    <2> HIDE DEF rest, R
    <2> QED BY <2>2, <2>3, <2>4
  <1>3. Typed(Len(h), z, up, rest)
    BY <1>1, <1>2 DEF Typed
  <1>4. DownOK(h, T, z, rest)
    <2>1. PICK a \in 0..Len(h), b \in 0..Len(h) :
            \A y : (y.st = "in" => y.rev = b) => DownOK(h, T, y, rest)
      BY <1>1, DownHeard DEF LinkOK
    <2> QED BY <2>1
  <1>5. AskOK(z, up, rest)
    <2>1. \A i \in 1..Len(up) : up[i].kind # "open"
      BY DEF LinkOK, AskOK
    <2> QED BY <1>1, <2>1, AskDown DEF LinkOK
  <1>6. SnapshotOK(g, ses, joined, z, up, rest) /\ StateOK(ses, joined, z, up, rest)
    <2> HIDE DEF rest
    <2>1. Len(rest) = 0
      BY <1>2
    <2>2. 1..0 = {}
      OBVIOUS
    <2> QED BY <1>2, <2>1, <2>2 DEF LinkOK, SnapshotOK, StateOK
  <1> QED BY <1>3, <1>4, <1>5, <1>6 DEF LinkOK

\* A guest hears the revision after its own.
NextHeard(h, T, s, down) ==
    /\ s.rev \in 0..(Len(h) - 1) /\ down[1].rev = s.rev + 1
    /\ down[1].ops = h[s.rev + 1] /\ down[1].ops \in OpsOn(T[s.rev])
    /\ T[s.rev] \in Texts /\ T[s.rev + 1] = Apply(T[s.rev], down[1].ops)
    /\ down[1].hash \in {NoHash, T[s.rev + 1]}
    /\ \A z : z.rev = s.rev + 1 => DownOK(h, T, z, Tail(down))
    /\ \A k \in 2..Len(down) : down[k].kind = "ops" =>
         down[k].rev \in 1..Len(h) /\ down[k].rev > s.rev + 1

\* Its own operation has come back, and nothing more of its own is on the way.
BackHome(g, T, s, up, down) ==
    /\ s.outstanding # NoOps /\ s.outstanding = down[1].ops
    /\ EditsIn(up) = {} /\ Own(g, Tail(down)) = {}
    /\ \E W : Path(T[s.rev + 1], s.queued, W) /\ W[Len(s.queued)] = s.text

LEMMA NextRevision ==
    ASSUME NEW g, NEW ses, NEW h, NEW T, NEW t, HistoryOK(h, T, t),
           NEW joined, NEW s, NEW up, NEW down,
           LinkOK(g, ses, h, T, joined, s, up, down), s.st = "in",
           down # <<>>, down[1].kind = "ops"
    PROVE  NextHeard(h, T, s, down)
PROOF
  <1>1. down \in Seq(OwnerFramesTo(Len(h))) /\ Len(h) \in Nat /\ DownOK(h, T, s, down)
    BY DEF LinkOK, Typed, HistoryOK
  <1>2. PICK a \in 0..Len(h), b \in 0..Len(h) :
          /\ s.st = "in" => s.rev = a
          /\ \A z : (z.st = "in" => z.rev = b) => DownOK(h, T, z, Tail(down))
          /\ down[1].kind = "ops" =>
               /\ b = a + 1 /\ down[1].rev = b /\ down[1].ops = h[b]
               /\ down[1].hash \in {NoHash, T[b]}
               /\ \A k \in 2..Len(down) : down[k].kind = "ops" => down[k].rev > b
    BY <1>1, DownHeard
  <1>3. s.rev = a /\ b = s.rev + 1 /\ s.rev \in 0..(Len(h) - 1)
    BY <1>1, <1>2
  <1>4. s.rev + 1 \in 1..Len(h) /\ (s.rev + 1) - 1 = s.rev
    BY <1>1, <1>3
  <1>5. /\ h[s.rev + 1] \in OpsOn(T[s.rev]) /\ T[s.rev] \in Texts
        /\ T[s.rev + 1] = Apply(T[s.rev], h[s.rev + 1])
    BY <1>1, <1>3, <1>4 DEF HistoryOK
  <1>6. \A k \in 2..Len(down) : down[k].kind = "ops" => down[k].rev \in 1..Len(h)
    <2>1. \A k \in 1..Len(down) : down[k].kind = "ops" => down[k].rev \in 1..Len(h)
      BY <1>1, DownRevs
    <2>2. \A k \in 2..Len(down) : k \in 1..Len(down)
      OBVIOUS
    <2> QED BY <2>1, <2>2
  <1>7. \A k \in 2..Len(down) : down[k].kind = "ops" => down[k].rev > s.rev + 1
    BY <1>2, <1>3
  <1>8. \A z : z.rev = s.rev + 1 => DownOK(h, T, z, Tail(down))
    BY <1>2, <1>3
  <1> QED BY <1>2, <1>3, <1>5, <1>6, <1>7, <1>8 DEF NextHeard

\* What comes back to its author is what the author has in flight.
LEMMA Acked ==
    ASSUME NEW g, NEW ses, NEW h, NEW T, NEW t, HistoryOK(h, T, t),
           NEW joined, NEW s, NEW up, NEW down,
           LinkOK(g, ses, h, T, joined, s, up, down), s.st = "in",
           down # <<>>, down[1].kind = "ops", down[1].author = g
    PROVE  BackHome(g, T, s, up, down)
PROOF
  <1>1. s \in SessionsTo(Len(h)) /\ down \in Seq(OwnerFramesTo(Len(h))) /\ Len(h) \in Nat
    BY DEF LinkOK, Typed, HistoryOK
  <1>2. /\ s.rev \in 0..(Len(h) - 1) /\ down[1].rev = s.rev + 1
        /\ down[1].ops = h[s.rev + 1] /\ T[s.rev + 1] = Apply(T[s.rev], down[1].ops)
    <2>1. NextHeard(h, T, s, down)
      BY NextRevision, Zenon
    <2> QED BY <2>1 DEF NextHeard
  <1>3. FlightOK(g, ses, h, s, up, down) /\ TextOK(T, s)
    BY DEF LinkOK
  <1>4. 1 \in 1..Len(down)
    BY <1>1
  <1>5. 1 \in Own(g, down)
    BY <1>4 DEF Own
  <1>6. s.outstanding # NoOps /\ Sequenced(g, h, s, up, down)
    BY <1>3, <1>5 DEF FlightOK, Sent
  <1>7. PICK k \in Own(g, down) :
          /\ Own(g, down) = {k}
          /\ Leads(h, s.rev, down[k].rev - 1, s.outstanding, h[down[k].rev])
    BY <1>6 DEF Sequenced
  <1>8. k = 1 /\ down[k].rev - 1 = s.rev /\ down[k].rev = s.rev + 1
    BY <1>1, <1>2, <1>5, <1>7
  <1>9. h[s.rev + 1] = s.outstanding
    BY <1>7, <1>8 DEF Leads, Follows
  <1>10. Own(g, Tail(down)) = {}
    <2>1. \A j \in Own(g, Tail(down)) : j \in Nat /\ j + 1 \in Own(g, down) /\ j # 0
      <3>1. \A j \in Own(g, Tail(down)) : j \in Nat /\ j + 1 \in Own(g, down)
        BY <1>1, OwnTail
      <3>2. \A j \in Own(g, Tail(down)) : j # 0
        BY DEF Own
      <3> QED BY <3>1, <3>2
    <2>2. \A j \in Own(g, Tail(down)) : j + 1 = 1
      BY <1>7, <1>8, <2>1
    <2> QED BY <2>1, <2>2
  <1>11. /\ Pending(s) \in Seq(Ops) /\ Pending(s) # <<>> /\ Pending(s)[1] = s.outstanding
         /\ Tail(Pending(s)) = s.queued
    BY <1>1, <1>6, PendingIs
  <1>12. PICK U : Path(T[s.rev], Pending(s), U) /\ U[Len(Pending(s))] = s.text
    BY <1>3 DEF TextOK
  <1>13. \E W : Path(Apply(T[s.rev], Pending(s)[1]), Tail(Pending(s)), W)
                /\ W[Len(Tail(Pending(s)))] = U[Len(Pending(s))]
    BY <1>11, <1>12, PathTail
  <1>14. Apply(T[s.rev], Pending(s)[1]) = T[s.rev + 1]
    BY <1>2, <1>9, <1>11
  <1>15. \E W : Path(T[s.rev + 1], s.queued, W) /\ W[Len(s.queued)] = s.text
    BY <1>11, <1>12, <1>13, <1>14, Zenon
  <1>16. EditsIn(up) = {}
    BY <1>6 DEF Sequenced
  <1> QED BY <1>2, <1>6, <1>9, <1>10, <1>15, <1>16 DEF BackHome

\* Then the next one goes out, if one waits.
LEMMA LinkAcked ==
    ASSUME NEW g, NEW ses, NEW h, NEW T, NEW t, HistoryOK(h, T, t),
           NEW joined, joined \in BOOLEAN, NEW s, NEW up, NEW down,
           LinkOK(g, ses, h, T, joined, s, up, down), s.st = "in",
           down # <<>>, down[1].kind = "ops", down[1].author = g,
           NEW z \in SessionsTo(Len(h)), z.st = "in", z.rev = down[1].rev, z.text = s.text
    PROVE  /\ s.queued = <<>> /\ z.outstanding = NoOps /\ z.queued = <<>> =>
                LinkOK(g, ses, h, T, joined, z, up, Tail(down))
           /\ s.queued # <<>> /\ z.outstanding = Head(s.queued)
                              /\ z.queued = Tail(s.queued) =>
                \A f : /\ f \in GuestFramesTo(Len(h)) /\ f.kind = "ops"
                       /\ f.rev = z.rev /\ f.ops = Head(s.queued)
                       => LinkOK(g, ses, h, T, joined, z, Append(up, f), Tail(down))
PROOF
  <1> DEFINE n == Len(h)
             S == GuestFramesTo(n)
             R == OwnerFramesTo(n)
             rest == Tail(down)
  <1>1. s \in SessionsTo(n) /\ up \in Seq(S) /\ down \in Seq(R) /\ n \in Nat
        /\ s.queued \in Seq(Ops)
    <2>1. s \in SessionsTo(n) /\ up \in Seq(S) /\ down \in Seq(R) /\ n \in Nat
      BY DEF LinkOK, Typed, HistoryOK
    <2> QED BY <2>1, PendingIs
  <1>2. rest \in Seq(R)
    BY <1>1, Shorter
  <1>3. NextHeard(h, T, s, down) /\ BackHome(g, T, s, up, down)
    BY NextRevision, Acked, Zenon
  <1> HIDE DEF n, S, R
  <1>4. z.rev = s.rev + 1 /\ DownOK(h, T, z, rest)
    BY <1>3 DEF NextHeard
  <1>5. EditsIn(up) = {} /\ Own(g, rest) = {}
    BY <1>3 DEF BackHome
  <1>6. PICK W : Path(T[z.rev], s.queued, W) /\ W[Len(s.queued)] = s.text
    BY <1>3, <1>4 DEF BackHome
  <1> HIDE DEF rest
  <1>7. joined = TRUE /\ UpOK(h, T, joined, up)
    BY DEF LinkOK, StateOK
  <1>8. AskOK(z, up, rest)
    <2>1. \A i \in 1..Len(up) : up[i].kind # "open"
      BY DEF LinkOK, AskOK
    <2>2. AskOK(s, up, down)
      BY DEF LinkOK
    <2> QED BY <1>1, <2>1, <2>2, AskDown DEF rest
  <1>9. SnapshotOK(g, ses, joined, z, up, rest) /\ StateOK(ses, joined, z, up, rest)
    <2>1. SnapshotOK(g, ses, joined, s, up, down) /\ StateOK(ses, joined, s, up, down)
      BY DEF LinkOK
    <2>2. SnapshotOK(g, ses, joined, s, up, rest) /\ StateOK(ses, joined, s, up, rest)
      BY <1>1, <2>1, RestHeard DEF rest
    <2> QED BY <2>2 DEF SnapshotOK, StateOK
  <1>10. ASSUME s.queued = <<>>, z.outstanding = NoOps, z.queued = <<>>
         PROVE  LinkOK(g, ses, h, T, joined, z, up, rest)
    <2>1. Typed(n, z, up, rest)
      BY <1>1, <1>2 DEF Typed, n, S, R
    <2>2. Pending(z) = s.queued
      BY <1>10 DEF Pending
    <2>3. TextOK(T, z)
      BY <1>6, <1>10, <2>2 DEF TextOK
    <2>4. FlightOK(g, ses, h, z, up, rest)
      BY <1>5, <1>10 DEF FlightOK
    <2> QED BY <1>4, <1>7, <1>8, <1>9, <2>1, <2>3, <2>4 DEF LinkOK, n
  <1>11. ASSUME s.queued # <<>>, z.outstanding = Head(s.queued), z.queued = Tail(s.queued),
                NEW f, f \in S, f.kind = "ops", f.rev = z.rev, f.ops = Head(s.queued)
         PROVE  LinkOK(g, ses, h, T, joined, z, Append(up, f), rest)
    <2> DEFINE q == s.queued
    <2>1. q \in Seq(Ops) /\ q # <<>>
      BY <1>1, <1>11
    <2> HIDE DEF q
    <2>2. Head(q) = q[1] /\ q[1] \in Ops /\ <<Head(q)>> \o Tail(q) = q
      BY <2>1
    <2>3. z.outstanding = q[1] /\ z.outstanding \in Ops /\ z.outstanding # NoOps
      BY <1>11, <2>2, CollabAssumption DEF q
    <2>4. Pending(z) = s.queued
      BY <1>11, <2>2, <2>3 DEF Pending, q
    <2>5. TextOK(T, z)
      BY <1>6, <2>3, <2>4 DEF TextOK
    <2>6. q[1] \in OpsOn(T[z.rev])
      BY <1>6, <2>1, PathTail DEF q
    <2>7. z.outstanding \in OpsOn(T[z.rev]) /\ f.ops = z.outstanding
      BY <1>11, <2>2, <2>3, <2>6 DEF q
    <2>8. Append(up, f) \in Seq(S)
      BY <1>1, <1>11
    <2>9. Typed(n, z, Append(up, f), rest)
      BY <1>2, <2>8 DEF Typed, n, S, R
    <2>10. z.rev \in 0..Len(h) /\ Len(h) \in Nat
      BY <1>1 DEF SessionsTo, n
    <2>11. /\ UpOK(h, T, TRUE, Append(up, f)) /\ AskOK(z, Append(up, f), rest)
           /\ SnapshotOK(g, ses, TRUE, z, Append(up, f), rest)
           /\ StateOK(ses, TRUE, z, Append(up, f), rest)
           /\ FlightOK(g, ses, h, z, Append(up, f), rest)
      BY <1>1, <1>2, <1>5, <1>7, <1>8, <1>9, <1>11, <2>3, <2>7, <2>10, LinkSends
    <2> QED BY <1>4, <1>7, <2>5, <2>9, <2>11 DEF LinkOK, n
  <1> QED BY <1>10, <1>11 DEF S, n, rest

\* What a guest has in flight stays what it says when the guest brings it over
\* the operation of another.
LEMMA FlightHeard ==
    ASSUME NEW R, NEW g, NEW ses, NEW h, NEW T, NEW joined, NEW s, NEW up,
           NEW down \in Seq(R), Len(h) \in Nat, UpOK(h, T, joined, up),
           NextHeard(h, T, s, down), FlightOK(g, ses, h, s, up, down),
           down # <<>>, down[1].author # g, NEW z, z.rev = s.rev + 1,
           s.outstanding = NoOps => z.outstanding = NoOps,
           s.outstanding # NoOps => /\ z.outstanding # NoOps /\ z.outstanding \in Ops
                                    /\ z.outstanding = Transform(h[s.rev + 1], s.outstanding)[2]
    PROVE  FlightOK(g, ses, h, z, up, Tail(down))
PROOF
  <1> DEFINE rest == Tail(down)
  <1>1. /\ s.rev \in 0..(Len(h) - 1)
        /\ \A k \in 2..Len(down) : down[k].kind = "ops" =>
             down[k].rev \in 1..Len(h) /\ down[k].rev > s.rev + 1
    BY DEF NextHeard
  <1>2. /\ \A k \in Own(g, rest) : k \in Nat /\ k + 1 \in Own(g, down)
        /\ \A k \in Own(g, down) : k # 1 => k - 1 \in Own(g, rest) /\ rest[k - 1] = down[k]
        /\ Own(g, down) = {} => Own(g, rest) = {}
    BY OwnTail
  <1> HIDE DEF rest
  <1>3. ASSUME s.outstanding = NoOps PROVE FlightOK(g, ses, h, z, up, rest)
    <2>1. EditsIn(up) = {} /\ Own(g, rest) = {} /\ z.outstanding = NoOps
      BY <1>2, <1>3 DEF FlightOK
    <2> QED BY <2>1, Zenon DEF FlightOK
  <1>4. ASSUME s.outstanding # NoOps, Sequenced(g, h, s, up, down)
        PROVE  Sequenced(g, h, z, up, rest)
    <2>1. PICK k \in Own(g, down) :
            /\ Own(g, down) = {k}
            /\ Leads(h, s.rev, down[k].rev - 1, s.outstanding, h[down[k].rev])
      BY <1>4 DEF Sequenced
    <2>2. k \in 2..Len(down) /\ down[k].kind = "ops"
      BY <2>1 DEF Own
    <2>3. k - 1 \in Own(g, rest) /\ rest[k - 1] = down[k] /\ k \in Nat
      BY <1>2, <2>1, <2>2
    <2>4. Own(g, rest) = {k - 1}
      <3>1. \A j \in Own(g, rest) : j \in Nat /\ j + 1 = k
        BY <1>2, <2>1
      <3>2. \A j \in Own(g, rest) : j = k - 1
        BY <2>3, <3>1
      <3> QED BY <2>3, <3>2
    <2> DEFINE m == down[k].rev - 1
    <2>5. m \in Nat /\ s.rev \in Nat /\ s.rev + 1 \in s.rev..m
          /\ s.rev + 1 \in (s.rev + 1)..m /\ (s.rev + 1) - 1 = s.rev
      BY <1>1, <2>2
    <2>6. PICK F : Follows(h, s.rev, m, s.outstanding, F) /\ F[m] = h[down[k].rev]
      BY <2>1 DEF Leads
    <2> HIDE DEF m
    <2>7. F[s.rev + 1] = z.outstanding
      BY <1>4, <2>5, <2>6 DEF Follows
    <2>8. Leads(h, s.rev + 1, m, F[s.rev + 1], F[m])
      BY <2>5, <2>6, FollowsLater
    <2>9. Leads(h, z.rev, rest[k - 1].rev - 1, z.outstanding, h[rest[k - 1].rev])
      BY <2>3, <2>6, <2>7, <2>8 DEF m
    <2> QED BY <1>4, <2>3, <2>4, <2>9 DEF Sequenced
  <1>5. ASSUME s.outstanding # NoOps, Sent(g, ses, h, s, up, down)
        PROVE  Sent(g, ses, h, z, up, rest)
    <2>1. ASSUME ses = "live"
          PROVE  \E i \in EditsIn(up) :
                   up[i].rev <= z.rev /\ Leads(h, up[i].rev, z.rev, up[i].ops, z.outstanding)
      <3>1. PICK i \in EditsIn(up) :
              up[i].rev <= s.rev /\ Leads(h, up[i].rev, s.rev, up[i].ops, s.outstanding)
        BY <1>5, <2>1 DEF Sent
      <3>2. up[i].rev \in Nat /\ s.rev \in Nat
        BY <1>1, <3>1 DEF UpOK, EditsIn
      <3>3. PICK F : Follows(h, up[i].rev, s.rev, up[i].ops, F) /\ F[s.rev] = s.outstanding
        BY <3>1 DEF Leads
      <3>4. Transform(h[s.rev + 1], F[s.rev])[2] = z.outstanding /\ z.outstanding \in Ops
        BY <1>5, <3>3
      <3>5. Leads(h, up[i].rev, s.rev + 1, up[i].ops, z.outstanding)
        BY <3>1, <3>2, <3>3, <3>4, FollowsGrows
      <3>6. up[i].rev <= z.rev
        BY <3>1, <3>2
      <3> QED BY <3>1, <3>5, <3>6
    <2> QED BY <1>2, <1>5, <2>1 DEF Sent
  <1>6. ASSUME s.outstanding # NoOps PROVE FlightOK(g, ses, h, z, up, rest)
    <2>1. z.outstanding # NoOps
      BY <1>6
    <2>2. Sequenced(g, h, s, up, down) \/ Sent(g, ses, h, s, up, down)
      BY <1>6, Zenon DEF FlightOK
    <2>3. Sequenced(g, h, z, up, rest) \/ Sent(g, ses, h, z, up, rest)
      BY <1>4, <1>5, <1>6, <2>2, Zenon
    <2> QED BY <2>1, <2>3, Zenon DEF FlightOK
  <1> QED BY <1>3, <1>6 DEF rest

\* What a guest holds when it has brought its own operations, one by one, over
\* the owner's next: an edit of another's is never refused.
Moved(T, s, o) ==
    LET own == Pending(s)
        new == OwnOver(o, own)
    IN  /\ \A i \in 1..Len(own) : BaseLen(OverOwn(o, own)[i - 1]) = BaseLen(own[i])
        /\ new \in Seq(Ops) /\ Len(new) = Len(own)
        /\ own # <<>> => new[1] = Transform(o, own[1])[2]
        /\ Apply(s.text, OverOwn(o, own)[Len(own)]) \in Texts
        /\ \E W : /\ Path(T[s.rev + 1], new, W)
                  /\ W[Len(new)] = Apply(s.text, OverOwn(o, own)[Len(own)])

LEMMA Moves ==
    ASSUME Operations, NEW n, NEW h, NEW T, NEW s \in SessionsTo(n), NEW down,
           TextOK(T, s), NextHeard(h, T, s, down)
    PROVE  Moved(T, s, down[1].ops)
PROOF
  <1> DEFINE own == Pending(s)
             o == down[1].ops
  <1>1. own \in Seq(Ops)
    BY PendingIs
  <1>2. PICK U : Path(T[s.rev], own, U) /\ U[Len(own)] = s.text
    BY DEF TextOK
  <1>3. o \in OpsOn(T[s.rev]) /\ T[s.rev] \in Texts /\ T[s.rev + 1] = Apply(T[s.rev], o)
    BY DEF NextHeard
  <1> HIDE DEF own, o
  <1> DEFINE new == OwnOver(o, own)
             over == OverOwn(o, own)
             W == [i \in 0..Len(own) |-> Apply(U[i], over[i])]
  <1>4. /\ \A i \in 0..Len(own) : over[i] \in OpsOn(U[i])
        /\ \A i \in 1..Len(own) : BaseLen(over[i - 1]) = BaseLen(own[i])
        /\ new \in Seq(Ops) /\ Len(new) = Len(own)
        /\ own # <<>> => new[1] = Transform(o, own[1])[2]
        /\ Path(Apply(T[s.rev], o), new, W)
    BY <1>1, <1>2, <1>3, Rebasing
  <1>5. Len(own) \in 0..Len(own)
    BY <1>1
  <1>6. W[Len(new)] = Apply(s.text, over[Len(own)])
    BY <1>2, <1>4, <1>5
  <1>7. Apply(s.text, over[Len(own)]) \in Texts
    <2>1. U[Len(own)] \in Texts
      BY <1>2, <1>5 DEF Path
    <2>2. over[Len(own)] \in OpsOn(U[Len(own)])
      BY <1>4, <1>5
    <2> HIDE DEF over
    <2> QED BY <1>2, <2>1, <2>2, OneStep
  <1> HIDE DEF new, over, W
  <1>8. Path(T[s.rev + 1], new, W)
    BY <1>3, <1>4
  <1> QED BY <1>4, <1>6, <1>7, <1>8 DEF Moved, new, over, own, o

\* Another's edit is brought over the guest's own, and those over it.
LEMMA LinkRebased ==
    ASSUME Operations, NEW g, NEW ses, NEW h, NEW T, NEW t, HistoryOK(h, T, t),
           NEW joined, joined \in BOOLEAN, NEW s, NEW up, NEW down,
           LinkOK(g, ses, h, T, joined, s, up, down), s.st = "in",
           down # <<>>, down[1].kind = "ops", down[1].author # g,
           NEW own, own = Pending(s), NEW new, new = OwnOver(down[1].ops, own),
           NEW z \in SessionsTo(Len(h)), z.st = "in", z.rev = down[1].rev,
           z.text = Apply(s.text, OverOwn(down[1].ops, own)[Len(own)]),
           s.outstanding = NoOps => z.outstanding = NoOps /\ z.queued = new,
           s.outstanding # NoOps => z.outstanding = Head(new) /\ z.queued = Tail(new)
    PROVE  LinkOK(g, ses, h, T, joined, z, up, Tail(down))
PROOF
  <1> DEFINE n == Len(h)
             S == GuestFramesTo(n)
             R == OwnerFramesTo(n)
             rest == Tail(down)
             o == down[1].ops
  <1>1. s \in SessionsTo(n) /\ up \in Seq(S) /\ down \in Seq(R) /\ n \in Nat
    BY DEF LinkOK, Typed, HistoryOK
  <1>2. rest \in Seq(R)
    BY <1>1, Shorter
  <1>3. /\ NextHeard(h, T, s, down) /\ TextOK(T, s)
        /\ FlightOK(g, ses, h, s, up, down) /\ UpOK(h, T, joined, up)
    BY NextRevision, Zenon DEF LinkOK
  <1>4. Moved(T, s, o)
    BY <1>1, <1>3, Moves, Zenon
  <1> HIDE DEF n, S, R
  <1>5. z.rev = s.rev + 1 /\ DownOK(h, T, z, rest) /\ o = h[s.rev + 1]
    BY <1>3 DEF NextHeard
  <1> HIDE DEF rest, o
  <1>6. /\ new \in Seq(Ops) /\ Len(new) = Len(own)
        /\ own # <<>> => new[1] = Transform(o, own[1])[2]
        /\ \E W : Path(T[s.rev + 1], new, W) /\ W[Len(new)] = z.text
    <2>1. own = Pending(s) /\ new = OwnOver(o, own)
          /\ z.text = Apply(s.text, OverOwn(o, own)[Len(own)])
      BY DEF o
    <2> QED BY <1>4, <2>1, Zenon DEF Moved
  <1>7. /\ own \in Seq(Ops) /\ (s.outstanding = NoOps => own = s.queued)
        /\ s.outstanding # NoOps => own # <<>> /\ own[1] = s.outstanding
    BY <1>1, PendingIs
  <1>8. /\ s.outstanding # NoOps =>
             /\ z.outstanding # NoOps /\ z.outstanding \in Ops
             /\ z.outstanding = Transform(h[s.rev + 1], s.outstanding)[2]
        /\ Pending(z) = new
    <2>1. CASE s.outstanding = NoOps
      BY <2>1 DEF Pending
    <2>2. ASSUME s.outstanding # NoOps
          PROVE  /\ z.outstanding # NoOps /\ z.outstanding \in Ops
                 /\ z.outstanding = Transform(h[s.rev + 1], s.outstanding)[2]
                 /\ Pending(z) = new
      <3>1. Len(new) # 0 /\ Len(new) \in Nat
        BY <1>6, <1>7, <2>2
      <3>2. Head(new) = new[1] /\ new[1] \in Ops /\ <<Head(new)>> \o Tail(new) = new
        BY <1>6, <3>1
      <3>3. z.outstanding = new[1] /\ z.outstanding # NoOps
        BY <2>2, <3>2, CollabAssumption
      <3>4. new[1] = Transform(h[s.rev + 1], s.outstanding)[2]
        BY <1>5, <1>6, <1>7, <2>2
      <3>5. Pending(z) = new
        BY <2>2, <3>2, <3>3 DEF Pending
      <3> QED BY <3>2, <3>3, <3>4, <3>5
    <2> QED BY <2>1, <2>2
  <1>9. FlightOK(g, ses, h, z, up, rest)
    BY <1>1, <1>3, <1>5, <1>8, FlightHeard DEF rest, n
  <1>10. TextOK(T, z)
    <2>1. z.outstanding = NoOps => z.queued = <<>>
      <3>1. ASSUME z.outstanding = NoOps PROVE z.queued = <<>>
        <4>1. s.outstanding = NoOps
          BY <1>8, <3>1
        <4>2. s.queued = <<>>
          BY <1>3, <4>1 DEF TextOK
        <4>3. Len(new) = 0
          BY <1>6, <1>7, <4>1, <4>2
        <4>4. new = <<>>
          BY <1>6, <4>3
        <4> QED BY <4>1, <4>4
      <3> QED BY <3>1
    <2>2. \E W : Path(T[z.rev], Pending(z), W) /\ W[Len(Pending(z))] = z.text
      BY <1>5, <1>6, <1>8
    <2> QED BY <2>1, <2>2, Zenon DEF TextOK
  <1>11. AskOK(z, up, rest)
    <2>1. \A i \in 1..Len(up) : up[i].kind # "open"
      BY DEF LinkOK, AskOK
    <2>2. AskOK(s, up, down)
      BY DEF LinkOK
    <2> QED BY <1>1, <2>1, <2>2, AskDown DEF rest
  <1>12. SnapshotOK(g, ses, joined, z, up, rest) /\ StateOK(ses, joined, z, up, rest)
    <2>1. SnapshotOK(g, ses, joined, s, up, down) /\ StateOK(ses, joined, s, up, down)
      BY DEF LinkOK
    <2>2. SnapshotOK(g, ses, joined, s, up, rest) /\ StateOK(ses, joined, s, up, rest)
      BY <1>1, <2>1, RestHeard DEF rest
    <2> QED BY <2>2 DEF SnapshotOK, StateOK
  <1>13. Typed(n, z, up, rest)
    BY <1>1, <1>2 DEF Typed, n, S, R
  <1> QED BY <1>3, <1>5, <1>9, <1>10, <1>11, <1>12, <1>13 DEF LinkOK, n, rest

\* An edit on its way fits what the owner brings it over.
LEMMA FitsHistory ==
    ASSUME Operations, NEW h, NEW T, NEW t, HistoryOK(h, T, t),
           NEW b \in 0..Len(h), NEW o \in OpsOn(T[b])
    PROVE  \A r \in (b + 1)..Len(h) :
             BaseLen(h[r]) = BaseLen(CarriedOver(h, b, o)[r - 1])
PROOF
  <1> TAKE r \in (b + 1)..Len(h)
  <1>1. r \in 1..Len(h) /\ r - 1 \in b..Len(h)
    BY DEF HistoryOK
  <1>2. h[r] \in OpsOn(T[r - 1])
    BY <1>1 DEF HistoryOK
  <1>3. CarriedOver(h, b, o)[r - 1] \in OpsOn(T[r - 1])
    BY <1>1, CarriedFits
  <1> QED BY <1>2, <1>3 DEF OpsOn

\* A guest with nothing of its own has the owner's text at its revision.
LEMMA Agrees ==
    ASSUME NEW T, NEW s, TextOK(T, s), s.outstanding = NoOps, s.queued = <<>>
    PROVE  s.text = T[s.rev]
PROOF
  <1>1. Pending(s) = <<>>
    BY DEF Pending
  <1>2. PICK U : Path(T[s.rev], Pending(s), U) /\ U[Len(Pending(s))] = s.text
    BY DEF TextOK
  <1>3. Len(Pending(s)) = 0
    BY <1>1
  <1> QED BY <1>2, <1>3 DEF Path

\* A guest that has nothing waiting has no ask or answer on a link.
LEMMA NothingWaits ==
    ASSUME NEW S, NEW R, NEW up \in Seq(S), NEW down \in Seq(R),
           MaxWaiting <= 1,
           Cardinality(Asking(up)) + Cardinality(Answering(down)) < MaxWaiting
    PROVE  KindAt(up, Asks) = {} /\ KindAt(down, Answers) = {}
PROOF
  <1>1. Asking(up) = KindAt(up, Asks) /\ Answering(down) = KindAt(down, Answers)
    BY DEF Asking, Answering, KindAt, Asks, Answers
  <1>2. Len(up) \in Nat /\ Len(down) \in Nat
    OBVIOUS
  <1>3. IsFiniteSet(1..Len(up)) /\ IsFiniteSet(1..Len(down))
    BY <1>2, FS_Interval
  <1>4. Asking(up) \subseteq 1..Len(up) /\ Answering(down) \subseteq 1..Len(down)
    BY DEF Asking, Answering
  <1>5. IsFiniteSet(Asking(up)) /\ IsFiniteSet(Answering(down))
    BY <1>3, <1>4, FS_Subset
  <1>6. Cardinality(Asking(up)) \in Nat /\ Cardinality(Answering(down)) \in Nat
    BY <1>5, FS_CardinalityType
  <1>7. Cardinality(Asking(up)) = 0 /\ Cardinality(Answering(down)) = 0
    BY <1>6, CollabAssumption
  <1>8. Asking(up) = {} /\ Answering(down) = {}
    BY <1>5, <1>7, FS_EmptySet
  <1> QED BY <1>1, <1>8

-----------------------------------------------------------------------------
(* The steps of the specification.                                         *)

Link(g, T) == LinkOK(g, session, history, T, g \in roster,
                     guest[g], toOwner[g], toGuest[g])

LEMMA LinksAre ==
    ASSUME CollabInv
    PROVE  \E T : HistoryOK(history, T, text) /\ \A g \in Guests : Link(g, T)
  BY DEF CollabInv, LinksOK, Link

LEMMA LinksMake ==
    ASSUME OwnerOK', NEW T, HistoryOK(history', T, text'),
           \A g \in Guests :
              LinkOK(g, session', history', T, (g \in roster)',
                     guest'[g], toOwner'[g], toGuest'[g])
    PROVE  CollabInv'
  BY DEF CollabInv, LinksOK

\* A step on the links of one guest.
LEMMA OneLink ==
    ASSUME CollabInv, OwnerOK', NEW g \in Guests, UNCHANGED <<session, text, history>>,
           \A q \in Guests \ {g} :
              /\ q \in roster' <=> q \in roster
              /\ guest'[q] = guest[q] /\ toOwner'[q] = toOwner[q] /\ toGuest'[q] = toGuest[q],
           \A T : HistoryOK(history, T, text) /\ Link(g, T) =>
              LinkOK(g, session, history, T, (g \in roster)',
                     guest'[g], toOwner'[g], toGuest'[g])
    PROVE  CollabInv'
PROOF
  <1>1. PICK T : HistoryOK(history, T, text) /\ \A q \in Guests : Link(q, T)
    BY LinksAre
  <1>2. ASSUME NEW q \in Guests
        PROVE  LinkOK(q, session', history', T, (q \in roster)',
                      guest'[q], toOwner'[q], toGuest'[q])
    <2>1. CASE q = g
      BY <1>1, <2>1
    <2>2. CASE q # g
      <3>1. (q \in roster)' = (q \in roster)
        BY <2>2
      <3>2. guest'[q] = guest[q] /\ toOwner'[q] = toOwner[q] /\ toGuest'[q] = toGuest[q]
        BY <2>2
      <3>3. Link(q, T)
        BY <1>1
      <3> QED BY <3>1, <3>2, <3>3 DEF Link
    <2> QED BY <2>1, <2>2
  <1>3. HistoryOK(history', T, text')
    BY <1>1
  <1> QED BY <1>2, <1>3, LinksMake

LEMMA LinkTypes ==
    ASSUME CollabInv, NEW g \in Guests
    PROVE  /\ guest[g] \in SessionsTo(Len(history))
           /\ toOwner[g] \in Seq(GuestFramesTo(Len(history)))
           /\ toGuest[g] \in Seq(OwnerFramesTo(Len(history)))
           /\ Len(history) \in Nat /\ history \in Seq(Ops) /\ text \in Texts
PROOF
  <1>1. PICK T : HistoryOK(history, T, text) /\ Link(g, T)
    BY LinksAre
  <1>2. Typed(Len(history), guest[g], toOwner[g], toGuest[g])
    BY <1>1 DEF Link, LinkOK
  <1>3. /\ history \in Seq(Ops) /\ T \in [0..Len(history) -> Texts]
        /\ T[Len(history)] = text
    BY <1>1 DEF HistoryOK
  <1>4. Len(history) \in Nat /\ Len(history) \in 0..Len(history)
    BY <1>3
  <1> QED BY <1>2, <1>3, <1>4 DEF Typed

\* The next revision is told to all, its author among them.
LEMMA AllAreTold ==
    ASSUME Operations, CollabInv, OwnerOK', session = "live",
           NEW o \in OpsOn(text), NEW m \in Guests \union {Owner}, Broadcast(o, m),
           UNCHANGED <<session, guest, roster>>,
           \A q \in Guests : q # m => toOwner'[q] = toOwner[q],
           m \in Guests =>
              /\ toOwner[m] # <<>> /\ toOwner[m][1].kind = "ops"
              /\ toOwner'[m] = Tail(toOwner[m])
              /\ o = CarriedOver(history, toOwner[m][1].rev, toOwner[m][1].ops)[Len(history)]
    PROVE  CollabInv'
PROOF
  <1>1. PICK T : HistoryOK(history, T, text) /\ \A q \in Guests : Link(q, T)
    BY LinksAre
  <1>2. /\ text \in Texts /\ o \in Ops /\ Apply(text, o) \in Texts
        /\ \E V : /\ HistoryOK(Append(history, o), V, Apply(text, o))
                  /\ Grown(history, T, o, Append(history, o), V)
    BY <1>1, HistoryGrows
  <1>3. PICK V : /\ HistoryOK(Append(history, o), V, Apply(text, o))
                 /\ Grown(history, T, o, Append(history, o), V)
    BY <1>2
  <1>4. history' = Append(history, o) /\ text' = Apply(text, o)
    BY DEF Broadcast
  <1>5. history \in Seq(Ops) /\ Len(history) \in Nat /\ Len(history') = Len(history) + 1
    <2>1. history \in Seq(Ops)
      BY <1>1 DEF HistoryOK
    <2> QED BY <1>4, <2>1, Longer
  <1> DEFINE fr == [kind |-> "ops", rev |-> revision + 1, ops |-> o, author |-> m,
                    hash |-> IF (revision + 1) % HashEvery = 0 THEN text' ELSE NoHash]
  <1>6. \A q \in Guests : toGuest'[q] = Append(toGuest[q], fr)
    BY DEF Broadcast
  <1>7. /\ fr.kind = "ops" /\ fr.rev = Len(history') /\ fr.ops = o /\ fr.author = m
        /\ fr.hash \in {NoHash, text'}
    BY <1>5 DEF revision
  <1>8. fr \in OwnerFramesTo(Len(history'))
    <2>1. fr.rev \in 1..Len(history') /\ fr.hash \in Texts \union {NoHash}
      BY <1>2, <1>4, <1>5, <1>7
    <2>2. fr = [kind |-> "ops", rev |-> fr.rev, ops |-> o, author |-> m, hash |-> fr.hash]
      OBVIOUS
    <2> HIDE DEF fr
    <2> QED BY <1>2, <2>1, <2>2 DEF OwnerFramesTo
  <1> HIDE DEF fr
  <1>9. PICK f : f = fr
    OBVIOUS
  <1>10. PICK i : i = history'
    OBVIOUS
  <1>11. /\ f \in OwnerFramesTo(Len(i)) /\ f.kind = "ops" /\ f.rev = Len(i) /\ f.ops = o
         /\ f.author = m /\ f.hash \in {NoHash, V[Len(i)]}
         /\ Grown(history, T, o, i, V) /\ HistoryOK(i, V, text')
    <2>1. Grown(history, T, o, i, V) /\ HistoryOK(i, V, text')
      BY <1>3, <1>4, <1>10
    <2>2. V[Len(i)] = text'
      BY <2>1 DEF HistoryOK
    <2> QED BY <1>7, <1>8, <1>9, <1>10, <2>1, <2>2
  <1>12. ASSUME NEW q \in Guests
         PROVE  LinkOK(q, session', history', V, (q \in roster)',
                       guest'[q], toOwner'[q], toGuest'[q])
    <2>1. LinkOK(q, "live", history, T, q \in roster, guest[q], toOwner[q], toGuest[q])
      BY <1>1 DEF Link
    <2>2. guest'[q] = guest[q] /\ toGuest'[q] = Append(toGuest[q], f) /\ session' = "live"
      BY <1>6, <1>9
    <2>3. (q \in roster)' = (q \in roster)
      OBVIOUS
    <2>4. CASE q # m
      <3>1. LinkOK(q, "live", i, V, q \in roster, guest[q], toOwner[q], Append(toGuest[q], f))
        BY <1>11, <2>1, <2>4, LinkTold
      <3> QED BY <1>10, <2>2, <2>3, <2>4, <3>1
    <2>5. CASE q = m
      <3>1. /\ toOwner[q] # <<>> /\ toOwner[q][1].kind = "ops"
            /\ o = CarriedOver(history, toOwner[q][1].rev, toOwner[q][1].ops)[Len(history)]
            /\ toOwner'[q] = Tail(toOwner[q]) /\ f.author = q
        BY <1>11, <2>5
      <3>2. LinkOK(q, "live", i, V, q \in roster, guest[q], Tail(toOwner[q]),
                   Append(toGuest[q], f))
        BY <1>1, <1>11, <2>1, <3>1, LinkSequenced
      <3> QED BY <1>10, <2>2, <2>3, <3>1, <3>2
    <2> QED BY <2>4, <2>5
  <1>13. HistoryOK(history', V, text')
    BY <1>10, <1>11
  <1> QED BY <1>12, <1>13, LinksMake

LEMMA OwnerSteps ==
    ASSUME Operations, CollabInv,
           OwnerCloses \/ \E o \in Changes(text, Owner) : OwnerEdits(o)
    PROVE  CollabInv'
PROOF
  <1>1. OwnerOK
    BY DEF CollabInv
  <1>2. ASSUME NEW o \in Changes(text, Owner), OwnerEdits(o) PROVE CollabInv'
    <2>1. OperationsOn(text)
      <3>1. PICK T : HistoryOK(history, T, text)
        BY LinksAre
      <3>2. history \in Seq(Ops) /\ T \in [0..Len(history) -> Texts] /\ T[Len(history)] = text
        BY <3>1 DEF HistoryOK
      <3>3. Len(history) \in 0..Len(history)
        BY <3>2
      <3> QED BY <3>2, <3>3 DEF Operations
    <2>2. o \in OpsOn(text)
      BY <2>1 DEF OperationsOn
    <2>3. /\ session = "live" /\ Broadcast(o, Owner) /\ edits < MaxEdits /\ edits' = edits + 1
          /\ UNCHANGED <<session, allowed, roster, guest, toOwner, asks>>
      BY <1>2 DEF OwnerEdits
    <2>4. OwnerOK'
      <3>1. toGuest' = [g \in Guests |-> toGuest'[g]]
        BY <2>3 DEF Broadcast
      <3>2. edits' \in 0..MaxEdits
        BY <1>1, <2>3, CollabAssumption DEF OwnerOK
      <3> QED BY <1>1, <2>3, <3>1, <3>2 DEF OwnerOK
    <2>5. Owner \notin Guests
      BY CollabAssumption
    <2> QED BY <2>2, <2>3, <2>4, <2>5, AllAreTold
  <1>3. ASSUME OwnerCloses PROVE CollabInv'
    <2>1. /\ session = "live" /\ session' = "closed"
          /\ toGuest' = [g \in Guests |-> Append(toGuest[g], Close)]
          /\ UNCHANGED <<text, history, allowed, roster, guest, toOwner, edits, asks>>
      BY <1>3 DEF OwnerCloses, counters
    <2>2. OwnerOK'
      <3>1. toGuest' = [g \in Guests |-> toGuest'[g]]
        BY <2>1
      <3> QED BY <1>1, <2>1, <3>1 DEF OwnerOK
    <2>3. PICK T : HistoryOK(history, T, text) /\ \A q \in Guests : Link(q, T)
      BY LinksAre
    <2>4. Close \in OwnerFramesTo(Len(history)) /\ Close.kind = "close"
      BY DEF OwnerFramesTo, Close
    <2>5. ASSUME NEW q \in Guests
          PROVE  LinkOK(q, session', history', T, (q \in roster)',
                        guest'[q], toOwner'[q], toGuest'[q])
      <3>1. LinkOK(q, "live", history, T, q \in roster, guest[q], toOwner[q], toGuest[q])
        BY <2>1, <2>3 DEF Link
      <3>2. Len(history) \in Nat
        BY LinkTypes
      <3>3. LinkOK(q, "closed", history, T, q \in roster, guest[q], toOwner[q],
                   Append(toGuest[q], Close))
        BY <2>4, <3>1, <3>2, LinkClosed
      <3>4. toGuest'[q] = Append(toGuest[q], Close) /\ (q \in roster)' = (q \in roster)
        BY <2>1
      <3> QED BY <2>1, <3>3, <3>4
    <2>6. HistoryOK(history', T, text')
      BY <2>1, <2>3
    <2> QED BY <2>2, <2>5, <2>6, LinksMake
  <1> QED BY <1>2, <1>3

\* What the owner does with the frame it reads changes the links of its author.
LEMMA OwnerPuts ==
    ASSUME OwnerOK, NEW g \in Guests, NEW f,
           toOwner' = Take(toOwner, g), toGuest' = Put(toGuest, g, f) \/ UNCHANGED toGuest
    PROVE  /\ toOwner' = [q \in Guests |-> toOwner'[q]]
           /\ toGuest' = [q \in Guests |-> toGuest'[q]]
           /\ \A q \in Guests \ {g} : toOwner'[q] = toOwner[q] /\ toGuest'[q] = toGuest[q]
           /\ toOwner'[g] = Tail(toOwner[g])
           /\ toGuest' = Put(toGuest, g, f) => toGuest'[g] = Append(toGuest[g], f)
  BY DEF OwnerOK, Take, Put

LEMMA FirstIs ==
    ASSUME NEW S, NEW q \in Seq(S), q # <<>>
    PROVE  Head(q) = q[1] /\ q[1] \in S
  OBVIOUS

\* The first frame of a guest, as the owner reads it.
LEMMA FirstUp ==
    ASSUME CollabInv, NEW g \in Guests, toOwner[g] # <<>>
    PROVE  /\ Head(toOwner[g]) = toOwner[g][1] /\ toOwner[g][1].kind # "resync"
           /\ toOwner[g][1] \in GuestFramesTo(Len(history))
           /\ \A T : Link(g, T) /\ toOwner[g][1].kind = "ops" =>
                /\ g \in roster /\ toOwner[g][1].rev \in 0..Len(history)
                /\ toOwner[g][1].ops \in OpsOn(T[toOwner[g][1].rev])
PROOF
  <1>1. toOwner[g] \in Seq(GuestFramesTo(Len(history)))
    BY LinkTypes
  <1>2. Head(toOwner[g]) = toOwner[g][1] /\ toOwner[g][1] \in GuestFramesTo(Len(history))
    BY <1>1, FirstIs
  <1>3. 1 \in 1..Len(toOwner[g])
    BY <1>1
  <1>4. \A T : Link(g, T) => UpOK(history, T, g \in roster, toOwner[g])
    BY DEF Link, LinkOK
  <1>5. \E T : Link(g, T)
    BY LinksAre
  <1> QED BY <1>2, <1>3, <1>4, <1>5 DEF UpOK

\* A guest asks, and the file is shared and offered; a guest opens it.
LEMMA OwnerAnswers ==
    ASSUME CollabInv, NEW g \in Guests, ServeFile(g) \/ SendSnapshot(g)
    PROVE  CollabInv'
PROOF
  <1>1. OwnerOK
    BY DEF CollabInv
  <1>2. ASSUME ServeFile(g) PROVE CollabInv'
    <2>1. /\ toOwner[g] # <<>> /\ Head(toOwner[g]).kind = "ask" /\ session # "closed"
          /\ session' = "live" /\ allowed' = allowed \union {g}
          /\ toGuest' = Put(toGuest, g, Offer) /\ toOwner' = Take(toOwner, g)
          /\ UNCHANGED <<text, history, roster, guest, edits, asks>>
      BY <1>2 DEF ServeFile, OwnerReads, counters
    <2>2. /\ toOwner' = [q \in Guests |-> toOwner'[q]]
          /\ toGuest' = [q \in Guests |-> toGuest'[q]]
          /\ \A q \in Guests \ {g} : toOwner'[q] = toOwner[q] /\ toGuest'[q] = toGuest[q]
          /\ toOwner'[g] = Tail(toOwner[g]) /\ toGuest'[g] = Append(toGuest[g], Offer)
      BY <1>1, <2>1, OwnerPuts
    <2>3. OwnerOK'
      BY <1>1, <2>1, <2>2 DEF OwnerOK
    <2>4. PICK T : HistoryOK(history, T, text) /\ \A q \in Guests : Link(q, T)
      BY LinksAre
    <2>5. session \in {"none", "live"} /\ Len(history) \in Nat
      BY <1>1, <2>1, LinkTypes DEF OwnerOK
    <2>6. toOwner[g][1].kind = "ask"
      BY <2>1, FirstUp
    <2>7. Offer \in OwnerFramesTo(Len(history)) /\ Offer.kind = "offer"
      BY DEF OwnerFramesTo, Offer
    <2>8. ASSUME NEW q \in Guests
          PROVE  LinkOK(q, session', history', T, (q \in roster)',
                        guest'[q], toOwner'[q], toGuest'[q])
      <3>1. LinkOK(q, session, history, T, q \in roster, guest[q], toOwner[q], toGuest[q])
        BY <2>4 DEF Link
      <3>2. guest'[q] = guest[q] /\ (q \in roster)' = (q \in roster)
        BY <2>1
      <3>3. CASE q # g
        <4>1. LinkOK(q, "live", history, T, q \in roster, guest[q], toOwner[q], toGuest[q])
          BY <2>5, <3>1, LinkShared
        <4> QED BY <2>1, <2>2, <3>2, <3>3, <4>1
      <3>4. CASE q = g
        <4>1. LinkOK(q, "live", history, T, q \in roster, guest[q], Tail(toOwner[q]),
                     Append(toGuest[q], Offer))
          BY <2>1, <2>5, <2>6, <2>7, <3>1, <3>4, LinkAnswered
        <4> QED BY <2>1, <2>2, <3>2, <3>4, <4>1
      <3> QED BY <3>3, <3>4
    <2>9. HistoryOK(history', T, text')
      BY <2>1, <2>4
    <2> QED BY <2>3, <2>8, <2>9, LinksMake
  <1>3. ASSUME SendSnapshot(g) PROVE CollabInv'
    <2>1. /\ toOwner[g] # <<>> /\ session = "live" /\ Admits(g, Head(toOwner[g]))
          /\ roster' = roster \union {g}
          /\ toGuest' = Put(toGuest, g, Snapshot) /\ toOwner' = Take(toOwner, g)
          /\ UNCHANGED <<session, text, history, allowed, guest, edits, asks>>
      BY <1>3 DEF SendSnapshot, counters
    <2>2. /\ toOwner' = [q \in Guests |-> toOwner'[q]]
          /\ toGuest' = [q \in Guests |-> toGuest'[q]]
          /\ \A q \in Guests \ {g} : toOwner'[q] = toOwner[q] /\ toGuest'[q] = toGuest[q]
          /\ toOwner'[g] = Tail(toOwner[g]) /\ toGuest'[g] = Append(toGuest[g], Snapshot)
      BY <1>1, <2>1, OwnerPuts
    <2>3. toOwner[g][1].kind = "open" /\ g \in allowed
      BY <2>1, FirstUp DEF Admits
    <2>4. OwnerOK'
      BY <1>1, <2>1, <2>2, <2>3 DEF OwnerOK
    <2>5. Len(history) \in Nat /\ text \in Texts
      BY LinkTypes
    <2>6. /\ Snapshot \in OwnerFramesTo(Len(history)) /\ Snapshot.kind = "snapshot"
          /\ Snapshot.rev = Len(history) /\ Snapshot.text = text
      BY <2>5 DEF OwnerFramesTo, Snapshot, revision
    <2>7. ASSUME NEW T, HistoryOK(history, T, text), Link(g, T)
          PROVE  LinkOK(g, session, history, T, (g \in roster)',
                        guest'[g], toOwner'[g], toGuest'[g])
      <3>1. LinkOK(g, "live", history, T, g \in roster, guest[g], toOwner[g], toGuest[g])
        BY <2>1, <2>7 DEF Link
      <3>2. T[Len(history)] = text
        BY <2>7 DEF HistoryOK
      <3>3. LinkOK(g, "live", history, T, TRUE, guest[g], Tail(toOwner[g]),
                   Append(toGuest[g], Snapshot))
        BY <2>1, <2>3, <2>5, <2>6, <3>1, <3>2, LinkAnswered
      <3>4. (g \in roster)' = TRUE /\ guest'[g] = guest[g]
        BY <2>1
      <3> QED BY <2>1, <2>2, <3>3, <3>4
    <2>8. \A q \in Guests \ {g} : (q \in roster' <=> q \in roster) /\ guest'[q] = guest[q]
      BY <2>1
    <2>9. UNCHANGED <<session, text, history>>
      BY <2>1
    <2> QED BY <2>2, <2>4, <2>7, <2>8, <2>9, OneLink
  <1> QED BY <1>2, <1>3

\* An edit that the owner reads while the document is shared is sequenced.
LEMMA EditFits ==
    ASSUME Operations, CollabInv, NEW g \in Guests, toOwner[g] # <<>>,
           toOwner[g][1].kind = "ops"
    PROVE  /\ Sequences(g, toOwner[g][1])
           /\ Forward(toOwner[g][1].rev, toOwner[g][1].ops)
                = CarriedOver(history, toOwner[g][1].rev, toOwner[g][1].ops)
           /\ CarriedOver(history, toOwner[g][1].rev, toOwner[g][1].ops)[Len(history)]
                \in OpsOn(text)
PROOF
  <1>1. PICK T : HistoryOK(history, T, text) /\ Link(g, T)
    BY LinksAre
  <1>2. PICK b, o : b = toOwner[g][1].rev /\ o = toOwner[g][1].ops
    OBVIOUS
  <1>3. g \in roster /\ b \in 0..Len(history) /\ o \in OpsOn(T[b])
    BY <1>1, <1>2, FirstUp
  <1>4. Forward(b, o) = CarriedOver(history, b, o)
    BY Zenon DEF Forward, CarriedOver, revision
  <1>5. \A r \in (b + 1)..Len(history) :
          BaseLen(history[r]) = BaseLen(CarriedOver(history, b, o)[r - 1])
    BY <1>1, <1>3, FitsHistory
  <1>6. Len(history) \in Nat /\ T[Len(history)] = text
    BY <1>1 DEF HistoryOK
  <1>7. \A r \in b..Len(history) : CarriedOver(history, b, o)[r] \in OpsOn(T[r])
    BY <1>1, <1>3, CarriedFits
  <1>8. CarriedOver(history, b, o)[Len(history)] \in OpsOn(text)
    BY <1>3, <1>6, <1>7
  <1>9. Fits(b, o)
    BY <1>4, <1>5, Zenon DEF Fits, revision
  <1>10. b <= Len(history)
    BY <1>3, <1>6
  <1> QED BY <1>2, <1>3, <1>4, <1>8, <1>9, <1>10 DEF Sequences, revision

\* What the owner reads and does not answer.
LEMMA OwnerReadsOn ==
    ASSUME Operations, CollabInv, NEW g \in Guests, Sequence(g) \/ Forget(g) \/ Ignore(g)
    PROVE  CollabInv'
PROOF
  <1>1. OwnerOK
    BY DEF CollabInv
  <1>2. ASSUME Sequence(g) PROVE CollabInv'
    <2> DEFINE f == Head(toOwner[g])
    <2>1. /\ toOwner[g] # <<>> /\ session = "live" /\ Sequences(g, f)
          /\ Broadcast(Forward(f.rev, f.ops)[revision], g) /\ toOwner' = Take(toOwner, g)
          /\ UNCHANGED <<session, allowed, roster, guest, edits, asks>>
      BY <1>2 DEF Sequence, counters
    <2>2. f = toOwner[g][1] /\ f.kind = "ops"
      BY <2>1, FirstUp DEF Sequences
    <2> HIDE DEF f
    <2>3. PICK o : o = Forward(f.rev, f.ops)[revision]
      OBVIOUS
    <2>4. /\ o = CarriedOver(history, toOwner[g][1].rev, toOwner[g][1].ops)[Len(history)]
          /\ o \in OpsOn(text)
      BY <2>1, <2>2, <2>3, EditFits DEF revision
    <2>5. Broadcast(o, g)
      BY <2>1, <2>3
    <2>6. /\ toOwner' = [q \in Guests |-> toOwner'[q]]
          /\ \A q \in Guests : q # g => toOwner'[q] = toOwner[q]
          /\ toOwner'[g] = Tail(toOwner[g])
      BY <1>1, <2>1 DEF OwnerOK, Take
    <2>7. OwnerOK'
      <3>1. toGuest' = [q \in Guests |-> toGuest'[q]]
        BY <2>5 DEF Broadcast
      <3> QED BY <1>1, <2>1, <2>6, <3>1 DEF OwnerOK
    <2>8. /\ toOwner[g] # <<>> /\ toOwner[g][1].kind = "ops"
          /\ toOwner'[g] = Tail(toOwner[g]) /\ session = "live"
          /\ UNCHANGED <<session, guest, roster>>
      BY <2>1, <2>2, <2>6
    <2>9. g \in Guests \union {Owner}
      OBVIOUS
    <2> QED BY <2>4, <2>5, <2>6, <2>7, <2>8, <2>9, AllAreTold, Zenon
  <1>3. ASSUME Forget(g) \/ Ignore(g) PROVE CollabInv'
    <2>1. /\ toOwner[g] # <<>> /\ toOwner' = Take(toOwner, g)
          /\ UNCHANGED <<session, text, history, allowed, guest, toGuest, edits, asks>>
          /\ \/ Head(toOwner[g]).kind = "close" /\ session = "live" /\ roster' = roster \ {g}
             \/ /\ roster' = roster
                /\ session # "closed" => Head(toOwner[g]).kind \in {"open", "resync", "ops"}
                                         /\ ~Sequences(g, Head(toOwner[g]))
      BY <1>3 DEF Forget, Ignore, OwnerReads, ownerVars, counters
    <2>2. /\ toOwner' = [q \in Guests |-> toOwner'[q]]
          /\ \A q \in Guests \ {g} : toOwner'[q] = toOwner[q] /\ toGuest'[q] = toGuest[q]
          /\ toOwner'[g] = Tail(toOwner[g]) /\ toGuest'[g] = toGuest[g]
      BY <1>1, <2>1, OwnerPuts
    <2>3. OwnerOK'
      BY <1>1, <2>1, <2>2 DEF OwnerOK
    <2>4. session # "live" \/ toOwner[g][1].kind # "ops"
      BY <2>1, FirstUp, EditFits
    <2>5. ASSUME NEW T, HistoryOK(history, T, text), Link(g, T)
          PROVE  LinkOK(g, session, history, T, (g \in roster)',
                        guest'[g], toOwner'[g], toGuest'[g])
      <3>1. LinkOK(g, session, history, T, g \in roster, guest[g], toOwner[g], toGuest[g])
        BY <2>5 DEF Link
      <3>2. /\ LinkOK(g, session, history, T, g \in roster, guest[g],
                      Tail(toOwner[g]), toGuest[g])
            /\ session # "none" /\ toOwner[g][1].kind = "close" =>
                 LinkOK(g, session, history, T, FALSE, guest[g],
                        Tail(toOwner[g]), toGuest[g])
        BY <2>1, <2>4, <3>1, LinkPassed
      <3>3. guest'[g] = guest[g]
        BY <2>1
      <3>4. CASE roster' = roster
        <4>1. (g \in roster)' = (g \in roster)
          BY <3>4
        <4> QED BY <2>2, <3>2, <3>3, <4>1
      <3>5. CASE roster' = roster \ {g} /\ Head(toOwner[g]).kind = "close" /\ session = "live"
        <4>1. (g \in roster)' = FALSE
          BY <3>5
        <4>2. session # "none" /\ toOwner[g][1].kind = "close"
          BY <2>1, <3>5, FirstUp
        <4> QED BY <2>2, <3>2, <3>3, <4>1, <4>2
      <3> QED BY <2>1, <3>4, <3>5
    <2>6. \A q \in Guests \ {g} : (q \in roster' <=> q \in roster) /\ guest'[q] = guest[q]
      BY <2>1
    <2>7. UNCHANGED <<session, text, history>>
      BY <2>1
    <2> QED BY <2>2, <2>3, <2>5, <2>6, <2>7, OneLink
  <1> QED BY <1>2, <1>3

\* A step of one guest.
LinkMoves(g, z, up, down) ==
    /\ UNCHANGED <<session, text, history, allowed, roster>>
    /\ edits' \in 0..MaxEdits /\ asks' \in 0..MaxAsks
    /\ guest' = [guest EXCEPT ![g] = z] \/ (guest' = guest /\ z = guest[g])
    /\ toOwner' = [toOwner EXCEPT ![g] = up] \/ (toOwner' = toOwner /\ up = toOwner[g])
    /\ toGuest' = [toGuest EXCEPT ![g] = down] \/ (toGuest' = toGuest /\ down = toGuest[g])
LinkKept(g, z, up, down) ==
    \A T : HistoryOK(history, T, text) /\ Link(g, T) =>
            LinkOK(g, session, history, T, g \in roster, z, up, down)

LEMMA GuestMoves ==
    ASSUME CollabInv, NEW g \in Guests, NEW z, NEW up, NEW down,
           LinkMoves(g, z, up, down), LinkKept(g, z, up, down)
    PROVE  CollabInv'
PROOF
  <1>1. OwnerOK /\ UNCHANGED <<session, text, history, allowed, roster>>
    BY DEF CollabInv, LinkMoves
  <1>2. guest' = [q \in Guests |-> guest'[q]] /\ guest'[g] = z
        /\ \A q \in Guests \ {g} : guest'[q] = guest[q]
    BY <1>1 DEF OwnerOK, LinkMoves
  <1>3. toOwner' = [q \in Guests |-> toOwner'[q]] /\ toOwner'[g] = up
        /\ \A q \in Guests \ {g} : toOwner'[q] = toOwner[q]
    BY <1>1 DEF OwnerOK, LinkMoves
  <1>4. toGuest' = [q \in Guests |-> toGuest'[q]] /\ toGuest'[g] = down
        /\ \A q \in Guests \ {g} : toGuest'[q] = toGuest[q]
    BY <1>1 DEF OwnerOK, LinkMoves
  <1>5. OwnerOK'
    BY <1>1, <1>2, <1>3, <1>4 DEF OwnerOK, LinkMoves
  <1>6. (g \in roster)' = (g \in roster) /\ UNCHANGED <<session, text, history>>
    BY <1>1
  <1>7. \A T : HistoryOK(history, T, text) /\ Link(g, T) =>
           LinkOK(g, session, history, T, (g \in roster)', guest'[g], toOwner'[g], toGuest'[g])
    BY <1>2, <1>3, <1>4, <1>6 DEF LinkKept
  <1>8. \A q \in Guests \ {g} :
           /\ q \in roster' <=> q \in roster
           /\ guest'[q] = guest[q] /\ toOwner'[q] = toOwner[q] /\ toGuest'[q] = toGuest[q]
    BY <1>1, <1>2, <1>3, <1>4
  <1> QED BY <1>5, <1>6, <1>7, <1>8, OneLink

LEMMA GuestSends ==
    ASSUME CollabInv, NEW g \in Guests, MaxWaiting <= 1, GuestAsks(g) \/ GuestLeaves(g)
    PROVE  CollabInv'
PROOF
  <1>1. edits \in 0..MaxEdits /\ asks \in 0..MaxAsks
    BY DEF CollabInv, OwnerOK
  <1>2. PICK n, s, up, down : /\ n = Len(history) /\ s = guest[g]
                              /\ up = toOwner[g] /\ down = toGuest[g]
    OBVIOUS
  <1>3. /\ s \in SessionsTo(n) /\ up \in Seq(GuestFramesTo(n))
        /\ down \in Seq(OwnerFramesTo(n)) /\ n \in Nat
    BY <1>2, LinkTypes
  <1>4. Ask \in GuestFramesTo(n) /\ Ask.kind = "ask" /\ Close \in GuestFramesTo(n)
        /\ Close.kind = "close"
    BY DEF GuestFramesTo, Ask, Close
  <1>5. ASSUME NEW T, Link(g, T)
        PROVE  LinkOK(g, session, history, T, g \in roster, s, up, down)
    BY <1>2, <1>5 DEF Link
  <1>6. ASSUME GuestAsks(g) PROVE CollabInv'
    <2>1. /\ asks < MaxAsks /\ Waiting(g) < MaxWaiting /\ asks' = asks + 1
          /\ toOwner' = [toOwner EXCEPT ![g] = Append(up, Ask)]
          /\ UNCHANGED <<ownerVars, guest, toGuest, edits>>
      BY <1>2, <1>6 DEF GuestAsks, Put
    <2>2. Cardinality(Asking(up)) + Cardinality(Answering(down)) < MaxWaiting
      BY <1>2, <2>1 DEF Waiting
    <2>3. KindAt(up, Asks) = {} /\ KindAt(down, Answers) = {}
      BY <1>3, <2>2, NothingWaits
    <2>4. ASSUME NEW T, Link(g, T)
          PROVE  LinkOK(g, session, history, T, g \in roster, s, Append(up, Ask), down)
      BY <1>2, <1>4, <1>5, <2>3, <2>4, LinkAsks
    <2>5. asks' \in 0..MaxAsks /\ edits' \in 0..MaxEdits
      BY <1>1, <2>1, CollabAssumption
    <2>6. LinkMoves(g, s, Append(up, Ask), down)
      BY <1>2, <2>1, <2>5 DEF LinkMoves, ownerVars
    <2>7. LinkKept(g, s, Append(up, Ask), down)
      BY <2>4 DEF LinkKept
    <2> QED BY <2>6, <2>7, GuestMoves
  <1>7. ASSUME GuestLeaves(g) PROVE CollabInv'
    <2> DEFINE z == [NoSession EXCEPT !.offered = s.offered]
    <2>1. /\ s.st # "out" /\ UNCHANGED <<ownerVars, toGuest, edits, asks>>
          /\ guest' = [guest EXCEPT ![g] = z]
          /\ toOwner' = [toOwner EXCEPT ![g] = Append(up, Close)] \/ toOwner' = toOwner
      BY <1>2, <1>7 DEF GuestLeaves, In, SetGuest, Put, counters
    <2>2. z \in SessionsTo(n) /\ z.st = "out"
      <3>1. z = [st |-> "out", offered |-> s.offered, text |-> InitialText, rev |-> 0,
                 outstanding |-> NoOps, queued |-> <<>>]
        BY DEF NoSession
      <3>2. s.offered \in BOOLEAN /\ 0 \in 0..n /\ <<>> \in Seq(Ops)
        BY <1>3 DEF SessionsTo
      <3> HIDE DEF z
      <3> QED BY <3>1, <3>2, CollabAssumption DEF SessionsTo
    <2> HIDE DEF z
    <2>3. ASSUME NEW T, Link(g, T)
          PROVE  /\ LinkOK(g, session, history, T, g \in roster, z, Append(up, Close), down)
                 /\ LinkOK(g, session, history, T, g \in roster, z, up, down)
      BY <1>2, <1>4, <1>5, <2>1, <2>2, <2>3, LinkLeaves
    <2>4. asks' \in 0..MaxAsks /\ edits' \in 0..MaxEdits
      BY <1>1, <2>1
    <2>5. CASE toOwner' = toOwner
      <3>1. LinkMoves(g, z, up, down)
        BY <1>2, <2>1, <2>4, <2>5 DEF LinkMoves, ownerVars
      <3>2. LinkKept(g, z, up, down)
        BY <2>3 DEF LinkKept
      <3> QED BY <3>1, <3>2, GuestMoves
    <2>6. CASE toOwner' = [toOwner EXCEPT ![g] = Append(up, Close)]
      <3>1. LinkMoves(g, z, Append(up, Close), down)
        BY <1>2, <2>1, <2>4, <2>6 DEF LinkMoves, ownerVars
      <3>2. LinkKept(g, z, Append(up, Close), down)
        BY <2>3 DEF LinkKept
      <3> QED BY <3>1, <3>2, GuestMoves
    <2> QED BY <2>1, <2>5, <2>6
  <1> QED BY <1>6, <1>7

\* An edit is applied at once, and sent when nothing of the guest's is in flight.
LEMMA GuestTypes ==
    ASSUME Operations, CollabInv, NEW g \in Guests,
           NEW o \in Changes(guest[g].text, g), GuestEdits(g, o)
    PROVE  CollabInv'
PROOF
  <1>1. edits \in 0..MaxEdits /\ asks \in 0..MaxAsks
    BY DEF CollabInv, OwnerOK
  <1>2. PICK n, s, up, down : /\ n = Len(history) /\ s = guest[g]
                              /\ up = toOwner[g] /\ down = toGuest[g]
    OBVIOUS
  <1>3. /\ s \in SessionsTo(n) /\ up \in Seq(GuestFramesTo(n))
        /\ down \in Seq(OwnerFramesTo(n)) /\ n \in Nat
    BY <1>2, LinkTypes
  <1>4. ASSUME NEW T, Link(g, T)
        PROVE  LinkOK(g, session, history, T, g \in roster, s, up, down)
    BY <1>2, <1>4 DEF Link
  <1>5. s.text \in Texts /\ o \in OpsOn(s.text)
    <2>1. s.text \in Texts
      BY <1>3 DEF SessionsTo
    <2>2. OperationsOn(s.text)
      BY <2>1 DEF Operations
    <2> QED BY <1>2, <2>1, <2>2 DEF OperationsOn
  <1>6. Apply(s.text, o) \in Texts /\ o \in Ops /\ o # NoOps
    BY <1>5, OneStep, CollabAssumption DEF OpsOn
  <1> DEFINE w == [s EXCEPT !.text = Apply(s.text, o)]
  <1>7. w \in SessionsTo(n) /\ w.st = s.st /\ w.rev = s.rev /\ w.text = Apply(s.text, o)
        /\ w.outstanding = s.outstanding /\ w.queued = s.queued
    BY <1>3, <1>6 DEF SessionsTo
  <1>8. /\ s.st # "out" /\ edits < MaxEdits /\ edits' = edits + 1
        /\ IF w.st = "orphaned" THEN SetGuest(g, w) /\ UNCHANGED toOwner
           ELSE Flush(g, [w EXCEPT !.queued = Append(w.queued, o)])
        /\ UNCHANGED <<session, text, history, allowed, roster, toGuest, asks>>
    BY <1>2 DEF GuestEdits, In, ownerVars
  <1> HIDE DEF w
  <1>9. edits' \in 0..MaxEdits /\ asks' \in 0..MaxAsks
    BY <1>1, <1>8, CollabAssumption
  <1>10. CASE s.st = "orphaned"
    <2>1. guest' = [guest EXCEPT ![g] = w] /\ toOwner' = toOwner
      BY <1>7, <1>8, <1>10 DEF SetGuest
    <2>2. LinkMoves(g, w, up, down)
      BY <1>2, <1>8, <1>9, <2>1 DEF LinkMoves
    <2>3. ASSUME NEW T, Link(g, T)
          PROVE  LinkOK(g, session, history, T, g \in roster, w, up, down)
      BY <1>2, <1>4, <1>7, <1>10, <2>3, LinkAlone
    <2>4. LinkKept(g, w, up, down)
      BY <2>3 DEF LinkKept
    <2> QED BY <2>2, <2>4, GuestMoves
  <1>11. CASE s.st # "orphaned"
    <2>1. s.st = "in" /\ w.st = "in" /\ s.queued \in Seq(Ops)
      BY <1>3, <1>7, <1>8, <1>11 DEF SessionsTo
    <2> DEFINE q == Append(s.queued, o)
               x == [w EXCEPT !.queued = q]
    <2>2. q \in Seq(Ops) /\ q # <<>> /\ (s.queued = <<>> => Head(q) = o /\ Tail(q) = <<>>)
      BY <1>6, <2>1
    <2>3. Flush(g, x)
      BY <1>7, <1>8, <2>1
    <2> HIDE DEF q
    <2>4. x \in SessionsTo(n) /\ x.st = "in" /\ x.rev = s.rev /\ x.text = Apply(s.text, o)
          /\ x.outstanding = s.outstanding /\ x.queued = q
      BY <1>7, <2>1, <2>2 DEF SessionsTo
    <2> HIDE DEF x
    <2>5. ASSUME s.outstanding # NoOps PROVE CollabInv'
      <3>1. guest' = [guest EXCEPT ![g] = x] /\ toOwner' = toOwner
        BY <2>3, <2>4, <2>5 DEF Flush, Flushes, SetGuest
      <3>2. LinkMoves(g, x, up, down)
        BY <1>2, <1>8, <1>9, <3>1 DEF LinkMoves
      <3>3. ASSUME NEW T, HistoryOK(history, T, text), Link(g, T)
            PROVE  LinkOK(g, session, history, T, g \in roster, x, up, down)
        <4>1. LinkOK(g, session, history, T, g \in roster, s, up, down)
          BY <1>4, <3>3
        <4>2. x.queued = Append(s.queued, o) /\ x \in SessionsTo(Len(history))
          BY <1>2, <2>4 DEF q
        <4>3. (g \in roster) \in BOOLEAN
          OBVIOUS
        <4> QED BY <1>5, <2>1, <2>4, <2>5, <3>3, <4>1, <4>2, <4>3, LinkEdits, Zenon
      <3>4. LinkKept(g, x, up, down)
        BY <3>3 DEF LinkKept
      <3> QED BY <3>2, <3>4, GuestMoves
    <2>6. ASSUME s.outstanding = NoOps PROVE CollabInv'
      <3>1. s.queued = <<>>
        <4>1. PICK T : Link(g, T)
          BY LinksAre
        <4> QED BY <1>4, <2>1, <2>6, <4>1 DEF LinkOK, TextOK
      <3> DEFINE z == [x EXCEPT !.outstanding = Head(x.queued), !.queued = Tail(x.queued)]
                 f == Edit(x.rev, Head(x.queued))
      <3>2. guest' = [guest EXCEPT ![g] = z] /\ toOwner' = [toOwner EXCEPT ![g] = Append(up, f)]
        BY <1>2, <2>2, <2>3, <2>4, <2>6 DEF Flush, Flushes, SetGuest, Put
      <3>3. Head(x.queued) = o /\ Tail(x.queued) = <<>> /\ <<>> \in Seq(Ops)
        BY <2>2, <2>4, <3>1
      <3>4. z \in SessionsTo(n) /\ z.st = "in" /\ z.rev = s.rev
            /\ z.text = Apply(s.text, o) /\ z.outstanding = o /\ z.queued = <<>>
        BY <1>6, <2>4, <3>3 DEF SessionsTo
      <3>5. f \in GuestFramesTo(n) /\ f.kind = "ops" /\ f.rev = s.rev /\ f.ops = o
        <4>1. s.rev \in 0..n
          BY <1>3 DEF SessionsTo
        <4> QED BY <1>6, <2>4, <3>3, <4>1 DEF GuestFramesTo, Edit
      <3> HIDE DEF z, f
      <3>6. LinkMoves(g, z, Append(up, f), down)
        BY <1>2, <1>8, <1>9, <3>2 DEF LinkMoves
      <3>7. ASSUME NEW T, HistoryOK(history, T, text), Link(g, T)
            PROVE  LinkOK(g, session, history, T, g \in roster, z, Append(up, f), down)
        <4>1. LinkOK(g, session, history, T, g \in roster, s, up, down)
          BY <1>4, <3>7
        <4>2. z \in SessionsTo(Len(history)) /\ f \in GuestFramesTo(Len(history))
          BY <1>2, <3>4, <3>5
        <4>3. (g \in roster) \in BOOLEAN
          OBVIOUS
        <4> QED BY <1>5, <2>1, <2>6, <3>4, <3>5, <3>7, <4>1, <4>2, <4>3, LinkEdits, Zenon
      <3>8. LinkKept(g, z, Append(up, f), down)
        BY <3>7 DEF LinkKept
      <3> QED BY <3>6, <3>8, GuestMoves
    <2> QED BY <2>5, <2>6
  <1> QED BY <1>10, <1>11

\* The frames that a guest reads and that hold no operation.
LEMMA GuestReadsOn ==
    ASSUME CollabInv, NEW g \in Guests,
           HearOffer(g) \/ HearSnapshot(g) \/ HearClose(g) \/ Drop(g),
           toGuest' = Take(toGuest, g), UNCHANGED <<ownerVars, counters>>
    PROVE  CollabInv'
PROOF
  <1>1. edits' \in 0..MaxEdits /\ asks' \in 0..MaxAsks
        /\ UNCHANGED <<session, text, history, allowed, roster>>
    BY DEF CollabInv, OwnerOK, ownerVars, counters
  <1>2. PICK n, s, up, down : /\ n = Len(history) /\ s = guest[g]
                              /\ up = toOwner[g] /\ down = toGuest[g]
    OBVIOUS
  <1>3. /\ s \in SessionsTo(n) /\ up \in Seq(GuestFramesTo(n))
        /\ down \in Seq(OwnerFramesTo(n)) /\ n \in Nat
    BY <1>2, LinkTypes
  <1>4. ASSUME NEW T, Link(g, T)
        PROVE  LinkOK(g, session, history, T, g \in roster, s, up, down)
    BY <1>2, <1>4 DEF Link
  <1>5. toGuest' = [toGuest EXCEPT ![g] = Tail(down)]
    BY <1>2 DEF Take
  <1>6. down # <<>>
    BY <1>2 DEF HearOffer, HearSnapshot, HearClose, Drop, GuestReads
  <1>7. Head(down) = down[1] /\ down[1] \in OwnerFramesTo(n) /\ 1 \in 1..Len(down)
    BY <1>3, <1>6, FirstIs
  <1>8. ASSUME HearOffer(g) PROVE CollabInv'
    <2> DEFINE z == [s EXCEPT !.offered = TRUE]
    <2>1. /\ down[1].kind = "offer" /\ s.st = "out"
          /\ guest' = [guest EXCEPT ![g] = z]
          /\ toOwner' = [toOwner EXCEPT ![g] = Append(up, Open)]
      BY <1>2, <1>7, <1>8 DEF HearOffer, GuestReads, In, SetGuest, Put
    <2>2. z \in SessionsTo(n) /\ z.st = "out"
      BY <1>3, <2>1 DEF SessionsTo
    <2> HIDE DEF z
    <2>3. Open \in GuestFramesTo(n) /\ Open.kind = "open"
      BY DEF GuestFramesTo, Open
    <2>4. ASSUME NEW T, HistoryOK(history, T, text), Link(g, T)
          PROVE  LinkOK(g, session, history, T, g \in roster, z, Append(up, Open), Tail(down))
      BY <1>2, <1>4, <1>6, <2>1, <2>2, <2>3, <2>4, LinkOpens
    <2>5. LinkKept(g, z, Append(up, Open), Tail(down))
      BY <2>4 DEF LinkKept
    <2>6. LinkMoves(g, z, Append(up, Open), Tail(down))
      BY <1>1, <1>5, <2>1 DEF LinkMoves
    <2> QED BY <2>5, <2>6, GuestMoves
  <1>9. ASSUME HearSnapshot(g) PROVE CollabInv'
    <2> DEFINE z == [st |-> IF In(g) THEN guest[g].st ELSE "in",
                     offered |-> In(g) /\ guest[g].offered,
                     text |-> down[1].text, rev |-> down[1].rev,
                     outstanding |-> NoOps, queued |-> <<>>]
    <2>1. /\ down[1].kind = "snapshot" /\ guest' = [guest EXCEPT ![g] = z]
          /\ toOwner' = toOwner
      BY <1>2, <1>7, <1>9 DEF HearSnapshot, GuestReads, SetGuest
    <2>2. s.st = "out"
      <3>1. PICK T : Link(g, T)
        BY LinksAre
      <3> QED BY <1>4, <1>7, <2>1, <3>1 DEF LinkOK, SnapshotOK
    <2>3. down[1].rev \in 0..n /\ down[1].text \in Texts
      BY <1>7, <2>1 DEF OwnerFramesTo
    <2>4. ~In(g)
      BY <1>2, <2>2 DEF In
    <2>5. /\ z = [st |-> "in", offered |-> FALSE, text |-> down[1].text, rev |-> down[1].rev,
                  outstanding |-> NoOps, queued |-> <<>>]
          /\ <<>> \in Seq(Ops)
      <3>1. (In(g) /\ guest[g].offered) = FALSE
        BY <2>4
      <3>2. (IF In(g) THEN guest[g].st ELSE "in") = "in"
        BY <2>4
      <3>3. z = [st |-> "in", offered |-> FALSE, text |-> down[1].text,
                 rev |-> down[1].rev, outstanding |-> NoOps, queued |-> <<>>]
        BY <3>1, <3>2, Zenon
      <3> QED BY <3>3
    <2> HIDE DEF z
    <2>6. /\ z \in SessionsTo(n) /\ z.st = "in" /\ z.rev = down[1].rev
          /\ z.text = down[1].text /\ z.outstanding = NoOps /\ z.queued = <<>>
      BY <2>3, <2>5 DEF SessionsTo
    <2>7. ASSUME NEW T, HistoryOK(history, T, text), Link(g, T)
          PROVE  LinkOK(g, session, history, T, g \in roster, z, up, Tail(down))
      <3>1. LinkOK(g, session, history, T, g \in roster, s, up, down)
        BY <1>4, <2>7
      <3>2. (g \in roster) \in BOOLEAN /\ z \in SessionsTo(Len(history))
        BY <1>2, <2>6
      <3> QED BY <1>6, <2>1, <2>6, <2>7, <3>1, <3>2, LinkStarts, Zenon
    <2>8. LinkKept(g, z, up, Tail(down))
      BY <2>7 DEF LinkKept
    <2>9. LinkMoves(g, z, up, Tail(down))
      BY <1>1, <1>2, <1>5, <2>1 DEF LinkMoves
    <2> QED BY <2>8, <2>9, GuestMoves
  <1>10. ASSUME HearClose(g) PROVE CollabInv'
    <2> DEFINE z == [s EXCEPT !.st = "orphaned"]
    <2>1. /\ down[1].kind = "close" /\ s.st # "out" /\ guest' = [guest EXCEPT ![g] = z]
          /\ toOwner' = toOwner
      BY <1>2, <1>7, <1>10 DEF HearClose, GuestReads, In, SetGuest
    <2>2. z \in SessionsTo(n) /\ z.st = "orphaned"
      BY <1>3 DEF SessionsTo
    <2> HIDE DEF z
    <2>3. ASSUME NEW T, HistoryOK(history, T, text), Link(g, T)
          PROVE  LinkOK(g, session, history, T, g \in roster, z, up, Tail(down))
      <3>1. LinkOK(g, session, history, T, g \in roster, s, up, down)
        BY <1>4, <2>3
      <3>2. z \in SessionsTo(Len(history))
        BY <1>2, <2>2
      <3> QED BY <1>6, <2>1, <2>2, <2>3, <3>1, <3>2, LinkOrphaned, Zenon
    <2>4. LinkKept(g, z, up, Tail(down))
      BY <2>3 DEF LinkKept
    <2>5. LinkMoves(g, z, up, Tail(down))
      BY <1>1, <1>2, <1>5, <2>1 DEF LinkMoves
    <2> QED BY <2>4, <2>5, GuestMoves
  <1>11. ASSUME Drop(g) PROVE CollabInv'
    <2>1. /\ s.st = "out" \/ down[1].kind = "offer"
          /\ guest' = guest /\ toOwner' = toOwner
      BY <1>2, <1>7, <1>11 DEF Drop, GuestReads, In
    <2>2. ASSUME NEW T, HistoryOK(history, T, text), Link(g, T)
          PROVE  LinkOK(g, session, history, T, g \in roster, s, up, Tail(down))
      BY <1>4, <1>6, <2>1, <2>2, LinkDrops
    <2>3. LinkKept(g, s, up, Tail(down))
      BY <2>2 DEF LinkKept
    <2>4. LinkMoves(g, s, up, Tail(down))
      BY <1>1, <1>2, <1>5, <2>1 DEF LinkMoves
    <2> QED BY <2>3, <2>4, GuestMoves
  <1> QED BY <1>8, <1>9, <1>10, <1>11

\* An operation a guest reads: no gap, no hash that disagrees, and no operation
\* that does not fit, so that none is answered with a resync.
LEMMA GuestHearsOps ==
    ASSUME Operations, CollabInv, NEW g \in Guests, HearOps(g),
           toGuest' = Take(toGuest, g), UNCHANGED <<ownerVars, counters>>
    PROVE  CollabInv'
PROOF
  <1>1. edits' \in 0..MaxEdits /\ asks' \in 0..MaxAsks
        /\ UNCHANGED <<session, text, history, allowed, roster>>
    BY DEF CollabInv, OwnerOK, ownerVars, counters
  <1>2. PICK n, s, up, down : /\ n = Len(history) /\ s = guest[g]
                              /\ up = toOwner[g] /\ down = toGuest[g]
    OBVIOUS
  <1>3. /\ s \in SessionsTo(n) /\ up \in Seq(GuestFramesTo(n))
        /\ down \in Seq(OwnerFramesTo(n)) /\ n \in Nat
    BY <1>2, LinkTypes
  <1>4. ASSUME NEW T, Link(g, T)
        PROVE  LinkOK(g, session, history, T, g \in roster, s, up, down)
    BY <1>2, <1>4 DEF Link
  <1>5. toGuest' = [toGuest EXCEPT ![g] = Tail(down)]
    BY <1>2 DEF Take
  <1>6. down # <<>> /\ s.st # "out" /\ Head(down).kind = "ops"
    BY <1>2 DEF HearOps, GuestReads, In
  <1>7. Head(down) = down[1] /\ down[1] \in OwnerFramesTo(n) /\ 1 \in 1..Len(down)
    BY <1>3, <1>6, FirstIs
  <1>8. PICK f : f = down[1]
    OBVIOUS
  <1>9. f.kind = "ops" /\ f.rev \in 0..n /\ f.ops \in Ops
    BY <1>6, <1>7, <1>8 DEF OwnerFramesTo
  <1>10. s.st = "in"
    <2>1. PICK T : Link(g, T)
      BY LinksAre
    <2>2. StateOK(session, g \in roster, s, up, down)
      BY <1>4, <2>1 DEF LinkOK
    <2>3. s.st # "orphaned"
      BY <1>6, <2>2 DEF StateOK
    <2> QED BY <1>3, <1>6, <2>3 DEF SessionsTo
  <1>11. ASSUME NEW T, HistoryOK(history, T, text), Link(g, T)
         PROVE  /\ NextHeard(history, T, s, down)
                /\ f.author = g => BackHome(g, T, s, up, down)
                /\ TextOK(T, s)
    <2>1. LinkOK(g, session, history, T, g \in roster, s, up, down)
      BY <1>4, <1>11
    <2>2. NextHeard(history, T, s, down)
      BY <1>6, <1>8, <1>9, <1>10, <1>11, <2>1, NextRevision, Zenon
    <2>3. f.author = g => BackHome(g, T, s, up, down)
      BY <1>6, <1>8, <1>9, <1>10, <1>11, <2>1, Acked, Zenon
    <2> QED BY <1>10, <2>1, <2>2, <2>3 DEF LinkOK
  <1>12. PICK T : HistoryOK(history, T, text) /\ Link(g, T)
    BY LinksAre
  <1>13. f.rev = s.rev + 1 /\ f.hash \in {NoHash, T[f.rev]}
    BY <1>8, <1>11, <1>12 DEF NextHeard
  <1>14. (g \in roster) \in BOOLEAN
    OBVIOUS
  <1>15. IF f.author = g THEN HearAck(g, f) ELSE HearOthers(g, f)
    BY <1>2, <1>7, <1>8, <1>13 DEF HearOps
  <1>16. ASSUME f.author = g PROVE CollabInv'
    <2> DEFINE z == [s EXCEPT !.rev = f.rev, !.outstanding = NoOps]
    <2>1. /\ z \in SessionsTo(n) /\ z.st = "in" /\ z.rev = f.rev /\ z.text = s.text
          /\ z.outstanding = NoOps /\ z.queued = s.queued
      BY <1>3, <1>9, <1>10 DEF SessionsTo
    <2>2. IF Disagrees(z, f) THEN AskResync(g, z) ELSE Flush(g, z)
      BY <1>2, <1>15, <1>16 DEF HearAck
    <2> HIDE DEF z
    <2>3. ASSUME s.queued = <<>>, NEW V, HistoryOK(history, V, text), Link(g, V)
          PROVE  LinkOK(g, session, history, V, g \in roster, z, up, Tail(down))
      <3>1. LinkOK(g, session, history, V, g \in roster, s, up, down)
        BY <1>4, <2>3
      <3>2. z \in SessionsTo(Len(history)) /\ z.rev = down[1].rev /\ z.queued = <<>>
        BY <1>2, <1>8, <2>1, <2>3
      <3>3. down[1].kind = "ops" /\ down[1].author = g
        BY <1>8, <1>9, <1>16
      <3> QED BY <1>6, <1>10, <1>14, <2>1, <2>3, <3>1, <3>2, <3>3, LinkAcked, Zenon
    <2>4. ~Disagrees(z, f)
      <3>1. ASSUME z.queued = <<>> PROVE z.text = T[f.rev]
        <4>1. LinkOK(g, session, history, T, g \in roster, z, up, Tail(down))
          BY <1>12, <2>1, <2>3, <3>1
        <4>2. TextOK(T, z)
          BY <2>1, <4>1 DEF LinkOK
        <4> QED BY <2>1, <3>1, <4>2, Agrees
      <3> QED BY <1>13, <3>1 DEF Disagrees, InFlight
    <2>5. Flush(g, z)
      BY <2>2, <2>4
    <2>6. CASE s.queued = <<>>
      <3>1. guest' = [guest EXCEPT ![g] = z] /\ toOwner' = toOwner
        BY <2>1, <2>5, <2>6 DEF Flush, Flushes, SetGuest
      <3>2. LinkKept(g, z, up, Tail(down))
        BY <2>3, <2>6 DEF LinkKept
      <3>3. LinkMoves(g, z, up, Tail(down))
        BY <1>1, <1>2, <1>5, <3>1 DEF LinkMoves
      <3> QED BY <3>2, <3>3, GuestMoves
    <2>7. CASE s.queued # <<>>
      <3> DEFINE x == [z EXCEPT !.outstanding = Head(z.queued), !.queued = Tail(z.queued)]
                 e == Edit(z.rev, Head(z.queued))
      <3>1. guest' = [guest EXCEPT ![g] = x] /\ toOwner' = [toOwner EXCEPT ![g] = Append(up, e)]
        BY <1>2, <2>1, <2>5, <2>7 DEF Flush, Flushes, SetGuest, Put
      <3>2. s.queued \in Seq(Ops)
        BY <1>3 DEF SessionsTo
      <3>3. Head(s.queued) \in Ops /\ Tail(s.queued) \in Seq(Ops)
        BY <2>7, <3>2
      <3>4. /\ x \in SessionsTo(n) /\ x.st = "in" /\ x.rev = f.rev /\ x.text = s.text
            /\ x.outstanding = Head(s.queued) /\ x.queued = Tail(s.queued)
        BY <2>1, <3>3 DEF SessionsTo
      <3>5. /\ e \in GuestFramesTo(n) /\ e.kind = "ops" /\ e.rev = x.rev
            /\ e.ops = Head(s.queued)
        BY <1>9, <2>1, <3>3, <3>4 DEF GuestFramesTo, Edit
      <3> HIDE DEF x, e
      <3>6. ASSUME NEW V, HistoryOK(history, V, text), Link(g, V)
            PROVE  LinkOK(g, session, history, V, g \in roster, x, Append(up, e), Tail(down))
        <4>1. LinkOK(g, session, history, V, g \in roster, s, up, down)
          BY <1>4, <3>6
        <4>2. /\ x \in SessionsTo(Len(history)) /\ x.rev = down[1].rev
              /\ e \in GuestFramesTo(Len(history))
          BY <1>2, <1>8, <3>4, <3>5
        <4>3. down[1].kind = "ops" /\ down[1].author = g
          BY <1>8, <1>9, <1>16
        <4> QED BY <1>6, <1>10, <1>14, <2>7, <3>4, <3>5, <3>6, <4>1, <4>2, <4>3,
                   LinkAcked, Zenon
      <3>7. LinkKept(g, x, Append(up, e), Tail(down))
        BY <3>6 DEF LinkKept
      <3>8. LinkMoves(g, x, Append(up, e), Tail(down))
        BY <1>1, <1>5, <3>1 DEF LinkMoves
      <3> QED BY <3>7, <3>8, GuestMoves
    <2> QED BY <2>6, <2>7
  <1>17. ASSUME f.author # g PROVE CollabInv'
    <2>1. PICK own, new : own = Pending(s) /\ new = OwnOver(f.ops, own)
      OBVIOUS
    <2> DEFINE z == Rebased(s, f)
    <2>2. Moved(T, s, f.ops)
      BY <1>3, <1>8, <1>11, <1>12, Moves
    <2>3. /\ \A i \in 1..Len(own) : BaseLen(OverOwn(f.ops, own)[i - 1]) = BaseLen(own[i])
          /\ new \in Seq(Ops) /\ Len(new) = Len(own)
          /\ Apply(s.text, OverOwn(f.ops, own)[Len(own)]) \in Texts
      BY <2>1, <2>2, Zenon DEF Moved
    <2>4. /\ own \in Seq(Ops) /\ (s.outstanding = NoOps => own = s.queued)
          /\ s.outstanding # NoOps => own # <<>>
      BY <1>3, <2>1, PendingIs
    <2>5. Rebases(s, f)
      BY <2>1, <2>3, <2>4 DEF Rebases
    <2>6. s.outstanding # NoOps => new # <<>> /\ Head(new) \in Ops /\ Tail(new) \in Seq(Ops)
      BY <2>3, <2>4
    <2>7. z = [s EXCEPT !.text = Apply(s.text, OverOwn(f.ops, own)[Len(own)]),
                        !.rev = f.rev,
                        !.outstanding = IF s.outstanding = NoOps THEN NoOps ELSE Head(new),
                        !.queued = IF s.outstanding = NoOps THEN new ELSE Tail(new)]
      BY <2>1 DEF Rebased
    <2> HIDE DEF z
    <2>8. /\ z \in SessionsTo(n) /\ z.st = "in" /\ z.rev = f.rev
          /\ z.text = Apply(s.text, OverOwn(f.ops, own)[Len(own)])
          /\ s.outstanding = NoOps => z.outstanding = NoOps /\ z.queued = new
          /\ s.outstanding # NoOps => z.outstanding = Head(new) /\ z.queued = Tail(new)
      BY <1>3, <1>9, <1>10, <2>3, <2>6, <2>7 DEF SessionsTo
    <2>9. ASSUME NEW V, HistoryOK(history, V, text), Link(g, V)
          PROVE  LinkOK(g, session, history, V, g \in roster, z, up, Tail(down))
      <3>1. LinkOK(g, session, history, V, g \in roster, s, up, down)
        BY <1>4, <2>9
      <3>2. /\ z \in SessionsTo(Len(history)) /\ z.rev = down[1].rev
            /\ z.text = Apply(s.text, OverOwn(down[1].ops, own)[Len(own)])
            /\ new = OwnOver(down[1].ops, own)
        BY <1>2, <1>8, <2>1, <2>8
      <3>3. down[1].kind = "ops" /\ down[1].author # g
        BY <1>8, <1>9, <1>17
      <3> QED BY <1>6, <1>10, <1>14, <2>1, <2>8, <2>9, <3>1, <3>2, <3>3, LinkRebased, Zenon
    <2>10. ~Disagrees(z, f)
      <3>1. LinkOK(g, session, history, T, g \in roster, z, up, Tail(down))
        BY <1>12, <2>9
      <3>2. TextOK(T, z)
        BY <2>8, <3>1 DEF LinkOK
      <3>3. z.outstanding = NoOps /\ z.queued = <<>> => z.text = T[f.rev]
        BY <2>8, <3>2, Agrees
      <3> QED BY <1>13, <3>3 DEF Disagrees, InFlight
    <2>11. guest' = [guest EXCEPT ![g] = z] /\ toOwner' = toOwner
      <3>1. HearOthers(g, f)
        BY <1>15, <1>17
      <3> QED BY <1>2, <2>5, <2>10, <3>1 DEF HearOthers, SetGuest, z
    <2>12. LinkKept(g, z, up, Tail(down))
      BY <2>9 DEF LinkKept
    <2>13. LinkMoves(g, z, up, Tail(down))
      BY <1>1, <1>2, <1>5, <2>11 DEF LinkMoves
    <2> QED BY <2>12, <2>13, GuestMoves
  <1> QED BY <1>16, <1>17

-----------------------------------------------------------------------------
(* The theorems.                                                           *)

LEMMA CollabInit ==
    ASSUME Init
    PROVE  CollabInv
PROOF
  <1>1. OwnerOK
    BY CollabAssumption DEF Init, OwnerOK
  <1> DEFINE T == [r \in 0..0 |-> InitialText]
             S == GuestFramesTo(0)
             R == OwnerFramesTo(0)
  <1>2. HistoryOK(history, T, text)
    <2>1. history = <<>> /\ text = InitialText /\ Len(history) = 0 /\ history \in Seq(Ops)
      BY DEF Init
    <2> QED BY <2>1, CollabAssumption DEF HistoryOK
  <1> HIDE DEF T
  <1>3. ASSUME NEW g \in Guests PROVE Link(g, T)
    <2>1. /\ session = "none" /\ history = <<>> /\ Len(history) = 0 /\ (g \in roster) = FALSE
          /\ guest[g] = NoSession /\ toOwner[g] = <<>> /\ toGuest[g] = <<>>
      BY DEF Init
    <2>2. /\ NoSession.st = "out" /\ NoSession.rev = 0
          /\ NoSession \in SessionsTo(0)
      BY CollabAssumption DEF NoSession, SessionsTo
    <2> DEFINE s == NoSession
    <2> HIDE DEF s
    <2>3. <<>> \in Seq(S) /\ <<>> \in Seq(R) /\ Len(<<>>) = 0
      OBVIOUS
    <2> HIDE DEF S, R
    <2>4. Typed(0, s, <<>>, <<>>)
      BY <2>2, <2>3 DEF Typed, S, R, s
    <2>5. DownOK(<<>>, T, s, <<>>)
      <3>1. Marks(<<>>, T, <<>>, [i \in 0..0 |-> 0])
        BY DEF Marks
      <3> QED BY <2>2, <3>1 DEF DownOK, s
    <2>6. UpOK(<<>>, T, FALSE, <<>>)
      BY DEF UpOK
    <2>7. AskOK(s, <<>>, <<>>)
      BY DEF AskOK, Asking, Answering
    <2>8. SnapshotOK(g, "none", FALSE, s, <<>>, <<>>) /\ StateOK("none", FALSE, s, <<>>, <<>>)
      BY <2>2 DEF SnapshotOK, StateOK, s
    <2>9. LinkOK(g, "none", <<>>, T, FALSE, s, <<>>, <<>>)
      BY <2>2, <2>4, <2>5, <2>6, <2>7, <2>8 DEF LinkOK, s
    <2> QED BY <2>1, <2>9 DEF Link, s
  <1> QED BY <1>1, <1>2, <1>3 DEF CollabInv, LinksOK, Link

LEMMA CollabNext ==
    ASSUME Operations, MaxWaiting <= 1, CollabInv, [Next]_vars
    PROVE  CollabInv'
PROOF
  <1>1. CASE OwnerCloses \/ \E o \in Changes(text, Owner) : OwnerEdits(o)
    BY <1>1, OwnerSteps
  <1>2. ASSUME NEW g \in Guests, NEW o \in Changes(guest[g].text, g), GuestEdits(g, o)
        PROVE  CollabInv'
    BY <1>2, GuestTypes
  <1>3. ASSUME NEW g \in Guests, OwnerHears(g) PROVE CollabInv'
    BY <1>3, OwnerAnswers, OwnerReadsOn DEF OwnerHears
  <1>4. ASSUME NEW g \in Guests, GuestHears(g) PROVE CollabInv'
    <2>1. toGuest' = Take(toGuest, g) /\ UNCHANGED <<ownerVars, counters>>
      BY <1>4 DEF GuestHears
    <2>2. CASE HearOps(g)
      BY <2>1, <2>2, GuestHearsOps
    <2>3. CASE HearOffer(g) \/ HearSnapshot(g) \/ HearClose(g) \/ Drop(g)
      BY <2>1, <2>3, GuestReadsOn
    <2> QED BY <1>4, <2>2, <2>3 DEF GuestHears
  <1>5. ASSUME NEW g \in Guests, GuestAsks(g) \/ GuestLeaves(g) PROVE CollabInv'
    BY <1>5, GuestSends
  <1>6. CASE UNCHANGED vars
    BY <1>6 DEF vars, ownerVars, counters, CollabInv, OwnerOK, LinksOK
  <1>7. CASE Next
    <2>1. \/ OwnerCloses \/ \E o \in Changes(text, Owner) : OwnerEdits(o)
          \/ \E g \in Guests : \E o \in Changes(guest[g].text, g) : GuestEdits(g, o)
          \/ \E g \in Guests : OwnerHears(g) \/ GuestHears(g) \/ GuestAsks(g) \/ GuestLeaves(g)
      BY <1>7, Zenon DEF Next, Edits
    <2> QED BY <1>1, <1>2, <1>3, <1>4, <1>5, <2>1
  <1> QED BY <1>6, <1>7

LEMMA CollabInvariant ==
    ASSUME Operations, MaxWaiting <= 1
    PROVE  Spec => []CollabInv
PROOF
  <1>1. Init => CollabInv
    BY CollabInit
  <1>2. CollabInv /\ [Next]_vars => CollabInv'
    BY CollabNext
  <1> QED BY <1>1, <1>2, PTL DEF Spec

\* A guest with nothing on its links has the owner's text, and nothing waiting.
LEMMA QuietLink ==
    ASSUME NEW g, NEW h, NEW T, NEW t, HistoryOK(h, T, t), NEW joined, NEW s,
           LinkOK(g, "live", h, T, joined, s, <<>>, <<>>), s.st = "in"
    PROVE  s.outstanding = NoOps /\ s.queued = <<>> /\ s.text = t
PROOF
  <1>1. Own(g, <<>>) = {} /\ EditsIn(<<>>) = {}
    BY DEF Own, EditsIn
  <1>2. TextOK(T, s) /\ FlightOK(g, "live", h, s, <<>>, <<>>) /\ DownOK(h, T, s, <<>>)
    BY DEF LinkOK
  <1>3. s.outstanding = NoOps
    BY <1>1, <1>2 DEF FlightOK, Sequenced, Sent
  <1>4. s.queued = <<>>
    BY <1>2, <1>3 DEF TextOK
  <1>5. s.rev = Len(h)
    BY <1>2 DEF DownOK, Marks
  <1>6. s.text = T[s.rev]
    BY <1>2, <1>3, <1>4, Agrees
  <1> QED BY <1>3, <1>4, <1>5, <1>6 DEF HistoryOK

\* The state every session keeps has the type it is declared with, whatever the
\* order in which edits, asks, closings and their frames meet.
THEOREM TypeCorrect ==
    ASSUME Operations, MaxWaiting <= 1
    PROVE  Spec => []TypeOK
PROOF
  <1>1. CollabInv => TypeOK
    <2> SUFFICES ASSUME CollabInv PROVE TypeOK
      OBVIOUS
    <2>1. OwnerOK
      BY DEF CollabInv
    <2>2. text \in Texts /\ history \in Seq(Ops)
      <3>1. PICK T : HistoryOK(history, T, text)
        BY LinksAre
      <3>2. history \in Seq(Ops) /\ T \in [0..Len(history) -> Texts] /\ T[Len(history)] = text
        BY <3>1 DEF HistoryOK
      <3>3. Len(history) \in 0..Len(history)
        BY <3>2
      <3> QED BY <3>2, <3>3
    <2>3. /\ SessionRecords = SessionsTo(Len(history))
          /\ GuestFrames = GuestFramesTo(Len(history))
          /\ OwnerFrames = OwnerFramesTo(Len(history))
      BY DEF SessionRecords, GuestFrames, OwnerFrames, SessionsTo, GuestFramesTo,
             OwnerFramesTo, revision
    <2>4. \A g \in Guests : /\ guest[g] \in SessionRecords /\ toOwner[g] \in Seq(GuestFrames)
                            /\ toGuest[g] \in Seq(OwnerFrames)
      BY <2>3, LinkTypes
    <2>5. /\ guest \in [Guests -> SessionRecords]
          /\ toOwner \in [Guests -> Seq(GuestFrames)]
          /\ toGuest \in [Guests -> Seq(OwnerFrames)]
      BY <2>1, <2>4 DEF OwnerOK
    <2> QED BY <2>1, <2>2, <2>5 DEF OwnerOK, TypeOK
  <1> QED BY <1>1, CollabInvariant, PTL

\* All who have the document open read the same text as soon as no frame is on
\* its way, for any number of guests, edits and revisions: OwnerSession's order
\* and GuestSession's rebasing of what it has in flight and queued bring every
\* buffer to the owner's.
THEOREM Convergence ==
    ASSUME Operations, MaxWaiting <= 1
    PROVE  Spec => []Converged
PROOF
  <1>1. CollabInv => Converged
    <2> SUFFICES ASSUME CollabInv, NEW g \in Guests, Settled(g)
                 PROVE  guest[g].text = text
      BY DEF Converged
    <2>1. PICK T : HistoryOK(history, T, text) /\ Link(g, T)
      BY LinksAre
    <2>2. LinkOK(g, "live", history, T, g \in roster, guest[g], <<>>, <<>>)
          /\ guest[g].st = "in"
      BY <2>1 DEF Settled, Link
    <2> QED BY <2>1, <2>2, QuietLink
  <1> QED BY <1>1, CollabInvariant, PTL

\* And then no edit is left at a guest: each that was made while the document
\* was open, in flight or queued behind another, has become a revision.
THEOREM NoEditIsLeft ==
    ASSUME Operations, MaxWaiting <= 1
    PROVE  Spec => []EditsArrive
PROOF
  <1>1. CollabInv => EditsArrive
    <2> SUFFICES ASSUME CollabInv, NEW g \in Guests, Settled(g)
                 PROVE  ~InFlight(guest[g])
      BY DEF EditsArrive
    <2>1. PICK T : HistoryOK(history, T, text) /\ Link(g, T)
      BY LinksAre
    <2>2. LinkOK(g, "live", history, T, g \in roster, guest[g], <<>>, <<>>)
          /\ guest[g].st = "in"
      BY <2>1 DEF Settled, Link
    <2>3. guest[g].outstanding = NoOps /\ guest[g].queued = <<>>
      BY <2>1, <2>2, QuietLink
    <2> QED BY <2>3 DEF InFlight
  <1> QED BY <1>1, CollabInvariant, PTL

\* GuestSession.receive takes its own operation coming back for the one it has
\* in flight, without looking: it is that one, as the owner's transformations
\* and the guest's, made apart, come to the same operation.
THEOREM AcksAreTheirs ==
    ASSUME Operations, MaxWaiting <= 1
    PROVE  Spec => []AckMatches
PROOF
  <1>1. CollabInv => AckMatches
    <2> SUFFICES ASSUME CollabInv, NEW g \in Guests, GuestReads(g, "ops"),
                        guest[g].st = "in", Head(toGuest[g]).author = g
                 PROVE  guest[g].outstanding = Head(toGuest[g]).ops
      BY DEF AckMatches
    <2>1. PICK T : HistoryOK(history, T, text) /\ Link(g, T)
      BY LinksAre
    <2>2. toGuest[g] \in Seq(OwnerFramesTo(Len(history))) /\ toGuest[g] # <<>>
      BY LinkTypes DEF GuestReads
    <2>3. Head(toGuest[g]) = toGuest[g][1]
      BY <2>2, FirstIs
    <2>4. toGuest[g][1].kind = "ops" /\ toGuest[g][1].author = g
      BY <2>3 DEF GuestReads
    <2>5. LinkOK(g, session, history, T, g \in roster, guest[g], toOwner[g], toGuest[g])
      BY <2>1 DEF Link
    <2>6. BackHome(g, T, guest[g], toOwner[g], toGuest[g])
      BY <2>1, <2>2, <2>4, <2>5, Acked, Zenon
    <2> QED BY <2>3, <2>6 DEF BackHome
  <1> QED BY <1>1, CollabInvariant, PTL

\* While frames keep their order and none is lost, no guest asks for a resync,
\* for a gap, a hash that disagrees or an operation that does not fit, and the
\* owner drops no edit: OwnerSession.receive's and GuestSession.receive's ways
\* out are never taken.
THEOREM NobodyResyncs ==
    ASSUME Operations, MaxWaiting <= 1
    PROVE  Spec => []NoResync
PROOF
  <1>1. CollabInv => NoResync
    <2> SUFFICES ASSUME CollabInv, NEW g \in Guests
                 PROVE  /\ \A i \in DOMAIN toOwner[g] : toOwner[g][i].kind # "resync"
                        /\ OwnerReads(g, "ops") /\ session = "live" =>
                             Sequences(g, Head(toOwner[g]))
      BY DEF NoResync
    <2>1. PICK T : Link(g, T)
      BY LinksAre
    <2>2. UpOK(history, T, g \in roster, toOwner[g])
      BY <2>1 DEF Link, LinkOK
    <2>3. toOwner[g] \in Seq(GuestFramesTo(Len(history)))
      BY LinkTypes
    <2>4. DOMAIN toOwner[g] = 1..Len(toOwner[g])
      BY <2>3
    <2>5. \A i \in DOMAIN toOwner[g] : toOwner[g][i].kind # "resync"
      BY <2>2, <2>4 DEF UpOK
    <2>6. ASSUME OwnerReads(g, "ops") PROVE Sequences(g, Head(toOwner[g]))
      <3>1. toOwner[g] # <<>> /\ Head(toOwner[g]).kind = "ops"
        BY <2>6 DEF OwnerReads
      <3>2. Head(toOwner[g]) = toOwner[g][1]
        BY <3>1, FirstUp
      <3> QED BY <3>1, <3>2, EditFits
    <2> QED BY <2>5, <2>6
  <1> QED BY <1>1, CollabInvariant, PTL
====
