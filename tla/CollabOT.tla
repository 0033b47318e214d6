------------------------------ MODULE CollabOT ------------------------------
(***************************************************************************)
(* The pure half of collaborative editing (collab-ot.ts): operations on a  *)
(* text, their transformation against each other, and applyToModel         *)
(* (collab.ts).                                                            *)
(*                                                                         *)
(* An operation is a sequence of one-character primitives: "keep" retains  *)
(* a character, "drop" deletes one, any other value is the character it    *)
(* inserts.  The code merges runs of one kind; its Builder gives equal     *)
(* operations one form, inserts before the deletes they touch, and so do   *)
(* the operators here.                                                     *)
(***************************************************************************)
EXTENDS Naturals, SequencesExt

Inserts(prim) == prim \notin {"keep", "drop"}

BaseLength(ops) == Len(SelectSeq(ops, LAMBDA prim : ~Inserts(prim)))

Copies(prim, n) == [k \in 1..n |-> prim]

\* Builder: a retain and a delete go last, an insert before the last deletes.
Retain(out) == Append(out, "keep")
Delete(out) == Append(out, "drop")
Same(out, prim) == IF prim = "drop" THEN Delete(out) ELSE Retain(out)
RECURSIVE Insert(_, _)
Insert(out, c) ==
    IF out # <<>> /\ Last(out) = "drop" THEN Append(Insert(Front(out), c), "drop")
    ELSE Append(out, c)

\* The walk over both operations; an insert of the first argument goes first.
RECURSIVE Walk(_, _, _, _)
Walk(a, b, outA, outB) ==
    CASE a # <<>> /\ Inserts(Head(a)) ->
           Walk(Tail(a), b, Insert(outA, Head(a)), Retain(outB))
      [] (a = <<>> \/ ~Inserts(Head(a))) /\ b # <<>> /\ Inserts(Head(b)) ->
           Walk(a, Tail(b), Retain(outA), Insert(outB, Head(b)))
      [] (a = <<>> \/ ~Inserts(Head(a))) /\ (b = <<>> \/ ~Inserts(Head(b))) ->
           IF a = <<>> \/ b = <<>> THEN <<outA, outB>>
           ELSE Walk(Tail(a), Tail(b),
                     IF Head(b) = "drop" THEN outA ELSE Same(outA, Head(a)),
                     IF Head(a) = "drop" THEN outB ELSE Same(outB, Head(b)))

\* transform(a, b): <<a over b, b over a>>, for operations on one text.
TransformOps(a, b) == Walk(a, b, <<>>, <<>>)

\* apply throws when the text has another length; applyToModel, which a
\* session uses, keeps to the text's end and leaves what the operation does
\* not reach.
RECURSIVE ApplyToModel(_, _)
ApplyToModel(text, ops) ==
    IF ops = <<>> THEN text
    ELSE CASE Inserts(Head(ops)) -> <<Head(ops)>> \o ApplyToModel(text, Tail(ops))
           [] ~Inserts(Head(ops)) /\ text = <<>> -> ApplyToModel(text, Tail(ops))
           [] Head(ops) = "keep" /\ text # <<>> ->
                <<Head(text)>> \o ApplyToModel(Tail(text), Tail(ops))
           [] Head(ops) = "drop" /\ text # <<>> -> ApplyToModel(Tail(text), Tail(ops))

\* opsFromChanges: the operation a change of an editor comes to, which puts
\* new in the place of the characters from at + 1 to at + n.
FromChange(length, at, n, new) ==
    Copies("keep", at) \o new \o Copies("drop", n) \o Copies("keep", length - at - n)

\* The changes tried here: one character typed, deleted, or typed over.
ChangesOf(text, c) ==
    LET n == Len(text) IN
    {FromChange(n, at, 0, <<c>>) : at \in 0..n}
    \union {FromChange(n, at, 1, new) : at \in 0..(n - 1), new \in {<<>>, <<c>>}}
=============================================================================
