------------------------------ MODULE MCCollab ------------------------------
EXTENDS CollabSession, CollabOT, TLC

MCText == <<>>
Letters == {"a", "b", "x", "y"} \union Guests \union {Owner}
MCTexts == Seq(Letters)
MCOps == Seq(Letters \union {"keep", "drop"})
Interchangeable == Permutations(Guests)

\* What CollabSession needs of its operations, over all texts of at most two
\* characters and all pairs of operations of at most four, which insert the
\* same character or another.
SmallTexts == UNION {[1..n -> {"a", "b"}] : n \in 0..2}
SmallOps(t, c) ==
    {ops \in UNION {[1..n -> {"keep", "drop", c}] : n \in 0..4} :
        BaseLength(ops) = Len(t)}
ASSUME TransformConverges ==
    \A t \in SmallTexts :
        /\ ChangesOf(t, "x") \subseteq SmallOps(t, "x")
        /\ \A a \in SmallOps(t, "x"), b \in SmallOps(t, "x") \union SmallOps(t, "y") :
              Converges(t, a, b)
=============================================================================
