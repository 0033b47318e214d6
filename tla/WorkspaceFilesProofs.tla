------------------------ MODULE WorkspaceFilesProofs ------------------------
(* What TLAPS proves of the claims file and of the questions of a workspace   *)
(* for every value of the constants: that agents never hold overlapping paths,*)
(* that a held path is let go only by those who may, that a question has one  *)
(* resolution and its callers are told that one, and the types of Workspace.  *)
EXTENDS WorkspaceProofs, FiniteSetTheorems

-----------------------------------------------------------------------------
(* Files by age (Aged).                                                       *)

\* Every age is a natural number, and one of them is the newest.
HasAges(f) ==
  /\ DOMAIN f \subseteq Nat
  /\ DOMAIN f = {} \/ \E n \in DOMAIN f : \A i \in DOMAIN f : n >= i

\* Nothing in the file is newer than the newest.
LEMMA NewestAge ==
  ASSUME NEW f, HasAges(f)
  PROVE  /\ Newest(f) \in Nat
         /\ \A i \in DOMAIN f : i <= Newest(f)
         /\ DOMAIN f # {} => Newest(f) \in DOMAIN f
<1>1. CASE DOMAIN f = {}
  BY <1>1 DEF Newest
<1>2. CASE DOMAIN f # {}
  <2>1. PICK n \in DOMAIN f : \A i \in DOMAIN f : n >= i
    BY <1>2 DEF HasAges
  <2>2. Max(DOMAIN f) \in DOMAIN f /\ \A i \in DOMAIN f : Max(DOMAIN f) >= i
    BY <2>1 DEF Max
  <2>3. Newest(f) = Max(DOMAIN f)
    BY <1>2 DEF Newest
  <2> QED
    BY <2>2, <2>3 DEF HasAges
<1> QED
  BY <1>1, <1>2

\* What is added comes under an age of its own, and becomes the newest.
LEMMA AddedOne ==
  ASSUME NEW f, NEW r, HasAges(f)
  PROVE  \E n \in Nat :
           /\ n \notin DOMAIN f
           /\ DOMAIN Added(f, r) = DOMAIN f \cup {n}
           /\ Added(f, r)[n] = r
           /\ \A i \in DOMAIN f : Added(f, r)[i] = f[i] /\ n >= i
           /\ HasAges(Added(f, r))
<1> DEFINE n == Newest(f) + 1
<1>1. n \in Nat /\ n \notin DOMAIN f /\ \A i \in DOMAIN f : n >= i
  BY NewestAge DEF HasAges
<1>2. Added(f, r) = [i \in DOMAIN f \cup {n} |-> IF i = n THEN r ELSE f[i]]
  BY DEF Added
<1> HIDE DEF n
<1>3. /\ DOMAIN Added(f, r) = DOMAIN f \cup {n} /\ Added(f, r)[n] = r
      /\ \A i \in DOMAIN f : Added(f, r)[i] = f[i]
  BY <1>1, <1>2
<1>4. HasAges(Added(f, r))
  <2>1. DOMAIN Added(f, r) \subseteq Nat
    BY <1>1, <1>3 DEF HasAges
  <2>2. n \in DOMAIN Added(f, r) /\ \A i \in DOMAIN Added(f, r) : n >= i
    BY <1>1, <1>3
  <2> QED
    BY <2>1, <2>2 DEF HasAges
<1> QED
  BY <1>1, <1>3, <1>4

\* A cut takes entries that are over, and nothing else; while the newest entry
\* is not over, or a few of those may stay, it stays.
LEMMA CutOldKeeps ==
  ASSUME NEW f, NEW over, NEW few \in Nat, HasAges(f), over \subseteq DOMAIN f,
         DOMAIN f # {} => Newest(f) \notin over \/ few # 0
  PROVE  /\ DOMAIN CutOld(f, over, few) \subseteq DOMAIN f
         /\ \A i \in DOMAIN CutOld(f, over, few) : CutOld(f, over, few)[i] = f[i]
         /\ \A i \in DOMAIN f : i \notin over => i \in DOMAIN CutOld(f, over, few)
         /\ HasAges(CutOld(f, over, few))
<1> DEFINE late(i) == Cardinality({j \in over : j >= i})
           stay == {i \in DOMAIN f : i \in over => late(i) <= few}
           g == CutOld(f, over, few)
<1>1. g = [i \in stay |-> f[i]]
  BY DEF CutOld, Restrict
<1>2. DOMAIN g = stay /\ \A i \in DOMAIN g : g[i] = f[i]
  BY <1>1
<1>3. stay \subseteq DOMAIN f /\ \A i \in DOMAIN f : i \notin over => i \in stay
  OBVIOUS
<1>4. CASE DOMAIN f = {}
  <2>1. DOMAIN g = {}
    BY <1>4, <1>2, <1>3
  <2> HIDE DEF g
  <2> QED
    BY <2>1, <1>4, <1>2 DEF HasAges, g
<1>5. CASE DOMAIN f # {}
  <2> DEFINE n == Newest(f)
  <2>1. n \in Nat /\ n \in DOMAIN f /\ \A i \in DOMAIN f : n >= i
    BY <1>5, NewestAge DEF HasAges
  <2>2. n \in stay
    <3>1. CASE n \notin over
      BY <3>1, <2>1
    <3>2. CASE n \in over
      <4>1. {j \in over : j >= n} = {n}
        BY <3>2, <2>1 DEF HasAges
      <4>2. late(n) = 1
        BY <4>1, FS_Singleton
      <4>3. few >= 1
        BY <3>2, <1>5
      <4> HIDE DEF late
      <4> QED
        BY <4>2, <4>3, <2>1
    <3> QED
      BY <3>1, <3>2
  <2>3. stay \subseteq Nat /\ \A i \in stay : n >= i
    BY <1>3, <2>1 DEF HasAges
  <2> HIDE DEF n, g, stay
  <2>4. HasAges(g)
    BY <1>2, <2>2, <2>3 DEF HasAges
  <2> QED
    BY <1>2, <1>3, <2>4 DEF g
<1> QED
  BY <1>4, <1>5

-----------------------------------------------------------------------------
(* The claims file.                                                           *)

Row == [key : Keys, paths : (SUBSET Paths) \ {{}}, live : BOOLEAN]

\* What key k holds by file f; Held(k) is HeldIn(rows, k).
HeldIn(f, k) == UNION {f[i].paths : i \in {j \in DOMAIN f : f[j].live /\ f[j].key = k}}
\* No two live rows of file f share a key or overlap; Disjoint is Apart(rows).
Apart(f) == \A i, j \in DOMAIN f : f[i].live /\ f[j].live /\ i # j =>
  /\ f[i].key # f[j].key
  /\ \A p \in f[i].paths, q \in f[j].paths : ~Overlap(p, q)

FileOK(f) == HasAges(f) /\ (\A i \in DOMAIN f : f[i] \in Row) /\ Apart(f)

CallsOK == \A c \in calls :
  /\ c.key \in Keys /\ c.op \in {"claim", "release", "free", "hotspot"}
  /\ c.paths \in SUBSET Paths
  /\ c.op \in {"claim", "hotspot"} => c.paths # {}

ClaimsInv == FileOK(rows) /\ CallsOK

\* A key holds a path by one of its live rows.
LEMMA HeldBy ==
  ASSUME NEW f, NEW k, NEW p
  PROVE  p \in HeldIn(f, k)
           <=> \E i \in DOMAIN f : f[i].live /\ f[i].key = k /\ p \in f[i].paths
  BY DEF HeldIn

\* The end of a key's claims: every other row stays as it was.
LEMMA ReleasedRows ==
  ASSUME FileOK(rows), NEW k
  PROVE  /\ FileOK(Released(k))
         /\ DOMAIN Released(k) = DOMAIN rows
         /\ \A i \in DOMAIN rows : Released(k)[i].live => /\ rows[i].live /\ rows[i].key # k
                                                          /\ Released(k)[i] = rows[i]
         /\ \A i \in DOMAIN rows : rows[i].key # k => Released(k)[i] = rows[i]
<1> DEFINE g == Released(k)
<1>1. DOMAIN g = DOMAIN rows
  BY DEF Released
<1>2. ASSUME NEW i \in DOMAIN rows
      PROVE  /\ g[i] \in Row
             /\ g[i].live => rows[i].live /\ rows[i].key # k /\ g[i] = rows[i]
             /\ rows[i].key # k => g[i] = rows[i]
  <2>1. rows[i] \in Row
    BY DEF FileOK
  <2>2. g[i] = IF rows[i].key = k THEN [rows[i] EXCEPT !.live = FALSE] ELSE rows[i]
    BY DEF Released
  <2>3. CASE rows[i].key = k
    <3>1. g[i] = [rows[i] EXCEPT !.live = FALSE]
      BY <2>2, <2>3
    <3> QED
      BY <2>1, <2>3, <3>1 DEF Row
  <2>4. CASE rows[i].key # k
    BY <2>1, <2>2, <2>4 DEF Row
  <2> QED
    BY <2>3, <2>4
<1> HIDE DEF g
<1>3. Apart(g)
  <2> SUFFICES ASSUME NEW i \in DOMAIN g, NEW j \in DOMAIN g, g[i].live, g[j].live, i # j
               PROVE  /\ g[i].key # g[j].key
                      /\ \A p \in g[i].paths, q \in g[j].paths : ~Overlap(p, q)
    BY DEF Apart
  <2>1. g[i] = rows[i] /\ g[j] = rows[j] /\ rows[i].live /\ rows[j].live
    BY <1>1, <1>2
  <2> QED
    BY <1>1, <2>1 DEF FileOK, Apart
<1>4. HasAges(g)
  BY <1>1 DEF FileOK, HasAges
<1> QED
  BY <1>1, <1>2, <1>3, <1>4 DEF FileOK, g

\* What others hold stays; what the key held is gone.
LEMMA ReleasedHeld ==
  ASSUME FileOK(rows), NEW k, NEW o, o # k
  PROVE  HeldIn(Released(k), o) = HeldIn(rows, o)
<1>1. ASSUME NEW p, p \in HeldIn(rows, o) PROVE p \in HeldIn(Released(k), o)
  <2>1. PICK i \in DOMAIN rows : rows[i].live /\ rows[i].key = o /\ p \in rows[i].paths
    BY <1>1, HeldBy
  <2>2. i \in DOMAIN Released(k) /\ Released(k)[i] = rows[i]
    BY <2>1, ReleasedRows
  <2> QED
    BY <2>1, <2>2, HeldBy
<1>2. ASSUME NEW p, p \in HeldIn(Released(k), o) PROVE p \in HeldIn(rows, o)
  <2>1. PICK i \in DOMAIN Released(k) : /\ Released(k)[i].live /\ Released(k)[i].key = o
                                        /\ p \in Released(k)[i].paths
    BY <1>2, HeldBy
  <2>2. i \in DOMAIN rows /\ Released(k)[i] = rows[i]
    BY <2>1, ReleasedRows
  <2> QED
    BY <2>1, <2>2, HeldBy
<1> QED
  BY <1>1, <1>2

\* A row whose paths no other live row of the file touches may be added.
LEMMA AddedRow ==
  ASSUME NEW f, FileOK(f), NEW k \in Keys, NEW P \in (SUBSET Paths) \ {{}},
         \A i \in DOMAIN f : f[i].live =>
           f[i].key # k /\ \A p \in f[i].paths, q \in P : ~Overlap(p, q)
  PROVE  LET g == Added(f, [key |-> k, paths |-> P, live |-> TRUE]) IN
         /\ FileOK(g)
         /\ g[Newest(g)].live /\ Newest(g) \in DOMAIN g
         /\ \A o : HeldIn(f, o) \subseteq HeldIn(g, o)
         /\ P \subseteq HeldIn(g, k)
<1> DEFINE r == [key |-> k, paths |-> P, live |-> TRUE]
           g == Added(f, r)
<1>0. r \in Row /\ r.key = k /\ r.paths = P /\ r.live
  BY DEF Row
<1> HIDE DEF r
<1>1. PICK n \in Nat : /\ n \notin DOMAIN f
                       /\ DOMAIN g = DOMAIN f \cup {n}
                       /\ g[n] = r
                       /\ \A i \in DOMAIN f : g[i] = f[i] /\ n >= i
                       /\ HasAges(g)
  BY AddedOne DEF FileOK
<1> HIDE DEF g
<1>2. \A i \in DOMAIN g : g[i] \in Row
  BY <1>0, <1>1 DEF FileOK
<1>3. Apart(g)
  <2>1. ASSUME NEW i \in DOMAIN f, f[i].live
        PROVE  /\ f[i].key # r.key
               /\ \A p \in f[i].paths, q \in r.paths : ~Overlap(p, q) /\ ~Overlap(q, p)
    BY <1>0, <2>1 DEF Overlap
  <2> SUFFICES ASSUME NEW i \in DOMAIN g, NEW j \in DOMAIN g, g[i].live, g[j].live, i # j
               PROVE  /\ g[i].key # g[j].key
                      /\ \A p \in g[i].paths, q \in g[j].paths : ~Overlap(p, q)
    BY DEF Apart
  <2>2. CASE i \in DOMAIN f /\ j \in DOMAIN f
    <3>1. g[i] = f[i] /\ g[j] = f[j]
      BY <1>1, <2>2
    <3> QED
      BY <2>2, <3>1 DEF FileOK, Apart
  <2>3. CASE i = n /\ j \in DOMAIN f
    <3>1. g[i] = r /\ g[j] = f[j]
      BY <1>1, <2>3
    <3> QED
      BY <2>1, <2>3, <3>1
  <2>4. CASE j = n /\ i \in DOMAIN f
    <3>1. g[j] = r /\ g[i] = f[i]
      BY <1>1, <2>4
    <3> QED
      BY <2>1, <2>4, <3>1
  <2> QED
    BY <1>1, <2>2, <2>3, <2>4
<1>4. Newest(g) = n
  <2>1. n \in DOMAIN g
    BY <1>1
  <2>2. Newest(g) \in DOMAIN g /\ n <= Newest(g) /\ Newest(g) \in Nat
    BY <1>1, <2>1, NewestAge
  <2> QED
    BY <1>1, <2>2
<1>5. ASSUME NEW o, NEW p, p \in HeldIn(f, o) PROVE p \in HeldIn(g, o)
  <2>1. PICK i \in DOMAIN f : f[i].live /\ f[i].key = o /\ p \in f[i].paths
    BY <1>5, HeldBy
  <2>2. i \in DOMAIN g /\ g[i] = f[i]
    BY <1>1
  <2> QED
    BY <2>1, <2>2, HeldBy
<1>6. ASSUME NEW p \in P PROVE p \in HeldIn(g, k)
  <2>1. n \in DOMAIN g /\ g[n].live /\ g[n].key = k /\ p \in g[n].paths
    BY <1>0, <1>1
  <2> QED
    BY <2>1, HeldBy
<1>7. FileOK(g)
  BY <1>1, <1>2, <1>3 DEF FileOK
<1>8. g[Newest(g)].live /\ Newest(g) \in DOMAIN g
  BY <1>0, <1>1, <1>4
<1> QED
  BY <1>5, <1>6, <1>7, <1>8 DEF g, r

\* The prune lets go of nothing that is held.
LEMMA PruneHeld ==
  ASSUME NEW f, FileOK(f), Newest(f) \in DOMAIN f, f[Newest(f)].live
  PROVE  /\ FileOK(Prune(f))
         /\ \A o : HeldIn(f, o) \subseteq HeldIn(Prune(f), o)
<1> DEFINE over == {i \in DOMAIN f : ~f[i].live}
           g == Prune(f)
<1>1. g = CutOld(f, over, MaxEnded) /\ MaxEnded \in Nat
  BY ClaimsAssumption DEF Prune
<1>2. over \subseteq DOMAIN f /\ Newest(f) \notin over
  OBVIOUS
<1>3. /\ DOMAIN g \subseteq DOMAIN f
      /\ \A i \in DOMAIN g : g[i] = f[i]
      /\ \A i \in DOMAIN f : i \notin over => i \in DOMAIN g
      /\ HasAges(g)
  BY <1>1, <1>2, CutOldKeeps DEF FileOK
<1> HIDE DEF g
<1>4. FileOK(g)
  <2>1. Apart(g)
    <3> SUFFICES ASSUME NEW i \in DOMAIN g, NEW j \in DOMAIN g, g[i].live, g[j].live, i # j
                 PROVE  /\ g[i].key # g[j].key
                        /\ \A p \in g[i].paths, q \in g[j].paths : ~Overlap(p, q)
      BY DEF Apart
    <3>1. g[i] = f[i] /\ g[j] = f[j] /\ i \in DOMAIN f /\ j \in DOMAIN f
      BY <1>3
    <3> QED
      BY <3>1 DEF FileOK, Apart
  <2> QED
    BY <1>3, <2>1 DEF FileOK
<1>5. ASSUME NEW o, NEW p, p \in HeldIn(f, o) PROVE p \in HeldIn(g, o)
  <2>1. PICK i \in DOMAIN f : f[i].live /\ f[i].key = o /\ p \in f[i].paths
    BY <1>5, HeldBy
  <2>2. i \in DOMAIN g /\ g[i] = f[i]
    BY <1>3, <2>1
  <2> QED
    BY <2>1, <2>2, HeldBy
<1> QED
  BY <1>4, <1>5 DEF g

\* What a step does with the file: it stays one, and keys other than k hold
\* what they held; k does too if keeps.
Changes(f, k, keeps) ==
  /\ FileOK(f)
  /\ \A o \in Keys : o # k \/ keeps => HeldIn(rows, o) \subseteq HeldIn(f, o)

\* A claim: refused, or in place of what its key held.
LEMMA ClaimApplied ==
  ASSUME FileOK(rows), NEW k \in Keys, NEW P \in (SUBSET Paths) \ {{}}
  PROVE  /\ Changes(ApplyClaim(k, P), k, FALSE)
         /\ ApplyClaim(k, P) = rows \/ P \subseteq HeldIn(ApplyClaim(k, P), k)
<1>1. CASE Collides(k, P)
  <2>1. ApplyClaim(k, P) = rows
    BY <1>1 DEF ApplyClaim
  <2> QED
    BY <2>1 DEF Changes
<1>2. CASE ~Collides(k, P)
  <2> DEFINE f == Released(k)
             g == Added(f, [key |-> k, paths |-> P, live |-> TRUE])
  <2>1. ApplyClaim(k, P) = Prune(g)
    BY <1>2 DEF ApplyClaim
  <2>2. /\ FileOK(f) /\ DOMAIN f = DOMAIN rows
        /\ \A i \in DOMAIN rows : f[i].live => rows[i].live /\ rows[i].key # k /\ f[i] = rows[i]
    BY ReleasedRows
  <2>3. \A o : o # k => HeldIn(f, o) = HeldIn(rows, o)
    BY ReleasedHeld
  <2> HIDE DEF f
  <2>4. ASSUME NEW i \in DOMAIN f, f[i].live
        PROVE  f[i].key # k /\ \A p \in f[i].paths, q \in P : ~Overlap(p, q)
    BY <1>2, <2>2, <2>4 DEF Collides
  <2>5. /\ FileOK(g) /\ g[Newest(g)].live /\ Newest(g) \in DOMAIN g
        /\ \A o : HeldIn(f, o) \subseteq HeldIn(g, o)
        /\ P \subseteq HeldIn(g, k)
    BY <2>2, <2>4, AddedRow
  <2> HIDE DEF g
  <2>6. FileOK(Prune(g)) /\ \A o : HeldIn(g, o) \subseteq HeldIn(Prune(g), o)
    BY <2>5, PruneHeld
  <2>7. \A o \in Keys : o # k => HeldIn(rows, o) \subseteq HeldIn(Prune(g), o)
    BY <2>3, <2>5, <2>6
  <2> QED
    BY <2>1, <2>5, <2>6, <2>7 DEF Changes
<1> QED
  BY <1>1, <1>2

\* A release: the key's claims end, and one successor carries the rest.
LEMMA ReleaseApplied ==
  ASSUME FileOK(rows), NEW k \in Keys, NEW P \in SUBSET Paths
  PROVE  Changes(ReleasePaths(k, P), k, FALSE)
<1> DEFINE kept == {p \in Held(k) : \A q \in P : ~Inside(p, q)}
           f == Released(k)
           g == Added(f, [key |-> k, paths |-> kept, live |-> TRUE])
<1>1. /\ FileOK(f) /\ DOMAIN f = DOMAIN rows
      /\ \A i \in DOMAIN rows : f[i].live => rows[i].live /\ rows[i].key # k /\ f[i] = rows[i]
  BY ReleasedRows
<1>2. \A o : o # k => HeldIn(f, o) = HeldIn(rows, o)
  BY ReleasedHeld
<1> HIDE DEF f
<1>3. CASE ReleasePaths(k, P) = f
  <2>1. Changes(f, k, FALSE)
    BY <1>1, <1>2 DEF Changes
  <2> QED
    BY <1>3, <2>1
<1>4. CASE ReleasePaths(k, P) = rows
  <2>1. Changes(rows, k, FALSE)
    BY DEF Changes
  <2> QED
    BY <1>4, <2>1
<1>5. CASE ReleasePaths(k, P) = g /\ kept # {}
  <2>1. Held(k) = HeldIn(rows, k)
    BY DEF Held, HeldIn
  <2>2. ASSUME NEW p \in kept
        PROVE  \E j \in DOMAIN rows : rows[j].live /\ rows[j].key = k /\ p \in rows[j].paths
    BY <2>1, HeldBy
  <2>3. kept \in (SUBSET Paths) \ {{}}
    <3>1. ASSUME NEW p \in kept PROVE p \in Paths
      <4>1. PICK j \in DOMAIN rows : rows[j].live /\ rows[j].key = k /\ p \in rows[j].paths
        BY <2>2
      <4>2. rows[j] \in Row
        BY DEF FileOK
      <4> QED
        BY <4>1, <4>2 DEF Row
    <3> HIDE DEF kept
    <3>2. kept \subseteq Paths
      BY <3>1
    <3>3. kept # {}
      BY <1>5
    <3> QED
      BY <3>2, <3>3
  <2> HIDE DEF kept
  <2>4. ASSUME NEW i \in DOMAIN f, f[i].live
        PROVE  f[i].key # k /\ \A p \in f[i].paths, q \in kept : ~Overlap(p, q)
    <3>1. f[i] = rows[i] /\ rows[i].live /\ rows[i].key # k /\ i \in DOMAIN rows
      BY <1>1, <2>4
    <3>2. ASSUME NEW p \in f[i].paths, NEW q \in kept PROVE ~Overlap(p, q)
      <4>1. PICK j \in DOMAIN rows : rows[j].live /\ rows[j].key = k /\ q \in rows[j].paths
        BY <2>2
      <4>2. i # j
        BY <3>1, <4>1
      <4> QED
        BY <3>1, <4>1, <4>2 DEF FileOK, Apart
    <3> QED
      BY <3>1, <3>2
  <2>5. FileOK(g) /\ \A o : HeldIn(f, o) \subseteq HeldIn(g, o)
    BY <1>1, <2>3, <2>4, AddedRow
  <2> HIDE DEF g
  <2>6. Changes(g, k, FALSE)
    BY <1>2, <2>5 DEF Changes
  <2> QED
    BY <1>5, <2>6
<1>6. \/ ReleasePaths(k, P) = f
      \/ ReleasePaths(k, P) = rows
      \/ ReleasePaths(k, P) = g /\ kept # {}
  BY DEF ReleasePaths, f
<1> QED
  BY <1>3, <1>4, <1>5, <1>6

\* A hotspot adds to what its key holds, or changes nothing.
LEMMA HotspotApplied ==
  ASSUME FileOK(rows), NEW k \in Keys, NEW P \in (SUBSET Paths) \ {{}}
  PROVE  Changes(ApplyHotspot(k, P), k, TRUE)
<1> DEFINE Q == Held(k) \cup P
<1>1. Held(k) = HeldIn(rows, k)
  BY DEF Held, HeldIn
<1>2. ASSUME NEW p \in Held(k) PROVE p \in Paths
  <2>1. PICK j \in DOMAIN rows : rows[j].live /\ rows[j].key = k /\ p \in rows[j].paths
    BY <1>1, HeldBy
  <2>2. rows[j] \in Row
    BY DEF FileOK
  <2> QED
    BY <2>1, <2>2 DEF Row
<1>3. Q \in (SUBSET Paths) \ {{}}
  <2>1. Held(k) \subseteq Paths
    BY <1>2
  <2>2. P \subseteq Paths /\ P # {}
    OBVIOUS
  <2>3. Q \subseteq Paths /\ Q # {}
    BY <2>1, <2>2
  <2> HIDE DEF Q
  <2> QED
    BY <2>3
<1>4. ApplyHotspot(k, P) = rows \/ ApplyHotspot(k, P) = ApplyClaim(k, Q)
  BY DEF ApplyHotspot
<1>5. Changes(rows, k, TRUE)
  BY DEF Changes
<1> DEFINE g == ApplyClaim(k, Q)
<1>6. Changes(g, k, FALSE) /\ (g = rows \/ Q \subseteq HeldIn(g, k))
  BY <1>3, ClaimApplied
<1>7. HeldIn(rows, k) \subseteq Q
  BY <1>1
<1> HIDE DEF g, Q
<1>8. Changes(g, k, TRUE)
  BY <1>6, <1>7 DEF Changes
<1> QED
  BY <1>4, <1>5, <1>8 DEF g

\* What no step may do to what is held; HeldStays says it of every step.
HeldStep ==
  \A k \in Keys : \/ Held(k) \subseteq Held(k)'
                  \/ \E c \in calls \ calls' : c.key = k /\ c.op # "hotspot"
                  \/ \E t \in ending \ ending' : Key(t) = k

\* A step that leaves the file alone, and may bring a call.
LEMMA FileStill ==
  ASSUME ClaimsInv, rows' = rows,
         \/ calls' \subseteq calls
         \/ \E k \in Keys, op \in {"claim", "release", "free", "hotspot"}, P \in SUBSET Paths :
              /\ calls' = calls \cup {[key |-> k, op |-> op, paths |-> P]}
              /\ op \in {"claim", "hotspot"} => P # {}
  PROVE  ClaimsInv' /\ HeldStep
<1>1. FileOK(rows')
  BY DEF ClaimsInv
<1>2. CallsOK'
  <2>1. CASE calls' \subseteq calls
    BY <2>1 DEF ClaimsInv, CallsOK
  <2>2. ASSUME NEW k \in Keys, NEW op \in {"claim", "release", "free", "hotspot"},
               NEW P \in SUBSET Paths,
               calls' = calls \cup {[key |-> k, op |-> op, paths |-> P]},
               op \in {"claim", "hotspot"} => P # {}
        PROVE  CallsOK'
    <3> SUFFICES ASSUME NEW c \in calls'
                 PROVE  /\ c.key \in Keys /\ c.op \in {"claim", "release", "free", "hotspot"}
                        /\ c.paths \in SUBSET Paths
                        /\ c.op \in {"claim", "hotspot"} => c.paths # {}
      BY DEF CallsOK
    <3>1. CASE c \in calls
      BY <3>1 DEF ClaimsInv, CallsOK
    <3>2. CASE c = [key |-> k, op |-> op, paths |-> P]
      BY <3>2, <2>2
    <3> QED
      BY <2>2, <3>1, <3>2
  <2> QED
    BY <2>1, <2>2
<1>3. \A k : Held(k)' = Held(k)
  BY DEF Held
<1> QED
  BY <1>1, <1>2, <1>3 DEF ClaimsInv, FileOK, Apart, HasAges, HeldStep

\* The end of a terminal's claims takes what its key held, and no more.
LEMMA FileReleased ==
  ASSUME ClaimsInv, NEW t \in Terms, Release(t)
  PROVE  ClaimsInv' /\ HeldStep
<1>1. /\ t \in ending /\ ending' = ending \ {t} /\ UNCHANGED calls
      /\ rows' = Released(Key(t))
  BY DEF Release
<1>2. FileOK(rows')
  BY <1>1, ReleasedRows DEF ClaimsInv
<1>3. CallsOK'
  BY <1>1 DEF ClaimsInv, CallsOK
<1>4. ASSUME NEW k \in Keys, k # Key(t) PROVE Held(k) \subseteq Held(k)'
  <2>1. HeldIn(rows', k) = HeldIn(rows, k)
    BY <1>1, <1>4, ReleasedHeld DEF ClaimsInv
  <2>2. Held(k) = HeldIn(rows, k) /\ Held(k)' = HeldIn(rows', k)
    BY DEF Held, HeldIn
  <2> QED
    BY <2>1, <2>2
<1>5. t \in ending \ ending'
  BY <1>1
<1>6. HeldStep
  BY <1>4, <1>5 DEF HeldStep
<1> QED
  BY <1>2, <1>3, <1>6 DEF ClaimsInv, FileOK, Apart, HasAges

\* A call's transaction touches what its own key holds.
LEMMA FileTransacted ==
  ASSUME ClaimsInv, NEW c \in calls, Transact(c)
  PROVE  ClaimsInv' /\ HeldStep
<1>1. calls' = calls \ {c} /\ rows' = Outcome(c)
  BY DEF Transact
<1>2. /\ FileOK(rows) /\ c.key \in Keys /\ c.op \in {"claim", "release", "free", "hotspot"}
      /\ c.paths \in SUBSET Paths
      /\ c.op \in {"claim", "hotspot"} => c.paths \in (SUBSET Paths) \ {{}}
  BY DEF ClaimsInv, CallsOK
<1>3. Changes(rows', c.key, c.op = "hotspot")
  <2>1. CASE c.op = "claim"
    <3>1. rows' = ApplyClaim(c.key, c.paths)
      BY <1>1, <2>1 DEF Outcome
    <3>2. Changes(ApplyClaim(c.key, c.paths), c.key, FALSE)
      BY <1>2, <2>1, ClaimApplied
    <3> QED
      BY <2>1, <3>1, <3>2 DEF Changes
  <2>2. CASE c.op = "release"
    <3>1. rows' = ReleasePaths(c.key, c.paths)
      BY <1>1, <2>2 DEF Outcome
    <3>2. Changes(ReleasePaths(c.key, c.paths), c.key, FALSE)
      BY <1>2, ReleaseApplied
    <3> QED
      BY <2>2, <3>1, <3>2 DEF Changes
  <2>3. CASE c.op = "free"
    <3>1. rows' = Released(c.key)
      BY <1>1, <2>3 DEF Outcome
    <3>2. FileOK(Released(c.key))
      BY <1>2, ReleasedRows
    <3>3. \A o : o # c.key => HeldIn(Released(c.key), o) = HeldIn(rows, o)
      BY <1>2, ReleasedHeld
    <3> QED
      BY <2>3, <3>1, <3>2, <3>3 DEF Changes
  <2>4. CASE c.op = "hotspot"
    <3>1. rows' = ApplyHotspot(c.key, c.paths)
      BY <1>1, <2>4 DEF Outcome
    <3>2. Changes(ApplyHotspot(c.key, c.paths), c.key, TRUE)
      BY <1>2, <2>4, HotspotApplied
    <3> QED
      BY <2>4, <3>1, <3>2 DEF Changes
  <2> QED
    BY <1>2, <2>1, <2>2, <2>3, <2>4
<1>4. FileOK(rows')
  BY <1>3 DEF Changes
<1>5. CallsOK'
  BY <1>1 DEF ClaimsInv, CallsOK
<1>6. ASSUME NEW k \in Keys, k # c.key \/ c.op = "hotspot" PROVE Held(k) \subseteq Held(k)'
  <2>1. HeldIn(rows, k) \subseteq HeldIn(rows', k)
    BY <1>3, <1>6 DEF Changes
  <2>2. Held(k) = HeldIn(rows, k) /\ Held(k)' = HeldIn(rows', k)
    BY DEF Held, HeldIn
  <2> QED
    BY <2>1, <2>2
<1>7. c \in calls \ calls'
  BY <1>1
<1>8. HeldStep
  BY <1>6, <1>7 DEF HeldStep
<1> QED
  BY <1>4, <1>5, <1>8 DEF ClaimsInv, FileOK, Apart, HasAges

\* Every step keeps the file's invariant, and lets go only of what it may.
LEMMA ClaimsInductive ==
  ASSUME ClaimsInv, [Next]_vars
  PROVE  ClaimsInv' /\ HeldStep
<1>1. ASSUME rows' = rows, calls' \subseteq calls PROVE ClaimsInv' /\ HeldStep
  BY <1>1, FileStill
<1>2. ASSUME ClaimsNext PROVE ClaimsInv' /\ HeldStep
  <2>1. ASSUME NEW t \in Terms, Release(t) PROVE ClaimsInv' /\ HeldStep
    BY <2>1, FileReleased
  <2>2. ASSUME NEW c \in calls, Transact(c) PROVE ClaimsInv' /\ HeldStep
    BY <2>2, FileTransacted
  <2>3. ASSUME NEW t \in Terms, NEW P \in Wants, NEW op \in {"claim", "release"}, Call(t, op, P)
        PROVE  ClaimsInv' /\ HeldStep
    <3>1. /\ rows' = rows /\ calls' = calls \cup {[key |-> Key(t), op |-> op, paths |-> P]}
          /\ op = "claim" => P # {}
      BY <2>3 DEF Call
    <3>2. Key(t) \in Keys /\ P \in SUBSET Paths
      BY ClaimsAssumption DEF Key, Keys
    <3> QED
      BY <3>1, <3>2, FileStill
  <2>4. ASSUME NEW t \in Terms, NEW P \in Wants, Hotspot(t, P) PROVE ClaimsInv' /\ HeldStep
    <3>1. /\ rows' = rows /\ calls' = calls \cup {[key |-> t, op |-> "hotspot", paths |-> P]}
          /\ P # {}
      BY <2>4 DEF Hotspot
    <3>2. t \in Keys /\ P \in SUBSET Paths
      BY ClaimsAssumption DEF Keys
    <3> QED
      BY <3>1, <3>2, FileStill
  <2>5. ASSUME NEW k \in Keys, Free(k) PROVE ClaimsInv' /\ HeldStep
    <3>1. rows' = rows /\ calls' = calls \cup {[key |-> k, op |-> "free", paths |-> {}]}
      BY <2>5 DEF Free
    <3> QED
      BY <3>1, FileStill
  <2>6. ASSUME NEW t \in Terms,
               \/ Mint(t) \/ Age(t) \/ Spawn(t) \/ Exit(t) \/ Spawned(t) \/ Bind(t)
               \/ Answered(t) \/ BindFails(t) \/ Revoke(t) \/ ObserveOne(t)
        PROVE  rows' = rows /\ calls' \subseteq calls
    BY <2>6 DEF Mint, Age, Spawn, Exit, Spawned, Bind, Answered, BindFails, Revoke, ObserveOne,
                Forgets, claimVars
  <2>7. ASSUME \/ Sweep \/ Observe \/ Observed
               \/ Reconcile \/ ListSessions \/ Judge \/ Reconciled
        PROVE  rows' = rows /\ calls' \subseteq calls
    BY <2>7 DEF Sweep, Observe, Observed, Reconcile, ListSessions, Judge, Reconciled, claimVars
  <2>8. ASSUME NEW d \in recon.doomed, Doom(d) PROVE rows' = rows /\ calls' \subseteq calls
    BY <2>8 DEF Doom, claimVars
  <2> QED
    BY <1>1, <1>2, <2>1, <2>2, <2>3, <2>4, <2>5, <2>6, <2>7, <2>8 DEF ClaimsNext
<1>3. CASE UNCHANGED claimVars
  BY <1>1, <1>3 DEF claimVars
<1>4. CASE Restart
  BY <1>1, <1>4 DEF Restart, ClaimsRestart
<1> QED
  BY <1>2, <1>3, <1>4 DEF Next, Write, Note, WindowRuns, Cut, Published, vars, parts,
                          SendStep, Send, NoteDelivery, Submit, Fail, Recover

\* The daemon starts with no claims.
LEMMA ClaimsInitOK == Init => ClaimsInv
<1> SUFFICES ASSUME rows = <<>>, calls = {} PROVE ClaimsInv
  BY DEF Init, ClaimsInit
<1>1. DOMAIN rows = {}
  OBVIOUS
<1> QED
  BY <1>1 DEF ClaimsInv, FileOK, HasAges, Apart, CallsOK

\* Two agents never hold overlapping paths and a key has one live claim
\* (workspace.rs:690-780, claims.rs:78-135), for any paths, any directories
\* they lie in, any calls and any number of agents.
THEOREM AgentsApart == Spec => []Disjoint
<1>1. ClaimsInv /\ [Next]_vars => ClaimsInv'
  BY ClaimsInductive
<1>2. ClaimsInv => Disjoint
  BY DEF ClaimsInv, FileOK, Apart, Disjoint
<1> QED
  BY ClaimsInitOK, <1>1, <1>2, PTL DEF Spec

\* What a key holds is let go only by a call under that key, by the revocation
\* of that terminal, or by the user (workspace.rs:657-782): the prune takes
\* only ended rows, and each transaction touches only the rows of its own key.
\* Agents that are not bound have one key among them (terminals.rs:80).
THEOREM HeldUntilLetGo == Spec => HeldStays
<1>1. ClaimsInv /\ [Next]_vars => ClaimsInv'
  BY ClaimsInductive
<1>2. ClaimsInv /\ [Next]_vars => [HeldStep]_<<claimVars, termVars>>
  BY ClaimsInductive
<1>3. Spec => [][HeldStep]_<<claimVars, termVars>>
  BY ClaimsInitOK, <1>1, <1>2, PTL DEF Spec
<1> QED
  BY <1>3, PTL DEF HeldStays, HeldStep

-----------------------------------------------------------------------------
(* Questions.                                                                 *)

Resolutions == Answers \cup {Expired}
Item == [name : Requests \cup {"fyi"}, res : Resolutions \cup {Pending, "none"}, due : BOOLEAN]

\* A request has one item at most.
ItemsOK(f) ==
  /\ HasAges(f)
  /\ \A i \in DOMAIN f : f[i] \in Item
  /\ \A i, j \in DOMAIN f : f[i].name = f[j].name /\ f[i].name \in Requests => i = j

IsAsked(f, q) == \E i \in DOMAIN f : f[i].name = q
\* By file f, question q has had the resolutions w: none yet, or the one its
\* item shows.
Fits(f, q, w) ==
  /\ ~IsAsked(f, q) => w = {}
  /\ \A i \in DOMAIN f : f[i].name = q =>
       w = IF f[i].res = Pending THEN {} ELSE {f[i].res}

\* What is known of the questions whose item was not pruned.
Questions == \A q \in Requests \ pruned :
  /\ Fits(items, q, won[q])
  /\ told[q] \subseteq won[q]
  /\ q \in asks => IsAsked(items, q)

AskTypes ==
  /\ asks \subseteq Requests /\ pruned \subseteq Requests
  /\ won \in [Requests -> SUBSET Resolutions]
  /\ told \in [Requests -> SUBSET (Resolutions \cup {Pending, "none", Nothing})]

AskInv == ItemsOK(items) /\ AskTypes /\ Questions

\* The item a request's name leads to.
LEMMA ItemOf ==
  ASSUME NEW q, Has(q)
  PROVE  \E i \in DOMAIN items : items[i].name = q /\ Of(q) = items[i]
<1> DEFINE i == CHOOSE i \in At(q) : TRUE
<1>1. i \in At(q)
  BY DEF Has
<1> HIDE DEF i
<1>2. i \in DOMAIN items /\ items[i].name = q
  BY <1>1 DEF At
<1>3. Of(q) = items[i]
  BY DEF Of, i
<1> QED
  BY <1>2, <1>3

\* The prune takes whole questions that were resolved, and notes it.
LEMMA KeepStep ==
  ASSUME NEW f, ItemsOK(f), Keep(f), pruned \subseteq Requests
  PROVE  /\ ItemsOK(items') /\ pruned' \subseteq Requests /\ pruned \subseteq pruned'
         /\ \A q \in Requests \ pruned' : IsAsked(f, q) => IsAsked(items', q)
         /\ \A w : \A q \in Requests \ pruned' : Fits(f, q, w) => Fits(items', q, w)
<1> DEFINE over == {i \in DOMAIN f : f[i].res # Pending}
<1>1. items' = CutOld(f, over, MaxResolved) /\ MaxResolved \in Nat /\ MaxResolved # 0
  BY AttentionAssumption DEF Keep, PruneItems
<1>2. over \subseteq DOMAIN f
  OBVIOUS
<1>3. /\ DOMAIN items' \subseteq DOMAIN f
      /\ \A i \in DOMAIN items' : items'[i] = f[i]
      /\ HasAges(items')
  BY <1>1, <1>2, CutOldKeeps DEF ItemsOK
<1>4. pruned' = pruned \cup {q \in Requests : IsAsked(f, q) /\ ~IsAsked(items', q)}
  BY DEF Keep, IsAsked
<1>5. ItemsOK(items')
  BY <1>3 DEF ItemsOK
<1>6. ASSUME NEW q \in Requests \ pruned', IsAsked(f, q) PROVE IsAsked(items', q)
  BY <1>4, <1>6
<1>7. ASSUME NEW q \in Requests \ pruned', NEW w, Fits(f, q, w) PROVE Fits(items', q, w)
  <2>1. ~IsAsked(items', q) => w = {}
    BY <1>6, <1>7 DEF Fits
  <2>2. ASSUME NEW i \in DOMAIN items', items'[i].name = q
        PROVE  w = IF items'[i].res = Pending THEN {} ELSE {items'[i].res}
    <3>1. i \in DOMAIN f /\ items'[i] = f[i]
      BY <1>3
    <3> QED
      BY <1>7, <2>2, <3>1 DEF Fits
  <2> QED
    BY <2>1, <2>2 DEF Fits
<1> QED
  BY <1>4, <1>5, <1>6, <1>7

\* An item of a name that has none yet.
LEMMA AddedItem ==
  ASSUME NEW r \in Item, ItemsOK(items), r.name \in Requests => ~IsAsked(items, r.name)
  PROVE  /\ ItemsOK(Added(items, r))
         /\ IsAsked(Added(items, r), r.name)
         /\ \A q : IsAsked(items, q) => IsAsked(Added(items, r), q)
         /\ \A q, w : q # r.name /\ Fits(items, q, w) => Fits(Added(items, r), q, w)
         /\ r.name \in Requests /\ r.res = Pending => Fits(Added(items, r), r.name, {})
<1> DEFINE g == Added(items, r)
<1>1. PICK n \in Nat : /\ n \notin DOMAIN items
                       /\ DOMAIN g = DOMAIN items \cup {n}
                       /\ g[n] = r
                       /\ \A i \in DOMAIN items : g[i] = items[i] /\ n >= i
                       /\ HasAges(g)
  BY AddedOne DEF ItemsOK
<1> HIDE DEF g
<1>2. ItemsOK(g)
  <2>1. \A i \in DOMAIN g : g[i] \in Item
    BY <1>1 DEF ItemsOK
  <2>2. ASSUME NEW i \in DOMAIN g, NEW j \in DOMAIN g,
               g[i].name = g[j].name, g[i].name \in Requests
        PROVE  i = j
    <3>1. CASE i \in DOMAIN items /\ j \in DOMAIN items
      BY <1>1, <2>2, <3>1 DEF ItemsOK
    <3>2. CASE i = n /\ j \in DOMAIN items
      BY <1>1, <2>2, <3>2 DEF IsAsked
    <3>3. CASE j = n /\ i \in DOMAIN items
      BY <1>1, <2>2, <3>3 DEF IsAsked
    <3> QED
      BY <1>1, <3>1, <3>2, <3>3
  <2> QED
    BY <1>1, <2>1, <2>2 DEF ItemsOK
<1>3. ASSUME NEW q PROVE IsAsked(g, q) <=> q = r.name \/ IsAsked(items, q)
  BY <1>1 DEF IsAsked
<1>4. ASSUME NEW q, NEW w, q # r.name, Fits(items, q, w) PROVE Fits(g, q, w)
  <2>1. ~IsAsked(g, q) => w = {}
    BY <1>3, <1>4 DEF Fits
  <2>2. ASSUME NEW i \in DOMAIN g, g[i].name = q
        PROVE  w = IF g[i].res = Pending THEN {} ELSE {g[i].res}
    BY <1>1, <1>4, <2>2 DEF Fits
  <2> QED
    BY <2>1, <2>2 DEF Fits
<1>5. ASSUME r.name \in Requests, r.res = Pending PROVE Fits(g, r.name, {})
  <2>1. ASSUME NEW i \in DOMAIN g, g[i].name = r.name PROVE g[i].res = Pending
    BY <1>1, <1>5, <2>1 DEF IsAsked
  <2> QED
    BY <2>1 DEF Fits
<1> QED
  BY <1>2, <1>3, <1>4, <1>5 DEF g

\* A resolution of a pending question, before the prune.
LEMMA ResolvedItem ==
  ASSUME AskInv, NEW q \in Requests, NEW v \in Resolutions, Open(q)
  PROVE  LET f == [i \in DOMAIN items |->
                     IF i \in At(q) THEN [items[i] EXCEPT !.res = v] ELSE items[i]] IN
         /\ ItemsOK(f)
         /\ \A o : IsAsked(items, o) => IsAsked(f, o)
         /\ \A o, w : o # q /\ Fits(items, o, w) => Fits(f, o, w)
         /\ Fits(f, q, {v})
<1> DEFINE f == [i \in DOMAIN items |->
                   IF i \in At(q) THEN [items[i] EXCEPT !.res = v] ELSE items[i]]
<1>1. DOMAIN f = DOMAIN items
  OBVIOUS
<1>2. ASSUME NEW i \in DOMAIN items
      PROVE  /\ f[i] \in Item /\ f[i].name = items[i].name
             /\ f[i].name = q => f[i].res = v
             /\ f[i].name # q => f[i] = items[i]
  <2>1. items[i] \in Item
    BY DEF AskInv, ItemsOK
  <2>2. CASE items[i].name = q
    <3>1. f[i] = [items[i] EXCEPT !.res = v]
      BY <2>2 DEF At
    <3> HIDE DEF f
    <3> QED
      BY <2>1, <2>2, <3>1 DEF Item
  <2>3. CASE items[i].name # q
    <3>1. f[i] = items[i]
      BY <2>3 DEF At
    <3> HIDE DEF f
    <3> QED
      BY <2>1, <2>3, <3>1
  <2> QED
    BY <2>2, <2>3
<1> HIDE DEF f
<1>3. ItemsOK(f)
  <2>1. HasAges(f)
    BY <1>1 DEF AskInv, ItemsOK, HasAges
  <2>2. \A i, j \in DOMAIN f : f[i].name = f[j].name /\ f[i].name \in Requests => i = j
    BY <1>1, <1>2 DEF AskInv, ItemsOK
  <2> QED
    BY <1>1, <1>2, <2>1, <2>2 DEF ItemsOK
<1>4. \A o : IsAsked(items, o) <=> IsAsked(f, o)
  BY <1>1, <1>2 DEF IsAsked
<1>5. ASSUME NEW o, NEW w, o # q, Fits(items, o, w) PROVE Fits(f, o, w)
  <2>1. ASSUME NEW i \in DOMAIN f, f[i].name = o
        PROVE  w = IF f[i].res = Pending THEN {} ELSE {f[i].res}
    <3>1. i \in DOMAIN items /\ f[i] = items[i]
      BY <1>1, <1>2, <1>5, <2>1
    <3> QED
      BY <1>5, <2>1, <3>1 DEF Fits
  <2> QED
    BY <1>4, <1>5, <2>1 DEF Fits
<1>6. Fits(f, q, {v})
  <2>1. v # Pending
    BY AttentionAssumption DEF Resolutions, Expired, Pending
  <2>2. IsAsked(f, q)
    <3>1. \E i \in DOMAIN items : items[i].name = q
      BY ItemOf DEF Open
    <3> QED
      BY <1>4, <3>1 DEF IsAsked
  <2>3. \A i \in DOMAIN f : f[i].name = q => f[i].res = v
    BY <1>1, <1>2
  <2> QED
    BY <2>1, <2>2, <2>3 DEF Fits
<1> QED
  BY <1>3, <1>4, <1>5, <1>6 DEF f

\* What keeps the questions: the file the step makes, and what it notes.
LEMMA AskStep ==
  ASSUME AskInv, NEW f, ItemsOK(f),
         Keep(f) \/ (items' = f /\ pruned' = pruned),
         AskTypes',
         \A q \in Requests \ pruned :
           /\ Fits(f, q, won'[q]) /\ told'[q] \subseteq won'[q]
           /\ q \in asks' => IsAsked(f, q)
  PROVE  AskInv'
<1>1. CASE Keep(f)
  <2>1. pruned \subseteq Requests
    BY DEF AskInv, AskTypes
  <2>2. /\ ItemsOK(items') /\ pruned \subseteq pruned'
        /\ \A q \in Requests \ pruned' : IsAsked(f, q) => IsAsked(items', q)
        /\ \A w : \A q \in Requests \ pruned' : Fits(f, q, w) => Fits(items', q, w)
    BY <1>1, <2>1, KeepStep
  <2>3. ASSUME NEW q \in Requests \ pruned'
        PROVE  /\ Fits(items', q, won'[q]) /\ told'[q] \subseteq won'[q]
               /\ q \in asks' => IsAsked(items', q)
    BY <2>2
  <2> QED
    BY <2>2, <2>3 DEF AskInv, Questions, ItemsOK, HasAges, Fits, IsAsked
<1>2. CASE items' = f /\ pruned' = pruned
  <2>1. ItemsOK(items')
    BY <1>2
  <2>2. ASSUME NEW q \in Requests \ pruned'
        PROVE  /\ Fits(items', q, won'[q]) /\ told'[q] \subseteq won'[q]
               /\ q \in asks' => IsAsked(items', q)
    BY <1>2
  <2> QED
    BY <2>1, <2>2 DEF AskInv, Questions, ItemsOK, HasAges, Fits, IsAsked
<1> QED
  BY <1>1, <1>2

\* A fyi is no question.
LEMMA PostedKeeps ==
  ASSUME AskInv, Posted
  PROVE  AskInv'
<1> DEFINE r == [name |-> "fyi", res |-> "none", due |-> FALSE]
<1>1. r \in Item /\ r.name = "fyi" /\ "fyi" \notin Requests
  BY AttentionAssumption DEF Item
<1>2. Keep(Added(items, r)) /\ UNCHANGED <<asks, won, told>>
  BY DEF Posted
<1> HIDE DEF r
<1>3. /\ ItemsOK(Added(items, r))
      /\ \A q : IsAsked(items, q) => IsAsked(Added(items, r), q)
      /\ \A q, w : q # r.name /\ Fits(items, q, w) => Fits(Added(items, r), q, w)
  BY <1>1, AddedItem DEF AskInv
<1>4. pruned' \subseteq Requests
  BY <1>2, <1>3, KeepStep DEF AskInv, AskTypes
<1>5. AskTypes'
  BY <1>2, <1>4 DEF AskInv, AskTypes
<1>6. ASSUME NEW q \in Requests \ pruned
      PROVE  /\ Fits(Added(items, r), q, won'[q]) /\ told'[q] \subseteq won'[q]
             /\ q \in asks' => IsAsked(Added(items, r), q)
  BY <1>1, <1>2, <1>3 DEF AskInv, Questions
<1> QED
  BY <1>2, <1>3, <1>5, <1>6, AskStep

\* A question asked again waits on the item it has.
LEMMA AskUserKeeps ==
  ASSUME AskInv, NEW q \in Requests, AskUser(q)
  PROVE  AskInv'
<1>1. asks' = asks \cup {q} /\ UNCHANGED <<won, pruned, told>>
  BY DEF AskUser
<1>2. AskTypes'
  BY <1>1 DEF AskInv, AskTypes
<1>3. CASE Has(q)
  <2>1. items' = items
    BY <1>3 DEF AskUser
  <2>2. IsAsked(items, q)
    BY <1>3, ItemOf DEF IsAsked
  <2>3. ASSUME NEW o \in Requests \ pruned
        PROVE  /\ Fits(items, o, won'[o]) /\ told'[o] \subseteq won'[o]
               /\ o \in asks' => IsAsked(items, o)
    BY <1>1, <2>2 DEF AskInv, Questions
  <2> QED
    BY <1>1, <1>2, <2>1, <2>3, AskStep DEF AskInv
<1>4. CASE ~Has(q)
  <2> DEFINE r == [name |-> q, res |-> Pending, due |-> FALSE]
             g == Added(items, r)
  <2>1. items' = g
    BY <1>4 DEF AskUser
  <2>2. r \in Item /\ r.name = q /\ r.res = Pending
    BY DEF Item
  <2>3. ~IsAsked(items, q)
    BY <1>4 DEF Has, At, IsAsked
  <2> HIDE DEF r
  <2>4. /\ ItemsOK(g)
        /\ IsAsked(g, q)
        /\ \A o : IsAsked(items, o) => IsAsked(g, o)
        /\ \A o, w : o # q /\ Fits(items, o, w) => Fits(g, o, w)
        /\ Fits(g, q, {})
    BY <2>2, <2>3, AddedItem DEF AskInv
  <2> HIDE DEF g
  <2>5. ASSUME NEW o \in Requests \ pruned
        PROVE  /\ Fits(g, o, won'[o]) /\ told'[o] \subseteq won'[o]
               /\ o \in asks' => IsAsked(g, o)
    <3>1. Fits(items, o, won[o]) /\ told[o] \subseteq won[o] /\ (o \in asks => IsAsked(items, o))
      BY DEF AskInv, Questions
    <3>2. CASE o = q
      <4>1. won[o] = {}
        BY <2>3, <3>1, <3>2 DEF Fits
      <4> QED
        BY <1>1, <2>4, <3>1, <3>2, <4>1
    <3>3. CASE o # q
      BY <1>1, <2>4, <3>1, <3>3
    <3> QED
      BY <3>2, <3>3
  <2> QED
    BY <1>1, <1>2, <2>1, <2>4, <2>5, AskStep
<1> QED
  BY <1>3, <1>4

\* The first resolution of a question is the only one.
LEMMA ResolveKeeps ==
  ASSUME AskInv, NEW q \in Requests, NEW v \in Resolutions, Resolve(q, v)
  PROVE  AskInv'
<1> DEFINE f == [i \in DOMAIN items |->
                   IF i \in At(q) THEN [items[i] EXCEPT !.res = v] ELSE items[i]]
<1>1. /\ Open(q) /\ Keep(f) /\ won' = [won EXCEPT ![q] = @ \cup {v}]
      /\ UNCHANGED <<asks, told>>
  BY DEF Resolve
<1>2. /\ ItemsOK(f)
      /\ \A o : IsAsked(items, o) => IsAsked(f, o)
      /\ \A o, w : o # q /\ Fits(items, o, w) => Fits(f, o, w)
      /\ Fits(f, q, {v})
  BY <1>1, ResolvedItem
<1> HIDE DEF f
<1>3. pruned' \subseteq Requests
  BY <1>1, <1>2, KeepStep DEF AskInv, AskTypes
<1>4. AskTypes'
  BY <1>1, <1>3 DEF AskInv, AskTypes
<1>5. ASSUME NEW o \in Requests \ pruned
      PROVE  /\ Fits(f, o, won'[o]) /\ told'[o] \subseteq won'[o]
             /\ o \in asks' => IsAsked(f, o)
  <2>1. Fits(items, o, won[o]) /\ told[o] \subseteq won[o] /\ (o \in asks => IsAsked(items, o))
    BY DEF AskInv, Questions
  <2>2. CASE o = q
    <3>1. PICK i \in DOMAIN items : items[i].name = q /\ Of(q) = items[i]
      BY <1>1, ItemOf DEF Open
    <3>2. won[q] = {}
      BY <1>1, <2>1, <2>2, <3>1 DEF Fits, Open
    <3>3. won'[q] = {v}
      BY <1>1, <3>2 DEF AskInv, AskTypes
    <3> QED
      BY <1>1, <1>2, <2>1, <2>2, <3>2, <3>3
  <2>3. CASE o # q
    <3>1. won'[o] = won[o]
      BY <1>1, <2>3 DEF AskInv, AskTypes
    <3> QED
      BY <1>1, <1>2, <2>1, <2>3, <3>1
  <2> QED
    BY <2>2, <2>3
<1> QED
  BY <1>1, <1>2, <1>4, <1>5, AskStep

\* The deadline of an item changes nothing that was resolved.
LEMMA DeadlineKeeps ==
  ASSUME AskInv, NEW q \in Requests, Deadline(q)
  PROVE  AskInv'
<1> DEFINE f == [i \in DOMAIN items |->
                   IF i \in At(q) THEN [items[i] EXCEPT !.due = TRUE] ELSE items[i]]
<1>1. items' = f /\ UNCHANGED <<asks, won, pruned, told>>
  BY DEF Deadline
<1>2. DOMAIN f = DOMAIN items
  OBVIOUS
<1>3. ASSUME NEW i \in DOMAIN items
      PROVE  f[i] \in Item /\ f[i].name = items[i].name /\ f[i].res = items[i].res
  <2>1. items[i] \in Item
    BY DEF AskInv, ItemsOK
  <2>2. f[i] = [items[i] EXCEPT !.due = TRUE] \/ f[i] = items[i]
    OBVIOUS
  <2> HIDE DEF f
  <2> QED
    BY <2>1, <2>2 DEF Item
<1> HIDE DEF f
<1>4. ItemsOK(f)
  BY <1>2, <1>3 DEF AskInv, ItemsOK, HasAges
<1>5. \A o : IsAsked(items, o) <=> IsAsked(f, o)
  BY <1>2, <1>3 DEF IsAsked
<1>6. \A o, w : Fits(items, o, w) => Fits(f, o, w)
  BY <1>2, <1>3, <1>5 DEF Fits
<1>7. AskTypes'
  BY <1>1 DEF AskInv, AskTypes
<1>8. ASSUME NEW o \in Requests \ pruned
      PROVE  /\ Fits(f, o, won'[o]) /\ told'[o] \subseteq won'[o]
             /\ o \in asks' => IsAsked(f, o)
  BY <1>1, <1>5, <1>6 DEF AskInv, Questions
<1> QED
  BY <1>1, <1>4, <1>7, <1>8, AskStep

\* A caller is told the resolution of its question, or that it was pruned.
LEMMA TellKeeps ==
  ASSUME AskInv, NEW q \in Requests, Tell(q)
  PROVE  AskInv'
<1> DEFINE r == IF Has(q) THEN Of(q).res ELSE Nothing
<1>1. /\ q \in asks /\ asks' = asks \ {q} /\ told' = [told EXCEPT ![q] = @ \cup {r}]
      /\ UNCHANGED <<items, won, pruned>>
  BY DEF Tell
<1>2. r \in Resolutions \cup {Pending, "none", Nothing} /\ (q \notin pruned => r \in won[q])
  <2>1. CASE Has(q)
    <3>1. PICK i \in DOMAIN items : items[i].name = q /\ Of(q) = items[i]
      BY <2>1, ItemOf
    <3>2. r = items[i].res /\ items[i].res # Pending /\ items[i] \in Item
      BY <2>1, <3>1 DEF Tell, AskInv, ItemsOK
    <3>3. q \notin pruned => won[q] = {items[i].res}
      BY <3>1, <3>2 DEF AskInv, Questions, Fits
    <3> HIDE DEF r
    <3> QED
      BY <3>2, <3>3 DEF Item
  <2>2. CASE ~Has(q)
    <3>1. r = Nothing
      BY <2>2
    <3>2. ~IsAsked(items, q)
      BY <2>2 DEF Has, At, IsAsked
    <3>3. q \in pruned
      BY <1>1, <3>2 DEF AskInv, Questions
    <3> QED
      BY <3>1, <3>3
  <2> QED
    BY <2>1, <2>2
<1> HIDE DEF r
<1>3. AskTypes'
  BY <1>1, <1>2 DEF AskInv, AskTypes
<1>4. ASSUME NEW o \in Requests \ pruned
      PROVE  /\ Fits(items, o, won'[o]) /\ told'[o] \subseteq won'[o]
             /\ o \in asks' => IsAsked(items, o)
  <2>1. Fits(items, o, won[o]) /\ told[o] \subseteq won[o] /\ (o \in asks => IsAsked(items, o))
    BY DEF AskInv, Questions
  <2>2. told'[o] = told[o] \/ (o = q /\ told'[o] = told[o] \cup {r})
    BY <1>1 DEF AskInv, AskTypes
  <2> QED
    BY <1>1, <1>2, <2>1, <2>2
<1> QED
  BY <1>1, <1>3, <1>4, AskStep DEF AskInv

\* Every step keeps what is known of the questions.
LEMMA AskInductive == AskInv /\ [Next]_vars => AskInv'
<1> SUFFICES ASSUME AskInv, [Next]_vars PROVE AskInv'
  OBVIOUS
<1>1. CASE UNCHANGED attentionVars
  BY <1>1 DEF attentionVars, AskInv, ItemsOK, HasAges, AskTypes, Questions, Fits, IsAsked
<1>2. CASE AttentionNext
  <2>1. CASE Fyi
    BY <2>1, PostedKeeps DEF Fyi
  <2>2. ASSUME NEW q \in Requests,
               AskUser(q) \/ Deadline(q) \/ Tell(q)
        PROVE  AskInv'
    BY <2>2, AskUserKeeps, DeadlineKeeps, TellKeeps
  <2>3. ASSUME NEW q \in Requests, NEW v \in Resolutions, Resolve(q, v) PROVE AskInv'
    BY <2>3, ResolveKeeps
  <2>4. ASSUME NEW q \in Requests, Expire(q) PROVE AskInv'
    BY <2>3, <2>4 DEF Expire, Resolutions
  <2>5. ASSUME NEW q \in Requests, NEW a \in Answers, Answer(q, a) PROVE AskInv'
    BY <2>3, <2>5 DEF Answer, Resolutions
  <2> QED
    BY <1>2, <2>1, <2>2, <2>4, <2>5 DEF AttentionNext
<1>3. CASE Restart
  <2>1. asks' = {} /\ UNCHANGED <<items, won, pruned, told>>
    BY <1>3 DEF Restart, AttentionRestart
  <2>2. AskTypes'
    BY <2>1 DEF AskInv, AskTypes
  <2>3. ASSUME NEW o \in Requests \ pruned
        PROVE  /\ Fits(items, o, won'[o]) /\ told'[o] \subseteq won'[o]
               /\ o \in asks' => IsAsked(items, o)
    BY <2>1 DEF AskInv, Questions
  <2> QED
    BY <2>1, <2>2, <2>3, AskStep DEF AskInv
<1>4. CASE SendStep
  <2>1. Posted \/ UNCHANGED attentionVars
    BY <1>4 DEF SendStep, Send, NoteDelivery, Submit, Fail, Recover, parts
  <2> QED
    BY <2>1, <1>1, PostedKeeps
<1> QED
  BY <1>1, <1>2, <1>3, <1>4 DEF Next, Write, Note, WindowRuns, Cut, Published, vars, parts

\* No question was asked before the start.
LEMMA AskInitOK == Init => AskInv
<1> SUFFICES ASSUME AttentionInit PROVE AskInv
  BY DEF Init
<1>1. DOMAIN items = {}
  BY DEF AttentionInit
<1>2. ItemsOK(items)
  BY <1>1 DEF ItemsOK, HasAges
<1>3. AskTypes /\ Questions
  BY <1>1 DEF AttentionInit, AskTypes, Questions, Fits, IsAsked
<1> QED
  BY <1>2, <1>3 DEF AskInv

\* A question whose item was not pruned has one resolution at most, and every
\* caller that asked, whether once or again after a restart, is told that one
\* (attention.rs:1-5, 162-222): for any questions, answers, bound on the
\* resolved items and number of restarts.
THEOREM OneResolution == Spec => []OneAnswer
<1>1. AskInv => OneAnswer
  <2> SUFFICES ASSUME AskInv, NEW q \in Requests, q \notin pruned
               PROVE  Cardinality(won[q]) <= 1 /\ told[q] \subseteq won[q]
    BY DEF OneAnswer
  <2>1. Fits(items, q, won[q]) /\ told[q] \subseteq won[q]
    BY DEF AskInv, Questions
  <2>2. won[q] = {} \/ \E x : won[q] = {x}
    BY <2>1 DEF Fits, IsAsked
  <2>3. Cardinality(won[q]) = 0 \/ Cardinality(won[q]) = 1
    BY <2>2, FS_EmptySet, FS_Singleton
  <2> QED
    BY <2>1, <2>3
<1> QED
  BY AskInitOK, AskInductive, <1>1, PTL DEF Spec

-----------------------------------------------------------------------------
(* Types.                                                                     *)

Bounded == Len(log.ring) <= Window /\ Len(sub.rx) <= QueueSize
TypeInv == Bounded /\ ending \subseteq Terms /\ sending \subseteq {"note", "end", "recover"}

\* A publication keeps to the ring's window and the subscriber's queue.
LEMMA PublishBounded ==
  ASSUME StreamInv, Bounded, NEW x \in Stores, Publish(x)
  PROVE  Bounded'
<1> DEFINE ch == [seq |-> log.seq + 1, store |-> x]
<1>1. /\ log \in [epoch : Nat \ {0}, seq : Nat, ring : Seq(Change)] /\ ch \in Change
      /\ sub \in [at : {"off", "owed", "sent", "on", "asked"}, mark : Nat,
                  rx : Seq(Change), over : BOOLEAN, since : SUBSET Parts]
  BY DEF StreamInv, StreamTypes, LogOK, Change
<1>2. log' = [log EXCEPT !.seq = @ + 1, !.ring = Ring(Append(@, ch))] /\ sub' = Sent(ch)
  BY DEF Publish
<1> HIDE DEF ch
<1>3. Len(log'.ring) <= Window
  <2> DEFINE q == Append(log.ring, ch)
  <2>0. log.ring \in Seq(Change) /\ ch \in Change
    BY <1>1
  <2>1. q \in Seq(Change) /\ q # <<>> /\ Len(q) = Len(log.ring) + 1 /\ Len(log.ring) \in Nat
    BY <2>0
  <2>2. log'.ring = Ring(q)
    BY <1>1, <1>2
  <2> HIDE DEF q
  <2>3. CASE Len(q) > Window
    <3>1. Ring(q) = Tail(q) /\ Len(Tail(q)) = Len(q) - 1
      BY <2>1, <2>3 DEF Ring
    <3> QED
      BY <2>1, <2>2, <3>1, StreamAssumption DEF Bounded
  <2>4. CASE ~(Len(q) > Window)
    <3>1. Ring(q) = q
      BY <2>4 DEF Ring
    <3> QED
      BY <2>1, <2>2, <2>4, <3>1, StreamAssumption
  <2> QED
    BY <2>3, <2>4
<1>4. Len(sub'.rx) <= QueueSize
  <2>1. CASE sub' = sub
    BY <2>1 DEF Bounded
  <2>2. CASE Len(sub.rx) < QueueSize /\ sub' = [sub EXCEPT !.rx = Append(@, ch)]
    <3>1. sub'.rx = Append(sub.rx, ch)
      BY <1>1, <2>2
    <3>2. Len(Append(sub.rx, ch)) = Len(sub.rx) + 1 /\ Len(sub.rx) \in Nat
      BY <1>1
    <3> QED
      BY <2>2, <3>1, <3>2, StreamAssumption
  <2>3. CASE sub' = [sub EXCEPT !.over = TRUE]
    <3>1. sub'.rx = sub.rx
      BY <1>1, <2>3
    <3> QED
      BY <3>1 DEF Bounded
  <2> QED
    BY <1>2, <2>1, <2>2, <2>3 DEF Sent
<1> QED
  BY <1>3, <1>4 DEF Bounded

\* What a resumed connection is sent fits the queue: it comes from the ring.
LEMMA WindowBounded ==
  ASSUME StreamInv, Bounded, WindowStep
  PROVE  Bounded'
<1>1. /\ log' = log /\ Len(log.ring) \in Nat /\ Len(log.ring) <= Window
      /\ log \in [epoch : Nat \ {0}, seq : Nat, ring : Seq(Change)]
      /\ sub \in [at : {"off", "owed", "sent", "on", "asked"}, mark : Nat,
                  rx : Seq(Change), over : BOOLEAN, since : SUBSET Parts]
      /\ cursor \in [epoch : Nat, seq : Nat]
  BY DEF WindowStep, Subscribe, BuildSnapshot, TakeSnapshot, Ask, Apply, Refuse, Resnapshot,
         StreamInv, StreamTypes, LogOK, Bounded
<1>2. CASE sub'.rx = sub.rx
  BY <1>1, <1>2 DEF Bounded
<1>3. CASE sub'.rx = <<>>
  BY <1>1, <1>3, StreamAssumption DEF Bounded
<1>4. CASE BuildSnapshot \/ TakeSnapshot \/ Ask
  <2>1. CASE BuildSnapshot
    BY <1>1, <1>2, <2>1 DEF BuildSnapshot
  <2>2. CASE TakeSnapshot
    <3>1. sub'.rx = sub.rx
      BY <1>1, <2>2 DEF TakeSnapshot
    <3> QED
      BY <1>2, <3>1
  <2>3. CASE Ask
    BY <1>1, <1>2, <2>3 DEF Ask
  <2> QED
    BY <1>4, <2>1, <2>2, <2>3
<1>5. CASE Refuse \/ Resnapshot
  BY <1>3, <1>5 DEF Refuse, Resnapshot, Off
<1>6. CASE Apply
  <2>1. sub'.rx = Tail(sub.rx) /\ sub.rx # <<>>
    BY <1>1, <1>6 DEF Apply, StreamInv, Connected
  <2>2. Len(Tail(sub.rx)) = Len(sub.rx) - 1 /\ Len(sub.rx) \in Nat
    BY <1>1, <2>1
  <2> QED
    BY <1>1, <2>1, <2>2, StreamAssumption DEF Bounded
<1>7. CASE Subscribe
  <2>1. CASE ~Resumable(cursor)
    BY <1>3, <1>7, <2>1 DEF Subscribe, Off
  <2>2. CASE Resumable(cursor)
    <3>1. sub'.rx = After(cursor.seq)
      BY <1>7, <2>2 DEF Subscribe, Off
    <3>2. /\ After(cursor.seq) \in Seq(Change)
          /\ cursor.seq + Len(After(cursor.seq)) = log.seq
      BY <2>2, Replay DEF StreamInv
    <3> DEFINE a == After(cursor.seq)
    <3>3. a \in Seq(Change) /\ Len(a) \in Nat /\ Len(a) = log.seq - cursor.seq
      BY <1>1, <3>2
    <3> HIDE DEF a
    <3>4. Len(a) <= Len(log.ring)
      <4>1. CASE log.ring = <<>>
        <5>1. log.seq = 0
          BY <4>1 DEF StreamInv, StreamTypes, LogOK
        <5> QED
          BY <1>1, <3>3, <5>1
      <4>2. CASE log.ring # <<>>
        <5>1. 1 \in 1 .. Len(log.ring) /\ Head(log.ring) = log.ring[1]
          BY <1>1, <4>2
        <5>2. log.ring[1].seq = log.seq - Len(log.ring) + 1
          BY <5>1 DEF StreamInv, StreamTypes, LogOK
        <5>3. cursor.seq + 1 >= Head(log.ring).seq
          BY <2>2, <4>2 DEF Resumable
        <5> QED
          BY <1>1, <3>3, <5>1, <5>2, <5>3
      <4> QED
        BY <4>1, <4>2
    <3>5. Len(sub'.rx) <= QueueSize
      <4>1. sub'.rx = a
        BY <3>1 DEF a
      <4> QED
        BY <1>1, <3>3, <3>4, <4>1, StreamAssumption
    <3> QED
      BY <1>1, <3>5 DEF Bounded
  <2> QED
    BY <2>1, <2>2
<1> QED
  BY <1>4, <1>5, <1>6, <1>7 DEF WindowStep

\* A commit adds nothing to the queue.
LEMMA CommitBounded ==
  ASSUME StreamInv, Bounded, UNCHANGED log, NEW S, NEW e, Committed(S, e)
  PROVE  Bounded'
<1>1. sub \in [at : {"off", "owed", "sent", "on", "asked"}, mark : Nat,
               rx : Seq(Change), over : BOOLEAN, since : SUBSET Parts]
  BY DEF StreamInv, StreamTypes
<1>2. sub' = sub \/ \E T : sub' = [sub EXCEPT !.since = T]
  BY DEF Committed
<1>3. sub'.rx = sub.rx
  BY <1>1, <1>2
<1> QED
  BY <1>3 DEF Bounded

\* What is to be done of a message has a name.
LEMMA SendingTyped ==
  ASSUME TypeInv, [Next]_vars
  PROVE  sending' \subseteq {"note", "end", "recover"}
<1>1. CASE UNCHANGED sending
  BY <1>1 DEF TypeInv
<1>2. CASE SendStep
  BY <1>2 DEF SendStep, Send, NoteDelivery, Submit, Fail, Recover, TypeInv
<1>3. CASE Restart
  BY <1>3 DEF Restart
<1> QED
  BY <1>1, <1>2, <1>3 DEF Next, Write, Note, WindowRuns, Cut, Published, vars

\* Ring and queue keep their bounds, and only terminals are revoked.
LEMMA TypeInductive ==
  ASSUME StreamInv, ReconInv, TypeInv, [Next]_vars
  PROVE  TypeInv'
<1>0. sending' \subseteq {"note", "end", "recover"}
  BY SendingTyped
<1>1. ASSUME UNCHANGED streamVars PROVE Bounded'
  BY <1>1 DEF streamVars, TypeInv, Bounded
<1>2. ASSUME NEW s, Changed(s) \/ Announced(s) PROVE Bounded'
  BY <1>2, CommitBounded DEF Changed, Announced, TypeInv
<1>3. CASE ClaimsNext
  <2>1. Bounded'
    <3>1. ASSUME NEW t \in Terms, Mint(t) \/ Bind(t) PROVE Bounded'
      BY <1>2, <3>1 DEF Mint, Bind
    <3>2. ASSUME NEW t \in Terms, \/ Age(t) \/ Spawn(t) \/ Exit(t) \/ Spawned(t) \/ Answered(t)
                                    \/ BindFails(t) \/ Revoke(t) \/ ObserveOne(t)
          PROVE  Bounded'
      BY <1>1, <3>2
         DEF Age, Spawn, Exit, Spawned, Answered, BindFails, Revoke, ObserveOne, Forgets
    <3>3. ASSUME NEW t \in Terms, Release(t) PROVE Bounded'
      <4>1. UNCHANGED log /\ \E e : Committed({}, e)
        BY <3>3 DEF Release
      <4> QED
        BY <4>1, CommitBounded DEF TypeInv
    <3>4. ASSUME NEW t \in Terms, NEW P \in Wants, NEW op, Call(t, op, P) \/ Hotspot(t, P)
          PROVE  Bounded'
      BY <1>1, <3>4 DEF Call, Hotspot
    <3>5. ASSUME \/ Sweep \/ Observe \/ Observed
                 \/ Reconcile \/ ListSessions \/ Judge \/ Reconciled
          PROVE  Bounded'
      BY <1>1, <3>5
         DEF Sweep, Observe, Observed, Reconcile, ListSessions, Judge, Reconciled
    <3>6. ASSUME NEW d \in recon.doomed, Doom(d) PROVE Bounded'
      BY <1>1, <3>6 DEF Doom
    <3>7. ASSUME NEW k \in Keys, Free(k) PROVE Bounded'
      BY <1>1, <3>7 DEF Free
    <3>8. ASSUME NEW c \in calls, Transact(c) PROVE Bounded'
      BY <1>1, <1>2, <3>8 DEF Transact
    <3> QED
      BY <1>3, <3>1, <3>2, <3>3, <3>4, <3>5, <3>6, <3>7, <3>8 DEF ClaimsNext
  <2>2. ending' \subseteq Terms
    <3>1. ASSUME NEW t \in Terms, BindFails(t) \/ Revoke(t) \/ ObserveOne(t)
          PROVE  ending' \subseteq Terms
      BY <3>1 DEF BindFails, Revoke, ObserveOne, Forgets, Revoked, TypeInv
    <3>2. ASSUME NEW t \in Terms, Release(t) PROVE ending' \subseteq Terms
      BY <3>2 DEF Release, TypeInv
    <3>4. ASSUME NEW d \in recon.doomed, Doom(d) PROVE ending' \subseteq Terms
      <4>1. d.term \in Terms
        BY DEF ReconInv, TermTypes
      <4> QED
        BY <3>4, <4>1 DEF Doom, Revoked, TypeInv
    <3>5. ASSUME UNCHANGED ending PROVE ending' \subseteq Terms
      BY <3>5 DEF TypeInv
    <3>6. ASSUME NEW t \in Terms, \/ Mint(t) \/ Age(t) \/ Spawn(t) \/ Exit(t)
                                    \/ Spawned(t) \/ Bind(t) \/ Answered(t)
          PROVE  UNCHANGED ending
      BY <3>6 DEF Mint, Age, Spawn, Exit, Spawned, Bind, Answered
    <3>7. ASSUME NEW t \in Terms, NEW P \in Wants, NEW op, Call(t, op, P) \/ Hotspot(t, P)
          PROVE  UNCHANGED ending
      BY <3>7 DEF Call, Hotspot, termVars
    <3>8. ASSUME \/ Sweep \/ Observe \/ Observed
                 \/ Reconcile \/ ListSessions \/ Judge \/ Reconciled
          PROVE  UNCHANGED ending
      BY <3>8 DEF Sweep, Observe, Observed, Reconcile, ListSessions, Judge, Reconciled
    <3>9. ASSUME NEW k \in Keys, Free(k) PROVE UNCHANGED ending
      BY <3>9 DEF Free, termVars
    <3>10. ASSUME NEW c \in calls, Transact(c) PROVE UNCHANGED ending
      BY <3>10 DEF Transact, termVars
    <3> QED
      BY <1>3, <3>1, <3>2, <3>4, <3>5, <3>6, <3>7, <3>8, <3>9, <3>10 DEF ClaimsNext
  <2> QED
    BY <1>0, <2>1, <2>2 DEF TypeInv
<1>4. CASE AttentionNext /\ UNCHANGED <<termVars, claimVars>>
  <2>1. ASSUME NEW q \in Requests, NEW v, Resolve(q, v) PROVE Bounded'
    BY <1>2, <2>1 DEF Resolve
  <2>2. ASSUME NEW q \in Requests, AskUser(q) PROVE Bounded'
    BY <1>1, <1>2, <2>2 DEF AskUser
  <2>3. ASSUME NEW q \in Requests, Deadline(q) \/ Tell(q) PROVE Bounded'
    BY <1>1, <2>3 DEF Deadline, Tell
  <2>4. ASSUME Fyi PROVE Bounded'
    BY <1>2, <2>4 DEF Fyi
  <2>5. Bounded'
    BY <1>4, <2>1, <2>2, <2>3, <2>4 DEF AttentionNext, Expire, Answer
  <2> QED
    BY <1>0, <1>4, <2>5 DEF termVars, TypeInv
<1>5. ASSUME NEW s \in Stores, Write(s) \/ Note(s) PROVE TypeInv'
  <2>1. Bounded'
    BY <1>2, <1>5 DEF Write, Note
  <2> QED
    BY <1>0, <1>5, <2>1 DEF Write, Note, parts, termVars, TypeInv
<1>6. CASE WindowRuns
  BY <1>0, <1>6, WindowBounded DEF WindowRuns, parts, termVars, TypeInv
<1>7. CASE Cut
  <2>1. log' = log /\ sub'.rx = <<>>
    BY <1>7 DEF Cut, Drop, Off
  <2>2. ending' = ending
    BY <1>7 DEF Cut, parts, termVars
  <2> QED
    BY <1>0, <2>1, <2>2, StreamAssumption DEF TypeInv, Bounded
<1>8. CASE Published
  BY <1>0, <1>8, PublishBounded DEF Published, parts, termVars, TypeInv
<1>9. CASE Restart
  <2>1. log'.ring = <<>> /\ sub'.rx = <<>> /\ ending' = {}
    BY <1>9 DEF Restart, StreamRestart, ClaimsRestart, Off
  <2> QED
    BY <1>0, <2>1, StreamAssumption DEF TypeInv, Bounded
<1>10. CASE UNCHANGED vars
  BY <1>0, <1>1, <1>10 DEF vars, parts, termVars, TypeInv
<1>11. CASE SendStep
  <2>1. UNCHANGED termVars
    BY <1>11 DEF SendStep, Send, NoteDelivery, Submit, Fail, Recover, parts
  <2>2. \/ \E s : Changed(s) \/ Announced(s)
        \/ UNCHANGED streamVars
        \/ UNCHANGED log /\ \E S, e : Committed(S, e)
    BY <1>11 DEF SendStep, Send, NoteDelivery, Submit, Fail, Recover
  <2>3. Bounded'
    BY <1>1, <1>2, <2>2, CommitBounded DEF TypeInv
  <2> QED
    BY <1>0, <2>1, <2>3 DEF termVars, TypeInv
<1> QED
  BY <1>3, <1>4, <1>5, <1>6, <1>7, <1>8, <1>9, <1>10, <1>11 DEF Next

\* Every variable of the workspace keeps its type (stream.rs:63-113,
\* terminals.rs:75-131, workspace.rs:657-782, attention.rs:51-133): the ring
\* and the subscriber's queue keep their bounds and the ring's numbers have no
\* hole, claims and items are rows of known keys, paths and resolutions.
THEOREM TypeCorrect == Spec => []TypeOK
<1> DEFINE All == StreamInv /\ ReconInv /\ TypeInv /\ ClaimsInv /\ AskInv
<1>1. Init => TypeInv
  BY StreamAssumption DEF Init, StreamInit, ClaimsInit, Off, TypeInv, Bounded
<1>2. Init => All
  BY <1>1, StreamInitOK, ReconInitOK, ClaimsInitOK, AskInitOK DEF Init
<1>3. All /\ [Next]_vars => All'
  BY StreamInductive, ReconInductive, TypeInductive, ClaimsInductive, AskInductive
<1>4. All => TypeOK
  <2> SUFFICES ASSUME All PROVE TypeOK
    OBVIOUS
  <2>1. StreamTypeOK
    <3>1. LogOK(log)
      BY DEF StreamInv, StreamTypes
    <3>2. /\ log.epoch \in Nat \ {0} /\ log.seq \in Nat /\ DOMAIN log.ring = 1 .. Len(log.ring)
          /\ \A i \in 1 .. Len(log.ring) : /\ log.ring[i].seq = log.seq - Len(log.ring) + i
                                           /\ log.ring[i] \in Change
      BY <3>1 DEF LogOK
    <3>3. ASSUME NEW i \in DOMAIN log.ring
          PROVE  log.ring[i] = [seq |-> log.seq - Len(log.ring) + i, store |-> log.ring[i].store]
      BY <3>2 DEF Change
    <3> QED
      BY <3>2, <3>3 DEF StreamTypeOK, StreamInv, StreamTypes, Connected, TypeInv, Bounded
  <2>2. ClaimsTypeOK
    <3>1. \A i \in DOMAIN rows : rows[i].key \in Keys /\ rows[i].paths \in (SUBSET Paths) \ {{}}
      BY DEF ClaimsInv, FileOK, Row
    <3>2. /\ \A t \in Terms : terms[t].state \in {"none", "minted", "bound", "revoked", "ended"}
          /\ \A t \in Terms : children[t] \in {"none", "alive", "exited"}
          /\ \A t \in Terms : gateway[t] \in {"none", "minted", "binding", "known"}
          /\ recon.at \in {"idle", "asked", "listed", "judged"}
      BY DEF ReconInv, TermTypes
    <3> QED
      BY <3>1, <3>2 DEF ClaimsTypeOK, TypeInv
  <2>3. AttentionTypeOK
    <3>1. ASSUME NEW i \in DOMAIN items
          PROVE  /\ items[i].name \in Requests \cup {"fyi"}
                 /\ items[i].res \in Answers \cup {Pending, Expired, "none"}
      <4>1. items[i] \in Item
        BY DEF AskInv, ItemsOK
      <4> QED
        BY <4>1 DEF Item, Resolutions
    <3> QED
      BY <3>1 DEF AttentionTypeOK, AskInv, AskTypes
  <2> QED
    BY <2>1, <2>2, <2>3 DEF TypeOK, TypeInv
<1> QED
  BY <1>2, <1>3, <1>4, PTL DEF Spec
=============================================================================
