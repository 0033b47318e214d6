-------------------------------- MODULE Aged --------------------------------
(* What the daemon keeps oldest first and cuts at the old end: the claims     *)
(* file, a list that is appended to (canopy-service/src/workspace.rs), and    *)
(* the attention items, files with a time (attention.rs).  Either is a        *)
(* function from ages, natural numbers, to what it keeps.                     *)
EXTENDS Naturals, FiniteSetsExt, Functions

Newest(file) == IF DOMAIN file = {} THEN 0 ELSE Max(DOMAIN file)

Added(file, r) ==
  LET n == Newest(file) + 1
  IN  [i \in DOMAIN file \cup {n} |-> IF i = n THEN r ELSE file[i]]

\* Of those of the ages in over, the newest few stay; the others all do.
CutOld(file, over, few) ==
  Restrict(file, {i \in DOMAIN file : i \in over => Cardinality({j \in over : j >= i}) <= few})
=============================================================================
