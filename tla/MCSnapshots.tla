----------------------------- MODULE MCSnapshots -----------------------------
(* Two clusters of one prefix, as two of one name in two namespaces have, or  *)
(* of a prefix each.                                                          *)
EXTENDS Snapshots, TLC

CONSTANTS a, b, p, q

\* Clusters and prefixes are interchangeable.
Symmetry == Permutations({a, b}) \cup Permutations({p, q})
===============================================================================
