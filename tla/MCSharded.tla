------------------------------ MODULE MCSharded ------------------------------
(* ShardedManager on small instances.                                      *)
EXTENDS Sharded, TLC

\* Connections and control threads are interchangeable.
Symmetry == Permutations(Conns) \cup Permutations(Ctl)
\* With a peer that never reads, only the other connections are.
SymmetryCtl == Permutations(Ctl)
=============================================================================
