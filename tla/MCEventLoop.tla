---------------------------- MODULE MCEventLoop ----------------------------
(* One manager on small instances.                                         *)
EXTENDS EventLoop

\* Remote peers are interchangeable, and so are outbound connections.
Symmetry == Permutations(Peers) \cup Permutations(Clients)
=============================================================================
