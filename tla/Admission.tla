------------------------------ MODULE Admission ------------------------------
(***************************************************************************)
(* What a manager promises about the connections clients open, Manager on  *)
(* its one loop and ShardedManager across its threads                      *)
(* (set_max_connections, num_connections in nanosrv/net.hpp): one is       *)
(* admitted at most once and never after it was closed, at most MaxConns   *)
(* are admitted at a time, and the count is exact at every moment.         *)
(***************************************************************************)
EXTENDS Integers, FiniteSets

CONSTANTS Conns, MaxConns

VARIABLES live,   \* admitted and not yet closed
          over,   \* closed
          count   \* num_connections()

Init == live = {} /\ over = {} /\ count = 0

Admit(c) ==
    /\ c \in Conns \ (live \cup over)
    /\ MaxConns > 0 => count < MaxConns
    /\ live' = live \cup {c}
    /\ count' = count + 1
    /\ UNCHANGED over

\* Connections end, admitted or not; a shutdown ends many at a time.
End(S) ==
    /\ S \subseteq Conns \ over
    /\ over' = over \cup S
    /\ live' = live \ S
    /\ count' = count - Cardinality(S \cap live)

Next == (\E c \in Conns : Admit(c)) \/ (\E S \in SUBSET Conns : End(S))

Spec == Init /\ [][Next]_<<live, over, count>>

\* The promise, as an invariant of this specification.
Promise ==
    /\ live \cap over = {}
    /\ count = Cardinality(live)
    /\ MaxConns > 0 => count <= MaxConns
=============================================================================
