---------------------------- MODULE ShardedProofs ----------------------------
(***************************************************************************)
(* Proofs about ShardedManager, for every number of workers, every finite  *)
(* set of connections and every cap: where the connections are and whose   *)
(* hands hold them, then drain(), the end of run() and the destructor.     *)
(***************************************************************************)
EXTENDS Sharded, TLAPS, FiniteSetTheorems

\* An id names a worker, and a loop.
LEMMA ModRange == \A x \in Int : x % N \in Workers /\ x % N \in Loops
BY ShardedAssumption DEF Workers, Loops

\* What is sent on a pipe, or lost, keeps the pipes sequences of ids.
LEMMA SentType ==
    ASSUME NEW p \in [Loops -> Seq(Nat)], NEW e \in Loops, NEW i \in Nat
    PROVE  Sent(p, e, i) \in Seq(Nat)
BY DEF Sent

\* What is left of a pipe is a sequence of ids.
LEMMA ReadType ==
    ASSUME NEW s \in Seq(Nat) PROVE (IF s = <<>> THEN s ELSE Tail(s)) \in Seq(Nat)
OBVIOUS

\* So it is when every loop of a set is woken.
LEMMA WakeEachType ==
    ASSUME pipe \in [Loops -> Seq(Nat)], NEW E, WakeEach(E)
    PROVE  pipe' \in [Loops -> Seq(Nat)]
<1>1. ASSUME NEW e \in Loops PROVE Sent(pipe, e, WAKE_ID) \in Seq(Nat)
  BY SentType DEF WAKE_ID
<1> QED BY <1>1 DEF WakeEach

-----------------------------------------------------------------------------
(* Types, and whose hands hold a connection.                               *)

\* The types, and in whose hands a connection can be.
Typed == TypeOK /\ HandsInv

\* They hold at the start.
LEMMA TypedInit == Init => Typed
<1> SUFFICES ASSUME Init PROVE Typed
  OBVIOUS
<1> USE DEF Init
<1>1. /\ pending \in [Workers -> Seq(Conns)] /\ pipe \in [Loops -> Seq(Nat)]
  OBVIOUS
<1>2. nextid \in [Workers -> Nat] /\ id \in [Conns -> Nat]
  BY ShardedAssumption DEF Workers
<1>3. HandsInv BY DEF HandsInv
<1>4. hand \in [Workers -> Conns \cup {NoConn}] /\ conns \in [Workers -> SUBSET Conns]
  OBVIOUS
<1>5. wpc \in [Workers -> WorkerPCs] /\ cpc \in [Ctl -> CtlPCs] /\ rpc \in RunPCs
  BY DEF WorkerPCs, CtlPCs, RunPCs
<1>6. /\ running \in BOOLEAN /\ run_active \in BOOLEAN /\ draining \in BOOLEAN
      /\ pipes_ready \in BOOLEAN /\ acc_draining \in BOOLEAN
      /\ destroyed \in BOOLEAN /\ aborted \in BOOLEAN
  OBVIOUS
<1>7. /\ refused \subseteq Conns /\ backlog \subseteq Conns /\ closed \subseteq Conns
      /\ is_draining \subseteq Conns /\ stuck \subseteq Conns
  OBVIOUS
<1>8. /\ drain_deadline \in {"none", "ahead", "past"} /\ live_conns \in Int
      /\ next \in Nat /\ runs \in Nat /\ acc_conn \in Conns \cup {NoConn}
  OBVIOUS
<1> HIDE DEF Init
<1> QED BY <1>1, <1>2, <1>3, <1>4, <1>5, <1>6, <1>7, <1>8, Zenon DEF Typed, TypeOK

\* The worker that is chosen is one.
LEMMA ChosenType == TypeOK => Chosen \in Workers /\ Chosen \in Loops
<1> SUFFICES ASSUME TypeOK PROVE Chosen \in Workers /\ Chosen \in Loops
  OBVIOUS
<1>1. next - 1 \in Int BY DEF TypeOK
<1> QED BY <1>1, ModRange DEF Chosen

\* run() keeps the types.
LEMMA TypedRun == Typed /\ (RunEnter \/ RunStep) => Typed'
<1> SUFFICES ASSUME Typed, RunEnter \/ RunStep PROVE Typed'
  OBVIOUS
<1> USE ShardedAssumption DEF Typed, TypeOK, HandsInv, RunPCs, WorkerPCs,
        GoTo, flags, accVars, accLocals, workVars, connVars,
        ctlVars, queues
<1>1. CASE RunEnter BY <1>1 DEF RunEnter
<1>2. CASE RunSetRunning BY <1>2 DEF RunSetRunning
<1>3. CASE RunSpawn BY <1>3 DEF RunSpawn
<1>4. CASE RunCheck BY <1>4 DEF RunCheck
<1>5. CASE RunReadDraining BY <1>5 DEF RunReadDraining
<1>6. CASE AcceptorPollReturn
  <2>1. pipe' \in [Loops -> Seq(Nat)] BY <1>6, ReadType DEF AcceptorPollReturn
  <2> QED BY <1>6, <2>1 DEF AcceptorPollReturn
<1>7. ASSUME NEW c \in Conns, Accept(c) PROVE Typed'
  BY <1>7 DEF Accept, Refuse
<1>8. CASE CapCheck BY <1>8 DEF CapCheck, Refuse
<1>9. CASE Reserve BY <1>9 DEF Reserve
<1>10. CASE Push
  <2>0. acc_conn \in Conns BY <1>10 DEF Push
  <2>1. pending' \in [Workers -> Seq(Conns)]
    <3>1. ASSUME NEW w \in Workers PROVE Append(pending[w], acc_conn) \in Seq(Conns)
      BY <2>0
    <3> QED BY <1>10, <3>1 DEF Push
  <2> QED BY <1>10, <2>1 DEF Push
<1>11. CASE HandOffWake
  <2>1. Chosen \in Loops BY ChosenType
  <2>2. Sent(pipe, Chosen, WAKE_ID) \in Seq(Nat) BY <2>1, SentType DEF WAKE_ID
  <2>3. pipe' \in [Loops -> Seq(Nat)] BY <1>11, <2>2 DEF HandOffWake, Wake
  <2>4. HandsInv' BY <1>11 DEF HandOffWake
  <2>5. TypeOK'
    <3> HIDE DEF HandsInv
    <3> QED BY <1>11, <2>3 DEF HandOffWake
  <2> QED BY <2>4, <2>5
<1>12. CASE AcceptorPassEnd
  <2>1. HandsInv' BY <1>12 DEF AcceptorPassEnd
  <2>2. TypeOK'
    <3>1. rpc' \in RunPCs BY <1>12 DEF AcceptorPassEnd
    <3> HIDE DEF HandsInv, RunPCs, WorkerPCs
    <3> QED BY <1>12, <3>1 DEF AcceptorPassEnd
  <2> QED BY <2>1, <2>2
<1>13. CASE AcceptorDeadline BY <1>13 DEF AcceptorDeadline
<1>14. CASE AcceptorDrained BY <1>14 DEF AcceptorDrained
<1>15. CASE AcceptorClear BY <1>15 DEF AcceptorClear
<1>16. CASE RunExit BY <1>16 DEF RunExit
<1>17. CASE RunWakeWorkers
  BY <1>17, WakeEachType DEF RunWakeWorkers
<1>18. CASE RunJoin BY <1>18 DEF RunJoin, WorkersEnded
<1>19. ASSUME NEW w \in Workers, RunCloseQueued(w) PROVE Typed'
  BY <1>19 DEF RunCloseQueued, PopFront, Release
<1>20. CASE RunReturn
  <2>1. HandsInv' BY <1>20 DEF RunReturn
  <2>2. TypeOK'
    <3>1. rpc' \in RunPCs BY <1>20 DEF RunReturn
    <3> HIDE DEF HandsInv, RunPCs, WorkerPCs
    <3> QED BY <1>20, <3>1 DEF RunReturn
  <2> QED BY <2>1, <2>2
<1> QED
  BY <1>1, <1>2, <1>3, <1>4, <1>5, <1>6, <1>7, <1>8, <1>9, <1>10, <1>11,
     <1>12, <1>13, <1>14, <1>15, <1>16, <1>17, <1>18, <1>19, <1>20 DEF RunStep

\* A worker keeps the types.
LEMMA TypedWorker ==
    ASSUME NEW w \in Workers, Typed, WorkerStep(w) PROVE Typed'
<1> USE ShardedAssumption DEF Typed, TypeOK, HandsInv, WorkerPCs,
        WorkerGoTo, PopFront, Release, flags, accVars, accLocals,
        connVars, ctlVars, queues
<1>1. CASE WorkerCheck(w) BY <1>1 DEF WorkerCheck
<1>2. CASE WorkerPop(w) BY <1>2 DEF WorkerPop
<1>3. CASE WorkerQueueEmpty(w) BY <1>3 DEF WorkerQueueEmpty
<1>4. CASE WorkerAdopt(w)
  <2>1. HandsInv' BY <1>4 DEF WorkerAdopt, Stride, Workers
  <2>2. TypeOK'
    <3>1. /\ nextid' \in [Workers -> Nat] /\ id' \in [Conns -> Nat]
          /\ wpc' \in [Workers -> WorkerPCs]
      BY <1>4 DEF WorkerAdopt, Stride, Workers
    <3>2. /\ conns' \in [Workers -> SUBSET Conns]
          /\ hand' \in [Workers -> Conns \cup {NoConn}]
      BY <1>4 DEF WorkerAdopt
    <3> HIDE DEF HandsInv, WorkerPCs
    <3> QED BY <1>4, <3>1, <3>2 DEF WorkerAdopt
  <2> QED BY <2>1, <2>2
<1>5. CASE WorkerAdoptFail(w) BY <1>5 DEF WorkerAdoptFail
<1>6. CASE WorkerMark(w) BY <1>6 DEF WorkerMark, Marked
<1>11. CASE WorkerDeadline(w) BY <1>11 DEF WorkerDeadline
<1>7. CASE WorkerPollReturn(w)
  <2>1. pipe' \in [Loops -> Seq(Nat)] BY <1>7, ReadType DEF WorkerPollReturn
  <2>2. wpc' = [wpc EXCEPT ![w] = "sweep"] /\ wpc[w] # "wrap" /\ rpc' = rpc
    BY <1>7 DEF WorkerPollReturn
  <2>3. HandsInv' BY <1>7, <2>2 DEF WorkerPollReturn
  <2>4. wpc' \in [Workers -> WorkerPCs] BY <2>2
  <2>5. TypeOK'
    <3> HIDE DEF HandsInv
    <3> QED BY <1>7, <2>1, <2>4 DEF WorkerPollReturn
  <2> QED BY <2>3, <2>5
<1>8. CASE WorkerPassEnd(w) BY <1>8 DEF WorkerPassEnd
<1>9. ASSUME NEW c \in Conns, VisitStuck(w, c) PROVE Typed' BY <1>9 DEF VisitStuck
<1>10. ASSUME NEW c \in Conns, VisitDrained(w, c) \/ VisitDropped(w, c)
       PROVE Typed'
  <2>1. CloseAdopted(w, c) BY <1>10 DEF VisitDrained, VisitDropped
  <2> QED BY <2>1 DEF CloseAdopted
<1> QED
  BY <1>1, <1>2, <1>3, <1>4, <1>5, <1>6, <1>7, <1>8, <1>9, <1>10, <1>11
  DEF WorkerStep, WorkerOwnStep

\* Who calls drain(), stop() and the destructor keeps the types.
LEMMA TypedCtl ==
    ASSUME NEW t \in Ctl, Typed, CtlStep(t) PROVE Typed'
<1> USE ShardedAssumption DEF Typed, TypeOK, HandsInv, CtlPCs,
        CtlGoTo, flags, accVars, accLocals, workVars, connVars, queues
<1>1. CASE Stop(t)
  <2>1. HandsInv' BY <1>1 DEF Stop
  <2>2. TypeOK'
    <3> HIDE DEF HandsInv
    <3> QED BY <1>1 DEF Stop
  <2> QED BY <2>1, <2>2
<1>2. CASE Drain(t) BY <1>2 DEF Drain
<1>3. CASE DrainPublish(t) BY <1>3 DEF DrainPublish
<1>4. CASE WakeGate(t) BY <1>4 DEF WakeGate
<1>5. CASE WakeAll(t) BY <1>5, WakeEachType DEF WakeAll
<1>6. ASSUME NEW c \in Conns, WakeConn(t, c) PROVE Typed'
  <2>1. id[c] % N \in Loops BY ModRange
  <2>2. pipe' \in [Loops -> Seq(Nat)]
    <3>1. Sent(pipe, id[c] % N, id[c]) \in Seq(Nat) BY <2>1, SentType
    <3> QED BY <1>6, <3>1 DEF WakeConn
  <2> QED BY <1>6, <2>2 DEF WakeConn
<1>7. CASE Destroy(t)
  <2>1. HandsInv' BY <1>7 DEF Destroy
  <2>2. TypeOK'
    <3> HIDE DEF HandsInv
    <3> QED BY <1>7 DEF Destroy
  <2> QED BY <2>1, <2>2
<1>8. CASE DestroyMembers(t)
  <2>1. Open \subseteq Conns /\ IsFiniteSet(Open)
    <3>1. Open \subseteq Conns BY DEF Open
    <3> QED BY <3>1, ConnsFinite, FS_Subset
  <2>2. live_conns' \in Int BY <1>8, <2>1, FS_CardinalityType DEF DestroyMembers
  <2> QED BY <1>8, <2>1, <2>2 DEF DestroyMembers, Leftover
<1> QED BY <1>1, <1>2, <1>3, <1>4, <1>5, <1>6, <1>7, <1>8 DEF CtlStep, CtlContinue

\* Every step keeps the types.
LEMMA TypedNext == Typed /\ [Next]_vars => Typed'
<1> SUFFICES ASSUME Typed, [Next]_vars PROVE Typed'
  OBVIOUS
<1>1. CASE RunEnter \/ RunStep BY <1>1, TypedRun
<1>2. ASSUME NEW w \in Workers, WorkerStep(w) PROVE Typed' BY <1>2, TypedWorker
<1>3. ASSUME NEW t \in Ctl, CtlStep(t) PROVE Typed' BY <1>3, TypedCtl
<1>4. CASE Expire
  BY <1>4 DEF Typed, TypeOK, HandsInv, Expire, accVars, accLocals,
     workVars, connVars, queues
<1>5. CASE UNCHANGED vars
  BY <1>5 DEF Typed, TypeOK, HandsInv, vars, flags, accVars, accLocals, workVars, connVars,
        ctlVars, queues
<1>6. CASE Finished BY <1>5, <1>6 DEF Finished
<1> QED BY <1>1, <1>2, <1>3, <1>4, <1>5, <1>6 DEF Next

\* Every variable of the manager keeps its type, in every run of it.
THEOREM TypeCorrect == Spec => []TypeOK
<1>1. Init => Typed BY TypedInit
<1>2. Typed /\ [Next]_vars => Typed' BY TypedNext
<1>3. Typed => TypeOK BY DEF Typed
<1> QED BY <1>1, <1>2, <1>3, PTL DEF Spec

-----------------------------------------------------------------------------
(* Moving connections between places.                                      *)

\* The places of a connection, one by one.
LEMMA PlaceParts ==
    ASSUME NEW p \in Places
    PROVE  /\ p = <<p[1], p[2]>>
           /\ \/ p[1] \in {"backlog", "accepted", "reserved", "refused", "closed"} /\ p[2] = 0
              \/ p[1] \in {"queued", "hand", "open"} /\ p[2] \in Workers
BY DEF Places

\* All of S goes to place q: every connection still has one place.
Relocated(h, g, S, q) ==
    /\ g[q] = h[q] \cup S
    /\ \A p \in Places \ {q} : g[p] = h[p] \ S

\* Moving the connections of S leaves every connection one place.
LEMMA Relocate ==
    ASSUME NEW h, NEW g, NEW S, NEW q \in Places, Owned(h), Relocated(h, g, S, q)
    PROVE  /\ Owned(g)
           /\ SlotsOf(g) = IF q \in SlotPlaces THEN SlotsOf(h) \cup S
                           ELSE SlotsOf(h) \ S
<1> USE DEF Relocated
<1>1. Owned(g)
  <2> SUFFICES ASSUME NEW d \in Conns
               PROVE  \E p \in Places : d \in g[p] /\ \A r \in Places \ {p} : d \notin g[r]
    BY DEF Owned
  <2>1. CASE d \in S BY <2>1
  <2>2. CASE d \notin S BY <2>2 DEF Owned
  <2> QED BY <2>1, <2>2
<1>2. \A d : d \notin S => (d \in SlotsOf(g) <=> d \in SlotsOf(h))
  BY DEF SlotsOf, SlotPlaces
<1>3. CASE q \in SlotPlaces
  <2>1. S \subseteq SlotsOf(g) BY <1>3 DEF SlotsOf
  <2> QED BY <1>1, <1>2, <1>3, <2>1
<1>4. CASE q \notin SlotPlaces
  <2>1. S \cap SlotsOf(g) = {} BY <1>4 DEF SlotsOf, SlotPlaces
  <2> QED BY <1>1, <1>2, <1>4, <2>1
<1> QED BY <1>3, <1>4

\* One connection goes from place s to place q.
Moved(h, g, c, s, q) ==
    /\ c \in h[s] /\ g[s] = h[s] \ {c} /\ g[q] = h[q] \cup {c}
    /\ \A p \in Places \ {s, q} : g[p] = h[p]

\* A connection moved from one place to another has one owner still.
LEMMA Move ==
    ASSUME NEW h, NEW g, NEW c \in Conns, NEW s \in Places, NEW q \in Places,
           s # q, Owned(h), Moved(h, g, c, s, q)
    PROVE  /\ Owned(g)
           /\ s \in SlotPlaces <=> c \in SlotsOf(h)
           /\ SlotsOf(g) = IF q \in SlotPlaces THEN SlotsOf(h) \cup {c}
                           ELSE SlotsOf(h) \ {c}
<1>1. \A p \in Places \ {s} : c \notin h[p]
  BY DEF Owned, Moved
<1>2. s \in SlotPlaces <=> c \in SlotsOf(h)
  BY <1>1 DEF SlotsOf, SlotPlaces, Moved
<1>3. \A p \in Places \ {q} : g[p] = h[p] \ {c}
  BY <1>1 DEF Moved
<1>4. g[q] = h[q] \cup {c} BY DEF Moved
<1> DEFINE S == {c}
<1>5. \A p \in Places \ {q} : g[p] = h[p] \ S BY <1>3
<1>6. g[q] = h[q] \cup S BY <1>4
<1> HIDE DEF S
<1>7. Owned(g) /\ SlotsOf(g) = IF q \in SlotPlaces THEN SlotsOf(h) \cup S
                              ELSE SlotsOf(h) \ S
  <2>1. Relocated(h, g, S, q) BY <1>5, <1>6 DEF Relocated
  <2> QED BY <2>1, Relocate
<1> QED BY <1>2, <1>7 DEF S

\* Slots are held by connections, of which there are finitely many.
LEMMA SlotsFinite == Typed => Slots \subseteq Conns /\ IsFiniteSet(Slots)
<1> SUFFICES ASSUME Typed PROVE Slots \subseteq Conns
  BY ConnsFinite, FS_Subset
<1>1. ASSUME NEW p \in Places PROVE Held[p] \subseteq Conns
  BY <1>1, PlaceParts DEF Typed, TypeOK, Held, At
<1> QED BY <1>1 DEF Slots, SlotsOf, SlotPlaces

\* The count follows a move: it changes by one when a slot is taken or left.
Slot(p) == IF p \in SlotPlaces THEN 1 ELSE 0

\* What moving one connection does to the number of those in a set.
LEMMA CountMove ==
    ASSUME Typed, Owned(Held), LiveExact,
           NEW c \in Conns, NEW s \in Places, NEW q \in Places, s # q,
           Moved(Held, Held', c, s, q),
           live_conns' = live_conns + Slot(q) - Slot(s)
    PROVE  Owned(Held') /\ LiveExact'
<1>1. /\ Owned(Held')
      /\ s \in SlotPlaces <=> c \in Slots
      /\ Slots' = IF q \in SlotPlaces THEN Slots \cup {c} ELSE Slots \ {c}
  BY Move DEF Slots
<1>2. IsFiniteSet(Slots) BY SlotsFinite
<1>3. /\ Cardinality(Slots \cup {c}) =
             IF c \in Slots THEN Cardinality(Slots) ELSE Cardinality(Slots) + 1
      /\ Cardinality(Slots \ {c}) =
             IF c \in Slots THEN Cardinality(Slots) - 1 ELSE Cardinality(Slots)
      /\ Cardinality(Slots) \in Nat
  BY <1>2, FS_AddElement, FS_RemoveElement, FS_CardinalityType
<1> QED BY <1>1, <1>3 DEF LiveExact, Slot

\* The connections in a queue, after the pushes and pops the threads make.
Members(s) == {s[i] : i \in DOMAIN s}
\* No connection is queued twice.
NoRepeat(s) == \A i, j \in DOMAIN s : s[i] = s[j] => i = j

\* What is queued after a push.
LEMMA PushMembers ==
    ASSUME NEW T, NEW s \in Seq(T), NEW x \in T
    PROVE  /\ Members(Append(s, x)) = Members(s) \cup {x}
           /\ NoRepeat(s) /\ x \notin Members(s) => NoRepeat(Append(s, x))
<1>1. /\ Append(s, x) \in Seq(T) /\ Len(Append(s, x)) = Len(s) + 1
      /\ DOMAIN Append(s, x) = 1..(Len(s) + 1) /\ DOMAIN s = 1..Len(s)
      /\ Len(s) \in Nat
      /\ Append(s, x)[Len(s) + 1] = x
      /\ \A i \in 1..Len(s) : Append(s, x)[i] = s[i]
  OBVIOUS
<1> HIDE DEF Members
<1>2. Members(Append(s, x)) = Members(s) \cup {x}
  BY <1>1 DEF Members
<1>3. NoRepeat(s) /\ x \notin Members(s) => NoRepeat(Append(s, x))
  BY <1>1 DEF Members, NoRepeat
<1> QED BY <1>2, <1>3

\* What is queued after a pop.
LEMMA PopMembers ==
    ASSUME NEW T, NEW s \in Seq(T), s # <<>>, NoRepeat(s)
    PROVE  /\ Head(s) \in Members(s)
           /\ Members(Tail(s)) = Members(s) \ {Head(s)}
           /\ NoRepeat(Tail(s))
<1>1. /\ Len(s) \in Nat /\ Len(s) > 0 /\ DOMAIN s = 1..Len(s)
      /\ Tail(s) \in Seq(T) /\ DOMAIN Tail(s) = 1..(Len(s) - 1)
      /\ \A i \in 1..(Len(s) - 1) : Tail(s)[i] = s[i + 1]
      /\ Head(s) = s[1]
  OBVIOUS
<1>2. \A i \in 2..Len(s) : s[i] # Head(s)
  BY <1>1 DEF NoRepeat
<1>3. Members(Tail(s)) \subseteq Members(s) \ {Head(s)}
  BY <1>1, <1>2 DEF Members
<1>4. ASSUME NEW i \in 1..Len(s), s[i] # Head(s) PROVE s[i] \in Members(Tail(s))
  <2>1. i - 1 \in 1..(Len(s) - 1) /\ Tail(s)[i - 1] = s[i]
    BY <1>1, <1>4
  <2> QED BY <1>1, <2>1 DEF Members
<1>5. Members(s) \ {Head(s)} \subseteq Members(Tail(s))
  BY <1>1, <1>4 DEF Members
<1>6. NoRepeat(Tail(s)) BY <1>1 DEF NoRepeat
<1>7. Head(s) \in Members(s) BY <1>1 DEF Members
<1> HIDE DEF Members, NoRepeat
<1> QED BY <1>3, <1>5, <1>6, <1>7

-----------------------------------------------------------------------------
(* Every step keeps each descriptor at one place, and the count exact.     *)

\* The three safety properties of admission.
Safe == OneOwner /\ LiveExact /\ CapInv

\* Steps that move no connection.
StaysPut == /\ Held' = Held /\ pending' = pending /\ live_conns' = live_conns

\* A step that moves nobody and counts nobody keeps them.
LEMMA StaysPutSafe ==
    ASSUME Typed, Safe, StaysPut, rpc' = "reserve" => rpc = "reserve" \/ ~ AtCap
    PROVE  Safe'
<1>1. OneOwner' BY DEF Safe, StaysPut, OneOwner
<1>2. Slots' = Slots BY DEF StaysPut, Slots
<1>3. LiveExact' BY <1>2 DEF Safe, StaysPut, LiveExact
<1>4. CapInv'
  BY ShardedAssumption DEF Safe, StaysPut, CapInv, AtCap, Typed, TypeOK
<1> QED BY <1>1, <1>3, <1>4 DEF Safe

\* Steps that move one connection.
LEMMA MoveSafe ==
    ASSUME Typed, Safe,
           NEW c \in Conns, NEW s \in Places, NEW q \in Places, s # q,
           Moved(Held, Held', c, s, q),
           live_conns' = live_conns + Slot(q) - Slot(s),
           \A w \in Workers : NoRepeat(pending'[w]),
           CapInv'
    PROVE  Safe'
<1>1. Owned(Held') /\ LiveExact' BY CountMove DEF Safe, OneOwner
<1> QED BY <1>1 DEF Safe, OneOwner, NoRepeat

\* Steps that leave the queues and the hands of every other thread alone.
LEMMA PlaceNames ==
    /\ \A n \in {"backlog", "accepted", "reserved", "refused", "closed"} :
          <<n, 0>> \in Places
    /\ \A n \in {"queued", "hand", "open"}, w \in Workers : <<n, w>> \in Places
    /\ \A w \in Workers : /\ <<"queued", w>> \in SlotPlaces
                          /\ <<"hand", w>> \in SlotPlaces
                          /\ <<"open", w>> \in SlotPlaces
    /\ <<"reserved", 0>> \in SlotPlaces
    /\ \A n \in {"backlog", "accepted", "refused", "closed"} :
          <<n, 0>> \notin SlotPlaces
BY DEF Places, SlotPlaces

\* accept() keeps them.
LEMMA AcceptSafe ==
    ASSUME Typed, Safe, NEW c \in Conns, Accept(c) PROVE Safe'
<1> USE DEF GoTo, Refuse, PopFront, Release, flags, accLocals, workVars,
        connVars, ctlVars, queues
<1>1. acc_conn = NoConn BY DEF Accept, Typed, HandsInv
<1>2. CapInv' BY DEF Accept, Safe, CapInv
<1>3. \A w \in Workers : NoRepeat(pending'[w])
  BY DEF Accept, Safe, OneOwner, NoRepeat
<1>4. CASE draining
  <2> DEFINE s == <<"backlog", 0>>  q == <<"refused", 0>>
  <2>1. s \in Places /\ q \in Places /\ Slot(s) = 0 /\ Slot(q) = 0
    BY PlaceNames DEF Slot
  <2>2. c \in Held[s] /\ Held'[s] = Held[s] \ {c} /\ Held'[q] = Held[q] \cup {c}
    BY <1>4, <2>1 DEF Accept, Refusing, Held, At
  <2>3. \A p \in Places \ {s, q} : Held'[p] = Held[p]
    BY <1>4, PlaceParts DEF Accept, Refusing, Held, At
  <2>4. live_conns' = live_conns + Slot(q) - Slot(s)
    BY <2>1 DEF Accept, Typed, TypeOK
  <2> QED BY <1>2, <1>3, <2>1, <2>2, <2>3, <2>4, MoveSafe DEF Moved
<1>5. CASE ~ draining
  <2> DEFINE s == <<"backlog", 0>>  q == <<"accepted", 0>>
  <2>1. s \in Places /\ q \in Places /\ Slot(s) = 0 /\ Slot(q) = 0
    BY PlaceNames DEF Slot
  <2>2. c \in Held[s] /\ Held'[s] = Held[s] \ {c} /\ Held'[q] = Held[q] \cup {c}
    BY <1>1, <1>5, <2>1, ShardedAssumption DEF Accept, Refusing, Held, At
  <2>3. \A p \in Places \ {s, q} : Held'[p] = Held[p]
    BY <1>1, <1>5, PlaceParts DEF Accept, Refusing, Held, At
  <2>4. live_conns' = live_conns + Slot(q) - Slot(s)
    BY <2>1 DEF Accept, Typed, TypeOK
  <2> QED BY <1>2, <1>3, <2>1, <2>2, <2>3, <2>4, MoveSafe DEF Moved
<1> QED BY <1>4, <1>5

\* The check of the cap keeps them: it refuses or keeps the connection in hand.
LEMMA CapCheckSafe == Typed /\ Safe /\ CapCheck => Safe'
<1> SUFFICES ASSUME Typed, Safe, CapCheck PROVE Safe'
  OBVIOUS
<1> USE DEF GoTo, Refuse, PopFront, Release, flags, accLocals, workVars,
        connVars, ctlVars, queues
<1>1. acc_conn \in Conns /\ acc_conn # NoConn
  BY DEF CapCheck, Typed, TypeOK, HandsInv
<1>2. CASE AtCap
  <2> DEFINE s == <<"accepted", 0>>  q == <<"refused", 0>>
  <2>1. s \in Places /\ q \in Places /\ Slot(s) = 0 /\ Slot(q) = 0
    BY PlaceNames DEF Slot
  <2>2. /\ acc_conn \in Held[s] /\ Held'[s] = Held[s] \ {acc_conn}
        /\ Held'[q] = Held[q] \cup {acc_conn}
    BY <1>1, <1>2, <2>1, ShardedAssumption DEF CapCheck, Held, At
  <2>3. \A p \in Places \ {s, q} : Held'[p] = Held[p]
    BY <1>2, PlaceParts DEF CapCheck, Held, At
  <2>4. live_conns' = live_conns + Slot(q) - Slot(s)
    BY <2>1 DEF CapCheck, Typed, TypeOK
  <2>5. CapInv' BY <1>2 DEF CapCheck, Safe, CapInv
  <2>6. \A w \in Workers : NoRepeat(pending'[w])
    BY DEF CapCheck, Safe, OneOwner, NoRepeat
  <2> QED BY <1>1, <2>1, <2>2, <2>3, <2>4, <2>5, <2>6, MoveSafe DEF Moved
<1>3. CASE ~ AtCap
  <2>1. /\ rpc # "push" /\ rpc' # "push"
        /\ UNCHANGED <<backlog, acc_conn, refused, closed, pending, hand, conns,
                       live_conns>>
    BY <1>3 DEF CapCheck
  <2>2. Held' = Held BY <2>1 DEF Held, At
  <2> QED BY <1>3, <2>1, <2>2, StaysPutSafe DEF StaysPut
<1> QED BY <1>2, <1>3

\* Reserving a slot keeps them.
LEMMA ReserveSafe == Typed /\ Safe /\ Reserve => Safe'
<1> SUFFICES ASSUME Typed, Safe, Reserve PROVE Safe'
  OBVIOUS
<1> USE DEF GoTo, Refuse, PopFront, Release, flags, accLocals, workVars,
        connVars, ctlVars, queues
<1> DEFINE s == <<"accepted", 0>>  q == <<"reserved", 0>>
<1>1. acc_conn \in Conns /\ acc_conn # NoConn
  BY DEF Reserve, Typed, TypeOK, HandsInv
<1>2. s \in Places /\ q \in Places /\ Slot(s) = 0 /\ Slot(q) = 1
  BY PlaceNames DEF Slot
<1>3. /\ acc_conn \in Held[s] /\ Held'[s] = Held[s] \ {acc_conn}
      /\ Held'[q] = Held[q] \cup {acc_conn}
  BY <1>1, <1>2 DEF Reserve, Held, At
<1>4. \A p \in Places \ {s, q} : Held'[p] = Held[p]
  BY PlaceParts DEF Reserve, Held, At
<1>5. live_conns' = live_conns + Slot(q) - Slot(s)
  BY <1>2 DEF Reserve, Typed, TypeOK
<1>6. CapInv' BY ShardedAssumption DEF Reserve, Safe, CapInv, Typed, TypeOK
<1>7. \A w \in Workers : NoRepeat(pending'[w])
  BY DEF Reserve, Safe, OneOwner, NoRepeat
<1> QED BY <1>1, <1>2, <1>3, <1>4, <1>5, <1>6, <1>7, MoveSafe DEF Moved

\* Whom a place in a queue holds, before and after a step.
LEMMA QueuedMembers ==
    \A w \in Workers : /\ Held[<<"queued", w>>] = Members(pending[w])
                       /\ Held'[<<"queued", w>>] = Members(pending'[w])
<1> SUFFICES ASSUME NEW w \in Workers
             PROVE  /\ Held[<<"queued", w>>] = Members(pending[w])
                    /\ Held'[<<"queued", w>>] = Members(pending'[w])
  OBVIOUS
<1>1. <<"queued", w>> \in Places BY PlaceNames
<1>2. /\ At(<<"queued", w>>) = Members(pending[w])
      /\ At(<<"queued", w>>)' = Members(pending'[w])
  BY DEF At, Members
<1> HIDE DEF Members
<1> QED BY <1>1, <1>2 DEF Held

\* Handing a connection over to a worker keeps them.
LEMMA PushSafe == Typed /\ Safe /\ Push => Safe'
<1> SUFFICES ASSUME Typed, Safe, Push PROVE Safe'
  OBVIOUS
<1> USE DEF GoTo, Refuse, PopFront, Release, flags, accLocals, workVars,
        connVars, ctlVars, queues
<1> DEFINE s == <<"reserved", 0>>  q == <<"queued", Chosen>>
<1>1. acc_conn \in Conns /\ acc_conn # NoConn
  BY DEF Push, Typed, TypeOK, HandsInv
<1>2. Chosen \in Workers BY ChosenType DEF Typed
<1>3. s \in Places /\ q \in Places /\ Slot(s) = 1 /\ Slot(q) = 1
  BY <1>2, PlaceNames DEF Slot
<1>4. \A w \in Workers : Held[<<"queued", w>>] = Members(pending[w])
  BY QueuedMembers
<1>5. \A w \in Workers : Held'[<<"queued", w>>] = Members(pending'[w])
  BY QueuedMembers
<1>6. acc_conn \in Held[s] /\ Held'[s] = Held[s] \ {acc_conn}
  BY <1>1, <1>3, ShardedAssumption DEF Push, Held, At
<1>7. /\ pending[Chosen] \in Seq(Conns)
      /\ pending' = [pending EXCEPT ![Chosen] = Append(pending[Chosen], acc_conn)]
      /\ DOMAIN pending = Workers
  BY <1>2 DEF Push, Typed, TypeOK
<1>8. acc_conn \notin Members(pending[Chosen])
  BY <1>1, <1>2, <1>3, <1>4, <1>6 DEF Safe, OneOwner, Owned
<1>9. NoRepeat(pending[Chosen]) BY <1>2 DEF Safe, OneOwner, NoRepeat
<1>10. /\ Members(pending'[Chosen]) = Members(pending[Chosen]) \cup {acc_conn}
       /\ NoRepeat(pending'[Chosen])
  BY <1>1, <1>2, <1>7, <1>8, <1>9, PushMembers
<1>11. Held'[q] = Held[q] \cup {acc_conn} BY <1>2, <1>4, <1>5, <1>10
<1>12. ASSUME NEW p \in Places \ {s, q} PROVE Held'[p] = Held[p]
  <2>1. CASE p[1] = "queued"
    <3>1. p[2] \in Workers /\ p[2] # Chosen /\ p = <<"queued", p[2]>>
      BY <2>1, PlaceParts
    <3>2. pending'[p[2]] = pending[p[2]] BY <1>7, <3>1
    <3> QED BY <1>4, <1>5, <3>1, <3>2
  <2>2. CASE p[1] # "queued"
    BY <2>2, PlaceParts DEF Push, Held, At
  <2> QED BY <2>1, <2>2
<1>13. live_conns' = live_conns + Slot(q) - Slot(s)
  BY <1>3 DEF Push, Typed, TypeOK
<1>14. CapInv' BY DEF Push, Safe, CapInv
<1>15. \A w \in Workers : NoRepeat(pending'[w])
  BY <1>7, <1>10 DEF Safe, OneOwner, NoRepeat
<1> QED BY <1>1, <1>3, <1>6, <1>11, <1>12, <1>13, <1>14, <1>15, MoveSafe DEF Moved

\* What a worker pops, or the shutdown takes, leaves the queue.
LEMMA PopSafe ==
    ASSUME Typed, Safe, NEW w \in Workers, NEW q \in Places,
           pending[w] # <<>>,
           pending' = [pending EXCEPT ![w] = Tail(pending[w])],
           q[1] # "queued",
           Held'[q] = Held[q] \cup {Head(pending[w])},
           \A p \in Places \ {q} : p[1] # "queued" => Held'[p] = Held[p],
           live_conns' = live_conns + Slot(q) - 1,
           CapInv'
    PROVE  Safe'
<1> DEFINE s == <<"queued", w>>  c == Head(pending[w])
<1>1. s \in Places /\ Slot(s) = 1 /\ s # q
  <2>1. s[1] = "queued" OBVIOUS
  <2>2. s \in Places /\ Slot(s) = 1 BY PlaceNames DEF Slot
  <2> QED BY <2>1, <2>2
<1>2. pending[w] \in Seq(Conns) /\ DOMAIN pending = Workers
  BY DEF Typed, TypeOK
<1>3. NoRepeat(pending[w]) BY DEF Safe, OneOwner, NoRepeat
<1>4. /\ c \in Members(pending[w])
      /\ Members(pending'[w]) = Members(pending[w]) \ {c}
      /\ NoRepeat(pending'[w])
  BY <1>2, <1>3, PopMembers
<1>5. \A v \in Workers : Held[<<"queued", v>>] = Members(pending[v])
  BY QueuedMembers
<1>6. \A v \in Workers : Held'[<<"queued", v>>] = Members(pending'[v])
  BY QueuedMembers
<1>7. c \in Conns BY <1>2
<1>8. c \in Held[s] /\ Held'[s] = Held[s] \ {c} BY <1>4, <1>5, <1>6
<1>9. ASSUME NEW p \in Places \ {s, q} PROVE Held'[p] = Held[p]
  <2>1. CASE p[1] = "queued"
    <3>1. p[2] \in Workers /\ p[2] # w /\ p = <<"queued", p[2]>>
      BY <2>1, PlaceParts
    <3>2. pending'[p[2]] = pending[p[2]] BY <1>2, <3>1
    <3> QED BY <1>5, <1>6, <3>1, <3>2
  <2> QED BY <2>1
<1>10. \A v \in Workers : NoRepeat(pending'[v])
  BY <1>2, <1>4 DEF Safe, OneOwner, NoRepeat
<1>11. live_conns' = live_conns + Slot(q) - Slot(s) BY <1>1
<1>12. Moved(Held, Held', c, s, q) BY <1>8, <1>9 DEF Moved
<1> HIDE DEF c, s
<1> QED BY <1>1, <1>7, <1>10, <1>11, <1>12, MoveSafe

\* Closing what was never adopted keeps them.
LEMMA CloseQueuedSafe ==
    ASSUME Typed, Safe, NEW w \in Workers, RunCloseQueued(w) PROVE Safe'
<1> USE DEF flags, accVars, accLocals, workVars, connVars,
        ctlVars, queues
<1> DEFINE q == <<"closed", 0>>
<1>1. q \in Places /\ Slot(q) = 0 /\ q[1] # "queued" BY PlaceNames DEF Slot
<1>2. Held'[q] = Held[q] \cup {Head(pending[w])}
  BY <1>1 DEF RunCloseQueued, Held, At
<1>3. \A p \in Places \ {q} : p[1] # "queued" => Held'[p] = Held[p]
  BY PlaceParts DEF RunCloseQueued, Held, At
<1>4. live_conns' = live_conns + Slot(q) - 1
  BY <1>1 DEF RunCloseQueued, PopFront, Release, Typed, TypeOK
<1>5. CapInv'
  BY ShardedAssumption DEF RunCloseQueued, Release, Safe, CapInv, Typed, TypeOK
<1>6. /\ pending[w] # <<>>
      /\ pending' = [pending EXCEPT ![w] = Tail(pending[w])]
  BY DEF RunCloseQueued, PopFront, Release, Typed, TypeOK
<1> QED BY <1>1, <1>2, <1>3, <1>4, <1>5, <1>6, PopSafe

\* The start of the pass of the acceptor keeps them.
LEMMA PassStartSafe == Typed /\ Safe /\ AcceptorPollReturn => Safe'
<1> SUFFICES ASSUME Typed, Safe, AcceptorPollReturn PROVE Safe'
  OBVIOUS
<1> USE DEF GoTo, Refuse, PopFront, Release, flags, accLocals, workVars,
        connVars, ctlVars, queues
<1> DEFINE q == <<"closed", 0>>  S == refused
<1>1. q \in Places /\ q \notin SlotPlaces BY PlaceNames
<1>2. Owned(Held) BY DEF Safe, OneOwner
<1>3. \A p \in Places \ {<<"refused", 0>>} : Held[p] \cap refused = {}
  <2>1. Held[<<"refused", 0>>] = refused /\ <<"refused", 0>> \in Places
    BY PlaceNames DEF Held, At
  <2> QED BY <1>2, <2>1 DEF Owned, Typed, TypeOK
<1>4. Held'[q] = Held[q] \cup S
  BY <1>1 DEF AcceptorPollReturn, Held, At
<1>5. ASSUME NEW p \in Places \ {q} PROVE Held'[p] = Held[p] \ S
  <2>1. CASE p = <<"refused", 0>>
    BY <2>1 DEF AcceptorPollReturn, Held, At
  <2>2. CASE p # <<"refused", 0>>
    <3>1. Held'[p] = Held[p]
      BY <2>2, PlaceParts DEF AcceptorPollReturn, Held, At
    <3> QED BY <1>3, <2>2, <3>1
  <2> QED BY <2>1, <2>2
<1>6. Owned(Held') /\ SlotsOf(Held') = SlotsOf(Held) \ S
  <2>1. Relocated(Held, Held', S, q) BY <1>4, <1>5 DEF Relocated
  <2> HIDE DEF S, q
  <2> QED BY <1>1, <1>2, <2>1, Relocate
<1>7. SlotsOf(Held) \cap S = {}
  BY <1>3, PlaceNames DEF SlotsOf, SlotPlaces
<1>8. Slots' = Slots BY <1>6, <1>7 DEF Slots
<1> QED BY <1>6, <1>8 DEF AcceptorPollReturn, Safe, OneOwner, LiveExact, CapInv

\* Every step of run() keeps them.
LEMMA RunSafe == Typed /\ Safe /\ (RunEnter \/ RunStep) => Safe'
<1> SUFFICES ASSUME Typed, Safe, RunEnter \/ RunStep PROVE Safe'
  OBVIOUS
<1>1. CASE \/ RunEnter \/ RunSetRunning \/ RunSpawn \/ RunCheck \/ RunReadDraining
           \/ HandOffWake \/ AcceptorPassEnd \/ AcceptorDeadline \/ AcceptorDrained
           \/ AcceptorClear \/ RunExit \/ RunWakeWorkers \/ RunJoin \/ RunReturn
  <2>1. /\ rpc # "push" /\ rpc' # "push" /\ rpc' # "reserve"
        /\ UNCHANGED <<backlog, acc_conn, refused, closed, pending, hand, conns,
                       live_conns>>
    BY <1>1 DEF RunEnter, RunSetRunning, RunSpawn, RunCheck, RunReadDraining,
       HandOffWake, AcceptorPassEnd, AcceptorDeadline, AcceptorDrained,
       AcceptorClear, RunExit, RunWakeWorkers, RunJoin, RunReturn,
       GoTo, flags, accVars, accLocals, workVars, connVars,
        ctlVars, queues
  <2>2. Held' = Held BY <2>1 DEF Held, At
  <2> QED BY <2>1, <2>2, StaysPutSafe DEF StaysPut
<1>2. ASSUME NEW c \in Conns, Accept(c) PROVE Safe' BY <1>2, AcceptSafe
<1>3. ASSUME NEW w \in Workers, RunCloseQueued(w) PROVE Safe'
  BY <1>3, CloseQueuedSafe
<1> QED
  BY <1>1, <1>2, <1>3, PassStartSafe, CapCheckSafe, ReserveSafe, PushSafe
  DEF RunStep

\* Taking a connection from the queue keeps them.
LEMMA WorkerPopSafe ==
    ASSUME Typed, Safe, NEW w \in Workers, WorkerPop(w) PROVE Safe'
<1> USE DEF WorkerGoTo, PopFront, Release, flags, accVars, accLocals,
        connVars, ctlVars, queues
<1> DEFINE q == <<"hand", w>>
<1>1. q \in Places /\ Slot(q) = 1 /\ q[1] # "queued" BY PlaceNames DEF Slot
<1>2. hand[w] = NoConn /\ DOMAIN hand = Workers
  BY DEF WorkerPop, Typed, TypeOK, HandsInv
<1>3. /\ pending[w] # <<>> /\ Head(pending[w]) \in Conns
      /\ pending' = [pending EXCEPT ![w] = Tail(pending[w])]
  BY DEF WorkerPop, Typed, TypeOK
<1>4. Head(pending[w]) # NoConn BY <1>3, ShardedAssumption
<1>5. Held'[q] = Held[q] \cup {Head(pending[w])}
  BY <1>1, <1>2, <1>4 DEF WorkerPop, Held, At
<1>6. ASSUME NEW p \in Places \ {q}, p[1] # "queued" PROVE Held'[p] = Held[p]
  <2>1. CASE p[1] = "hand"
    <3>1. p[2] \in Workers /\ p[2] # w BY <2>1, PlaceParts
    <3>2. hand'[p[2]] = hand[p[2]] BY <1>2, <3>1 DEF WorkerPop
    <3> QED BY <2>1, <3>2 DEF Held, At
  <2>2. CASE p[1] # "hand"
    BY <1>6, <2>2, PlaceParts DEF WorkerPop, Held, At
  <2> QED BY <2>1, <2>2
<1>7. live_conns' = live_conns + Slot(q) - 1
  BY <1>1 DEF WorkerPop, Typed, TypeOK
<1>8. CapInv' BY DEF WorkerPop, Safe, CapInv
<1> QED BY <1>1, <1>3, <1>5, <1>6, <1>7, <1>8, PopSafe

\* The connection leaves the worker's hand for q.
LEMMA HandSafe ==
    ASSUME Typed, Safe, NEW w \in Workers, wpc[w] = "wrap",
           hand' = [hand EXCEPT ![w] = NoConn],
           UNCHANGED <<rpc, acc_conn, refused, backlog, pending>>,
           \/ /\ conns' = [conns EXCEPT ![w] = @ \cup {hand[w]}]
              /\ closed' = closed /\ live_conns' = live_conns
           \/ /\ closed' = closed \cup {hand[w]}
              /\ conns' = conns /\ live_conns' = live_conns - 1
    PROVE  Safe'
<1> DEFINE s == <<"hand", w>>
<1>1. /\ hand[w] \in Conns /\ hand[w] # NoConn
      /\ DOMAIN hand = Workers /\ DOMAIN conns = Workers
  BY DEF Typed, TypeOK, HandsInv
<1>2. s \in Places /\ Slot(s) = 1 BY PlaceNames DEF Slot
<1>3. hand[w] \in Held[s] /\ Held'[s] = Held[s] \ {hand[w]}
  BY <1>1, <1>2 DEF Held, At
<1>4. \A p \in Places \ {s} : p[1] = "hand" => Held'[p] = Held[p]
  <2> SUFFICES ASSUME NEW p \in Places \ {s}, p[1] = "hand" PROVE Held'[p] = Held[p]
    OBVIOUS
  <2>1. p[2] \in Workers /\ p[2] # w BY PlaceParts
  <2>2. hand'[p[2]] = hand[p[2]] BY <1>1, <2>1
  <2> QED BY <2>2 DEF Held, At
<1>5. \A p \in Places : p[1] \notin {"hand", "open", "closed"} => Held'[p] = Held[p]
  BY PlaceParts DEF Held, At
<1>6. \A v \in Workers : NoRepeat(pending'[v]) BY DEF Safe, OneOwner, NoRepeat
<1>7. CASE conns' = [conns EXCEPT ![w] = @ \cup {hand[w]}]
           /\ closed' = closed /\ live_conns' = live_conns
  <2> DEFINE q == <<"open", w>>
  <2>1. q \in Places /\ Slot(q) = 1 /\ s # q BY PlaceNames DEF Slot
  <2>2. Held'[q] = Held[q] \cup {hand[w]} BY <1>1, <1>7, <2>1 DEF Held, At
  <2>3. ASSUME NEW p \in Places \ {s, q} PROVE Held'[p] = Held[p]
    <3>1. CASE p[1] = "open"
      <4>1. p[2] \in Workers /\ p[2] # w BY <3>1, PlaceParts
      <4>2. conns'[p[2]] = conns[p[2]] BY <1>1, <1>7, <4>1
      <4> QED BY <3>1, <4>2 DEF Held, At
    <3>2. CASE p[1] = "closed" BY <1>7, <3>2 DEF Held, At
    <3> QED BY <1>4, <1>5, <3>1, <3>2
  <2>4. Moved(Held, Held', hand[w], s, q) BY <1>3, <2>2, <2>3 DEF Moved
  <2>5. live_conns' = live_conns + Slot(q) - Slot(s)
    BY <1>2, <1>7, <2>1 DEF Typed, TypeOK
  <2>6. CapInv' BY <1>7 DEF Safe, CapInv
  <2> QED BY <1>1, <1>2, <1>6, <2>1, <2>4, <2>5, <2>6, MoveSafe
<1>8. CASE closed' = closed \cup {hand[w]}
           /\ conns' = conns /\ live_conns' = live_conns - 1
  <2> DEFINE q == <<"closed", 0>>
  <2>1. q \in Places /\ Slot(q) = 0 /\ s # q BY PlaceNames DEF Slot
  <2>2. Held'[q] = Held[q] \cup {hand[w]} BY <1>8, <2>1 DEF Held, At
  <2>3. ASSUME NEW p \in Places \ {s, q} PROVE Held'[p] = Held[p]
    <3>1. CASE p[1] = "open" BY <1>8, <3>1 DEF Held, At
    <3>2. p[1] # "closed" \/ p = q BY PlaceParts
    <3> QED BY <1>4, <1>5, <3>1, <3>2
  <2>4. Moved(Held, Held', hand[w], s, q) BY <1>3, <2>2, <2>3 DEF Moved
  <2>5. live_conns' = live_conns + Slot(q) - Slot(s)
    BY <1>2, <1>8, <2>1 DEF Typed, TypeOK
  <2>6. CapInv' BY <1>8, ShardedAssumption DEF Safe, CapInv, Typed, TypeOK
  <2> QED BY <1>1, <1>2, <1>6, <2>1, <2>4, <2>5, <2>6, MoveSafe
<1> QED BY <1>7, <1>8

\* Closing an adopted connection gives back its slot.
LEMMA CloseAdoptedSafe ==
    ASSUME Typed, Safe, NEW w \in Workers, NEW c \in conns[w], CloseAdopted(w, c)
    PROVE  Safe'
<1> USE DEF CloseAdopted, Release, flags, accVars, accLocals, connVars, ctlVars,
        queues
<1> DEFINE s == <<"open", w>>  q == <<"closed", 0>>
<1>1. c \in Conns /\ DOMAIN conns = Workers BY DEF Typed, TypeOK
<1>2. s \in Places /\ Slot(s) = 1 /\ q \in Places /\ Slot(q) = 0 /\ s # q
  BY PlaceNames DEF Slot
<1>3. c \in Held[s] /\ Held'[s] = Held[s] \ {c} BY <1>1, <1>2 DEF Held, At
<1>4. Held'[q] = Held[q] \cup {c} BY <1>2 DEF Held, At
<1>5. ASSUME NEW p \in Places \ {s, q} PROVE Held'[p] = Held[p]
  <2>1. CASE p[1] = "open"
    <3>1. p[2] \in Workers /\ p[2] # w BY <2>1, PlaceParts
    <3>2. conns'[p[2]] = conns[p[2]] BY <1>1, <3>1
    <3> QED BY <2>1, <3>2 DEF Held, At
  <2>2. CASE p[1] # "open" BY <2>2, PlaceParts DEF Held, At
  <2> QED BY <2>1, <2>2
<1>6. Moved(Held, Held', c, s, q) BY <1>3, <1>4, <1>5 DEF Moved
<1>7. live_conns' = live_conns + Slot(q) - Slot(s) BY <1>2 DEF Typed, TypeOK
<1>8. CapInv' BY ShardedAssumption DEF Safe, CapInv, Typed, TypeOK
<1>9. \A v \in Workers : NoRepeat(pending'[v]) BY DEF Safe, OneOwner, NoRepeat
<1> QED BY <1>1, <1>2, <1>6, <1>7, <1>8, <1>9, MoveSafe

\* Every step of a worker keeps them.
LEMMA WorkerSafe ==
    ASSUME Typed, Safe, NEW w \in Workers, WorkerStep(w) PROVE Safe'
<1>1. CASE \/ WorkerCheck(w) \/ WorkerQueueEmpty(w) \/ WorkerMark(w) \/ WorkerDeadline(w)
           \/ WorkerPollReturn(w) \/ WorkerPassEnd(w)
           \/ \E c \in Conns : VisitStuck(w, c)
  <2>1. UNCHANGED <<rpc, backlog, acc_conn, refused, closed, pending, hand,
                    conns, live_conns>>
    BY <1>1 DEF WorkerCheck, WorkerQueueEmpty, WorkerMark, WorkerDeadline, WorkerPollReturn,
       WorkerPassEnd, VisitStuck, flags, accVars, accLocals, connVars, queues
  <2>2. Held' = Held BY <2>1 DEF Held, At
  <2> QED BY <2>1, <2>2, StaysPutSafe DEF StaysPut
<1>2. CASE WorkerPop(w) BY <1>2, WorkerPopSafe
<1>3. CASE WorkerAdopt(w)
  BY <1>3, HandSafe DEF WorkerAdopt, accVars, accLocals, queues
<1>4. CASE WorkerAdoptFail(w)
  BY <1>4, HandSafe DEF WorkerAdoptFail, Release, accVars, accLocals,
     connVars
<1>5. ASSUME NEW c \in Conns, VisitDrained(w, c) \/ VisitDropped(w, c) PROVE Safe'
  BY <1>5, CloseAdoptedSafe DEF VisitDrained, VisitDropped
<1> QED
  BY <1>1, <1>2, <1>3, <1>4, <1>5 DEF WorkerStep, WorkerOwnStep

\* The destructor closes what is still adopted or refused, all at once.
LEMMA DestroySafe ==
    ASSUME Typed, Safe, NEW t \in Ctl, DestroyMembers(t) PROVE Safe'
<1> DEFINE S == Open \cup refused
           q == <<"closed", 0>>
<1>1. q \in Places /\ q \notin SlotPlaces BY PlaceNames
<1>2. Owned(Held) BY DEF Safe, OneOwner
<1>3. \A d \in S : \E r \in Places : r[1] \in {"open", "refused"} /\ d \in Held[r]
  <2>1. ASSUME NEW w \in Workers, NEW d \in conns[w]
        PROVE  \E r \in Places : r[1] \in {"open", "refused"} /\ d \in Held[r]
    <3>1. <<"open", w>> \in Places /\ d \in Held[<<"open", w>>]
      BY PlaceNames DEF Held, At
    <3> QED BY <3>1
  <2>2. ASSUME NEW d \in refused
        PROVE  \E r \in Places : r[1] \in {"open", "refused"} /\ d \in Held[r]
    <3>1. <<"refused", 0>> \in Places /\ d \in Held[<<"refused", 0>>]
      BY PlaceNames DEF Held, At
    <3> QED BY <3>1
  <2> QED BY <2>1, <2>2 DEF Open
<1>4. \A p \in Places : p[1] \notin {"open", "refused"} => Held[p] \cap S = {}
  <2>1. S \subseteq Conns BY DEF Typed, TypeOK, Open
  <2> HIDE DEF S
  <2> QED BY <1>2, <1>3, <2>1 DEF Owned
<1>5. Held'[q] = Held[q] \cup S BY <1>1 DEF DestroyMembers, Leftover, Held, At
<1>6. \A p \in Places \ {q} : Held'[p] = Held[p] \ S
  <2> SUFFICES ASSUME NEW p \in Places \ {q} PROVE Held'[p] = Held[p] \ S
    OBVIOUS
  <2>1. CASE p[1] = "open"
    <3>1. p[2] \in Workers /\ Held[p] = conns[p[2]] /\ Held'[p] = conns'[p[2]]
      BY <2>1, PlaceParts DEF Held, At
    <3> QED BY <3>1 DEF DestroyMembers, Open
  <2>2. CASE p[1] = "refused" BY <2>2 DEF DestroyMembers, Held, At
  <2>3. CASE p[1] \notin {"open", "refused"}
    <3>1. Held'[p] = Held[p]
      BY <2>3, PlaceParts DEF DestroyMembers, flags, Held, At
    <3> QED BY <1>4, <2>3, <3>1
  <2> QED BY <2>1, <2>2, <2>3
<1>7. Owned(Held') /\ Slots' = Slots \ S
  <2>1. Relocated(Held, Held', S, q) BY <1>5, <1>6 DEF Relocated
  <2> HIDE DEF S, q
  <2> QED BY <1>1, <1>2, <2>1, Relocate DEF Slots
<1>8. Open \subseteq Slots
  <2> SUFFICES ASSUME NEW w \in Workers PROVE conns[w] \subseteq Slots
    BY DEF Open
  <2>1. <<"open", w>> \in SlotPlaces /\ Held[<<"open", w>>] = conns[w]
    BY PlaceNames DEF Held, At
  <2> QED BY <2>1 DEF Slots, SlotsOf
<1>9. Slots \cap refused = {}
  <2>1. \A p \in SlotPlaces : p # <<"refused", 0>> /\ p \in Places
    BY PlaceNames DEF SlotPlaces
  <2>2. <<"refused", 0>> \in Places /\ Held[<<"refused", 0>>] = refused
    BY PlaceNames DEF Held, At
  <2>3. refused \subseteq Conns BY DEF Typed, TypeOK
  <2> QED BY <1>2, <2>1, <2>2, <2>3 DEF Slots, SlotsOf, Owned
<1>10. Slots' = Slots \ Open BY <1>7, <1>9
<1>11. /\ Cardinality(Slots \ Open) = Cardinality(Slots) - Cardinality(Open)
       /\ Cardinality(Open) \in Nat
  <2>1. IsFiniteSet(Slots) BY SlotsFinite
  <2>2. IsFiniteSet(Open) /\ Slots \cap Open = Open BY <1>8, <2>1, FS_Subset
  <2>3. Cardinality(Slots \ Open) = Cardinality(Slots) - Cardinality(Slots \cap Open)
    BY <2>1, <2>2, FS_Difference
  <2> QED BY <2>2, <2>3, FS_CardinalityType
<1>12. live_conns' = live_conns - Cardinality(Open) BY DEF DestroyMembers
<1>13. LiveExact' BY <1>10, <1>11, <1>12 DEF Safe, LiveExact
<1>14. CapInv'
  <2>1. rpc' = rpc BY DEF DestroyMembers
  <2>2. live_conns' \in Int /\ live_conns' <= live_conns
    BY <1>11, <1>12 DEF Typed, TypeOK
  <2> QED BY <2>1, <2>2, ShardedAssumption DEF Safe, CapInv, Typed, TypeOK
<1>15. OneOwner' BY <1>7 DEF DestroyMembers, Safe, OneOwner
<1> QED BY <1>13, <1>14, <1>15 DEF Safe

\* So do drain(), stop() and the destructor.
LEMMA CtlSafe ==
    ASSUME Typed, Safe, NEW t \in Ctl, CtlStep(t) PROVE Safe'
<1>1. CASE DestroyMembers(t) BY <1>1, DestroySafe
<1>2. CASE \/ Stop(t) \/ Drain(t) \/ Destroy(t) \/ DrainPublish(t) \/ WakeGate(t)
           \/ WakeAll(t) \/ \E c \in Conns : WakeConn(t, c)
  <2>1. UNCHANGED <<rpc, backlog, acc_conn, refused, closed, pending, hand,
                    conns, live_conns>>
    BY <1>2 DEF Stop, Drain, Destroy, DrainPublish, WakeGate, WakeAll, WakeConn,
       accVars, accLocals, workVars, connVars, queues
  <2>2. Held' = Held BY <2>1 DEF Held, At
  <2> QED BY <2>1, <2>2, StaysPutSafe DEF StaysPut
<1> QED BY <1>1, <1>2 DEF CtlStep, CtlContinue

\* Every step keeps them.
LEMMA NextSafe == Typed /\ Safe /\ [Next]_vars => Safe'
<1> SUFFICES ASSUME Typed, Safe, [Next]_vars PROVE Safe'
  OBVIOUS
<1>1. CASE RunEnter \/ RunStep BY <1>1, RunSafe
<1>2. ASSUME NEW w \in Workers, WorkerStep(w) PROVE Safe' BY <1>2, WorkerSafe
<1>3. ASSUME NEW t \in Ctl, CtlStep(t) PROVE Safe' BY <1>3, CtlSafe
<1>4. CASE Expire \/ UNCHANGED vars
  <2>1. UNCHANGED <<rpc, backlog, acc_conn, refused, closed, pending, hand,
                    conns, live_conns>>
    BY <1>4 DEF Expire, vars, flags, accVars, accLocals, workVars, connVars, queues
  <2>2. Held' = Held BY <2>1 DEF Held, At
  <2> QED BY <2>1, <2>2, StaysPutSafe DEF StaysPut
<1>5. CASE Finished BY <1>4, <1>5 DEF Finished
<1> QED BY <1>1, <1>2, <1>3, <1>4, <1>5 DEF Next

\* They hold at the start.
LEMMA InitSafe == Init => Safe
<1> SUFFICES ASSUME Init PROVE Safe
  OBVIOUS
<1>1. \A p \in Places : Held[p] = IF p = <<"backlog", 0>> THEN Conns ELSE {}
  <2> SUFFICES ASSUME NEW p \in Places
               PROVE  Held[p] = IF p = <<"backlog", 0>> THEN Conns ELSE {}
    OBVIOUS
  <2>1. CASE p[1] = "queued"
    <3>1. p[2] \in Workers BY <2>1, PlaceParts
    <3>2. pending[p[2]] = <<>> BY <3>1 DEF Init
    <3>3. Held[p] = {pending[p[2]][i] : i \in DOMAIN pending[p[2]]}
      BY <2>1 DEF Held, At
    <3>4. DOMAIN pending[p[2]] = {} BY <3>2
    <3>5. p # <<"backlog", 0>> BY <2>1
    <3> QED BY <3>3, <3>4, <3>5
  <2>2. CASE p[1] \in {"hand", "open"}
    <3>1. p[2] \in Workers BY <2>2, PlaceParts
    <3>2. p # <<"backlog", 0>> BY <2>2
    <3>3. hand[p[2]] = NoConn /\ conns[p[2]] = {} BY <3>1 DEF Init
    <3> QED BY <2>2, <3>2, <3>3 DEF Held, At
  <2>3. CASE p[1] \notin {"queued", "hand", "open"}
    BY <2>3, PlaceParts DEF Init, Held, At
  <2> QED BY <2>1, <2>2, <2>3
<1>2. Owned(Held) BY <1>1, PlaceNames DEF Owned
<1>3. OneOwner BY <1>2 DEF Init, OneOwner
<1>4. Slots = {} BY <1>1, PlaceNames DEF Slots, SlotsOf, SlotPlaces
<1>5. LiveExact BY <1>4, FS_EmptySet DEF Init, LiveExact
<1>6. CapInv BY ShardedAssumption DEF Init, CapInv
<1> QED BY <1>3, <1>5, <1>6 DEF Safe

-----------------------------------------------------------------------------
(* The theorems.                                                           *)

\* The inductive invariant: types, hands, one owner, exact count, cap.
THEOREM Inductive == Spec => []IInv
<1>1. Init => Typed /\ Safe BY TypedInit, InitSafe
<1>2. Typed /\ Safe /\ [Next]_vars => (Typed /\ Safe)' BY TypedNext, NextSafe
<1>3. Typed /\ Safe => IInv BY DEF Typed, Safe, IInv
<1> QED BY <1>1, <1>2, <1>3, PTL DEF Spec

\* The hand-off never loses a descriptor, closes it twice or gives it two
\* owners, whatever the interleaving of acceptor, workers and control threads.
THEOREM DescriptorsHaveOneOwner == Spec => []OneOwner
<1>1. IInv => OneOwner BY DEF IInv
<1> QED BY <1>1, Inductive, PTL

\* live_conns_ is exact in every reachable state.
THEOREM LiveCountIsExact == Spec => []LiveExact
<1>1. IInv => LiveExact BY DEF IInv
<1> QED BY <1>1, Inductive, PTL

\* The cap is never exceeded: the acceptor is the only thread that increments
\* between its check and its increment.
THEOREM CapIsRespected == Spec => []CapRespected
<1>1. IInv => CapRespected BY DEF IInv, LiveExact, CapInv, CapRespected
<1> QED BY <1>1, Inductive, PTL
-----------------------------------------------------------------------------
(* The refinement of Admission.  Which connections hold a slot follows from *)
(* those that do not, and these are at places only the acceptor moves them  *)
(* between; so every step is an Admit, an End or a stutter of Admission.    *)

\* Who has no slot.
Outside ==
    backlog \cup refused \cup closed
      \cup IF rpc = "push" THEN {} ELSE {acc_conn} \ {NoConn}

\* A connection has a slot or is outside.
LEMMA SlotsComplement == IInv => Slots = Conns \ Outside
<1> SUFFICES ASSUME IInv PROVE Slots = Conns \ Outside
  OBVIOUS
<1>1. Owned(Held) /\ Typed BY DEF IInv, OneOwner, Typed
<1>2. \A c \in Conns : c \in Outside <=> \E p \in Places \ SlotPlaces : c \in Held[p]
  <2>1. /\ Held[<<"backlog", 0>>] = backlog /\ Held[<<"refused", 0>>] = refused
        /\ Held[<<"closed", 0>>] = closed
        /\ Held[<<"accepted", 0>>] = IF rpc = "push" THEN {} ELSE {acc_conn} \ {NoConn}
    BY PlaceNames DEF Held, At
  <2>2. Places \ SlotPlaces = {<<"backlog", 0>>, <<"refused", 0>>, <<"closed", 0>>,
                               <<"accepted", 0>>}
    BY DEF Places, SlotPlaces
  <2> QED BY <2>1, <2>2 DEF Outside
<1>3. \A c \in Conns : c \in Slots <=> ~ \E p \in Places \ SlotPlaces : c \in Held[p]
  BY <1>1 DEF Owned, Slots, SlotsOf, SlotPlaces
<1>4. Slots \subseteq Conns BY <1>1, SlotsFinite
<1> QED BY <1>2, <1>3, <1>4

\* No step but Reserve gives a slot; the others only close connections.
OnlyCloses == closed \subseteq closed' /\ Outside' = Outside \cup closed'

\* run() takes slots away only by closing, but for the step that reserves one.
LEMMA RunOnlyCloses ==
    ASSUME IInv, RunEnter \/ RunStep, ~ Reserve PROVE OnlyCloses
<1> USE DEF GoTo, flags, accVars, accLocals, workVars, connVars, ctlVars, queues
<1>1. CASE \/ RunEnter \/ RunSetRunning \/ RunSpawn \/ RunCheck \/ RunReadDraining
           \/ HandOffWake \/ AcceptorPassEnd \/ AcceptorDeadline \/ AcceptorDrained
           \/ AcceptorClear \/ RunExit \/ RunWakeWorkers \/ RunJoin \/ RunReturn
  <2>1. /\ rpc # "push" /\ rpc' # "push"
        /\ UNCHANGED <<backlog, acc_conn, refused, closed>>
    BY <1>1 DEF RunEnter, RunSetRunning, RunSpawn, RunCheck, RunReadDraining,
       HandOffWake, AcceptorPassEnd, AcceptorDeadline, AcceptorDrained,
       AcceptorClear, RunExit, RunWakeWorkers, RunJoin, RunReturn
  <2> QED BY <2>1 DEF OnlyCloses, Outside
<1>2. CASE AcceptorPollReturn
  BY <1>2 DEF AcceptorPollReturn, OnlyCloses, Outside
<1>3. ASSUME NEW c \in Conns, Accept(c) PROVE OnlyCloses
  <2>1. acc_conn = NoConn /\ c # NoConn /\ rpc = "sweep"
    BY <1>3, ShardedAssumption DEF Accept, IInv, HandsInv
  <2>2. CASE draining
    BY <1>3, <2>1, <2>2 DEF Accept, Refusing, Refuse, OnlyCloses, Outside
  <2>3. CASE ~ draining
    BY <1>3, <2>1, <2>3 DEF Accept, Refusing, OnlyCloses, Outside
  <2> QED BY <2>2, <2>3
<1>4. CASE CapCheck
  <2>1. acc_conn # NoConn BY <1>4 DEF CapCheck, IInv, HandsInv
  <2> QED BY <1>4, <2>1 DEF CapCheck, Refuse, OnlyCloses, Outside
<1>5. CASE Push BY <1>5 DEF Push, OnlyCloses, Outside
<1>6. ASSUME NEW w \in Workers, RunCloseQueued(w) PROVE OnlyCloses
  BY <1>6 DEF RunCloseQueued, OnlyCloses, Outside
<1> QED BY <1>1, <1>2, <1>3, <1>4, <1>5, <1>6 DEF RunStep

\* So does everyone else.
LEMMA OthersOnlyClose ==
    ASSUME IInv,
           \/ \E w \in Workers : WorkerStep(w)
           \/ \E t \in Ctl : CtlStep(t)
           \/ Expire \/ Finished \/ UNCHANGED vars
    PROVE  OnlyCloses
<1> USE DEF flags, accVars, accLocals, workVars, connVars, ctlVars, queues
<1>1. ASSUME UNCHANGED <<rpc, acc_conn, backlog, refused, closed>> PROVE OnlyCloses
  BY <1>1 DEF OnlyCloses, Outside
<1>2. ASSUME UNCHANGED <<rpc, acc_conn, backlog, refused>>,
             NEW c, closed' = closed \cup {c}
      PROVE  OnlyCloses
  BY <1>2 DEF OnlyCloses, Outside
<1>3. ASSUME NEW w \in Workers, WorkerStep(w) PROVE OnlyCloses
  <2>1. CASE \/ WorkerCheck(w) \/ WorkerPop(w) \/ WorkerQueueEmpty(w) \/ WorkerAdopt(w)
             \/ WorkerMark(w) \/ WorkerDeadline(w) \/ WorkerPollReturn(w)
             \/ WorkerPassEnd(w) \/ \E c \in Conns : VisitStuck(w, c)
    BY <1>1, <2>1 DEF WorkerCheck, WorkerPop, WorkerQueueEmpty, WorkerAdopt, WorkerMark,
       WorkerDeadline, WorkerPollReturn, WorkerPassEnd, VisitStuck
  <2>2. CASE WorkerAdoptFail(w) BY <1>2, <2>2 DEF WorkerAdoptFail
  <2>3. ASSUME NEW c \in Conns, VisitDrained(w, c) \/ VisitDropped(w, c)
        PROVE  OnlyCloses
    BY <1>2, <2>3 DEF VisitDrained, VisitDropped, CloseAdopted
  <2> QED BY <1>3, <2>1, <2>2, <2>3 DEF WorkerStep, WorkerOwnStep
<1>4. ASSUME NEW t \in Ctl, CtlStep(t) PROVE OnlyCloses
  <2>1. CASE DestroyMembers(t)
    BY <2>1 DEF DestroyMembers, Leftover, OnlyCloses, Outside
  <2>2. CASE \/ Stop(t) \/ Drain(t) \/ Destroy(t) \/ DrainPublish(t) \/ WakeGate(t)
             \/ WakeAll(t) \/ \E c \in Conns : WakeConn(t, c)
    BY <1>1, <2>2 DEF Stop, Drain, Destroy, DrainPublish, WakeGate, WakeAll, WakeConn
  <2> QED BY <1>4, <2>1, <2>2 DEF CtlStep, CtlContinue
<1>5. CASE Expire \/ Finished \/ UNCHANGED vars
  BY <1>1, <1>5 DEF Expire, Finished, vars
<1> QED BY <1>3, <1>4, <1>5

\* Reserving a slot is admitting a connection below the cap.
LEMMA ReserveAdmits ==
    ASSUME IInv, IInv', Slots = Conns \ Outside, Slots' = Conns \ Outside', Reserve
    PROVE  Adm!Admit(acc_conn)
<1>1. /\ acc_conn \in Conns /\ acc_conn # NoConn /\ acc_conn \in Outside
      /\ Outside' = backlog \cup refused \cup closed
      /\ live_conns' = live_conns + 1 /\ closed' = closed
      /\ MaxConns > 0 => live_conns < MaxConns
  BY DEF Reserve, GoTo, accLocals, queues, IInv, TypeOK, HandsInv, CapInv, Outside
<1>2. acc_conn \notin backlog \cup refused \cup closed
  <2>1. /\ Held[<<"backlog", 0>>] = backlog /\ Held[<<"refused", 0>>] = refused
        /\ Held[<<"closed", 0>>] = closed /\ acc_conn \in Held[<<"accepted", 0>>]
    BY <1>1, PlaceNames DEF Reserve, Held, At
  <2> QED BY <1>1, <2>1, PlaceNames DEF IInv, OneOwner, Owned
<1>3. Slots' = Slots \cup {acc_conn}
  <2>1. Outside = Outside' \cup {acc_conn} BY <1>1 DEF Outside, Reserve
  <2> QED BY <1>1, <1>2, <2>1
<1> QED BY <1>1, <1>2, <1>3 DEF Adm!Admit

\* Closing a connection that has a slot is the end of its admission.
LEMMA ClosingEnds ==
    ASSUME IInv, IInv', Slots = Conns \ Outside, Slots' = Conns \ Outside', OnlyCloses
    PROVE  Adm!End(closed' \ closed)
<1> DEFINE S == closed' \ closed
<1>1. S \subseteq Conns \ closed /\ closed' = closed \cup S
  BY DEF IInv, TypeOK, OnlyCloses
<1>2. Slots' = Slots \ S
  BY DEF OnlyCloses, Outside
<1>3. IsFiniteSet(Slots) BY SlotsFinite DEF IInv, Typed
<1>4. Cardinality(Slots \ S) = Cardinality(Slots) - Cardinality(Slots \cap S)
  BY <1>3, FS_Difference
<1>5. S \cap Slots = Slots \cap S OBVIOUS
<1>6. live_conns' = live_conns - Cardinality(S \cap Slots)
  BY <1>2, <1>4, <1>5 DEF IInv, LiveExact
<1>7. Adm!End(S)
  <2>1. Adm!Cardinality(S \cap Slots) = Cardinality(S \cap Slots)
    BY DEF Adm!Cardinality, Cardinality
  <2> HIDE DEF S
  <2> QED BY <1>1, <1>2, <1>6, <2>1 DEF Adm!End
<1> QED BY <1>7

\* Every step of the manager is a step of admission, or none.
LEMMA StepAdmits ==
    ASSUME IInv, IInv', Slots = Conns \ Outside, Slots' = Conns \ Outside', [Next]_vars
    PROVE  Adm!Next
<1>1. CASE Reserve
  <2>1. acc_conn \in Conns BY <1>1 DEF Reserve, IInv, TypeOK, HandsInv
  <2> QED BY <1>1, <2>1, ReserveAdmits DEF Adm!Next
<1>2. CASE ~ Reserve
  <2>1. OnlyCloses BY <1>2, RunOnlyCloses, OthersOnlyClose DEF Next
  <2>2. closed' \ closed \in SUBSET Conns BY DEF IInv, TypeOK
  <2> QED BY <2>1, <2>2, ClosingEnds DEF Adm!Next
<1> QED BY <1>1, <1>2

\* ShardedManager does what Admission promises, for every instance.
THEOREM Refinement == Spec => ImplementsAdmission
<1>1. Init => Adm!Init
  <2> SUFFICES ASSUME Init PROVE Slots = {} /\ closed = {} /\ live_conns = 0
    BY DEF Adm!Init
  <2>1. Typed /\ Safe BY TypedInit, InitSafe
  <2>2. Slots = Conns \ Outside BY <2>1, SlotsComplement DEF IInv, Typed, Safe
  <2> QED BY <2>2 DEF Init, Outside
<1>2. IInv /\ IInv' /\ (IInv => Slots = Conns \ Outside)
        /\ (IInv => Slots = Conns \ Outside)' /\ [Next]_vars
      => [Adm!Next]_<<Slots, closed, live_conns>>
  BY StepAdmits
<1> QED
  BY <1>1, <1>2, Inductive, SlotsComplement, PTL
  DEF Spec, ImplementsAdmission, Adm!Spec

-----------------------------------------------------------------------------
(* drain(), the end of run() and the destructor. *)

\* IInv holds before and after every step of a behaviour.
LEMMA StepIInv == IInv /\ [Next]_vars => IInv'
<1> SUFFICES ASSUME IInv, [Next]_vars PROVE IInv'
  OBVIOUS
<1>1. Typed /\ Safe BY DEF IInv, Typed, Safe
<1>2. Typed' /\ Safe' BY <1>1, TypedNext, NextSafe
<1> QED BY <1>2 DEF IInv, Typed, Safe

\* Initially IInv holds.
LEMMA InitIInv == Init => IInv
BY TypedInit, InitSafe DEF IInv, Typed, Safe

-----------------------------------------------------------------------------
(* A draining worker has marked what it has.                               *)

\* The strengthening covers the step between the marking and the poll().
Marking == {"deadline", "dpoll"}
\* A worker that has marked its connections leaves none unmarked.
MarkInv == \A w \in Workers : wpc[w] \in Marking => conns[w] \subseteq is_draining

\* Two workers never have a connection both.
LEMMA OpenApart ==
    ASSUME IInv, NEW v \in Workers, NEW w \in Workers, v # w
    PROVE  conns[v] \cap conns[w] = {}
<1>1. /\ <<"open", v>> \in Places /\ Held[<<"open", v>>] = conns[v]
      /\ <<"open", w>> \in Places /\ Held[<<"open", w>>] = conns[w]
  BY PlaceNames DEF Held, At
<1>2. conns[v] \subseteq Conns BY DEF IInv, TypeOK
<1>3. <<"open", v>> # <<"open", w>> OBVIOUS
<1> QED BY <1>1, <1>2, <1>3 DEF IInv, OneOwner, Owned

\* A worker keeps what it has marked.
LEMMA MarkWorker ==
    ASSUME IInv, MarkInv, NEW w \in Workers, WorkerStep(w) PROVE MarkInv'
<1> USE DEF Marking, MarkInv, WorkerGoTo, connVars
<1>1. wpc \in [Workers -> WorkerPCs] /\ conns \in [Workers -> SUBSET Conns]
  BY DEF IInv, TypeOK
<1>2. CASE \/ WorkerCheck(w) \/ WorkerPop(w) \/ WorkerQueueEmpty(w)
           \/ WorkerPollReturn(w) \/ WorkerPassEnd(w)
  BY <1>1, <1>2 DEF WorkerCheck, WorkerPop, WorkerQueueEmpty, WorkerPollReturn,
     WorkerPassEnd
<1>3. CASE \E c \in Conns : VisitStuck(w, c) BY <1>3 DEF VisitStuck
<1>4. CASE WorkerAdopt(w) \/ WorkerAdoptFail(w)
  BY <1>1, <1>4 DEF WorkerAdopt, WorkerAdoptFail
<1>5. CASE WorkerMark(w) BY <1>1, <1>5 DEF WorkerMark, Marked
<1>6. CASE WorkerDeadline(w) BY <1>1, <1>6 DEF WorkerDeadline
<1>7. ASSUME NEW c \in Conns, VisitDrained(w, c) \/ VisitDropped(w, c) PROVE MarkInv'
  <2>1. /\ wpc[w] = "sweep" /\ c \in conns[w] /\ wpc' = wpc
        /\ conns' = [conns EXCEPT ![w] = @ \ {c}]
        /\ is_draining' = is_draining \ {c}
    BY <1>7 DEF VisitDrained, VisitDropped, CloseAdopted
  <2>2. \A v \in Workers \ {w} : c \notin conns[v] BY <2>1, OpenApart
  <2> QED BY <1>1, <2>1, <2>2
<1> QED
  BY <1>2, <1>3, <1>4, <1>5, <1>6, <1>7 DEF WorkerStep, WorkerOwnStep

\* Every step keeps what was marked.
LEMMA MarkNext == IInv /\ MarkInv /\ [Next]_vars => MarkInv'
<1> SUFFICES ASSUME IInv, MarkInv, [Next]_vars PROVE MarkInv'
  OBVIOUS
<1> USE DEF Marking, MarkInv
<1>1. ASSUME UNCHANGED <<wpc, conns, is_draining>> PROVE MarkInv'
  BY <1>1
<1>2. ASSUME NEW w \in Workers, WorkerStep(w) PROVE MarkInv'
  BY <1>2, MarkWorker
<1>3. CASE RunEnter \/ RunStep
  <2>1. CASE RunSpawn BY <2>1 DEF RunSpawn
  <2>2. CASE ~ RunSpawn
    BY <1>1, <1>3, <2>2 DEF RunEnter, RunStep, RunSetRunning, RunCheck, RunReadDraining,
       AcceptorPollReturn, Accept, CapCheck, Reserve, Push, HandOffWake,
       AcceptorPassEnd, AcceptorDeadline, AcceptorDrained, AcceptorClear, RunExit,
       RunWakeWorkers, RunJoin, RunCloseQueued, RunReturn, workVars, connVars
  <2> QED BY <2>1, <2>2
<1>4. ASSUME NEW t \in Ctl, CtlStep(t) PROVE MarkInv'
  <2>1. CASE DestroyMembers(t) BY <2>1 DEF DestroyMembers
  <2>2. CASE ~ DestroyMembers(t)
    BY <1>1, <1>4, <2>2 DEF CtlStep, CtlContinue, Stop, Drain, Destroy, DrainPublish,
       WakeGate, WakeAll, WakeConn, workVars, connVars
  <2> QED BY <2>1, <2>2
<1>5. CASE Expire \/ Finished \/ UNCHANGED vars
  BY <1>1, <1>5 DEF Expire, Finished, vars, workVars, connVars
<1> QED BY <1>2, <1>3, <1>4, <1>5 DEF Next

\* A worker that saw draining_ never waits in poll() with a connection it has
\* not marked (mark_draining and the loop of run()).
THEOREM DrainReachesAll == Spec => []DrainMarksAll
<1>1. Init => MarkInv BY DEF Init, MarkInv, Marking
<1>2. MarkInv => DrainMarksAll BY DEF MarkInv, Marking, DrainMarksAll
<1> QED BY <1>1, <1>2, MarkNext, Inductive, PTL DEF Spec

-----------------------------------------------------------------------------
(* Nothing is admitted once draining_ is published.                        *)

\* Who was not admitted, or has been closed.
Away == backlog \cup refused \cup closed

\* A connection is admitted or away.
LEMMA AdmittedComplement == IInv => Admitted = Conns \ Away
<1> SUFFICES ASSUME IInv PROVE Admitted = Conns \ Away
  OBVIOUS
<1> DEFINE A == At(<<"accepted", 0>>)
<1>1. Slots = Conns \ (Away \cup A)
  BY SlotsComplement DEF Outside, Away, At
<1>2. /\ Held[<<"backlog", 0>>] = backlog /\ Held[<<"refused", 0>>] = refused
      /\ Held[<<"closed", 0>>] = closed /\ Held[<<"accepted", 0>>] = A
  BY PlaceNames DEF Held, At
<1>3. A \subseteq Conns BY DEF At, IInv, TypeOK
<1> HIDE DEF A
<1>4. A \cap Away = {}
  BY <1>2, <1>3, PlaceNames DEF IInv, OneOwner, Owned, Away
<1> QED BY <1>1, <1>3, <1>4 DEF Admitted, A

\* Under a drain nobody comes back from there.
LEMMA AwayGrows == IInv /\ [Next]_vars /\ draining => Away \subseteq Away'
<1> SUFFICES ASSUME IInv, [Next]_vars, draining PROVE Away \subseteq Away'
  OBVIOUS
<1> USE DEF flags, accVars, accLocals, workVars, connVars, ctlVars, queues
<1>1. ASSUME UNCHANGED <<backlog, refused>>, closed \subseteq closed'
      PROVE  Away \subseteq Away'
  BY <1>1 DEF Away
<1>2. CASE RunEnter \/ RunStep
  <2>1. CASE AcceptorPollReturn BY <2>1 DEF AcceptorPollReturn, Away
  <2>2. ASSUME NEW c \in Conns, Accept(c) PROVE Away \subseteq Away'
    BY <2>2 DEF Accept, Refusing, Refuse, Away
  <2>3. CASE CapCheck BY <2>3 DEF CapCheck, Refuse, Away
  <2>4. ASSUME NEW w \in Workers, RunCloseQueued(w) PROVE Away \subseteq Away'
    BY <1>1, <2>4 DEF RunCloseQueued
  <2>5. CASE \/ RunEnter \/ RunSetRunning \/ RunSpawn \/ RunCheck \/ RunReadDraining
             \/ Reserve \/ Push \/ HandOffWake \/ AcceptorPassEnd \/ AcceptorDeadline
             \/ AcceptorDrained \/ AcceptorClear \/ RunExit \/ RunWakeWorkers
             \/ RunJoin \/ RunReturn
    BY <1>1, <2>5 DEF RunEnter, RunSetRunning, RunSpawn, RunCheck, RunReadDraining,
       Reserve, Push, HandOffWake, AcceptorPassEnd, AcceptorDeadline,
       AcceptorDrained, AcceptorClear, RunExit, RunWakeWorkers, RunJoin, RunReturn
  <2> QED BY <1>2, <2>1, <2>2, <2>3, <2>4, <2>5 DEF RunStep
<1>3. ASSUME NEW w \in Workers, WorkerStep(w) PROVE Away \subseteq Away'
  BY <1>1, <1>3 DEF WorkerStep, WorkerOwnStep, WorkerCheck, WorkerPop,
     WorkerQueueEmpty, WorkerAdopt, WorkerAdoptFail, WorkerMark, WorkerDeadline,
     WorkerPollReturn, WorkerPassEnd, VisitStuck, VisitDrained, VisitDropped,
     CloseAdopted
<1>4. ASSUME NEW t \in Ctl, CtlStep(t) PROVE Away \subseteq Away'
  <2>1. CASE DestroyMembers(t) BY <2>1 DEF DestroyMembers, Leftover, Away
  <2>2. CASE ~ DestroyMembers(t)
    BY <1>1, <1>4, <2>2 DEF CtlStep, CtlContinue, Stop, Drain, Destroy, DrainPublish,
       WakeGate, WakeAll, WakeConn
  <2> QED BY <2>1, <2>2
<1>5. CASE Expire \/ Finished \/ UNCHANGED vars
  BY <1>1, <1>5 DEF Expire, Finished, vars
<1> QED BY <1>2, <1>3, <1>4, <1>5 DEF Next

\* From the moment draining_ is published no further connection is on its way
\* to a worker: the accept handler reads the flag itself, not the copy the
\* acceptor took before it polled.
THEOREM DrainClosesTheDoor == Spec => DrainAdmitsNoMore
<1>1. IInv /\ IInv' /\ (IInv => Admitted = Conns \ Away)
        /\ (IInv => Admitted = Conns \ Away)' /\ [Next]_vars
      => [draining => Admitted' \subseteq Admitted]_vars
  BY AwayGrows
<1> QED
  BY <1>1, Inductive, AdmittedComplement, PTL DEF Spec, DrainAdmitsNoMore
-----------------------------------------------------------------------------
(* The end of run() and the destructor.                                    *)

\* Outside of run() the queues are empty, and nothing is open once the
\* destructor has released the members; no thread runs after that.
RestInv ==
    /\ rpc = "idle" => pending = [w \in Workers |-> <<>>]
    /\ destroyed => /\ rpc = "idle" /\ refused = {}
                    /\ conns = [w \in Workers |-> {}]

\* While run() is not active, no worker takes a step.
LEMMA WorkersAtRest ==
    ASSUME IInv, rpc = "idle", NEW w \in Workers PROVE ~ WorkerStep(w)
<1>1. wpc[w] \in {"none", "done"} BY DEF IInv, HandsInv
<1> QED
  BY <1>1 DEF WorkerStep, WorkerOwnStep, WorkerCheck, WorkerPop, WorkerQueueEmpty,
     WorkerAdopt, WorkerAdoptFail, WorkerMark, WorkerDeadline, WorkerPollReturn,
     WorkerPassEnd, VisitStuck, VisitDrained, VisitDropped

\* A step keeps what is left when run() and the destructor return.
LEMMA RestNext == IInv /\ RestInv /\ [Next]_vars => RestInv'
<1> SUFFICES ASSUME IInv, RestInv, [Next]_vars PROVE RestInv'
  OBVIOUS
<1> USE DEF flags, accVars, accLocals, workVars, connVars, ctlVars, queues
<1>1. ASSUME UNCHANGED <<rpc, pending, destroyed, refused, conns>> PROVE RestInv'
  BY <1>1 DEF RestInv
<1>2. ASSUME RunStep PROVE RestInv'
  <2>1. rpc # "idle" /\ ~ destroyed /\ destroyed' = destroyed
    BY <1>2 DEF RestInv, RunStep, RunSetRunning, RunSpawn, RunCheck, RunReadDraining,
       AcceptorPollReturn, Accept, CapCheck, Reserve, Push, HandOffWake,
       AcceptorPassEnd, AcceptorDeadline, AcceptorDrained, AcceptorClear, RunExit,
       RunWakeWorkers, RunJoin, RunCloseQueued, RunReturn
  <2>2. CASE RunReturn
    BY <2>1, <2>2 DEF RunReturn, QueuesEmpty, RestInv, IInv, TypeOK
  <2>3. CASE ~ RunReturn
    <3>1. rpc' # "idle"
      BY <1>2, <2>3 DEF RunStep, RunSetRunning, RunSpawn, RunCheck, RunReadDraining,
         AcceptorPollReturn, Accept, CapCheck, Reserve, Push, HandOffWake,
         AcceptorPassEnd, AcceptorDeadline, AcceptorDrained, AcceptorClear, RunExit,
         RunWakeWorkers, RunJoin, RunCloseQueued, GoTo
    <3> QED BY <2>1, <3>1 DEF RestInv
  <2> QED BY <2>2, <2>3
<1>3. ASSUME RunEnter PROVE RestInv'
  BY <1>3 DEF RunEnter, GoTo, InDestructor, RestInv
<1>4. ASSUME NEW w \in Workers, WorkerStep(w) PROVE RestInv'
  <2>1. rpc # "idle" BY <1>4, WorkersAtRest
  <2>2. rpc' = rpc /\ destroyed' = destroyed
    BY <1>4 DEF WorkerStep, WorkerOwnStep, WorkerCheck, WorkerPop, WorkerQueueEmpty,
       WorkerAdopt, WorkerAdoptFail, WorkerMark, WorkerDeadline, WorkerPollReturn,
       WorkerPassEnd, VisitStuck, VisitDrained, VisitDropped, CloseAdopted
  <2> QED BY <2>1, <2>2 DEF RestInv
<1>5. ASSUME NEW t \in Ctl, CtlStep(t) PROVE RestInv'
  <2>1. CASE DestroyMembers(t)
    <3>1. rpc = "idle" BY <2>1 DEF DestroyMembers, IInv, HandsInv
    <3> QED BY <2>1, <3>1 DEF DestroyMembers, RestInv
  <2>2. CASE ~ DestroyMembers(t)
    BY <1>1, <1>5, <2>2 DEF CtlStep, CtlContinue, Stop, Drain, Destroy, DrainPublish,
       WakeGate, WakeAll, WakeConn
  <2> QED BY <2>1, <2>2
<1>6. CASE Expire \/ Finished \/ UNCHANGED vars
  BY <1>1, <1>6 DEF Expire, Finished, vars
<1> QED BY <1>2, <1>3, <1>4, <1>5, <1>6 DEF Next

\* It holds at the start.
LEMMA RestInit == Init => RestInv
BY DEF Init, RestInv

\* When run() has returned, and when the destructor has released the members,
\* no thread is in any queue, hand or pass: what is freed is not in use.
THEOREM RunLeavesNothingBehind == Spec => []Quiescent
<1>1. IInv /\ RestInv => Quiescent
  <2> SUFFICES ASSUME IInv, RestInv, rpc = "idle" PROVE Quiescent
    BY DEF RestInv, Quiescent
  <2>1. acc_conn = NoConn /\ ~ run_active BY DEF IInv, HandsInv
  <2>2. ASSUME NEW w \in Workers
        PROVE  wpc[w] \in {"none", "done"} /\ pending[w] = <<>> /\ hand[w] = NoConn
    BY DEF IInv, HandsInv, RestInv
  <2> QED BY <2>1, <2>2 DEF Quiescent
<1> QED BY <1>1, Inductive, RestInit, RestNext, PTL DEF Spec

\* The destructor closes every connection ever accepted, and ends with the
\* count of live connections at zero.
THEOREM DestructorClosesAll == Spec => []DestroyedClean
<1>1. IInv /\ RestInv => DestroyedClean
  <2> SUFFICES ASSUME IInv, RestInv, destroyed
               PROVE  live_conns = 0 /\ closed = Conns \ backlog
    BY DEF DestroyedClean
  <2>1. rpc = "idle" /\ acc_conn = NoConn BY DEF RestInv, IInv, HandsInv
  <2>2. \A p \in SlotPlaces : Held[p] = {}
    <3> SUFFICES ASSUME NEW p \in SlotPlaces PROVE Held[p] = {}
      OBVIOUS
    <3>1. p \in Places /\ p[1] \in {"reserved", "queued", "hand", "open"}
      BY DEF SlotPlaces
    <3>2. CASE p[1] = "reserved" BY <2>1, <3>1, <3>2 DEF Held, At
    <3>3. CASE p[1] = "queued"
      <4>1. pending[p[2]] = <<>> BY <2>1, <3>1, <3>3, PlaceParts DEF RestInv
      <4>2. Held[p] = {pending[p[2]][i] : i \in DOMAIN pending[p[2]]}
        BY <3>1, <3>3 DEF Held, At
      <4>3. DOMAIN pending[p[2]] = {} BY <4>1
      <4> QED BY <4>2, <4>3
    <3>4. CASE p[1] = "hand"
      <4>1. hand[p[2]] = NoConn
        BY <2>1, <3>1, <3>4, PlaceParts DEF IInv, HandsInv
      <4> QED BY <3>1, <3>4, <4>1 DEF Held, At
    <3>5. CASE p[1] = "open"
      <4>1. conns[p[2]] = {} BY <3>1, <3>5, PlaceParts DEF RestInv
      <4> QED BY <3>1, <3>5, <4>1 DEF Held, At
    <3> QED BY <3>1, <3>2, <3>3, <3>4, <3>5
  <2>3. Slots = {} BY <2>2 DEF Slots, SlotsOf
  <2>4. live_conns = 0 BY <2>3, FS_EmptySet DEF IInv, LiveExact
  <2>5. Conns = backlog \cup closed
    <3>1. Conns \subseteq Outside BY <2>3, SlotsComplement
    <3> QED BY <2>1, <3>1 DEF Outside, RestInv, IInv, TypeOK
  <2>6. backlog \cap closed = {}
    <3>1. Held[<<"backlog", 0>>] = backlog /\ Held[<<"closed", 0>>] = closed
      BY PlaceNames DEF Held, At
    <3>2. closed \subseteq Conns BY DEF IInv, TypeOK
    <3> QED BY <3>1, <3>2, PlaceNames DEF IInv, OneOwner, Owned
  <2> QED BY <2>4, <2>5, <2>6
<1> QED BY <1>1, Inductive, RestInit, RestNext, PTL DEF Spec

-----------------------------------------------------------------------------
(* A drain that is not cut short serves every connection.                  *)

\* Where run() is once its loop has ended.
Leaving == {"clear", "exit", "exitWake", "join", "closeq"}

\* Unless somebody cut in, running_ is cleared by the acceptor alone, and only
\* after it read a count of zero.
ServedInv ==
    ~ aborted =>
        /\ drain_deadline # "past"
        /\ rpc \in Leaving \/ (rpc = "top" /\ ~ running) => Slots = {}
        /\ ~ running => rpc \in {"idle", "entered", "top"} \cup (Leaving \ {"clear"})

\* The same in the next state.
LEMMA SlotsComplementNext == (IInv => Slots = Conns \ Outside)'
BY SlotsComplement, PTL

\* Only reserving one adds a slot.
LEMMA SlotsShrink == IInv /\ [Next]_vars /\ ~ Reserve => Slots' \subseteq Slots
<1> SUFFICES ASSUME IInv, [Next]_vars, ~ Reserve PROVE Slots' \subseteq Slots
  OBVIOUS
<1>1. Slots = Conns \ Outside BY SlotsComplement
<1>2. Slots' = Conns \ Outside'
  <2>1. IInv' BY StepIInv
  <2> QED BY <2>1, SlotsComplementNext
<1>3. OnlyCloses BY RunOnlyCloses, OthersOnlyClose DEF Next
<1> QED BY <1>1, <1>2, <1>3 DEF OnlyCloses

\* run() leaves its loop, draining, only without slots.
LEMMA ServedRun ==
    ASSUME IInv, ServedInv, RunEnter \/ RunStep, ~ Reserve => Slots' \subseteq Slots
    PROVE  ServedInv'
<1> USE DEF ServedInv, Leaving, GoTo, flags, ctlVars
<1>1. aborted' = aborted /\ drain_deadline' = drain_deadline
  BY DEF RunEnter, RunStep, RunSetRunning, RunSpawn, RunCheck, RunReadDraining,
     AcceptorPollReturn, Accept, CapCheck, Reserve, Push, HandOffWake,
     AcceptorPassEnd, AcceptorDeadline, AcceptorDrained, AcceptorClear, RunExit,
     RunWakeWorkers, RunJoin, RunCloseQueued, RunReturn
<1> SUFFICES ASSUME ~ aborted PROVE ServedInv'
  BY <1>1
<1>2. CASE RunEnter \/ RunSetRunning \/ RunSpawn
  BY <1>1, <1>2 DEF RunEnter, RunSetRunning, RunSpawn
<1>3. CASE RunCheck
  BY <1>1, <1>3 DEF RunCheck, KeepRunning, Reserve
<1>4. CASE \/ RunReadDraining \/ AcceptorPollReturn \/ CapCheck \/ Reserve \/ Push
           \/ HandOffWake \/ AcceptorPassEnd \/ AcceptorDeadline
           \/ \E c \in Conns : Accept(c)
  BY <1>1, <1>4 DEF RunReadDraining, AcceptorPollReturn, CapCheck, Reserve, Push,
     HandOffWake, AcceptorPassEnd, AcceptorDeadline, Accept
<1>5. CASE AcceptorDrained
  <2>1. live_conns = 0 => Slots = {}
    <3>1. IsFiniteSet(Slots) BY SlotsFinite DEF IInv, Typed
    <3> QED BY <3>1, FS_EmptySet DEF IInv, LiveExact
  <2> QED BY <1>1, <1>5, <2>1 DEF AcceptorDrained, AllServed, Reserve
<1>6. CASE AcceptorClear BY <1>1, <1>6 DEF AcceptorClear, Reserve
<1>7. CASE \/ RunExit \/ RunWakeWorkers \/ RunJoin \/ RunReturn
           \/ \E w \in Workers : RunCloseQueued(w)
  BY <1>1, <1>7 DEF RunExit, RunWakeWorkers, RunJoin, RunReturn, RunCloseQueued, Reserve,
     accVars
<1> QED BY <1>2, <1>3, <1>4, <1>5, <1>6, <1>7 DEF RunStep

\* Every step keeps that.
LEMMA ServedNext == IInv /\ ServedInv /\ [Next]_vars => ServedInv'
<1> SUFFICES ASSUME IInv, ServedInv, [Next]_vars PROVE ServedInv'
  OBVIOUS
<1> USE DEF flags, accVars, ctlVars
<1>1. ~ Reserve => Slots' \subseteq Slots BY SlotsShrink
<1>2. CASE RunEnter \/ RunStep BY <1>1, <1>2, ServedRun
<1>3. ASSUME UNCHANGED <<rpc, running, drain_deadline, aborted>> PROVE ServedInv'
  BY <1>1, <1>3 DEF ServedInv, Leaving, Reserve, GoTo
<1>4. ASSUME NEW w \in Workers, WorkerStep(w) PROVE ServedInv'
  <2>1. CASE WorkerDeadline(w)
    <3>1. ~ aborted => running' = running
      BY <2>1 DEF WorkerDeadline, ServedInv, IInv, TypeOK
    <3> QED BY <1>1, <2>1, <3>1 DEF WorkerDeadline, ServedInv, Leaving, Reserve, GoTo
  <2>2. CASE ~ WorkerDeadline(w)
    BY <1>3, <1>4, <2>2 DEF WorkerStep, WorkerOwnStep, WorkerCheck, WorkerPop,
       WorkerQueueEmpty, WorkerAdopt, WorkerAdoptFail, WorkerMark, WorkerPollReturn,
       WorkerPassEnd, VisitStuck, VisitDrained, VisitDropped, CloseAdopted
  <2> QED BY <2>1, <2>2
<1>5. ASSUME NEW t \in Ctl, CtlStep(t) PROVE ServedInv'
  <2>1. CASE Stop(t) \/ Destroy(t) BY <2>1 DEF Stop, Destroy, ServedInv
  <2>2. CASE Drain(t)
    BY <1>1, <2>2 DEF Drain, ServedInv, Leaving, Reserve, GoTo
  <2>3. CASE ~ Stop(t) /\ ~ Destroy(t) /\ ~ Drain(t)
    BY <1>3, <1>5, <2>3 DEF CtlStep, CtlContinue, DrainPublish, WakeGate, WakeAll,
       WakeConn, DestroyMembers
  <2> QED BY <2>1, <2>2, <2>3
<1>6. CASE Expire BY <1>6 DEF Expire, ServedInv
<1>7. CASE Finished \/ UNCHANGED vars
  BY <1>3, <1>7 DEF Finished, vars
<1> QED BY <1>2, <1>4, <1>5, <1>6, <1>7 DEF Next

\* drain(0) without a stop(): run() goes to its end only when every connection
\* handed to a worker has been served to its close.
THEOREM DrainServesAll == Spec => []DrainLosesNothing
<1>1. Init => ServedInv BY DEF Init, ServedInv, Leaving
<1>2. ServedInv => DrainLosesNothing
  BY DEF ServedInv, Leaving, DrainLosesNothing
<1> QED BY <1>1, <1>2, ServedNext, Inductive, PTL DEF Spec

-----------------------------------------------------------------------------
(* Ids lead home.                                                          *)

\* Division with a remainder.
LEMMA DivMod ==
    ASSUME NEW n \in Nat \ {0}, NEW x \in Nat, NEW q \in Int, NEW r \in Int,
           q = x \div n, r = x % n
    PROVE  x = n * q + r
OBVIOUS

\* It has one result.
LEMMA DivModUnique ==
    \A n \in Nat \ {0} : \A q, k \in Int : \A r, s \in 0..(n - 1) :
        n * q + r = n * k + s => r = s
OBVIOUS

\* Adding the number of workers changes no remainder.
LEMMA ModAdd ==
    ASSUME NEW n \in Nat \ {0}, NEW x \in Nat PROVE (x + n) % n = x % n
<1> DEFINE y == x + n  q == x \div n  k == y \div n  r == x % n  s == y % n
<1>1. /\ q \in Int /\ k \in Int /\ y \in Nat
      /\ r \in 0..(n - 1) /\ s \in 0..(n - 1)
  OBVIOUS
<1>2. q = x \div n /\ r = x % n /\ k = y \div n /\ s = y % n /\ y = x + n
  OBVIOUS
<1> HIDE DEF q, k, r, s, y
<1>3. x = n * q + r BY <1>1, <1>2, DivMod
<1>4. y = n * k + s BY <1>1, <1>2, DivMod
<1>5. n * (q + 1) + r = n * k + s BY <1>1, <1>2, <1>3, <1>4
<1>6. q + 1 \in Int BY <1>1
<1>7. r = s BY <1>1, <1>5, <1>6, DivModUnique
<1> QED BY <1>2, <1>7

\* What waits on the pipe of loop e is an internal datagram or is for e.
Routed(s, e) == \A i \in DOMAIN s : s[i] = WAKE_ID \/ s[i] % N = e

\* Ids are handed out upwards within the residue of their worker.
IdsInv ==
    /\ \A w \in Workers : nextid[w] % N = w
    /\ \A c \in Conns : id[c] # 0 => id[c] <= nextid[id[c] % N]
    /\ \A c, d \in Conns : id[c] = id[d] /\ id[c] # 0 => c = d
    /\ \A w \in Workers : \A c \in conns[w] : id[c] # 0 /\ id[c] % N = w
\* Every pipe carries ids of its own loop only.
PipesInv == \A e \in Loops : Routed(pipe[e], e)

\* What is sent to the right loop keeps a pipe so.
LEMMA SentRouted ==
    ASSUME pipe \in [Loops -> Seq(Nat)], PipesInv, NEW e \in Loops, NEW i \in Nat,
           i = WAKE_ID \/ i % N = e
    PROVE  Routed(Sent(pipe, e, i), e)
<1>1. CASE Sent(pipe, e, i) = pipe[e] BY <1>1 DEF PipesInv
<1>2. CASE Sent(pipe, e, i) = Append(pipe[e], i)
  <2> DEFINE s == pipe[e]
  <2>1. s \in Seq(Nat) /\ Routed(s, e) BY DEF PipesInv
  <2> HIDE DEF s
  <2>2. /\ DOMAIN Append(s, i) = 1..(Len(s) + 1) /\ DOMAIN s = 1..Len(s)
        /\ Append(s, i)[Len(s) + 1] = i
        /\ \A j \in 1..Len(s) : Append(s, i)[j] = s[j]
        /\ Len(s) \in Nat
    BY <2>1
  <2>3. Routed(Append(s, i), e) BY <2>1, <2>2 DEF Routed
  <2> QED BY <1>2, <2>3 DEF s
<1> QED BY <1>1, <1>2 DEF Sent

\* What is read keeps it so.
LEMMA ReadRouted ==
    ASSUME NEW s \in Seq(Nat), NEW e, Routed(s, e)
    PROVE  Routed(IF s = <<>> THEN s ELSE Tail(s), e)
<1>1. CASE s # <<>>
  <2>1. /\ DOMAIN Tail(s) = 1..(Len(s) - 1) /\ DOMAIN s = 1..Len(s)
        /\ \A j \in 1..(Len(s) - 1) : Tail(s)[j] = s[j + 1]
        /\ Len(s) \in Nat
    BY <1>1
  <2>2. Routed(Tail(s), e) BY <2>1 DEF Routed
  <2> QED BY <1>1, <2>2
<1> QED BY <1>1

\* Every step keeps the pipes so.
LEMMA PipesNext == IInv /\ IdsInv /\ PipesInv /\ [Next]_vars => PipesInv'
<1> SUFFICES ASSUME IInv, IdsInv, PipesInv, [Next]_vars PROVE PipesInv'
  OBVIOUS
<1> USE DEF flags, accVars, accLocals, workVars, connVars, ctlVars, queues
<1>1. pipe \in [Loops -> Seq(Nat)] BY DEF IInv, TypeOK
<1>2. ASSUME pipe' = pipe PROVE PipesInv' BY <1>2 DEF PipesInv
<1>3. ASSUME NEW e \in Loops, NEW i \in Nat, i = WAKE_ID \/ i % N = e,
             pipe' = [pipe EXCEPT ![e] = Sent(pipe, e, i)]
      PROVE  PipesInv'
  BY <1>1, <1>3, SentRouted DEF PipesInv
<1>4. ASSUME NEW E, WakeEach(E) PROVE PipesInv'
  <2>1. \A e \in Loops : Routed(Sent(pipe, e, WAKE_ID), e)
    BY <1>1, SentRouted DEF WAKE_ID
  <2> QED BY <1>1, <1>4, <2>1 DEF PipesInv, WakeEach
<1>5. ASSUME NEW e \in Loops,
             pipe' = [pipe EXCEPT ![e] = IF @ = <<>> THEN @ ELSE Tail(@)]
      PROVE  PipesInv'
  <2>1. Routed(IF pipe[e] = <<>> THEN pipe[e] ELSE Tail(pipe[e]), e)
    BY <1>1, ReadRouted DEF PipesInv
  <2> QED BY <1>1, <1>5, <2>1 DEF PipesInv
<1>6. CASE RunEnter \/ RunStep
  <2>1. CASE AcceptorPollReturn
    <3>1. Acceptor \in Loops BY ShardedAssumption DEF Acceptor, Loops
    <3> QED BY <1>5, <2>1, <3>1 DEF AcceptorPollReturn
  <2>2. CASE HandOffWake
    <3>1. Chosen \in Loops BY ChosenType DEF IInv
    <3> QED BY <1>3, <2>2, <3>1 DEF HandOffWake, Wake, WAKE_ID
  <2>3. CASE RunWakeWorkers BY <1>4, <2>3 DEF RunWakeWorkers
  <2>4. CASE ~ AcceptorPollReturn /\ ~ HandOffWake /\ ~ RunWakeWorkers
    BY <1>2, <1>6, <2>4 DEF RunEnter, RunStep, RunSetRunning, RunSpawn, RunCheck,
       RunReadDraining, Accept, CapCheck, Reserve, Push, AcceptorPassEnd,
       AcceptorDeadline, AcceptorDrained, AcceptorClear, RunExit, RunJoin,
       RunCloseQueued, RunReturn
  <2> QED BY <2>1, <2>2, <2>3, <2>4
<1>7. ASSUME NEW w \in Workers, WorkerStep(w) PROVE PipesInv'
  <2>1. CASE WorkerPollReturn(w)
    <3>1. w \in Loops BY ShardedAssumption DEF Workers, Loops
    <3> QED BY <1>5, <2>1, <3>1 DEF WorkerPollReturn
  <2>2. CASE ~ WorkerPollReturn(w)
    BY <1>2, <1>7, <2>2 DEF WorkerStep, WorkerOwnStep, WorkerCheck, WorkerPop,
       WorkerQueueEmpty, WorkerAdopt, WorkerAdoptFail, WorkerMark, WorkerDeadline,
       WorkerPassEnd, VisitStuck, VisitDrained, VisitDropped, CloseAdopted
  <2> QED BY <2>1, <2>2
<1>8. ASSUME NEW t \in Ctl, CtlStep(t) PROVE PipesInv'
  <2>1. CASE WakeAll(t) BY <1>4, <2>1 DEF WakeAll
  <2>2. ASSUME NEW c \in Conns, WakeConn(t, c) PROVE PipesInv'
    <3>1. id[c] \in Nat /\ id[c] % N \in Loops BY ModRange DEF IInv, TypeOK
    <3>2. \/ pipe' = [pipe EXCEPT ![id[c] % N] = Sent(pipe, id[c] % N, id[c])]
          \/ pipe' = pipe
      BY <2>2 DEF WakeConn
    <3> QED BY <1>2, <1>3, <3>1, <3>2
  <2>3. CASE \/ Stop(t) \/ Drain(t) \/ Destroy(t) \/ DrainPublish(t) \/ WakeGate(t)
             \/ DestroyMembers(t)
    BY <1>2, <2>3 DEF Stop, Drain, Destroy, DrainPublish, WakeGate, DestroyMembers
  <2> QED BY <1>8, <2>1, <2>2, <2>3 DEF CtlStep, CtlContinue
<1>9. CASE Expire \/ Finished \/ UNCHANGED vars
  BY <1>2, <1>9 DEF Expire, Finished, vars
<1> QED BY <1>6, <1>7, <1>8, <1>9 DEF Next

\* A connection in a worker's hand is not open anywhere.
LEMMA HandNotOpen ==
    ASSUME IInv, NEW w \in Workers, NEW v \in Workers, hand[w] # NoConn
    PROVE  hand[w] \in Conns /\ hand[w] \notin conns[v]
<1>1. /\ <<"hand", w>> \in Places /\ hand[w] \in Held[<<"hand", w>>]
      /\ <<"open", v>> \in Places /\ Held[<<"open", v>>] = conns[v]
      /\ hand[w] \in Conns
  BY PlaceNames DEF Held, At, IInv, TypeOK
<1>2. <<"hand", w>> # <<"open", v>> OBVIOUS
<1> QED BY <1>1, <1>2 DEF IInv, OneOwner, Owned

\* The id of an adopted connection is fresh and its worker's.
LEMMA AdoptIds ==
    ASSUME IInv, IdsInv, NEW w \in Workers, WorkerAdopt(w) PROVE IdsInv'
<1> DEFINE c == hand[w]  i == nextid[w] + N
<1>1. /\ nextid \in [Workers -> Nat] /\ id \in [Conns -> Nat]
      /\ conns \in [Workers -> SUBSET Conns] /\ N \in Nat \ {0}
  BY ShardedAssumption DEF IInv, TypeOK
<1>2. /\ nextid' = [nextid EXCEPT ![w] = i] /\ id' = [id EXCEPT ![c] = i]
      /\ conns' = [conns EXCEPT ![w] = @ \cup {c}]
  BY <1>1 DEF WorkerAdopt, Stride
<1>3. c \in Conns /\ \A v \in Workers : c \notin conns[v]
  BY HandNotOpen DEF WorkerAdopt, IInv, HandsInv
<1>4. i \in Nat /\ i # 0 /\ i > nextid[w] BY <1>1
<1>5. i % N = w BY <1>1, ModAdd DEF IdsInv
<1> HIDE DEF c, i
<1>6. \A d \in Conns : id[d] # i
  BY <1>1, <1>4, <1>5 DEF IdsInv
<1>7. \A v \in Workers : nextid'[v] % N = v /\ nextid[v] <= nextid'[v]
  BY <1>1, <1>2, <1>4, <1>5 DEF IdsInv
<1>8. \A d \in Conns : id'[d] # 0 => id'[d] <= nextid'[id'[d] % N]
  <2> SUFFICES ASSUME NEW d \in Conns, id'[d] # 0
               PROVE  id'[d] <= nextid'[id'[d] % N]
    OBVIOUS
  <2>1. CASE d = c BY <1>1, <1>2, <1>3, <1>4, <1>5, <2>1
  <2>2. CASE d # c
    <3>1. id'[d] = id[d] /\ id[d] \in Nat BY <1>1, <1>2, <2>2
    <3>2. id[d] % N \in Workers BY <3>1, ModRange
    <3>3. id[d] <= nextid[id[d] % N] BY <3>1 DEF IdsInv
    <3>4. nextid[id[d] % N] <= nextid'[id[d] % N] BY <1>7, <3>2
    <3>5. nextid[id[d] % N] \in Nat /\ nextid'[id[d] % N] \in Nat
      BY <1>1, <1>2, <1>4, <3>2
    <3> QED BY <3>1, <3>3, <3>4, <3>5
  <2> QED BY <2>1, <2>2
<1>9. \A d, e \in Conns : id'[d] = id'[e] /\ id'[d] # 0 => d = e
  BY <1>1, <1>2, <1>3, <1>6 DEF IdsInv
<1>10. \A v \in Workers : \A d \in conns'[v] : id'[d] # 0 /\ id'[d] % N = v
  BY <1>1, <1>2, <1>3, <1>4, <1>5 DEF IdsInv
<1> QED BY <1>7, <1>8, <1>9, <1>10 DEF IdsInv

\* Every step keeps the ids unique and congruent to their workers.
LEMMA IdsNext == IInv /\ IdsInv /\ [Next]_vars => IdsInv'
<1> SUFFICES ASSUME IInv, IdsInv, [Next]_vars PROVE IdsInv'
  OBVIOUS
<1> USE DEF flags, accVars, accLocals, workVars, connVars, ctlVars, queues
<1>1. ASSUME UNCHANGED <<nextid, id>>, \A w \in Workers : conns'[w] \subseteq conns[w]
      PROVE  IdsInv'
  BY <1>1 DEF IdsInv
<1>2. CASE RunEnter \/ RunStep
  BY <1>1, <1>2 DEF RunEnter, RunStep, RunSetRunning, RunSpawn, RunCheck, RunReadDraining,
     AcceptorPollReturn, Accept, CapCheck, Reserve, Push, HandOffWake,
     AcceptorPassEnd, AcceptorDeadline, AcceptorDrained, AcceptorClear, RunExit,
     RunWakeWorkers, RunJoin, RunCloseQueued, RunReturn
<1>3. ASSUME NEW w \in Workers, WorkerStep(w) PROVE IdsInv'
  <2>1. CASE WorkerAdopt(w) BY <2>1, AdoptIds
  <2>2. ASSUME NEW c \in Conns, VisitDrained(w, c) \/ VisitDropped(w, c) PROVE IdsInv'
    <3>1. UNCHANGED <<nextid, id>> /\ conns' = [conns EXCEPT ![w] = @ \ {c}]
      BY <2>2 DEF VisitDrained, VisitDropped, CloseAdopted
    <3>2. conns \in [Workers -> SUBSET Conns] BY DEF IInv, TypeOK
    <3> QED BY <1>1, <3>1, <3>2
  <2>3. CASE ~ WorkerAdopt(w) /\ ~ \E c \in Conns : VisitDrained(w, c) \/ VisitDropped(w, c)
    BY <1>1, <1>3, <2>3 DEF WorkerStep, WorkerOwnStep, WorkerCheck, WorkerPop,
       WorkerQueueEmpty, WorkerAdoptFail, WorkerMark, WorkerDeadline,
       WorkerPollReturn, WorkerPassEnd, VisitStuck
  <2> QED BY <2>1, <2>2, <2>3
<1>4. ASSUME NEW t \in Ctl, CtlStep(t) PROVE IdsInv'
  <2>1. CASE DestroyMembers(t) BY <1>1, <2>1 DEF DestroyMembers
  <2>2. CASE ~ DestroyMembers(t)
    BY <1>1, <1>4, <2>2 DEF CtlStep, CtlContinue, Stop, Drain, Destroy, DrainPublish,
       WakeGate, WakeAll, WakeConn
  <2> QED BY <2>1, <2>2
<1>5. CASE Expire \/ Finished \/ UNCHANGED vars
  BY <1>1, <1>5 DEF Expire, Finished, vars
<1> QED BY <1>2, <1>3, <1>4, <1>5 DEF Next

\* Both hold at the start.
LEMMA IdsInit == Init => IdsInv /\ PipesInv
<1> SUFFICES ASSUME Init PROVE IdsInv /\ PipesInv
  OBVIOUS
<1>1. \A w \in Workers : w % N = w BY ShardedAssumption DEF Workers
<1>2. IdsInv BY <1>1 DEF Init, IdsInv
<1>3. PipesInv BY DEF Init, PipesInv, Routed
<1> QED BY <1>2, <1>3

\* An id is never given twice, belongs to the worker that owns the connection,
\* and a wakeup for it never waits on another worker's pipe.
THEOREM WakeupsReachTheirWorker == Spec => []WakeupsRouteHome
<1>1. IInv /\ IdsInv /\ PipesInv => WakeupsRouteHome
  <2> SUFFICES ASSUME IInv, IdsInv, PipesInv PROVE WakeupsRouteHome
    OBVIOUS
  <2>1. ASSUME NEW w \in Workers, NEW c \in conns[w], NEW v \in Loops,
               NEW i \in DOMAIN pipe[v], pipe[v][i] = id[c]
        PROVE  v = w \/ id[c] = WAKE_ID
    BY <2>1 DEF IdsInv, PipesInv, Routed
  <2> QED BY <2>1 DEF IdsInv, WakeupsRouteHome
<1> QED BY <1>1, Inductive, IdsInit, IdsNext, PipesNext, PTL DEF Spec

-----------------------------------------------------------------------------
(* No wakeup that matters is lost.                                         *)

\* Loops have their pipes while the acceptor is in its loop.
Up == {"top", "rdrain", "poll", "sweep", "cap", "reserve", "push", "wake",
       "deadline", "drained", "clear", "exit"}
\* A worker is between waking and its next poll().
BeforePoll == {"adopt", "wrap", "mark", "poll"}

\* A datagram stays in the pipe until its loop returns from poll(), so what is
\* demanded of a loop in poll() holds from the moment it read the state that
\* sent it there.
WorkerAwake(w) ==
    /\ wpc[w] = "deadline" => draining
    /\ wpc[w] \in {"mark", "poll"} /\ pending[w] # <<>> =>
          Woken(w) \/ (rpc = "wake" /\ Chosen = w)
    /\ wpc[w] = "poll" /\ draining => Woken(w) \/ WakeOnTheWay \/ rpc = "exitWake"
    /\ rpc = "join" /\ wpc[w] \in BeforePoll => Woken(w)
\* The acceptor has seen a drain, or will not sleep before it does.
AcceptorAwake ==
    /\ rpc = "rdrain" /\ ~ running /\ ~ draining => Woken(Acceptor) \/ WakeOnTheWay
    /\ rpc = "poll" /\ ~ acc_draining /\ (draining \/ ~ running) =>
          Woken(Acceptor) \/ WakeOnTheWay
\* The flags run() sets while it runs.
RunFlags ==
    /\ pipes_ready <=> rpc \in Up
    /\ rpc \in {"exit", "exitWake", "join", "closeq"} => ~ running
\* Nobody who has something to see can sleep.
WakeInv == RunFlags /\ AcceptorAwake /\ \A w \in Workers : WorkerAwake(w)

\* A pipe is not empty after a send, whether it was taken or dropped.
LEMMA SentWakes ==
    ASSUME pipe \in [Loops -> Seq(Nat)], NEW e \in Loops, NEW i \in Nat, e \in Piped
    PROVE  Sent(pipe, e, i) # <<>>
<1> DEFINE s == pipe[e]
<1>1. s \in Seq(Nat) OBVIOUS
<1> HIDE DEF s
<1>2. Append(s, i) # <<>> BY <1>1
<1>3. Len(s) >= PipeCap => s # <<>> BY <1>1, ShardedAssumption
<1>4. Len(s) \in Nat /\ PipeCap \in Nat BY <1>1, ShardedAssumption
<1> QED BY <1>2, <1>3, <1>4 DEF Sent, s

\* Sending to a loop wakes it and leaves the others awake.
LEMMA SendsKeep ==
    ASSUME IInv, NEW e \in Loops, NEW i \in Nat,
           pipe' = [pipe EXCEPT ![e] = Sent(pipe, e, i)]
    PROVE  Woken(e)' /\ \A f \in Loops : Woken(f) => Woken(f)'
<1>1. pipe \in [Loops -> Seq(Nat)] BY DEF IInv, TypeOK
<1> QED BY <1>1, SentWakes DEF Woken

\* Waking each of E does so for each of them.
LEMMA SendsWakeAll ==
    ASSUME IInv, NEW E, WakeEach(E)
    PROVE  /\ \A e \in Loops : e \in E => Woken(e)'
           /\ \A e \in Loops : Woken(e) => Woken(e)'
<1>1. pipe \in [Loops -> Seq(Nat)] BY DEF IInv, TypeOK
<1>2. WAKE_ID \in Nat BY DEF WAKE_ID
<1>3. \A e \in Loops : e \in Piped => Sent(pipe, e, WAKE_ID) # <<>>
  BY <1>1, <1>2, SentWakes
<1> QED BY <1>1, <1>3 DEF WakeEach, Woken

\* Reading one pipe leaves the other loops awake.
LEMMA ReadsKeep ==
    ASSUME IInv, NEW e \in Loops,
           pipe' = [pipe EXCEPT ![e] = IF @ = <<>> THEN @ ELSE Tail(@)]
    PROVE  \A f \in Loops \ {e} : Woken(f) => Woken(f)'
<1>1. pipe \in [Loops -> Seq(Nat)] BY DEF IInv, TypeOK
<1> QED BY <1>1 DEF Woken

\* The acceptor and the workers are different loops.
LEMMA LoopPlaces ==
    /\ Acceptor \in Loops
    /\ \A w \in Workers : w \in Loops /\ w # Acceptor
BY ShardedAssumption DEF Acceptor, Loops, Workers

\* run() keeps everyone awake.
LEMMA WakeRun ==
    ASSUME IInv, WakeInv, RunEnter \/ RunStep PROVE WakeInv'
<1> USE DEF GoTo, WakeInv, RunFlags, AcceptorAwake, WorkerAwake, Up, BeforePoll,
        flags, accLocals, accVars, workVars, connVars, ctlVars, queues
<1>1. wpc \in [Workers -> WorkerPCs] /\ pending \in [Workers -> Seq(Conns)]
  BY DEF IInv, TypeOK
<1>2. rpc \in {"idle", "entered", "arming", "closeq"} =>
          \A w \in Workers : wpc[w] \in {"none", "done"}
  BY DEF IInv, HandsInv
<1>3. WakeOnTheWay' <=> WakeOnTheWay
  BY DEF RunEnter, RunStep, RunSetRunning, RunSpawn, RunCheck, RunReadDraining,
     AcceptorPollReturn, Accept, CapCheck, Reserve, Push, HandOffWake,
     AcceptorPassEnd, AcceptorDeadline, AcceptorDrained, AcceptorClear, RunExit,
     RunWakeWorkers, RunJoin, RunCloseQueued, RunReturn, WakeOnTheWay
<1>4. ASSUME pipe' = pipe PROVE \A e \in Loops : Woken(e)' <=> Woken(e)
  BY <1>4 DEF Woken
<1>5. CASE RunEnter \/ RunSetRunning BY <1>2, <1>5 DEF RunEnter, RunSetRunning
<1>6. CASE RunSpawn BY <1>6 DEF RunSpawn
<1>7. CASE \/ RunCheck \/ RunReadDraining \/ CapCheck \/ Reserve \/ AcceptorPassEnd
           \/ AcceptorDeadline \/ AcceptorDrained \/ AcceptorClear
           \/ \E c \in Conns : Accept(c)
  <2>1. /\ pipe' = pipe /\ pending' = pending /\ wpc' = wpc /\ draining' = draining
        /\ rpc # "wake" /\ rpc' # "wake" /\ rpc # "exitWake" /\ rpc' # "join"
    BY <1>7 DEF RunCheck, RunReadDraining, CapCheck, Reserve, AcceptorPassEnd,
       AcceptorDeadline, AcceptorDrained, AcceptorClear, Accept
  <2>2. \A w \in Workers : WorkerAwake(w)'
    BY <1>3, <1>4, <2>1, LoopPlaces
  <2>3. RunFlags' /\ AcceptorAwake'
    BY <1>3, <1>4, <1>7, <2>1, LoopPlaces
    DEF RunCheck, KeepRunning, RunReadDraining, CapCheck, Reserve, AcceptorPassEnd,
       AcceptorDeadline, AcceptorDrained, AcceptorClear, Accept
  <2> QED BY <2>2, <2>3
<1>8. CASE AcceptorPollReturn
  <2>1. \A w \in Workers : Woken(w) => Woken(w)'
    BY <1>8, ReadsKeep, LoopPlaces DEF AcceptorPollReturn
  <2> QED BY <1>3, <1>8, <2>1 DEF AcceptorPollReturn
<1>9. CASE Push
  <2>1. Chosen' = Chosen BY <1>9 DEF Push, Chosen
  <2>2. \A w \in Workers : pending'[w] # <<>> => pending[w] # <<>> \/ w = Chosen
    BY <1>1, <1>9 DEF Push
  <2>3. \A w \in Workers : WorkerAwake(w)'
    BY <1>3, <1>4, <1>9, <2>1, <2>2, LoopPlaces DEF Push
  <2>4. RunFlags' /\ AcceptorAwake' BY <1>9 DEF Push
  <2> QED BY <2>3, <2>4
<1>10. CASE HandOffWake
  <2>1. Chosen \in Loops /\ WAKE_ID \in Nat BY ChosenType DEF IInv, WAKE_ID
  <2>2. ASSUME NEW f \in Loops, f = Chosen
        PROVE  Woken(f)' /\ \A e \in Loops : Woken(e) => Woken(e)'
    <3>1. pipe' = [pipe EXCEPT ![f] = Sent(pipe, f, WAKE_ID)]
      BY <1>10, <2>2 DEF HandOffWake, Wake
    <3> QED BY <2>1, <3>1, SendsKeep
  <2>3. \A w \in Workers : w = Chosen => Woken(w)'
    BY <2>2, LoopPlaces
  <2>4. \A e \in Loops : Woken(e) => Woken(e)' BY <2>1, <2>2
  <2>5. /\ rpc = "wake" /\ rpc' = "sweep" /\ wpc' = wpc /\ pending' = pending
        /\ draining' = draining /\ running' = running /\ pipes_ready' = pipes_ready
    BY <1>10 DEF HandOffWake
  <2>6. RunFlags' /\ AcceptorAwake' BY <2>5
  <2>7. \A w \in Workers : WorkerAwake(w)'
    BY <1>3, <2>3, <2>4, <2>5, LoopPlaces
  <2> QED BY <2>6, <2>7
<1>11. CASE RunExit
  BY <1>3, <1>4, <1>11, LoopPlaces DEF RunExit
<1>12. CASE RunWakeWorkers
  <2>1. \A w \in Workers : Woken(w)'
    BY <1>12, SendsWakeAll, LoopPlaces DEF RunWakeWorkers
  <2> QED BY <1>12, <2>1 DEF RunWakeWorkers
<1>13. CASE RunJoin
  BY <1>13 DEF RunJoin, WorkersEnded
<1>14. CASE (\E w \in Workers : RunCloseQueued(w)) \/ RunReturn
  BY <1>2, <1>14 DEF RunCloseQueued, RunReturn
<1> QED
  BY <1>5, <1>6, <1>7, <1>8, <1>9, <1>10, <1>11, <1>12, <1>13, <1>14 DEF RunStep

\* A worker keeps everyone awake.
LEMMA WakeWorker ==
    ASSUME IInv, WakeInv, NEW w \in Workers, WorkerStep(w) PROVE WakeInv'
<1> USE DEF WorkerGoTo, WakeInv, RunFlags, AcceptorAwake, WorkerAwake, Up, BeforePoll,
        accLocals, accVars, connVars, ctlVars
<1>1. wpc \in [Workers -> WorkerPCs] /\ pending \in [Workers -> Seq(Conns)]
  BY DEF IInv, TypeOK
<1>2. /\ UNCHANGED <<rpc, acc_draining, draining, pipes_ready, next, cpc>>
      /\ \A v \in Workers \ {w} : wpc'[v] = wpc[v] /\ pending'[v] = pending[v]
  BY <1>1 DEF WorkerStep, WorkerOwnStep, WorkerCheck, WorkerPop, WorkerQueueEmpty,
     WorkerAdopt, WorkerAdoptFail, WorkerMark, WorkerDeadline, WorkerPollReturn,
     WorkerPassEnd, VisitStuck, VisitDrained, VisitDropped, CloseAdopted, PopFront,
     flags, queues
<1>3. WakeOnTheWay' = WakeOnTheWay /\ Chosen' = Chosen
  BY <1>2 DEF WakeOnTheWay, Chosen
<1>4. CASE WorkerPollReturn(w)
  <2>1. \A e \in Loops \ {w} : Woken(e) => Woken(e)'
    BY <1>4, ReadsKeep, LoopPlaces DEF WorkerPollReturn
  <2>2. running' = running /\ wpc'[w] = "sweep"
    BY <1>1, <1>4 DEF WorkerPollReturn, flags
  <2> QED BY <1>2, <1>3, <2>1, <2>2, LoopPlaces
<1>5. CASE ~ WorkerPollReturn(w)
  <2>1. pipe' = pipe
    BY <1>5 DEF WorkerStep, WorkerOwnStep, WorkerCheck, WorkerPop, WorkerQueueEmpty,
       WorkerAdopt, WorkerAdoptFail, WorkerMark, WorkerDeadline, WorkerPassEnd,
       VisitStuck, VisitDrained, VisitDropped, CloseAdopted, queues
  <2>2. \A e \in Loops : Woken(e)' <=> Woken(e) BY <2>1 DEF Woken
  <2>3. \A v \in Workers \ {w} : WorkerAwake(v)'
    BY <1>2, <1>3, <2>2, LoopPlaces
  <2>4. RunFlags' /\ AcceptorAwake'
    <3>1. CASE WorkerDeadline(w)
      <4>1. draining /\ (running' => running) BY <3>1 DEF WorkerDeadline
      <4> QED BY <1>2, <1>3, <2>2, <4>1, LoopPlaces
    <3>2. CASE ~ WorkerDeadline(w)
      <4>1. running' = running
        BY <1>5, <3>2 DEF WorkerStep, WorkerOwnStep, WorkerCheck, WorkerPop,
           WorkerQueueEmpty, WorkerAdopt, WorkerAdoptFail, WorkerMark, WorkerPassEnd,
           VisitStuck, VisitDrained, VisitDropped, CloseAdopted, flags
      <4> QED BY <1>2, <1>3, <2>2, <4>1, LoopPlaces
    <3> QED BY <3>1, <3>2
  <2>5. WorkerAwake(w)'
    <3> USE <1>1, <1>2, <1>3, <2>2, LoopPlaces
    <3>1. CASE WorkerCheck(w) BY <3>1 DEF WorkerCheck, queues
    <3>2. CASE WorkerPop(w) BY <3>2 DEF WorkerPop
    <3>3. CASE WorkerQueueEmpty(w) BY <3>3 DEF WorkerQueueEmpty, queues
    <3>4. CASE WorkerAdopt(w) BY <3>4 DEF WorkerAdopt, queues
    <3>5. CASE WorkerAdoptFail(w) BY <3>5 DEF WorkerAdoptFail
    <3>6. CASE WorkerMark(w) BY <3>6 DEF WorkerMark, queues
    <3>7. CASE WorkerDeadline(w) BY <3>7 DEF WorkerDeadline, queues
    <3>8. CASE WorkerPassEnd(w) BY <3>8 DEF WorkerPassEnd, queues
    <3>9. ASSUME NEW c \in Conns,
                 VisitStuck(w, c) \/ VisitDrained(w, c) \/ VisitDropped(w, c)
          PROVE  WorkerAwake(w)'
      <4>1. wpc' = wpc /\ wpc[w] = "sweep"
        BY <3>9 DEF VisitStuck, VisitDrained, VisitDropped, CloseAdopted
      <4> QED BY <4>1
    <3> QED
      BY <1>5, <3>1, <3>2, <3>3, <3>4, <3>5, <3>6, <3>7, <3>8, <3>9
      DEF WorkerStep, WorkerOwnStep
  <2> QED BY <2>3, <2>4, <2>5
<1> QED BY <1>4, <1>5

\* So do drain(), stop() and the destructor.
LEMMA WakeCtl ==
    ASSUME IInv, WakeInv, NEW t \in Ctl, CtlStep(t) PROVE WakeInv'
<1> USE DEF CtlGoTo, WakeInv, RunFlags, AcceptorAwake, WorkerAwake, Up, BeforePoll
<1>1. cpc \in [Ctl -> CtlPCs] BY DEF IInv, TypeOK
<1>2. UNCHANGED <<rpc, acc_draining, pipes_ready, next, wpc, pending>>
  BY DEF CtlStep, CtlContinue, Stop, Drain, Destroy, DrainPublish, WakeGate, WakeAll,
     WakeConn, DestroyMembers, flags, accLocals, accVars, workVars, queues
<1>3. Chosen' = Chosen BY <1>2 DEF Chosen
<1>4. CASE Stop(t) \/ Destroy(t) \/ DrainPublish(t)
  <2>1. WakeOnTheWay' BY <1>1, <1>4 DEF Stop, Destroy, DrainPublish, WakeOnTheWay
  <2>2. \A e \in Loops : Woken(e)' <=> Woken(e)
    BY <1>4 DEF Stop, Destroy, DrainPublish, queues, Woken
  <2>3. (draining => draining') /\ (running' => running)
    BY <1>4 DEF Stop, Destroy, DrainPublish
  <2> QED BY <1>2, <1>3, <2>1, <2>2, <2>3, LoopPlaces
<1>5. CASE \/ Drain(t) \/ DestroyMembers(t) \/ \E c \in Conns : WakeConn(t, c)
  <2>1. WakeOnTheWay => WakeOnTheWay'
    BY <1>1, <1>5 DEF Drain, DestroyMembers, WakeConn, WakeOnTheWay
  <2>2. \A e \in Loops : Woken(e) => Woken(e)'
    <3>1. ASSUME pipe' = pipe PROVE \A e \in Loops : Woken(e) => Woken(e)'
      BY <3>1 DEF Woken
    <3>2. ASSUME NEW c \in Conns, WakeConn(t, c)
          PROVE  \A e \in Loops : Woken(e) => Woken(e)'
      <4>1. id[c] \in Nat /\ id[c] % N \in Loops BY ModRange DEF IInv, TypeOK
      <4> QED BY <3>1, <3>2, <4>1, SendsKeep DEF WakeConn
    <3> QED BY <1>5, <3>1, <3>2 DEF Drain, DestroyMembers, queues
  <2>3. draining' = draining /\ running' = running
    BY <1>5 DEF Drain, DestroyMembers, WakeConn, flags
  <2> QED BY <1>2, <1>3, <2>1, <2>2, <2>3, LoopPlaces
<1>6. CASE WakeGate(t)
  <2>1. /\ draining' = draining /\ running' = running
        /\ \A e \in Loops : Woken(e)' <=> Woken(e)
    BY <1>6 DEF WakeGate, flags, queues, Woken
  <2>2. CASE pipes_ready
    <3>1. WakeOnTheWay' BY <1>1, <1>6, <2>2 DEF WakeGate, WakeOnTheWay
    <3> QED BY <1>2, <1>3, <2>1, <3>1, LoopPlaces
  <2>3. CASE ~ pipes_ready
    <3>1. rpc \in {"idle", "entered", "arming", "exitWake", "join", "closeq"}
      BY <2>3 DEF IInv, TypeOK, RunPCs
    <3>2. rpc \in {"idle", "entered", "arming", "closeq"} =>
              \A w \in Workers : wpc[w] \in {"none", "done"}
      BY DEF IInv, HandsInv
    <3> QED BY <1>2, <1>3, <2>1, <3>1, <3>2, LoopPlaces
  <2> QED BY <2>2, <2>3
<1>7. CASE WakeAll(t)
  <2>1. \A e \in Loops : Woken(e)' BY <1>7, SendsWakeAll DEF WakeAll
  <2>2. draining' = draining /\ running' = running BY <1>7 DEF WakeAll, flags
  <2> QED BY <1>2, <1>3, <2>1, <2>2, LoopPlaces
<1> QED BY <1>4, <1>5, <1>6, <1>7 DEF CtlStep, CtlContinue

\* Every step keeps everyone awake.
LEMMA WakeNext == IInv /\ WakeInv /\ [Next]_vars => WakeInv'
<1> SUFFICES ASSUME IInv, WakeInv, [Next]_vars PROVE WakeInv'
  OBVIOUS
<1>1. CASE RunEnter \/ RunStep BY <1>1, WakeRun
<1>2. ASSUME NEW w \in Workers, WorkerStep(w) PROVE WakeInv' BY <1>2, WakeWorker
<1>3. ASSUME NEW t \in Ctl, CtlStep(t) PROVE WakeInv' BY <1>3, WakeCtl
<1>4. CASE Expire \/ Finished \/ UNCHANGED vars
  <2>1. UNCHANGED <<rpc, running, draining, pipes_ready, acc_draining, next, wpc,
                    pending, pipe, cpc>>
    BY <1>4 DEF Expire, Finished, vars, flags, accLocals, accVars, workVars, ctlVars,
       queues
  <2>2. /\ \A e \in Loops : Woken(e)' <=> Woken(e)
        /\ (WakeOnTheWay' <=> WakeOnTheWay)
        /\ Chosen' = Chosen
    BY <2>1 DEF Woken, WakeOnTheWay, Chosen
  <2>3. RunFlags' BY <2>1 DEF WakeInv, RunFlags
  <2>4. AcceptorAwake' BY <2>1, <2>2, LoopPlaces DEF WakeInv, AcceptorAwake
  <2>5. \A w \in Workers : WorkerAwake(w)'
    BY <2>1, <2>2, LoopPlaces DEF WakeInv, WorkerAwake
  <2> QED BY <2>3, <2>4, <2>5 DEF WakeInv
<1> QED BY <1>1, <1>2, <1>3, <1>4 DEF Next

\* No loop waits out its fallback timeout with something to do: after a
\* hand-off, a drain() or a stop() it finds a datagram, or one is on its way.
THEOREM WakeupsAreNotLost == Spec => []NoLostWakeup
<1>1. Init => WakeInv
  BY DEF Init, WakeInv, RunFlags, AcceptorAwake, WorkerAwake, Up, BeforePoll
<1>2. WakeInv => NoLostWakeup
  BY DEF WakeInv, AcceptorAwake, WorkerAwake, BeforePoll, NoLostWakeup
<1> QED BY <1>1, <1>2, WakeNext, Inductive, PTL DEF Spec
=============================================================================
