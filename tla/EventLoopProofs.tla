---------------------------- MODULE EventLoopProofs ----------------------------
(***************************************************************************)
(* Proofs about the loop of one manager, for every set of connections,     *)
(* every value of the limits, every budget and every bound on the clock.   *)
(***************************************************************************)
EXTENDS EventLoop, ListProofs

\* The labels of the visit of a connection, and where a pass has begun.
Visits == {"polled", "io", "write", "limits", "close"}
\* From the start of a visit to the step to the next connection.
Following == Visits \cup {"next"}
\* Inside mgr_poll().
InPass == At({"first", "visit"} \cup Following)

-----------------------------------------------------------------------------
(* The inductive invariant.                                                *)

\* The variables have their types.
Typed ==
    /\ TypeOK
    /\ clock \in 1..MaxClock /\ now \in 0..clock
    /\ ret \notin {"handler", "freed"}
    /\ at_start \cup visited \subseteq opened

\* The walk: what was visited and what is still ahead make up the list as it
\* was at the start of the pass.
WalkInv ==
    /\ errs \subseteq OnList /\ (~At({"errors"}) => errs = {})
    /\ At({"idle", "errors", "first", "freed"}) => visited = {}
    /\ At(Visits) => cur \in OnList
    /\ At(Following) => /\ nxt \in OnList \cup {Nil} /\ cur \in visited
                        /\ visited \cap From(conns, nxt) = {}
                        /\ at_start = visited \cup From(conns, nxt)
    /\ At({"visit"}) => /\ cur \in OnList \cup {Nil}
                        /\ visited \cap From(conns, cur) = {}
                        /\ at_start = visited \cup From(conns, cur)
    /\ At({"write"}) => cur \in Users

\* The input and output of c are still to be done in this pass.
Ahead(c) == c \notin visited \/ (c = cur /\ At({"polled", "io"}))

\* What was ready when the pass began is ready when it is used.
ReadyInv ==
    /\ \A c \in writable \cap Users : Ahead(c) => c \in is_connecting \/ send[c] > 0
    /\ At({"write"}) /\ cur \in writable => send[cur] > 0
    /\ Pipe \in readable /\ Ahead(Pipe) => pipe # <<>>

\* The inductive invariant of the walk.
LoopInv == Typed /\ WalkInv /\ ReadyInv

-----------------------------------------------------------------------------
\* The types in three parts, each disturbed by few steps.
ListTyped ==
    /\ IsList(conns, Conns) /\ OnList \subseteq opened /\ opened \subseteq Conns
    /\ is_closing \subseteq OnList /\ is_draining \subseteq OnList \cap Users
    /\ is_resp \subseteq Accepted /\ is_connecting \subseteq OnList \cap Clients
    /\ is_websocket \subseteq Accepted
    /\ at_start \cup visited \subseteq opened

\* The types of what a connection keeps.
DataTyped ==
    /\ recv \in [Users -> Seq(0..MaxClock)] /\ send \in [Users -> Nat]
    /\ last_active \in [Users -> 0..MaxClock]
    /\ recv_deadline \in [Users -> Nat] /\ connect_deadline \in [Users -> Nat]
    /\ num_accepted \in Nat /\ stat_accepted \in Nat /\ stat_closed \in Nat
    /\ clock \in 1..MaxClock /\ now \in 0..clock

\* The types of where the loop is and of what the environment holds.
ControlTyped ==
    /\ pc \in Labels /\ ret \in Labels \ {"handler", "freed"}
    /\ cur \in Conns \cup {Nil} /\ nxt \in Conns \cup {Nil} /\ who \in Conns \cup {Nil}
    /\ readable \subseteq Conns /\ writable \subseteq Conns /\ errs \subseteq Users
    /\ pipe_open \in BOOLEAN /\ was_resp \in BOOLEAN
    /\ freeing \in BOOLEAN /\ drain_started \in BOOLEAN
    /\ pipe \in Seq(Users)

\* The type invariant, as its three parts.
LEMMA TypedParts == Typed <=> ListTyped /\ DataTyped /\ ControlTyped
BY DEF Typed, TypeOK, ListTyped, DataTyped, ControlTyped, IsList

\* The types hold at the start.
LEMMA TypedInit == Init => Typed
<1> SUFFICES ASSUME Init PROVE ListTyped /\ DataTyped /\ ControlTyped
  BY TypedParts
<1> USE EventLoopAssumption DEF Init
<1>1. ListTyped
  <2>1. conns \in Seq(Conns) /\ IsInjective(conns) /\ OnList = {Listener, Pipe}
    BY DEF Conns, IsInjective, OnList, Range
  <2> QED BY <2>1 DEF ListTyped, IsList, Accepted, Conns
<1>2. DataTyped BY DEF DataTyped
<1>3. ControlTyped
  <2>1. /\ cur \in Conns \cup {Nil} /\ nxt \in Conns \cup {Nil} /\ who \in Conns \cup {Nil}
        /\ pc \in Labels /\ ret \in Labels \ {"handler", "freed"}
    BY DEF Labels
  <2>2. pipe \in Seq(Users) OBVIOUS
  <2> QED BY <2>1, <2>2 DEF ControlTyped
<1> QED BY <1>1, <1>2, <1>3

\* Everything that happens in a handler is on the list of one of these.
LEMMA UserCodeFrame ==
    UserCode => UNCHANGED <<pipeVars, clock, now, walk, control, ready, freeing>>
BY DEF UserCode

\* A step keeps the list of connections a list without repeats.
LEMMA ListNext == ListTyped /\ ControlTyped /\ WalkInv /\ [Next]_vars => ListTyped'
<1> SUFFICES ASSUME ListTyped, ControlTyped, WalkInv, [Next]_vars PROVE ListTyped'
  OBVIOUS
<1> USE EventLoopAssumption DEF ListTyped, OnList, Accepted, flags, times, buffers,
        stats, pipeVars, walk, control, ready, Closing, Users
<1>1. CASE UserCode
  <2>0. UNCHANGED <<at_start, visited>> BY <1>1, UserCodeFrame
  <2>1. CASE HandlerSends BY <2>0, <2>1 DEF HandlerSends
  <2>2. CASE HandlerCloses BY <2>0, <2>2 DEF HandlerCloses, SetClosing
  <2>3. CASE HandlerDrains BY <2>0, <2>3 DEF HandlerDrains
  <2>4. CASE HandlerTakesRequest BY <2>0, <2>4 DEF HandlerTakesRequest
  <2>5. CASE HandlerReplies BY <2>0, <2>5 DEF HandlerReplies
  <2>6. CASE HandlerConnects
    BY <2>0, <2>6, AddRange DEF HandlerConnects, AddHead, Conns
  <2>7. CASE StartDrain BY <2>0, <2>7 DEF StartDrain, DrainListeners
  <2>8. CASE HandlerUpgrades BY <2>0, <2>8 DEF HandlerUpgrades
  <2> QED BY <1>1, <2>1, <2>2, <2>3, <2>4, <2>5, <2>6, <2>7, <2>8 DEF UserCode
<1>2. CASE MgrFree BY <1>2 DEF MgrFree
<1>3. CASE Accept
  <2>1. ASSUME NEW c \in Peers \ opened, AddHead(c), opened' = opened \cup {c},
               UNCHANGED <<flags, at_start, visited>>
        PROVE  ListTyped'
    <3>1. c \in Conns /\ c \notin Range(conns) BY DEF Conns
    <3>2. IsList(conns', Conns) /\ Range(conns') = {c} \cup Range(conns)
      BY <2>1, <3>1, AddRange DEF AddHead
    <3> QED BY <2>1, <3>1, <3>2
  <2>2. CASE conns' = conns
    BY <1>3, <2>2 DEF Accept, Conns
  <2>3. CASE conns' # conns
    <3>1. PICK c \in Peers \ opened : AddHead(c) /\ opened' = opened \cup {c}
      BY <1>3, <2>3 DEF Accept
    <3> QED BY <1>3, <2>1, <3>1 DEF Accept
  <2> QED BY <2>2, <2>3
<1>4. CASE Close
  <2>1. cur \in OnList BY <1>4 DEF Close, WalkInv, At, Visits
  <2> QED BY <1>4, <2>1, RemoveRange DEF Close, Delete
<1>5. CASE StartWalk BY <1>5 DEF StartWalk
<1>6. CASE Visit
  <2>1. cur \in OnList BY <1>6 DEF Visit, WalkInv, At
  <2> QED BY <1>6, <2>1 DEF Visit
<1>7. CASE EndPass BY <1>7 DEF EndPass
<1>8. CASE \/ IOTest \/ RunTimers \/ Polled \/ NoIO \/ ReadPipe \/ Step
           \/ HandlerReturns \/ Tick \/ Freed \/ (\E c \in Users : Wakeup(c))
  BY <1>8 DEF IOTest, RunTimers, Polled, NoIO, ReadPipe, Step, HandlerReturns, Tick,
              Freed, Wakeup, vars
<1>9. CASE UNCHANGED vars BY <1>9 DEF vars
<1>10. CASE SocketError
  <2>1. PICK c \in errs : Error(c, "errors") BY <1>10 DEF SocketError
  <2>2. c \in OnList BY <2>1 DEF WalkInv
  <2> QED BY <1>10, <2>1, <2>2 DEF SocketError, Error
<1>11. CASE Connected
  <2>1. cur \in OnList BY <1>11 DEF Connected
  <2> QED BY <1>11, <2>1 DEF Connected, Error
<1>12. CASE Read
  <2>1. cur \in OnList BY <1>12 DEF Read, WalkInv, At, Visits
  <2> QED BY <1>12, <2>1 DEF Read, Error
<1>13. CASE Write
  <2>1. cur \in OnList BY <1>13 DEF Write, WalkInv, At, Visits
  <2> QED BY <1>13, <2>1 DEF Write
<1>14. CASE Limits
  <2>1. cur \in OnList BY <1>14 DEF Limits, WalkInv, At, Visits
  <2> QED BY <1>14, <2>1 DEF Limits
<1> QED
  BY <1>1, <1>2, <1>3, <1>4, <1>5, <1>6, <1>7, <1>8, <1>9, <1>10, <1>11, <1>12,
     <1>13, <1>14 DEF Next, Pass

\* One more message to send.
LEMMA OneMore ==
    ASSUME send \in [Users -> Nat], NEW c \in Users
    PROVE  [send EXCEPT ![c] = @ + 1] \in [Users -> Nat]
OBVIOUS

\* What is left of a sequence after its first k elements.
LEMMA RestOf ==
    ASSUME NEW S, NEW s \in Seq(S), NEW k \in 1..Len(s)
    PROVE  /\ SubSeq(s, k + 1, Len(s)) \in Seq(S)
           /\ Len(SubSeq(s, k + 1, Len(s))) = Len(s) - k
           /\ \A i \in 1..(Len(s) - k) : SubSeq(s, k + 1, Len(s))[i] = s[i + k]
<1>1. Len(s) \in Nat /\ k \in Int /\ \A i \in (k + 1)..Len(s) : s[i] \in S
  OBVIOUS
<1> QED BY <1>1, SubSeqProperties

\* Setting one entry of a table.
LEMMA SetEntry ==
    ASSUME NEW D, NEW S, NEW f \in [D -> S], NEW d, NEW v \in S
    PROVE  [f EXCEPT ![d] = v] \in [D -> S]
OBVIOUS

\* The types of the buffers, the deadlines, the counts and the times.
LEMMA DataNext ==
    ListTyped /\ DataTyped /\ ControlTyped /\ WalkInv /\ [Next]_vars => DataTyped'
<1> SUFFICES ASSUME ListTyped, DataTyped, ControlTyped, WalkInv, [Next]_vars
             PROVE  DataTyped'
  OBVIOUS
<1> DEFINE Times == 0..MaxClock
<1>0. /\ recv \in [Users -> Seq(Times)] /\ send \in [Users -> Nat]
      /\ last_active \in [Users -> Times]
      /\ recv_deadline \in [Users -> Nat] /\ connect_deadline \in [Users -> Nat]
      /\ num_accepted \in Nat /\ stat_accepted \in Nat /\ stat_closed \in Nat
      /\ clock \in 1..MaxClock /\ now \in 0..clock
  BY DEF DataTyped
<1>a. clock \in Times /\ now \in Times /\ 0 \in Times /\ MaxClock \in Nat
  BY <1>0, EventLoopAssumption
<1>b. <<>> \in Seq(Times) OBVIOUS
<1> HIDE DEF Times
<1>c. ASSUME recv' \in [Users -> Seq(Times)], send' \in [Users -> Nat],
             last_active' \in [Users -> Times],
             recv_deadline' \in [Users -> Nat], connect_deadline' \in [Users -> Nat],
             num_accepted' \in Nat, stat_accepted' \in Nat, stat_closed' \in Nat,
             clock' \in 1..MaxClock, now' \in 0..clock'
      PROVE  DataTyped'
  BY <1>c DEF DataTyped, Times
<1>1. CASE UserCode
  <2>0. UNCHANGED <<clock, now>> BY <1>1, UserCodeFrame
  <2>a. clock' \in 1..MaxClock /\ now' \in 0..clock' BY <1>0, <2>0
  <2>1. CASE HandlerSends
    <3>1. PICK d \in Users : send' = [send EXCEPT ![d] = @ + 1]
      BY <2>1 DEF HandlerSends
    <3>2. send' \in [Users -> Nat] BY <1>0, <3>1, OneMore
    <3>3. UNCHANGED <<times, recv, stats>> BY <2>1 DEF HandlerSends
    <3> QED BY <1>0, <1>c, <2>a, <3>2, <3>3 DEF times, stats
  <2>2. CASE HandlerCloses \/ HandlerDrains \/ StartDrain
    <3>1. UNCHANGED <<times, buffers, stats>>
      BY <2>2 DEF HandlerCloses, HandlerDrains, StartDrain
    <3> QED BY <1>0, <1>c, <2>a, <3>1 DEF times, stats, buffers
  <2>4. CASE HandlerTakesRequest
    <3>1. recv' \in [Users -> Seq(Times)]
      <4>1. PICK k \in 1..Len(recv[who]) :
               recv' = [recv EXCEPT ![who] = SubSeq(@, k + 1, Len(@))]
        BY <2>4 DEF HandlerTakesRequest
      <4>2. who \in Users BY <2>4 DEF HandlerTakesRequest, Accepted, Users
      <4>3. recv[who] \in Seq(Times) BY <1>0, <4>2
      <4>4. SubSeq(recv[who], k + 1, Len(recv[who])) \in Seq(Times)
        BY <4>3, RestOf
      <4> QED BY <1>0, <4>1, <4>4
    <3>2. UNCHANGED <<times, send, stats>> BY <2>4 DEF HandlerTakesRequest
    <3> QED BY <1>0, <1>c, <2>a, <3>1, <3>2 DEF times, stats
  <2>5. CASE HandlerReplies
    <3>1. PICK d \in is_resp : send' = [send EXCEPT ![d] = @ + 1]
      BY <2>5 DEF HandlerReplies
    <3>2. d \in Users BY DEF ListTyped, Accepted, Users
    <3>3. send' \in [Users -> Nat] BY <1>0, <3>1, <3>2, OneMore
    <3>4. UNCHANGED <<times, recv, stats>> BY <2>5 DEF HandlerReplies
    <3> QED BY <1>0, <1>c, <2>a, <3>3, <3>4 DEF times, stats
  <2>6. CASE HandlerConnects
    <3>1. PICK d \in Clients : last_active' = [last_active EXCEPT ![d] = clock]
      BY <2>6 DEF HandlerConnects
    <3>2. last_active' \in [Users -> Times] BY <1>0, <1>a, <3>1
    <3>3. UNCHANGED <<recv_deadline, connect_deadline, buffers, stats>>
      BY <2>6 DEF HandlerConnects
    <3> QED BY <1>0, <1>c, <2>a, <3>2, <3>3 DEF buffers, stats
  <2>7. CASE HandlerUpgrades
    <3>1. send' = [send EXCEPT ![who] = @ + 1] /\ who \in Users
      BY <2>7 DEF HandlerUpgrades, Accepted, Users
    <3>2. send' \in [Users -> Nat] BY <1>0, <3>1, OneMore
    <3>3. UNCHANGED <<times, recv, stats>> BY <2>7 DEF HandlerUpgrades
    <3> QED BY <1>0, <1>c, <2>a, <3>2, <3>3 DEF times, stats
  <2> QED BY <1>1, <2>1, <2>2, <2>4, <2>5, <2>6, <2>7 DEF UserCode
<1>2. CASE RunTimers
  <2>1. UNCHANGED <<buffers, times, stats, clock>> /\ now' = clock BY <1>2 DEF RunTimers
  <2>2. now' \in 0..clock' BY <1>0, <2>1
  <2> QED BY <1>0, <1>c, <2>1, <2>2 DEF buffers, times, stats
<1>3. CASE Accept
  <2>1. UNCHANGED <<buffers, recv_deadline, connect_deadline, stat_closed, clock, now>>
    BY <1>3 DEF Accept
  <2>2. \/ UNCHANGED <<last_active, num_accepted, stat_accepted>>
        \/ /\ \E c \in Peers : last_active' = [last_active EXCEPT ![c] = clock]
           /\ num_accepted' = num_accepted + 1 /\ stat_accepted' = stat_accepted + 1
    BY <1>3 DEF Accept
  <2>3. last_active' \in [Users -> Times] BY <1>0, <1>a, <2>2
  <2>4. num_accepted' \in Nat /\ stat_accepted' \in Nat BY <1>0, <2>2
  <2> QED BY <1>0, <1>c, <2>1, <2>3, <2>4 DEF buffers
<1>4. CASE Read
  <2>1. UNCHANGED recv \/ recv' = [recv EXCEPT ![cur] = Append(@, now)]
    BY <1>4 DEF Read
  <2>2. recv' \in [Users -> Seq(Times)]
    <3>1. CASE cur \in Users
      <4>1. Append(recv[cur], now) \in Seq(Times) BY <1>0, <1>a, <3>1
      <4> QED BY <1>0, <2>1, <4>1
    <3>2. CASE cur \notin Users BY <1>0, <2>1, <3>2
    <3> QED BY <3>1, <3>2
  <2>3. UNCHANGED last_active \/ last_active' = [last_active EXCEPT ![cur] = clock]
    BY <1>4 DEF Read
  <2>4. last_active' \in [Users -> Times] BY <1>0, <1>a, <2>3
  <2>5. UNCHANGED <<send, recv_deadline, connect_deadline, stats, clock, now>>
    BY <1>4 DEF Read
  <2> QED BY <1>0, <1>c, <2>2, <2>4, <2>5 DEF stats
<1>5. CASE Write
  <2>1. cur \in Users BY <1>5 DEF Write, WalkInv, At
  <2>2. send' \in [Users -> Nat]
    <3>1. UNCHANGED send \/ \E n \in 1..send[cur] : send' = [send EXCEPT ![cur] = @ - n]
      BY <1>5 DEF Write
    <3>2. send[cur] \in Nat BY <1>0, <2>1
    <3>3. \A n \in 1..send[cur] : send[cur] - n \in Nat BY <3>2
    <3> QED BY <1>0, <3>1, <3>3
  <2>3. UNCHANGED last_active \/ last_active' = [last_active EXCEPT ![cur] = clock]
    BY <1>5 DEF Write
  <2>4. last_active' \in [Users -> Times] BY <1>0, <1>a, <2>3
  <2>5. UNCHANGED <<recv, recv_deadline, connect_deadline, stats, clock, now>>
    BY <1>5 DEF Write
  <2> QED BY <1>0, <1>c, <2>2, <2>4, <2>5 DEF stats
<1>6. CASE Limits
  <2>0. request_timeout_ms \in Nat /\ connect_timeout_ms \in Nat /\ now \in Nat
    BY <1>0, EventLoopAssumption
  <2>1. recv_deadline' \in [Users -> Nat]
    <3>1. cur \in Users => recv_deadline[cur] \in Nat BY <1>0
    <3>2. cur \in Users => RequestDeadline(cur) \in Nat
      BY <2>0, <3>1 DEF RequestDeadline
    <3>3. \/ recv_deadline' = [recv_deadline EXCEPT ![cur] = RequestDeadline(cur)]
          \/ UNCHANGED recv_deadline
      BY <1>6 DEF Limits
    <3> QED BY <1>0, <3>2, <3>3
  <2>2. connect_deadline' \in [Users -> Nat]
    <3>1. cur \in Users => connect_deadline[cur] \in Nat BY <1>0
    <3>2. cur \in Users => ConnectDeadline(cur) \in Nat
      BY <2>0, <3>1 DEF ConnectDeadline
    <3>3. \/ connect_deadline' = [connect_deadline EXCEPT ![cur] = ConnectDeadline(cur)]
          \/ UNCHANGED connect_deadline
      BY <1>6 DEF Limits
    <3> QED BY <1>0, <3>2, <3>3
  <2>3. UNCHANGED <<buffers, last_active, stats, clock, now>> BY <1>6 DEF Limits
  <2> QED BY <1>0, <1>c, <2>1, <2>2, <2>3 DEF buffers, stats
<1>7. CASE Close
  <2>1. \/ UNCHANGED <<buffers, times>>
        \/ /\ recv' = [recv EXCEPT ![cur] = <<>>]
           /\ send' = [send EXCEPT ![cur] = 0]
           /\ last_active' = [last_active EXCEPT ![cur] = 0]
           /\ recv_deadline' = [recv_deadline EXCEPT ![cur] = 0]
           /\ connect_deadline' = [connect_deadline EXCEPT ![cur] = 0]
    BY <1>7 DEF Close
  <2>2. UNCHANGED <<stat_accepted, clock, now>> BY <1>7 DEF Close
  <2>a. /\ [send EXCEPT ![cur] = 0] \in [Users -> Nat]
        /\ [recv_deadline EXCEPT ![cur] = 0] \in [Users -> Nat]
        /\ [connect_deadline EXCEPT ![cur] = 0] \in [Users -> Nat]
    BY <1>0, SetEntry
  <2>3. recv' \in [Users -> Seq(Times)] BY <1>0, <1>b, <2>1, SetEntry DEF buffers
  <2>4. send' \in [Users -> Nat] BY <1>0, <2>1, <2>a DEF buffers
  <2>5. last_active' \in [Users -> Times] BY <1>0, <1>a, <2>1, SetEntry DEF times
  <2>6. recv_deadline' \in [Users -> Nat] BY <1>0, <2>1, <2>a DEF times
  <2>7. connect_deadline' \in [Users -> Nat] BY <1>0, <2>1, <2>a DEF times
  <2>8. \/ UNCHANGED <<num_accepted, stat_closed>>
        \/ Uncount /\ stat_closed' = stat_closed + 1
    BY <1>7 DEF Close
  <2>9. num_accepted' \in Nat /\ stat_closed' \in Nat
    BY <1>0, <2>8 DEF Uncount
  <2> QED BY <1>0, <1>c, <2>2, <2>3, <2>4, <2>5, <2>6, <2>7, <2>9
<1>8. CASE EndPass
  <2>1. UNCHANGED <<buffers, times, stats, clock>> /\ now' = 0 BY <1>8 DEF EndPass
  <2>2. now' \in 0..clock' BY <1>0, <2>1
  <2> QED BY <1>0, <1>c, <2>1, <2>2 DEF buffers, times, stats
<1>9. CASE Tick
  <2>1. UNCHANGED <<buffers, times, stats, now>> /\ clock' = clock + 1 /\ clock < MaxClock
    BY <1>9 DEF Tick
  <2>2. clock' \in 1..MaxClock /\ now' \in 0..clock' BY <1>0, <1>a, <2>1
  <2> QED BY <1>0, <1>c, <2>1, <2>2 DEF buffers, times, stats
<1>10. CASE \/ IOTest \/ SocketError \/ StartWalk \/ Visit \/ Polled \/ NoIO \/ Connected
            \/ ReadPipe \/ Step \/ HandlerReturns \/ MgrFree \/ Freed
            \/ (\E c \in Users : Wakeup(c)) \/ UNCHANGED vars
  <2>1. UNCHANGED <<buffers, times, stats, clock, now>>
    BY <1>10 DEF IOTest, SocketError, StartWalk, Visit, Polled, NoIO, Connected, ReadPipe,
               Step, HandlerReturns, MgrFree, Freed, Wakeup, vars
  <2>2. clock' \in 1..MaxClock /\ now' \in 0..clock' BY <1>0, <2>1
  <2> QED BY <1>0, <1>c, <2>1, <2>2 DEF buffers, times, stats
<1> QED
  BY <1>1, <1>2, <1>3, <1>4, <1>5, <1>6, <1>7, <1>8, <1>9, <1>10 DEF Next, Pass

\* The types of the control variables, the walk's pointers and the pipe.  That
\* the pipe is not empty when it is read is part of ReadyInv.
LEMMA ControlNext ==
    ListTyped /\ ControlTyped /\ WalkInv /\ ReadyInv /\ [Next]_vars => ControlTyped'
<1> SUFFICES ASSUME ListTyped, ControlTyped, WalkInv, ReadyInv, [Next]_vars
             PROVE  ControlTyped'
  OBVIOUS
<1>0. Range(conns) \subseteq Conns /\ IsList(conns, Conns) BY ListRange DEF ListTyped
<1>a. Nil \notin Conns BY EventLoopAssumption
<1>b. readable \subseteq Conns /\ writable \subseteq Conns /\ errs \subseteq Users
  BY DEF ControlTyped
<1> USE DEF Call, GoTo, Labels, OnList, walk, control, ready, pipeVars
<1>1. CASE UserCode
  <2>1. drain_started' \in BOOLEAN
    BY <1>1 DEF UserCode, HandlerSends, HandlerCloses, HandlerDrains, HandlerTakesRequest,
                HandlerReplies, HandlerUpgrades, HandlerConnects, StartDrain, ControlTyped
  <2> QED BY <1>1, <2>1, UserCodeFrame DEF ControlTyped
<1>2. CASE IOTest
  <2>1. errs' \subseteq Users /\ readable' \subseteq Conns /\ writable' \subseteq Conns
    <3>1. /\ errs' \subseteq OnList \cap Users /\ writable' \subseteq OnList
          /\ readable' \subseteq OnList \cup {Pipe}
      BY <1>2 DEF IOTest
    <3>2. Pipe \in Conns BY DEF Conns
    <3> QED BY <1>0, <3>1, <3>2
  <2> QED BY <1>2, <2>1 DEF IOTest, ControlTyped
<1>3. CASE SocketError
  <2>1. PICK c \in errs : Error(c, "errors") /\ errs' = errs \ {c} BY <1>3 DEF SocketError
  <2>2. c \in Conns BY <1>b, <2>1 DEF Conns, Users
  <2> QED BY <1>3, <2>1, <2>2 DEF SocketError, Error, ControlTyped
<1>4. CASE RunTimers BY <1>4 DEF RunTimers, ControlTyped
<1>5. CASE StartWalk
  <2>1. cur' \in Conns \cup {Nil} BY <1>0, <1>a, <1>5, FromFirst DEF StartWalk
  <2> QED BY <1>5, <2>1 DEF StartWalk, ControlTyped
<1>6. CASE Visit
  <2>1. cur \in Range(conns) BY <1>6 DEF Visit, WalkInv, At
  <2>2. nxt' \in Conns \cup {Nil} BY <1>0, <1>a, <1>6, <2>1, FromAfter DEF Visit
  <2>3. was_resp' \in BOOLEAN BY <1>6 DEF Visit
  <2> QED BY <1>0, <1>6, <2>1, <2>2, <2>3 DEF Visit, ControlTyped
<1>7. CASE Polled BY <1>7 DEF Polled, ControlTyped
<1>8. CASE NoIO BY <1>8 DEF NoIO, ControlTyped
<1>9. CASE Accept
  <2>1. /\ pc' \in {"limits", "handler"}
        /\ (ret' = ret /\ who' = who) \/ (ret' = "limits" /\ who' \in Peers)
    BY <1>9 DEF Accept
  <2>2. UNCHANGED <<pipeVars, walk, ready, freeing, drain_started>> BY <1>9 DEF Accept
  <2>3. Peers \subseteq Conns BY DEF Conns
  <2> QED BY <2>1, <2>2, <2>3 DEF ControlTyped
<1>10. CASE Connected BY <1>10 DEF Connected, Error, ControlTyped
<1>11. CASE Read
  <2>1. /\ pc' \in {"write", "handler"}
        /\ (ret' = ret /\ who' = who) \/ (ret' = "write" /\ who' = cur)
    BY <1>11 DEF Read, Error
  <2>2. UNCHANGED <<pipeVars, walk, ready, freeing, drain_started>> BY <1>11 DEF Read
  <2> QED BY <2>1, <2>2 DEF ControlTyped
<1>12. CASE ReadPipe
  <2>1. /\ pc' \in {"limits", "handler"}
        /\ (ret' = ret /\ who' = who) \/ (ret' = "limits" /\ who' \in OnList)
    BY <1>12 DEF ReadPipe
  <2>2. UNCHANGED <<pipe_open, walk, ready, freeing, drain_started>> BY <1>12 DEF ReadPipe
  <2>3. pipe \in Seq(Users) BY DEF ControlTyped
  <2>4. pipe' = pipe \/ (Pipe \in readable /\ pipe' = Tail(pipe))
    BY <1>12 DEF ReadPipe, Consumed
  <2>5. Pipe \in readable => pipe # <<>> BY <1>12 DEF ReadPipe, ReadyInv, Ahead, At
  <2>6. pipe' \in Seq(Users) BY <2>3, <2>4, <2>5
  <2> QED BY <1>0, <2>1, <2>2, <2>6 DEF ControlTyped
<1>13. CASE Write
  <2>1. /\ pc' \in {"limits", "handler"}
        /\ (ret' = ret /\ who' = who) \/ (ret' = "limits" /\ who' = cur)
    BY <1>13 DEF Write
  <2>2. UNCHANGED <<pipeVars, walk, ready, freeing, drain_started>> BY <1>13 DEF Write
  <2> QED BY <2>1, <2>2 DEF ControlTyped
<1>14. CASE Limits
  <2>1. pc' \in {"close", "next"} /\ UNCHANGED <<ret, who>> BY <1>14 DEF Limits
  <2>2. UNCHANGED <<pipeVars, walk, ready, freeing, drain_started>> BY <1>14 DEF Limits
  <2> QED BY <2>1, <2>2 DEF ControlTyped
<1>15. CASE Close
  <2>1. UNCHANGED <<walk, ready, freeing, drain_started>> BY <1>15 DEF Close
  <2>2. pc' = "handler" /\ ret' = "next" /\ who' = cur BY <1>15 DEF Close
  <2>3. (pipe' = pipe /\ pipe_open' = pipe_open) \/ (pipe' = <<>> /\ pipe_open' = FALSE)
    BY <1>15 DEF Close
  <2>4. <<>> \in Seq(Users) OBVIOUS
  <2> QED BY <2>1, <2>2, <2>3, <2>4 DEF ControlTyped
<1>16. CASE Step BY <1>16 DEF Step, ControlTyped
<1>17. CASE EndPass BY <1>17 DEF EndPass, ControlTyped
<1>18. CASE HandlerReturns BY <1>18 DEF HandlerReturns, ControlTyped
<1>19. CASE MgrFree BY <1>19 DEF MgrFree, ControlTyped
<1>20. CASE \E c \in Users : Wakeup(c) BY <1>20 DEF Wakeup, ControlTyped
<1>21. CASE Tick \/ Freed \/ UNCHANGED vars BY <1>21 DEF Tick, Freed, vars, ControlTyped
<1> QED
  BY <1>1, <1>2, <1>3, <1>4, <1>5, <1>6, <1>7, <1>8, <1>9, <1>10, <1>11, <1>12, <1>13,
     <1>14, <1>15, <1>16, <1>17, <1>18, <1>19, <1>20, <1>21 DEF Next, Pass

-----------------------------------------------------------------------------
(* The walk.                                                               *)

\* A step leaves the list as it is or adds a new connection at its head.
Grows == conns' = conns \/ \E d \in Conns \ opened : AddHead(d)

\* Only Close takes a connection off the list.
LEMMA GrowsOrCloses == [Next]_vars => Grows \/ Close
<1> SUFFICES ASSUME [Next]_vars, ~Close PROVE Grows
  OBVIOUS
<1>1. CASE UserCode
  <2>1. \/ conns' = conns
        \/ \E d \in Clients \ opened : AddHead(d)
    BY <1>1 DEF UserCode, HandlerSends, HandlerCloses, SetClosing, HandlerDrains,
                HandlerTakesRequest, HandlerReplies, HandlerUpgrades, HandlerConnects, StartDrain
  <2> QED BY <2>1 DEF Grows, Conns
<1>2. CASE Accept
  <2>1. conns' = conns \/ \E d \in Peers \ opened : AddHead(d) BY <1>2 DEF Accept
  <2> QED BY <2>1 DEF Grows, Conns
<1>3. CASE \/ IOTest \/ SocketError \/ RunTimers \/ StartWalk \/ Visit \/ Polled \/ NoIO
           \/ Connected \/ Read \/ ReadPipe \/ Write \/ Limits \/ Step \/ EndPass
           \/ HandlerReturns \/ MgrFree \/ Tick \/ Freed \/ (\E c \in Users : Wakeup(c))
           \/ UNCHANGED vars
  <2>1. conns' = conns
    BY <1>3 DEF IOTest, SocketError, RunTimers, StartWalk, Visit, Polled, NoIO, Connected,
                Read, ReadPipe, Write, Limits, Step, EndPass, HandlerReturns, MgrFree,
                Tick, Freed, Wakeup, vars
  <2> QED BY <2>1 DEF Grows
<1> QED BY <1>1, <1>2, <1>3 DEF Next, Pass

\* A list that grows keeps its elements, and what is ahead of every place.
LEMMA GrowsFrom ==
    ASSUME ListTyped, Grows
    PROVE  /\ OnList \subseteq OnList'
           /\ OnList' \cap opened = OnList
           /\ \A x \in OnList \cup {Nil} : From(conns', x) = From(conns, x)
<1>1. IsList(conns, Conns) /\ OnList \subseteq opened BY DEF ListTyped
<1>2. CASE conns' = conns BY <1>1, <1>2 DEF OnList
<1>3. CASE conns' # conns
  <2>1. PICK d \in Conns \ opened : AddHead(d) BY <1>3 DEF Grows
  <2>2. d \notin Range(conns) BY <1>1, <2>1 DEF OnList
  <2>3. OnList' = {d} \cup OnList BY <1>1, <2>1, <2>2, AddRange DEF OnList, AddHead
  <2>4. ASSUME NEW x \in OnList \cup {Nil} PROVE From(conns', x) = From(conns, x)
    <3>1. x # d BY <1>1, <2>1, EventLoopAssumption
    <3> QED BY <1>1, <2>1, <2>2, <3>1, FromAdd DEF AddHead
  <2> QED BY <1>1, <2>1, <2>3, <2>4
<1> QED BY <1>2, <1>3

\* The walk stands where it stood, or goes on to the next label of a visit.
LEMMA WalkKept ==
    ASSUME ListTyped, WalkInv, Grows, UNCHANGED <<cur, nxt, errs, at_start, visited>>,
           At({"errors"})' <=> At({"errors"}),
           At({"idle", "errors", "first", "freed"})' =>
              At({"idle", "errors", "first", "freed"}),
           At(Visits)' => At(Visits), At(Following)' => At(Following),
           At({"visit"})' => At({"visit"}),
           At({"write"})' => cur \in Users
    PROVE  WalkInv'
<1>1. /\ OnList \subseteq OnList'
      /\ \A x \in OnList \cup {Nil} : From(conns', x) = From(conns, x)
  BY GrowsFrom
<1>2. (errs \subseteq OnList /\ (~At({"errors"}) => errs = {}))' BY <1>1 DEF WalkInv
<1>3. (At({"idle", "errors", "first", "freed"}) => visited = {})' BY DEF WalkInv
<1>4. (At(Visits) => cur \in OnList)' BY <1>1 DEF WalkInv
<1>5. ASSUME At(Following)'
      PROVE  (/\ nxt \in OnList \cup {Nil} /\ cur \in visited
              /\ visited \cap From(conns, nxt) = {}
              /\ at_start = visited \cup From(conns, nxt))'
  <2>1. At(Following) BY <1>5
  <2> QED BY <1>1, <2>1 DEF WalkInv
<1>6. ASSUME At({"visit"})'
      PROVE  (/\ cur \in OnList \cup {Nil}
              /\ visited \cap From(conns, cur) = {}
              /\ at_start = visited \cup From(conns, cur))'
  <2>1. At({"visit"}) BY <1>6
  <2> QED BY <1>1, <2>1 DEF WalkInv
<1>7. (At({"write"}) => cur \in Users)' OBVIOUS
<1> QED BY <1>2, <1>3, <1>4, <1>5, <1>6, <1>7 DEF WalkInv

\* Init and the next-state relation keep the invariant of the walk.
LEMMA WalkInit == Init => WalkInv
BY DEF Init, WalkInv, At, Visits, Following, OnList

\* A step keeps the place of the walk on the list, or past its end.
LEMMA WalkNext ==
    ListTyped /\ ControlTyped /\ WalkInv /\ [Next]_vars => WalkInv'
<1> SUFFICES ASSUME ListTyped, ControlTyped, WalkInv, [Next]_vars
             PROVE  WalkInv'
  OBVIOUS
<1>0. IsList(conns, Conns) /\ Nil \notin Conns BY EventLoopAssumption DEF ListTyped
<1>a. ret # "handler" BY DEF ControlTyped
<1>b. ~Close => Grows BY GrowsOrCloses
<1> USE DEF Call, GoTo, walk, control
<1>1. CASE UserCode \/ MgrFree \/ Tick \/ (\E c \in Users : Wakeup(c)) \/ Freed
           \/ UNCHANGED vars
  <2>1. UNCHANGED <<walk, control>>
    BY <1>1 DEF UserCode, MgrFree, Tick, Wakeup, Freed, vars
  <2>2. ~Close => Grows BY <1>b
  <2>3. ~Close BY <2>1, <1>1 DEF Close
  <2>4. UNCHANGED <<pc, ret, cur, nxt, errs, at_start, visited>> BY <2>1
  <2>5. At({"write"}) => cur \in Users BY DEF WalkInv
  <2> QED BY <2>2, <2>3, <2>4, <2>5, WalkKept DEF At
<1>2. CASE HandlerReturns
  <2>1. /\ UNCHANGED <<cur, nxt, errs, at_start, visited, conns>>
        /\ pc = "handler" /\ pc' = ret
    BY <1>2 DEF HandlerReturns
  <2>2. Grows BY <2>1 DEF Grows
  <2>3. At({"write"})' => cur \in Users BY <2>1, <1>a DEF WalkInv, At
  <2> QED BY <1>a, <2>1, <2>2, <2>3, WalkKept DEF At
<1>3. CASE \/ Polled \/ NoIO \/ Accept \/ Connected \/ Read \/ ReadPipe \/ Write \/ Limits
  <2>1. /\ UNCHANGED <<cur, nxt, errs, at_start, visited>>
        /\ pc \in Visits
        /\ pc' \in Following \/ (pc' = "handler" /\ ret' \in Following)
    BY <1>3 DEF Polled, NoIO, Accept, Connected, Error, Read, ReadPipe, Write, Limits,
                Visits, Following
  <2>2. /\ At({"errors"})' <=> At({"errors"})
        /\ At({"idle", "errors", "first", "freed"})' =>
              At({"idle", "errors", "first", "freed"})
        /\ At(Visits)' => At(Visits)
        /\ At(Following)' => At(Following)
        /\ At({"visit"})' => At({"visit"})
    BY <2>1 DEF At, Visits, Following
  <2>3. At({"write"})' => cur \in Users
    <3>1. At({"write"})' => Read
      BY <1>3 DEF Polled, NoIO, Accept, Connected, Error, ReadPipe, Write, Limits, At
    <3> QED BY <3>1 DEF Read, Stream
  <2>4. Grows BY <1>b, <1>3 DEF Close, Polled, NoIO, Accept, Connected, Read, ReadPipe, Write, Limits
  <2> QED BY <2>1, <2>2, <2>3, <2>4, WalkKept
<1>4. CASE IOTest
  <2>1. /\ UNCHANGED <<conns, cur, nxt, at_start, visited>>
        /\ pc = "idle" /\ pc' = "errors" /\ errs' \subseteq OnList
    BY <1>4 DEF IOTest
  <2> QED BY <2>1 DEF WalkInv, At, Visits, Following, OnList
<1>5. CASE SocketError
  <2>1. /\ UNCHANGED <<conns, cur, nxt, at_start, visited>>
        /\ pc = "errors" /\ pc' = "handler" /\ ret' = "errors" /\ errs' \subseteq errs
    BY <1>5 DEF SocketError, Error
  <2> QED BY <2>1 DEF WalkInv, At, Visits, Following, OnList
<1>6. CASE RunTimers
  <2>1. /\ UNCHANGED <<conns, cur, nxt, at_start, visited, errs>>
        /\ pc = "errors" /\ errs = {}
        /\ pc' = "first" \/ (pc' = "handler" /\ ret' = "first")
    BY <1>6 DEF RunTimers
  <2> QED BY <2>1 DEF WalkInv, At, Visits, Following, OnList
<1>7. CASE StartWalk
  <2>1. /\ UNCHANGED <<conns, errs>> /\ cur' = HeadOf(conns, Nil)
        /\ at_start' = OnList /\ visited' = {}
        /\ pc = "first" /\ pc' = "visit"
    BY <1>7 DEF StartWalk
  <2>2. From(conns, cur') = OnList /\ cur' \in OnList \cup {Nil}
    BY <1>0, <2>1, FromFirst DEF OnList
  <2> QED BY <2>1, <2>2 DEF WalkInv, At, Visits, Following, OnList
<1>8. CASE Visit
  <2>1. /\ UNCHANGED <<conns, errs, cur, at_start>> /\ nxt' = NextOf(conns, cur, Nil)
        /\ visited' = visited \cup {cur} /\ cur # Nil
        /\ pc = "visit" /\ pc' = "handler" /\ ret' = "polled"
    BY <1>8 DEF Visit
  <2>2. /\ cur \in OnList
        /\ visited \cap From(conns, cur) = {}
        /\ at_start = visited \cup From(conns, cur)
    BY <2>1 DEF WalkInv, At
  <2>3. /\ nxt' \in OnList \cup {Nil}
        /\ From(conns, cur) = {cur} \cup From(conns, nxt')
        /\ cur \notin From(conns, nxt')
    BY <1>0, <2>1, <2>2, FromAfter DEF OnList
  <2>4. /\ visited' \cap From(conns, nxt') = {}
        /\ at_start = visited' \cup From(conns, nxt')
    BY <2>1, <2>2, <2>3
  <2> QED BY <2>1, <2>2, <2>3, <2>4 DEF WalkInv, At, Visits, Following, OnList
<1>9. CASE Close
  <2>1. /\ UNCHANGED <<errs, cur, nxt, at_start, visited>> /\ Delete(cur)
        /\ pc = "close" /\ pc' = "handler" /\ ret' = "next"
    BY <1>9 DEF Close
  <2>2. /\ nxt \in OnList \cup {Nil} /\ cur \in visited /\ cur \in OnList
        /\ visited \cap From(conns, nxt) = {}
        /\ at_start = visited \cup From(conns, nxt)
        /\ errs = {}
    BY <2>1 DEF WalkInv, At, Visits, Following
  <2>3. cur \notin From(conns, nxt) BY <2>2
  <2>4. From(conns', nxt) = From(conns, nxt) /\ OnList' = OnList \ {cur}
    BY <1>0, <2>1, <2>2, <2>3, FromRemove, RemoveRange DEF Delete, OnList
  <2>5. nxt # cur \/ nxt = Nil
    BY <1>0, <2>2, <2>3, FromWithin DEF OnList
  <2>6. nxt' \in OnList' \cup {Nil} BY <2>1, <2>2, <2>4, <2>5
  <2> QED BY <2>1, <2>2, <2>4, <2>6 DEF WalkInv, At, Visits, Following
<1>10. CASE Step
  <2>1. /\ UNCHANGED <<conns, errs, at_start, visited>> /\ cur' = nxt
        /\ pc = "next" /\ pc' = "visit"
    BY <1>10 DEF Step
  <2> QED BY <2>1 DEF WalkInv, At, Visits, Following, OnList
<1>11. CASE EndPass
  <2>1. /\ UNCHANGED <<conns, errs, cur>> /\ visited' = {} /\ at_start' = {}
        /\ pc = "visit" /\ pc' \in {"idle", "freed"}
    BY <1>11 DEF EndPass
  <2> QED BY <2>1 DEF WalkInv, At, Visits, Following, OnList
<1> QED
  BY <1>1, <1>2, <1>3, <1>4, <1>5, <1>6, <1>7, <1>8, <1>9, <1>10, <1>11 DEF Next, Pass

-----------------------------------------------------------------------------
(* Readiness.                                                              *)

\* Handlers only add to the output, and do not end the connecting of any.
LEMMA UserCodeSends ==
    ASSUME ListTyped, DataTyped, UserCode
    PROVE  /\ \A c \in Users : send'[c] \in Nat /\ send'[c] >= send[c]
           /\ is_connecting \subseteq is_connecting'
<1>0. send \in [Users -> Nat] BY DEF DataTyped
<1>1. is_connecting \subseteq is_connecting'
  BY DEF UserCode, HandlerSends, HandlerCloses, HandlerDrains, HandlerTakesRequest,
         HandlerReplies, HandlerUpgrades, HandlerConnects, StartDrain, flags
<1>2. send' = send \/ \E d \in Users : send' = [send EXCEPT ![d] = @ + 1]
  <2>1. is_resp \subseteq Users BY DEF ListTyped, Accepted, Users
  <2> QED
    BY <2>1 DEF UserCode, HandlerSends, HandlerCloses, HandlerDrains,
                HandlerTakesRequest, HandlerReplies, HandlerUpgrades, HandlerConnects, StartDrain, buffers,
                Accepted, Users
<1>3. \A c \in Users : send'[c] \in Nat /\ send'[c] >= send[c] BY <1>0, <1>2
<1> QED BY <1>1, <1>3

\* What was ready stays ready: a step leaves the readiness alone, and takes
\* nothing from what is still ahead or is about to be written.
LEMMA ReadyKept ==
    ASSUME ReadyInv, DataTyped, UNCHANGED ready, \A c : Ahead(c)' => Ahead(c),
           \A c \in Users : Ahead(c)' =>
              /\ c \in is_connecting => c \in is_connecting'
              /\ send'[c] \in Nat /\ send'[c] >= send[c],
           At({"write"})' => /\ At({"write"}) /\ cur' = cur /\ cur \in Users
                             /\ send'[cur] \in Nat /\ send'[cur] >= send[cur],
           Ahead(Pipe)' /\ pipe # <<>> => pipe' # <<>>
    PROVE  ReadyInv'
<1>0. send \in [Users -> Nat] /\ UNCHANGED <<readable, writable>>
  BY DEF DataTyped, ready
<1>1. ASSUME NEW c \in writable' \cap Users, Ahead(c)'
      PROVE  c \in is_connecting' \/ send'[c] > 0
  <2>1. c \in is_connecting \/ send[c] > 0 BY <1>0, <1>1 DEF ReadyInv
  <2>2. send[c] \in Nat BY <1>0, <1>1
  <2> QED BY <1>1, <2>1, <2>2
<1>2. At({"write"})' /\ cur' \in writable' => send'[cur'] > 0
  <2>1. cur \in Users => send[cur] \in Nat BY <1>0
  <2> QED BY <1>0, <2>1 DEF ReadyInv
<1>3. Pipe \in readable' /\ Ahead(Pipe)' => pipe' # <<>>
  BY <1>0 DEF ReadyInv
<1> QED BY <1>1, <1>2, <1>3 DEF ReadyInv

\* Readiness harvested at the start of a pass is good until it is used.
LEMMA ReadyInit == Init => ReadyInv
BY DEF Init, ReadyInv, At

\* A step keeps ready what was ready and is still to be used.
LEMMA ReadyNext ==
    ListTyped /\ DataTyped /\ ControlTyped /\ WalkInv /\ ReadyInv /\ [Next]_vars
        => ReadyInv'
<1> SUFFICES ASSUME ListTyped, DataTyped, ControlTyped, WalkInv, ReadyInv, [Next]_vars
             PROVE  ReadyInv'
  OBVIOUS
<1>0. send \in [Users -> Nat] BY DEF DataTyped
<1>a. ret # "handler" BY DEF ControlTyped
<1>b. \A c \in Users : send[c] \in Nat /\ send[c] >= send[c] BY <1>0
<1>c. Pipe \notin Users BY EventLoopAssumption
<1> USE DEF Call, GoTo, walk, control, flags, buffers
<1>1. CASE UserCode
  <2>1. UNCHANGED <<pc, ret, cur, visited, pipe, ready>>
    BY <1>1, UserCodeFrame DEF pipeVars
  <2>2. /\ \A c \in Users : send'[c] \in Nat /\ send'[c] >= send[c]
        /\ is_connecting \subseteq is_connecting'
    BY <1>1, UserCodeSends
  <2>3. At({"write"}) => cur \in Users BY DEF WalkInv
  <2> QED BY <2>1, <2>2, <2>3, ReadyKept DEF Ahead, At
<1>2. CASE \/ MgrFree \/ Tick \/ Freed \/ HandlerReturns \/ (\E c \in Users : Wakeup(c))
           \/ SocketError \/ RunTimers \/ StartWalk \/ Step \/ UNCHANGED vars
  <2>1. /\ UNCHANGED <<send, is_connecting, ready>>
        /\ pipe' = pipe \/ \E c \in Users : pipe' = Append(pipe, c)
    BY <1>2 DEF MgrFree, Tick, Freed, HandlerReturns, Wakeup, SocketError, RunTimers,
                StartWalk, Step, vars, pipeVars
  <2>2. pipe # <<>> => pipe' # <<>>
    <3>1. pipe \in Seq(Users) BY DEF ControlTyped
    <3> QED BY <2>1, <3>1
  <2>3. At({"write"})' => At({"write"}) /\ cur' = cur
    BY <1>2, <1>a DEF MgrFree, Tick, Freed, HandlerReturns, Wakeup, SocketError, Error,
                RunTimers, StartWalk, Step, vars, At
  <2>4. At({"write"}) => cur \in Users BY DEF WalkInv
  <2>5. visited \subseteq visited'
    BY <1>2 DEF MgrFree, Tick, Freed, HandlerReturns, Wakeup, SocketError,
                RunTimers, StartWalk, Step, vars, WalkInv, At
  <2>6. At({"polled", "io"})' => At({"polled", "io"}) /\ cur' = cur
    BY <1>2, <1>a DEF MgrFree, Tick, Freed, HandlerReturns, Wakeup, SocketError, Error,
                RunTimers, StartWalk, Step, vars, At
  <2>7. \A c : Ahead(c)' => Ahead(c) BY <2>5, <2>6 DEF Ahead
  <2> QED BY <1>b, <2>1, <2>2, <2>3, <2>4, <2>7, ReadyKept
<1>3. CASE Polled \/ NoIO \/ Accept \/ Limits
  <2>1. /\ UNCHANGED <<send, is_connecting, ready, pipe, cur, visited>>
        /\ pc \in {"polled", "io", "limits"}
        /\ At({"polled", "io"})' => At({"polled", "io"})
        /\ ~At({"write"})'
    BY <1>3 DEF Polled, NoIO, Accept, Limits, At, pipeVars
  <2> QED BY <1>b, <2>1, ReadyKept DEF Ahead
<1>4. CASE Connected
  <2>1. /\ UNCHANGED <<send, ready, pipe, cur, visited>>
        /\ is_connecting \ {cur} \subseteq is_connecting'
        /\ pc = "io" /\ ~At({"polled", "io"})' /\ ~At({"write"})'
    BY <1>4 DEF Connected, Error, At, pipeVars
  <2>2. cur \in visited BY <2>1 DEF WalkInv, At, Visits, Following
  <2>3. ~Ahead(cur)' /\ \A c : Ahead(c)' => Ahead(c) BY <2>1, <2>2 DEF Ahead
  <2> QED BY <1>b, <2>1, <2>3, ReadyKept
<1>5. CASE Read
  <2>1. /\ UNCHANGED <<send, ready, is_connecting, pipe, cur, visited>>
        /\ pc = "io" /\ ~At({"polled", "io"})' /\ cur \in Users \ is_connecting
    BY <1>5 DEF Read, Error, Stream, At, pipeVars
  <2>2. \A c : Ahead(c)' => Ahead(c) BY <2>1 DEF Ahead
  <2>3. Ahead(cur) BY <2>1 DEF Ahead, At
  <2>4. cur \in writable => send[cur] > 0 BY <2>1, <2>3 DEF ReadyInv
  <2>5. UNCHANGED <<readable, writable>> BY <2>1 DEF ready
  <2> QED BY <2>1, <2>2, <2>4, <2>5 DEF ReadyInv
<1>6. CASE ReadPipe
  <2>1. /\ UNCHANGED <<send, ready, is_connecting, cur, visited>>
        /\ pc = "io" /\ ~At({"polled", "io"})' /\ ~At({"write"})' /\ cur = Pipe
    BY <1>6 DEF ReadPipe, At
  <2>2. cur \in visited BY <2>1 DEF WalkInv, At, Visits, Following
  <2>3. ~Ahead(cur)' /\ \A c : Ahead(c)' => Ahead(c) BY <2>1, <2>2 DEF Ahead
  <2> QED BY <1>b, <2>1, <2>3, ReadyKept
<1>7. CASE Write
  <2>1. /\ UNCHANGED <<ready, is_connecting, pipe, cur, visited>>
        /\ pc = "write" /\ ~At({"polled", "io"})' /\ ~At({"write"})'
        /\ send' = send \/ \E n \in 1..send[cur] : send' = [send EXCEPT ![cur] = @ - n]
    BY <1>7 DEF Write, At, pipeVars
  <2>2. cur \in visited BY <2>1 DEF WalkInv, At, Visits, Following
  <2>3. ~Ahead(cur)' /\ \A c : Ahead(c)' => Ahead(c) BY <2>1, <2>2 DEF Ahead
  <2>4. \A c \in Users \ {cur} : send'[c] = send[c] BY <1>0, <2>1
  <2> QED BY <1>b, <2>1, <2>3, <2>4, ReadyKept
<1>8. CASE Close
  <2>1. /\ UNCHANGED <<ready, cur, visited>> /\ is_connecting' = is_connecting \ {cur}
        /\ pc = "close" /\ ~At({"polled", "io"})' /\ ~At({"write"})'
        /\ cur # Pipe => pipe' = pipe
        /\ send' = send \/ send' = [send EXCEPT ![cur] = 0]
    BY <1>8 DEF Close, At, pipeVars
  <2>2. cur \in visited BY <2>1 DEF WalkInv, At, Visits, Following
  <2>3. ~Ahead(cur)' /\ \A c : Ahead(c)' => Ahead(c) BY <2>1, <2>2 DEF Ahead
  <2>4. \A c \in Users \ {cur} : send'[c] = send[c] BY <1>0, <2>1
  <2> QED BY <1>b, <2>1, <2>3, <2>4, ReadyKept
<1>9. CASE Visit
  <2>1. /\ UNCHANGED <<ready, is_connecting, send, pipe, cur>>
        /\ pc = "visit" /\ pc' = "handler" /\ ret' = "polled"
        /\ visited' = visited \cup {cur} /\ cur # Nil
    BY <1>9 DEF Visit, pipeVars
  <2>2. cur \in OnList /\ visited \cap From(conns, cur) = {}
    BY <2>1 DEF WalkInv, At
  <2>3. cur \notin visited BY <2>2, FromWithin DEF OnList, ListTyped
  <2>4. \A c : Ahead(c)' => Ahead(c) BY <2>1, <2>3 DEF Ahead
  <2>5. ~At({"write"})' BY <2>1 DEF At
  <2> QED BY <1>b, <2>1, <2>4, <2>5, ReadyKept
<1>10. CASE EndPass
  <2>1. writable' = {} /\ readable' = {} /\ ~At({"write"})' BY <1>10 DEF EndPass, At
  <2> QED BY <2>1 DEF ReadyInv
<1>11. CASE IOTest
  <2>1. writable' \subseteq {c \in OnList : CanWrite(c)} /\ ~At({"write"})'
        /\ UNCHANGED <<send, is_connecting, pipe>>
    BY <1>11 DEF IOTest, At, pipeVars
  <2>2. Pipe \in readable' => pipe # <<>>
    BY <1>11 DEF IOTest
  <2> QED BY <2>1, <2>2 DEF ReadyInv, CanWrite
<1> QED
  BY <1>1, <1>2, <1>3, <1>4, <1>5, <1>6, <1>7, <1>8, <1>9, <1>10, <1>11 DEF Next, Pass

\* The invariant of the loop holds throughout.
THEOREM LoopInvariant == Spec => []LoopInv
<1>1. Init => LoopInv BY TypedInit, WalkInit, ReadyInit DEF LoopInv
<1>2. LoopInv /\ [Next]_vars => LoopInv'
  <2> SUFFICES ASSUME LoopInv, [Next]_vars PROVE LoopInv'
    OBVIOUS
  <2>1. ListTyped /\ DataTyped /\ ControlTyped /\ WalkInv /\ ReadyInv
    BY TypedParts DEF LoopInv
  <2>2. ListTyped' /\ DataTyped' /\ ControlTyped' BY <2>1, ListNext, DataNext, ControlNext
  <2>3. Typed' BY <2>2 DEF Typed, TypeOK, ListTyped, DataTyped, ControlTyped, IsList
  <2> QED BY <2>1, <2>3, WalkNext, ReadyNext DEF LoopInv
<1> QED BY <1>1, <1>2, PTL DEF Spec

\* WalkSound: mgr_poll() never follows a pointer to a connection that is off the
\* list, and write_conn() always has something to send, for any set of
\* connections and whatever handlers do to them.
THEOREM WalkIsSound == Spec => []WalkSound
<1>1. LoopInv => WalkSound
  BY DEF LoopInv, Typed, WalkSound, WalkInv, ReadyInv, At, Visits, Following
<1> QED BY <1>1, LoopInvariant, PTL

\* At the end of a walk nothing is ahead.
LEMMA PassVisited == LoopInv => PassVisitsAll
<1> SUFFICES ASSUME LoopInv, pc = "visit", cur = Nil PROVE visited = at_start
  BY DEF PassVisitsAll
<1>1. at_start = visited \cup From(conns, cur) BY DEF LoopInv, WalkInv, At
<1>2. IsList(conns, Conns) /\ Nil \notin Conns
  BY EventLoopAssumption, TypedParts DEF LoopInv, ListTyped
<1>3. From(conns, Nil) = {} BY <1>2, ListRange, FromWithin
<1> QED BY <1>1, <1>3

\* PassVisitsAll: when a walk ends, it has visited exactly what was on the list
\* when it began.
THEOREM PassesVisitAll == Spec => []PassVisitsAll
BY PassVisited, LoopInvariant, PTL

-----------------------------------------------------------------------------
(* Draining, freeing and counting.                                         *)

\* After mgr_free() has marked the list, only handlers' own connections are left
\* unmarked, and what the last walk has passed are such.
LastWalk ==
    /\ OnList \ is_closing \subseteq Clients
    /\ At(Visits) => visited \cap OnList \subseteq Clients \cup {cur}
    /\ At({"next", "visit"}) => visited \cap OnList \subseteq Clients
    /\ At(Following \cup {"visit"}) => OnList \ at_start \subseteq Clients
    /\ pc = "freed" => OnList \subseteq Clients

\* What holds once mgr_free() has begun.
FreeInv == (pc = "freed" => freeing) /\ (freeing => LastWalk)

\* The counter is the number of connections that were accepted and not closed.
Counted ==
    /\ num_accepted = Cardinality(Accepted)
    /\ num_accepted = stat_accepted - stat_closed
    /\ max_connections > 0 => num_accepted <= max_connections

\* What a step adds to the list: one connection of a handler, or one that the
\* listener accepts while it is neither closing nor at the cap.
Adds(d) ==
    /\ AddHead(d) /\ d \notin opened
    /\ \/ d \in Clients /\ UNCHANGED stats
       \/ /\ d \in Peers /\ cur = Listener /\ Listener \notin is_closing /\ pc = "io"
          /\ ~AtCap /\ num_accepted' = num_accepted + 1
          /\ stat_accepted' = stat_accepted + 1 /\ stat_closed' = stat_closed

\* What a step may do to the list.
LEMMA ListSteps ==
    ASSUME [Next]_vars, ~Close
    PROVE  \/ UNCHANGED <<conns, num_accepted, stat_accepted, stat_closed>>
           \/ \E d \in Users : Adds(d)
<1> USE DEF stats, Users
<1>1. CASE UserCode
  <2>1. CASE HandlerConnects BY <2>1 DEF HandlerConnects, Adds
  <2>2. CASE ~HandlerConnects
    BY <1>1, <2>2 DEF UserCode, HandlerSends, HandlerCloses, SetClosing, HandlerDrains,
                HandlerTakesRequest, HandlerReplies, HandlerUpgrades, StartDrain
  <2> QED BY <2>1, <2>2
<1>2. CASE Accept
  <2>1. \/ UNCHANGED <<conns, num_accepted, stat_accepted>>
        \/ \E d \in Peers \ opened :
              /\ ~AtCap /\ AddHead(d) /\ num_accepted' = num_accepted + 1
              /\ stat_accepted' = stat_accepted + 1
    BY <1>2 DEF Accept
  <2>2. pc = "io" /\ cur = Listener /\ Listener \notin is_closing /\ stat_closed' = stat_closed
    BY <1>2 DEF Accept
  <2> QED BY <2>1, <2>2 DEF Adds
<1>3. CASE \/ IOTest \/ SocketError \/ RunTimers \/ StartWalk \/ Visit \/ Polled \/ NoIO
           \/ Connected \/ Read \/ ReadPipe \/ Write \/ Limits \/ Step \/ EndPass
           \/ HandlerReturns \/ MgrFree \/ Tick \/ Freed \/ (\E c \in Users : Wakeup(c))
           \/ UNCHANGED vars
  BY <1>3 DEF IOTest, SocketError, RunTimers, StartWalk, Visit, Polled, NoIO, Connected,
                Read, ReadPipe, Write, Limits, Step, EndPass, HandlerReturns, MgrFree,
                Tick, Freed, Wakeup, vars
<1> QED BY <1>1, <1>2, <1>3 DEF Next, Pass

\* The elements of the list after an addition and after a removal.
LEMMA Added ==
    ASSUME ListTyped, NEW d \in Users, Adds(d)
    PROVE  OnList' = OnList \cup {d} /\ d \notin OnList
<1>1. d \in Conns \ Range(conns) /\ IsList(conns, Conns)
  BY DEF Adds, ListTyped, OnList, Conns, Users
<1> QED BY <1>1, AddRange DEF Adds, AddHead, OnList

\* What closing a connection takes off the list and the counter.
LEMMA Closed ==
    ASSUME ListTyped, WalkInv, Close
    PROVE  OnList' = OnList \ {cur} /\ cur \in OnList
<1>1. cur \in OnList BY DEF Close, WalkInv, At, Visits
<1> QED BY <1>1, RemoveRange DEF Close, Delete, OnList, ListTyped

\* The flags of a connection last until it is closed.
LEMMA FlagsLast ==
    ASSUME [Next]_vars, ~Close
    PROVE  /\ is_closing \subseteq is_closing' /\ is_draining \subseteq is_draining'
           /\ is_websocket \subseteq is_websocket'
<1> USE DEF Closing, flags
<1>1. CASE UserCode
  BY <1>1 DEF UserCode, HandlerSends, HandlerCloses, SetClosing, HandlerDrains,
              HandlerTakesRequest, HandlerReplies, HandlerUpgrades, HandlerConnects, StartDrain,
              DrainListeners
<1>2. CASE \/ SocketError \/ Connected \/ Read \/ Write \/ Limits \/ MgrFree
  BY <1>2 DEF SocketError, Connected, Error, Read, Write, Limits, MgrFree
<1>3. CASE \/ IOTest \/ RunTimers \/ StartWalk \/ Visit \/ Polled \/ NoIO
           \/ Accept \/ ReadPipe \/ Step \/ EndPass
           \/ HandlerReturns \/ Tick \/ Freed \/ (\E c \in Users : Wakeup(c))
           \/ UNCHANGED vars
  BY <1>3 DEF IOTest, RunTimers, StartWalk, Visit, Polled, NoIO, Accept,
                ReadPipe, Step, EndPass, HandlerReturns,
                Tick, Freed, Wakeup, vars
<1> QED BY <1>1, <1>2, <1>3 DEF Next, Pass

\* Requests are timed until the connection becomes a WebSocket, not afterwards.
LEMMA TimedBefore ==
    ASSUME [Next]_vars, NEW c, Close => c # cur, RequestTimed(c)'
    PROVE  RequestTimed(c)
<1>1. CASE Close
  <2>1. is_websocket' = is_websocket \ {cur} BY <1>1 DEF Close
  <2> QED BY <1>1, <2>1 DEF RequestTimed
<1>2. CASE ~Close BY <1>2, FlagsLast DEF RequestTimed
<1> QED BY <1>1, <1>2

\* The count of accepted connections follows the list.
LEMMA CountNext ==
    ListTyped /\ DataTyped /\ WalkInv /\ Counted /\ [Next]_vars => Counted'
<1> SUFFICES ASSUME ListTyped, DataTyped, WalkInv, Counted, [Next]_vars PROVE Counted'
  OBVIOUS
<1>0. /\ num_accepted \in Nat /\ stat_accepted \in Nat /\ stat_closed \in Nat
      /\ max_connections \in Nat
  BY EventLoopAssumption DEF DataTyped
<1>1. IsFiniteSet(Accepted)
  <2>1. IsFiniteSet(OnList) BY ListFinite DEF ListTyped, OnList
  <2> QED BY <2>1, FS_Subset DEF Accepted
<1>2. CASE Close
  <2>1. OnList' = OnList \ {cur} /\ cur \in OnList BY <1>2, Closed
  <2>2. stat_accepted' = stat_accepted BY <1>2 DEF Close
  <2>3. CASE cur \in Peers
    <3>1. Uncount /\ stat_closed' = stat_closed + 1 BY <1>2, <2>3 DEF Close
    <3>2. cur \in Accepted /\ Accepted' = Accepted \ {cur} BY <2>1, <2>3 DEF Accepted
    <3>3. Cardinality(Accepted') = Cardinality(Accepted) - 1
      BY <1>1, <3>2, FS_RemoveElement
    <3>4. Cardinality(Accepted) # 0 BY <1>1, <3>2, FS_EmptySet
    <3>5. num_accepted > 0 BY <1>0, <3>4 DEF Counted
    <3>6. num_accepted' = num_accepted - 1 BY <3>1, <3>5 DEF Uncount
    <3>7. num_accepted' = Cardinality(Accepted') BY <3>3, <3>6 DEF Counted
    <3>8. num_accepted' = stat_accepted' - stat_closed'
      BY <1>0, <2>2, <3>1, <3>6 DEF Counted
    <3>9. max_connections > 0 => num_accepted' <= max_connections
      BY <1>0, <3>6 DEF Counted
    <3> QED BY <3>7, <3>8, <3>9 DEF Counted
  <2>4. CASE cur \notin Peers
    <3>1. UNCHANGED <<num_accepted, stat_closed>> BY <1>2, <2>4 DEF Close
    <3>2. Accepted' = Accepted BY <2>1, <2>4 DEF Accepted
    <3> QED BY <2>2, <3>1, <3>2 DEF Counted
  <2> QED BY <2>3, <2>4
<1>3. CASE ~Close
  <2>1. CASE UNCHANGED <<conns, num_accepted, stat_accepted, stat_closed>>
    BY <2>1 DEF Counted, Accepted, OnList
  <2>2. ASSUME NEW d \in Users, Adds(d) PROVE Counted'
    <3>1. OnList' = OnList \cup {d} /\ d \notin OnList BY <2>2, Added
    <3>2. CASE d \in Clients
      <4>1. Accepted' = Accepted BY <3>1, <3>2, EventLoopAssumption DEF Accepted
      <4>2. UNCHANGED stats BY <2>2, <3>2, EventLoopAssumption DEF Adds
      <4> QED BY <4>1, <4>2 DEF Counted, stats
    <3>3. CASE d \in Peers
      <4>1. Accepted' = Accepted \cup {d} /\ d \notin Accepted BY <3>1, <3>3 DEF Accepted
      <4>2. Cardinality(Accepted') = Cardinality(Accepted) + 1
        BY <1>1, <4>1, FS_AddElement
      <4>3. /\ ~AtCap /\ num_accepted' = num_accepted + 1
            /\ stat_accepted' = stat_accepted + 1 /\ stat_closed' = stat_closed
        BY <2>2, <3>3, EventLoopAssumption DEF Adds
      <4>4. max_connections > 0 => num_accepted' <= max_connections
        BY <1>0, <4>3 DEF AtCap
      <4>5. num_accepted' = Cardinality(Accepted') BY <4>2, <4>3 DEF Counted
      <4>6. num_accepted' = stat_accepted' - stat_closed' BY <1>0, <4>3 DEF Counted
      <4> QED BY <4>4, <4>5, <4>6 DEF Counted
    <3> QED BY <3>2, <3>3 DEF Users
  <2> QED BY <1>3, <2>1, <2>2, ListSteps
<1> QED BY <1>2, <1>3

\* What start_drain() marked stays marked, and nothing is accepted afterwards.
LEMMA DrainNext ==
    ListTyped /\ WalkInv /\ DrainMarksAll /\ [Next]_vars => DrainMarksAll'
<1> SUFFICES ASSUME ListTyped, WalkInv, DrainMarksAll, [Next]_vars, drain_started'
             PROVE  DrainMarksAll'
  BY DEF DrainMarksAll
<1>1. CASE UserCode /\ StartDrain
  <2>1. /\ is_closing' = is_closing \cup (OnList \cap {Listener}) /\ conns' = conns
        /\ is_draining' = is_draining \cup (Accepted \ is_closing)
    BY <1>1 DEF StartDrain, DrainListeners, Closing
  <2> QED BY <2>1 DEF DrainMarksAll, OnList, Accepted
<1>2. CASE ~(UserCode /\ StartDrain)
  <2>1. drain_started
    BY <1>2 DEF Next, Pass, UserCode, HandlerSends, HandlerCloses, SetClosing, HandlerDrains,
              HandlerTakesRequest, HandlerReplies, HandlerUpgrades, HandlerConnects,
              IOTest, SocketError, RunTimers, StartWalk, Visit, Polled, NoIO, Accept, Close,
                Connected, Read, ReadPipe, Write, Limits, Step, EndPass, HandlerReturns,
                MgrFree, Tick, Freed, Wakeup, vars
  <2>2. CASE Close
    <3>1. OnList' = OnList \ {cur} BY <2>2, Closed
    <3>2. is_closing' = is_closing \ {cur} /\ is_draining' = is_draining \ {cur}
      BY <2>2 DEF Close
    <3> QED BY <2>1, <3>1, <3>2 DEF DrainMarksAll, Accepted
  <2>3. CASE ~Close
    <3>1. is_closing \subseteq is_closing' /\ is_draining \subseteq is_draining'
      BY <2>3, FlagsLast
    <3>2. CASE UNCHANGED conns BY <2>1, <3>1, <3>2 DEF DrainMarksAll, Accepted, OnList
    <3>3. ASSUME NEW d \in Users, Adds(d) PROVE DrainMarksAll'
      <4>1. OnList' = OnList \cup {d} BY <3>3, Added
      <4>2. d \notin Peers
        <5>1. d \in Peers => Listener \in OnList /\ Listener \notin is_closing
          BY <3>3, EventLoopAssumption DEF Adds, WalkInv, At, Visits
        <5> QED BY <2>1, <5>1 DEF DrainMarksAll
      <4>3. d # Listener BY EventLoopAssumption
      <4> QED BY <2>1, <3>1, <4>1, <4>2, <4>3 DEF DrainMarksAll, Accepted
    <3> QED BY <2>3, <3>2, <3>3, ListSteps
  <2> QED BY <2>2, <2>3
<1> QED BY <1>1, <1>2

\* mgr_free() passes nothing but what handlers opened after it.
LEMMA FreeNext ==
    LoopInv /\ FreeInv /\ [Next]_vars => FreeInv'
<1>0. ASSUME LoopInv PROVE ListTyped /\ ControlTyped /\ WalkInv
  BY <1>0, TypedParts DEF LoopInv
<1>f. LoopInv /\ FreeInv /\ [Next]_vars /\ pc' = "freed" => freeing'
  BY <1>0 DEF ControlTyped, FreeInv, Call, GoTo, control,
                Next, Pass, UserCode, IOTest, SocketError, Error, RunTimers, StartWalk, Visit,
                Polled, NoIO, Accept, Connected, Read, ReadPipe, Write, Limits, Close, Step,
                EndPass, HandlerReturns, MgrFree, Tick, Freed, Wakeup, vars
<1> SUFFICES ASSUME LoopInv, FreeInv, [Next]_vars, freeing' PROVE LastWalk'
  BY <1>f DEF FreeInv
<1>b. ListTyped /\ ControlTyped /\ WalkInv BY <1>0
<1>a. ret # "handler" /\ Peers \cap Clients = {} /\ Listener \notin Clients
  BY <1>b, EventLoopAssumption DEF ControlTyped, Users
<1> USE DEF walk, control, flags, Call, GoTo
<1>1. CASE MgrFree
  <2>1. pc = "idle" /\ is_closing' = is_closing \cup OnList /\ UNCHANGED <<conns, control>>
    BY <1>1 DEF MgrFree, Closing
  <2>2. OnList' \ is_closing' = {} BY <2>1 DEF OnList
  <2>3. pc' = "idle" BY <2>1
  <2> QED BY <2>2, <2>3 DEF LastWalk, At, Visits, Following
<1>2. CASE Close
  <2>1. /\ UNCHANGED <<walk, freeing>> /\ pc = "close" /\ pc' = "handler" /\ ret' = "next"
        /\ is_closing' = is_closing \ {cur}
    BY <1>2 DEF Close
  <2>2. OnList' = OnList \ {cur} BY <1>b, <1>2, Closed
  <2>3. LastWalk BY <2>1 DEF FreeInv
  <2> QED BY <2>1, <2>2, <2>3 DEF LastWalk, At, Visits, Following
<1>3. CASE ~MgrFree /\ ~Close
  <2>0. freeing
    BY <1>3 DEF Next, Pass, UserCode, IOTest, SocketError, RunTimers, StartWalk, Visit,
                Polled, NoIO, Accept, Connected, Read, ReadPipe, Write, Limits, Step,
                EndPass, HandlerReturns, Tick, Freed, Wakeup, vars
  <2>a. /\ OnList \ is_closing \subseteq Clients
        /\ At(Visits) => visited \cap OnList \subseteq Clients \cup {cur}
        /\ At({"next", "visit"}) => visited \cap OnList \subseteq Clients
        /\ At(Following \cup {"visit"}) => OnList \ at_start \subseteq Clients
        /\ pc = "freed" => OnList \subseteq Clients
    BY <2>0 DEF FreeInv, LastWalk
  <2>1. \A c \in OnList' \ OnList : c \in Clients
    <3>1. CASE UNCHANGED conns BY <3>1 DEF OnList
    <3>2. ASSUME NEW d \in Users, Adds(d) PROVE \A c \in OnList' \ OnList : c \in Clients
      <4>1. OnList' = OnList \cup {d} BY <1>b, <3>2, Added
      <4>2. d \in Peers => Listener \in OnList /\ Listener \notin is_closing
        BY <1>b, <3>2, EventLoopAssumption DEF Adds, WalkInv, At, Visits
      <4> QED BY <1>a, <2>a, <4>1, <4>2 DEF Users
    <3> QED BY <1>3, <3>1, <3>2, ListSteps
  <2>2. OnList' \ is_closing' \subseteq Clients
    BY <1>3, <2>1, <2>a, FlagsLast
  <2>3. CASE UNCHANGED <<pc, ret, cur, at_start, visited>>
    BY <1>3, <2>1, <2>2, <2>3, <2>a DEF LastWalk, At
  <2>4. CASE HandlerReturns
    <3>1. pc = "handler" /\ pc' = ret /\ UNCHANGED <<conns, walk>> BY <2>4 DEF HandlerReturns
    <3>2. pc' # "freed" \/ OnList' \subseteq Clients
      <4>1. ret # "freed" BY <1>b DEF ControlTyped
      <4> QED BY <3>1, <4>1
    <3> QED BY <1>a, <2>2, <2>a, <3>1, <3>2 DEF LastWalk, At, OnList
  <2>5. CASE Polled \/ NoIO \/ Accept \/ Connected \/ Read \/ ReadPipe \/ Write
    <3>1. /\ UNCHANGED walk /\ pc \in Visits
          /\ pc' \in Visits \/ (pc' = "handler" /\ ret' \in Visits)
      BY <2>5 DEF Polled, NoIO, Accept, Connected, Error, Read, ReadPipe, Write, Visits
    <3> QED BY <2>1, <2>2, <2>a, <3>1 DEF LastWalk, At, Visits, Following
  <2>6. CASE Limits
    <3>1. /\ UNCHANGED walk /\ UNCHANGED conns /\ pc = "limits"
          /\ pc' = "close" \/ (pc' = "next" /\ cur \notin is_closing)
      BY <2>6 DEF Limits
    <3>2. cur \in OnList BY <1>b, <3>1 DEF WalkInv, At, Visits
    <3> QED BY <2>2, <2>a, <3>1, <3>2 DEF LastWalk, At, Visits, Following, OnList
  <2>7. CASE Visit
    <3>1. /\ UNCHANGED <<conns, cur, at_start>> /\ visited' = visited \cup {cur}
          /\ pc = "visit" /\ pc' = "handler" /\ ret' = "polled"
      BY <2>7 DEF Visit
    <3> QED BY <2>2, <2>a, <3>1 DEF LastWalk, At, Visits, Following, OnList
  <2>8. CASE Step
    <3>1. UNCHANGED <<conns, at_start, visited>> /\ pc = "next" /\ pc' = "visit"
      BY <2>8 DEF Step
    <3> QED BY <2>2, <2>a, <3>1 DEF LastWalk, At, Visits, Following, OnList
  <2>9. CASE StartWalk
    <3>1. UNCHANGED conns /\ at_start' = OnList /\ visited' = {} /\ pc' = "visit"
      BY <2>9 DEF StartWalk
    <3> QED BY <2>2, <2>a, <3>1 DEF LastWalk, At, Visits, Following, OnList
  <2>10. CASE IOTest \/ SocketError \/ RunTimers
    <3>1. /\ UNCHANGED conns
          /\ \/ pc' \in {"errors", "first"}
             \/ pc' = "handler" /\ ret' \in {"errors", "first"}
      BY <2>10 DEF IOTest, SocketError, Error, RunTimers
    <3> QED BY <2>2, <2>a, <3>1 DEF LastWalk, At, Visits, Following, OnList
  <2>11. CASE EndPass
    <3>1. UNCHANGED conns /\ pc = "visit" /\ cur = Nil /\ pc' = "freed"
      BY <2>0, <2>11 DEF EndPass
    <3>2. at_start = visited \cup From(conns, Nil) BY <1>b, <3>1 DEF WalkInv, At
    <3>3. From(conns, Nil) = {}
      BY <1>b, EventLoopAssumption, ListRange, FromWithin DEF ListTyped
    <3>4. OnList \subseteq Clients BY <2>a, <3>1, <3>2, <3>3 DEF At
    <3> QED BY <2>2, <3>1, <3>4 DEF LastWalk, At, Visits, Following, OnList
  <2>12. CASE UserCode \/ Tick \/ Freed \/ (\E c \in Users : Wakeup(c)) \/ UNCHANGED vars
    <3>1. UNCHANGED <<pc, ret, cur, at_start, visited>>
      BY <2>12 DEF UserCode, Tick, Freed, Wakeup, vars
    <3> QED BY <2>3, <3>1
  <2> QED
    BY <1>3, <2>4, <2>5, <2>6, <2>7, <2>8, <2>9, <2>10, <2>11, <2>12 DEF Next, Pass
<1> QED BY <1>1, <1>2, <1>3

\* The invariant for the counter and the drain.
SafeInv == LoopInv /\ Counted /\ FreeInv /\ DrainMarksAll

\* The counter is the number of accepted connections on the list, and a drain has
\* marked every one it passed, in every state.
THEOREM SafeInvariant == Spec => []SafeInv
<1>1. Init => SafeInv
  <2> SUFFICES ASSUME Init PROVE SafeInv
    OBVIOUS
  <2>1. LoopInv BY TypedInit, WalkInit, ReadyInit DEF LoopInv
  <2>2. Accepted = {}
    BY EventLoopAssumption DEF Init, Accepted, OnList, Range, Users
  <2>3. Counted BY <2>2, FS_EmptySet, EventLoopAssumption DEF Init, Counted
  <2>4. FreeInv /\ DrainMarksAll BY DEF Init, FreeInv, DrainMarksAll
  <2> QED BY <2>1, <2>3, <2>4 DEF SafeInv
<1>2. SafeInv /\ LoopInv' /\ [Next]_vars => SafeInv'
  BY TypedParts, CountNext, FreeNext, DrainNext DEF SafeInv, LoopInv
<1> QED BY <1>1, <1>2, LoopInvariant, PTL DEF Spec

\* CountsExact: the count that max_connections is compared with, and the metrics,
\* say how many accepted connections are on the list, whatever closes them; no
\* accepted connection is left after mgr_free().
THEOREM CountsAreExact == Spec => []CountsExact
<1>1. SafeInv => CountsExact
  <2> SUFFICES ASSUME SafeInv PROVE CountsExact
    OBVIOUS
  <2>1. pc = "freed" => OnList \subseteq Clients
    BY DEF SafeInv, FreeInv, LastWalk
  <2> QED BY <2>1 DEF SafeInv, Counted, CountsExact
<1> QED BY <1>1, SafeInvariant, PTL

\* DrainMarksAll: start_drain() leaves no accepted connection unmarked, ever.
THEOREM DrainIsComplete == Spec => []DrainMarksAll
BY SafeInvariant, PTL DEF SafeInv

-----------------------------------------------------------------------------
(* The refinement of Admission.  Only three kinds of steps change who is    *)
(* accepted: the listener accepts one (Admit), refuses one (End, of a       *)
(* connection that held no place), or the walk closes one (End).            *)

\* What a step does to the connections that exist or existed.
LEMMA OpenedSteps ==
    ASSUME [Next]_vars, ~Close
    PROVE  \/ UNCHANGED <<conns, opened, num_accepted>>
           \/ UNCHANGED <<conns, num_accepted>>
              /\ \E c \in Peers \ opened : opened' = opened \cup {c}
           \/ \E d \in Users : Adds(d) /\ opened' = opened \cup {d}
<1> USE DEF stats, Users
<1>1. CASE UserCode
  <2>1. CASE HandlerConnects BY <2>1 DEF HandlerConnects, Adds
  <2>2. CASE ~HandlerConnects
    BY <1>1, <2>2 DEF UserCode, HandlerSends, HandlerCloses, SetClosing, HandlerDrains,
                HandlerTakesRequest, HandlerReplies, HandlerUpgrades, StartDrain
  <2> QED BY <2>1, <2>2
<1>2. CASE Accept
  <2>1. \/ UNCHANGED <<conns, opened, num_accepted>>
        \/ /\ UNCHANGED <<conns, num_accepted>>
           /\ \E c \in Peers \ opened : opened' = opened \cup {c}
        \/ \E d \in Peers \ opened :
              /\ ~AtCap /\ AddHead(d) /\ num_accepted' = num_accepted + 1
              /\ stat_accepted' = stat_accepted + 1 /\ opened' = opened \cup {d}
    BY <1>2 DEF Accept
  <2>2. pc = "io" /\ cur = Listener /\ Listener \notin is_closing /\ stat_closed' = stat_closed
    BY <1>2 DEF Accept
  <2> QED BY <2>1, <2>2 DEF Adds
<1>3. CASE \/ IOTest \/ SocketError \/ RunTimers \/ StartWalk \/ Visit \/ Polled \/ NoIO
           \/ Connected \/ Read \/ ReadPipe \/ Write \/ Limits \/ Step \/ EndPass
           \/ HandlerReturns \/ MgrFree \/ Tick \/ Freed \/ (\E c \in Users : Wakeup(c))
           \/ UNCHANGED vars
  BY <1>3 DEF IOTest, SocketError, RunTimers, StartWalk, Visit, Polled, NoIO, Connected,
                Read, ReadPipe, Write, Limits, Step, EndPass, HandlerReturns, MgrFree,
                Tick, Freed, Wakeup, vars
<1> QED BY <1>1, <1>2, <1>3 DEF Next, Pass

\* The connections of a set end, none of which has ended before.
LEMMA Ends ==
    ASSUME NEW S \in SUBSET Peers, S \cap Over = {}, Over' = Over \cup S,
           Accepted' = Accepted \ S,
           num_accepted' = num_accepted - Cardinality(S \cap Accepted)
    PROVE  Adm!Next
<1>1. Adm!Cardinality(S \cap Accepted) = Cardinality(S \cap Accepted)
  BY DEF Adm!Cardinality, Cardinality
<1>2. Adm!End(S) BY <1>1 DEF Adm!End
<1> QED BY <1>2 DEF Adm!Next

\* Every step of the loop is a step of admission, or none.
LEMMA StepAdmits ==
    ASSUME ListTyped, ListTyped', DataTyped, WalkInv, Counted, Counted', [Next]_vars
    PROVE  [Adm!Next]_<<Accepted, Over, num_accepted>>
<1>1. CASE Close
  <2>1. OnList' = OnList \ {cur} /\ cur \in OnList /\ opened' = opened
    BY <1>1, Closed DEF Close
  <2>2. CASE cur \in Peers
    <3>1. Over' = Over \cup {cur} /\ {cur} \cap Over = {} /\ {cur} \in SUBSET Peers
      BY <2>1, <2>2 DEF Over, ListTyped
    <3>2. Accepted' = Accepted \ {cur} /\ cur \in Accepted BY <2>1, <2>2 DEF Accepted
    <3>3. num_accepted' = num_accepted - 1
      <4>1. IsFiniteSet(Accepted)
        <5>1. IsFiniteSet(OnList) BY ListFinite DEF ListTyped, OnList
        <5> QED BY <5>1, FS_Subset DEF Accepted
      <4>2. Cardinality(Accepted') = Cardinality(Accepted) - 1
        BY <3>2, <4>1, FS_RemoveElement
      <4> QED BY <4>2 DEF Counted
    <3>4. Cardinality({cur} \cap Accepted) = 1
      <4>1. {cur} \cap Accepted = {cur} BY <3>2
      <4> QED BY <4>1, FS_Singleton
    <3> QED BY <3>1, <3>2, <3>3, <3>4, Ends
  <2>3. CASE cur \notin Peers
    <3>1. UNCHANGED num_accepted BY <1>1, <2>3 DEF Close
    <3>2. Accepted' = Accepted /\ Over' = Over BY <2>1, <2>3 DEF Accepted, Over
    <3> QED BY <3>1, <3>2
  <2> QED BY <2>2, <2>3
<1>2. CASE UNCHANGED <<conns, opened, num_accepted>>
  BY <1>2 DEF Accepted, Over, OnList
<1>3. ASSUME UNCHANGED <<conns, num_accepted>>,
             NEW c \in Peers \ opened, opened' = opened \cup {c}
      PROVE  Adm!Next
  <2>1. OnList' = OnList /\ c \notin OnList BY <1>3 DEF OnList, ListTyped
  <2>2. Over' = Over \cup {c} /\ {c} \cap Over = {} /\ {c} \in SUBSET Peers
    BY <1>3, <2>1 DEF Over
  <2>3. Accepted' = Accepted \ {c} /\ {c} \cap Accepted = {} BY <2>1 DEF Accepted
  <2>4. num_accepted' = num_accepted - Cardinality({c} \cap Accepted)
    <3>1. Cardinality({c} \cap Accepted) = 0 /\ num_accepted \in Nat
      BY <2>3, FS_EmptySet DEF DataTyped
    <3> QED BY <1>3, <3>1
  <2> QED BY <2>2, <2>3, <2>4, Ends
<1>4. ASSUME NEW d \in Users, Adds(d), opened' = opened \cup {d}
      PROVE  [Adm!Next]_<<Accepted, Over, num_accepted>>
  <2>1. OnList' = OnList \cup {d} /\ d \notin OnList BY <1>4, Added
  <2>2. Over' = Over BY <1>4, <2>1 DEF Over, Adds
  <2>3. CASE d \in Clients
    <3>1. Accepted' = Accepted BY <2>1, <2>3, EventLoopAssumption DEF Accepted
    <3>2. UNCHANGED num_accepted BY <1>4, <2>3, EventLoopAssumption DEF Adds, stats
    <3> QED BY <2>2, <3>1, <3>2
  <2>4. CASE d \in Peers
    <3>1. Accepted' = Accepted \cup {d} BY <2>1, <2>4 DEF Accepted
    <3>2. ~AtCap /\ num_accepted' = num_accepted + 1 /\ d \notin opened
      BY <1>4, <2>4, EventLoopAssumption DEF Adds
    <3>3. d \in Peers \ (Accepted \cup Over)
      BY <2>1, <2>4, <3>2 DEF Accepted, Over
    <3>4. max_connections > 0 => num_accepted < max_connections
      BY <3>2, EventLoopAssumption DEF AtCap, DataTyped
    <3>5. Adm!Admit(d) BY <2>2, <3>1, <3>2, <3>3, <3>4 DEF Adm!Admit
    <3> QED BY <2>4, <3>5 DEF Adm!Next
  <2> QED BY <2>3, <2>4 DEF Users
<1> QED BY <1>1, <1>2, <1>3, <1>4, OpenedSteps

\* The manager does what Admission promises, for every instance: user code that
\* runs in the middle of a pass cannot make it count a connection twice, forget
\* one, or let one in above the cap.
THEOREM LoopAdmits == Spec => ImplementsAdmission
<1>1. Init => Adm!Init
  <2> SUFFICES ASSUME Init PROVE Adm!Init OBVIOUS
  <2>1. Accepted = {} /\ Over = {}
    BY EventLoopAssumption DEF Init, Accepted, Over, OnList, Range, Users
  <2> QED BY <2>1 DEF Adm!Init, Init
<1>2. SafeInv /\ SafeInv' /\ [Next]_vars => [Adm!Next]_<<Accepted, Over, num_accepted>>
  <2> SUFFICES ASSUME SafeInv, SafeInv', [Next]_vars
               PROVE  [Adm!Next]_<<Accepted, Over, num_accepted>>
    OBVIOUS
  <2>1. ListTyped /\ DataTyped /\ WalkInv /\ Counted BY TypedParts DEF SafeInv, LoopInv
  <2>2. ListTyped' /\ Counted'
    <3>1. Typed' /\ Counted' BY DEF SafeInv, LoopInv
    <3>2. Typed' => ListTyped' BY DEF Typed, TypeOK, ListTyped, IsList, OnList, Accepted
    <3> QED BY <3>1, <3>2
  <2> QED BY <2>1, <2>2, StepAdmits
<1> QED BY <1>1, <1>2, SafeInvariant, PTL DEF Spec, ImplementsAdmission, Adm!Spec

-----------------------------------------------------------------------------
(* Deadlines.                                                              *)

\* The latest time that a deadline can have been counted from.
Latest == IF InPass THEN now ELSE clock

\* A deadline is no later than its window allows, counted from now and from every
\* piece of input that waits.  A request that waits has one, unless its first
\* piece came in this very visit.
InTime(c) ==
    /\ recv_deadline[c] <= Latest + request_timeout_ms
    /\ connect_deadline[c] <= Latest + connect_timeout_ms
    /\ recv_deadline[c] # 0 =>
          \A i \in DOMAIN recv[c] : recv_deadline[c] <= recv[c][i] + request_timeout_ms
    /\ RequestTimed(c) /\ recv[c] # <<>> /\ recv_deadline[c] = 0 =>
          /\ c = cur /\ At({"write", "limits"})
          /\ \A i \in DOMAIN recv[c] : recv[c][i] = now

\* The deadlines of every connection are within reach.
DeadlineInv == \A c \in Users : InTime(c)

\* The limits were applied to c in this pass.
Settled(c) == c \in visited /\ ~(c = cur /\ At(Visits))

\* None of the limits of a connection has been passed.
WithinLimits(c) ==
    /\ idle_timeout_ms > 0 /\ c \in Peers => now - last_active[c] <= idle_timeout_ms
    /\ RequestTimed(c) /\ recv[c] # <<>> => now <= recv_deadline[c]
    /\ connect_timeout_ms > 0 /\ c \in is_connecting => now <= connect_deadline[c]

\* Whoever the pass has been to was within its limits at the time of the pass.
LimitsInv == InPass => \A c \in OnList : Settled(c) => WithinLimits(c)

\* The times are numbers, and handlers have consumed input from the front.
LEMMA TimeTypes ==
    ASSUME DataTyped
    PROVE  /\ clock \in Nat /\ now \in Nat /\ now <= clock /\ Latest \in Nat
           /\ \A c \in Users :
                /\ recv[c] \in Seq(Nat) /\ last_active[c] \in Nat
                /\ recv_deadline[c] \in Nat /\ connect_deadline[c] \in Nat
<1>1. clock \in Nat /\ now \in Nat /\ now <= clock
  BY EventLoopAssumption DEF DataTyped
<1>2. \A s \in Seq(0..MaxClock) : s \in Seq(Nat) BY EventLoopAssumption
<1>3. 0..MaxClock \subseteq Nat BY EventLoopAssumption
<1> QED BY <1>1, <1>2, <1>3 DEF DataTyped, Latest

\* What remains of some input: nothing that was not there.
Remains(t, s) == (t # <<>> => s # <<>>) /\ Range(t) \subseteq Range(s)

\* A sequence without its first elements is what remains of it.
LEMMA RemainsRest ==
    ASSUME NEW S, NEW s \in Seq(S), NEW k \in 1..Len(s)
    PROVE  Remains(SubSeq(s, k + 1, Len(s)), s)
<1> DEFINE t == SubSeq(s, k + 1, Len(s))
<1>1. /\ t \in Seq(S) /\ Len(t) = Len(s) - k
      /\ \A i \in 1..(Len(s) - k) : t[i] = s[i + k]
  BY RestOf
<1> HIDE DEF t
<1>2. s # <<>> OBVIOUS
<1>3. \A i \in DOMAIN t : i + k \in DOMAIN s /\ t[i] = s[i + k] BY <1>1
<1> QED BY <1>2, <1>3 DEF Remains, Range, t

\* Time goes on: the clock within a pass is the one it read.
LEMMA LatestGrows ==
    ASSUME LoopInv, LoopInv', [Next]_vars
    PROVE  /\ Latest' >= Latest
           /\ InPass /\ InPass' => now' = now
           /\ ~InPass /\ InPass' => visited' = {}
<1>0. /\ clock \in Nat /\ now \in Nat /\ now <= clock
      /\ clock' \in Nat /\ now' \in Nat /\ now' <= clock'
  BY EventLoopAssumption DEF LoopInv, Typed
<1>a. ret # "handler" BY DEF LoopInv, Typed
<1> USE DEF control, walk, Call, GoTo
<1>1. CASE RunTimers
  <2>1. /\ now' = clock /\ clock' = clock /\ visited' = visited
        /\ pc = "errors" /\ (pc' = "first" \/ (pc' = "handler" /\ ret' = "first"))
    BY <1>1 DEF RunTimers
  <2>2. pc = "errors" BY <1>1 DEF RunTimers
  <2>3. visited = {} BY <2>2 DEF LoopInv, WalkInv, At
  <2>4. ~InPass BY <2>2 DEF InPass, At, Following, Visits
  <2>5. InPass' BY <1>1 DEF RunTimers, InPass, At, Following, Visits
  <2> QED BY <1>0, <2>1, <2>3, <2>4, <2>5 DEF Latest
<1>2. CASE EndPass
  <2>1. clock' = clock /\ pc = "visit" /\ pc' \in {"idle", "freed"} BY <1>2 DEF EndPass
  <2>2. ~InPass' BY <2>1 DEF InPass, At, Following, Visits
  <2> QED BY <1>0, <2>1, <2>2 DEF Latest
<1>3. CASE UserCode
  <2>1. UNCHANGED <<pc, ret, now, clock>> BY <1>3, UserCodeFrame
  <2> QED BY <1>0, <2>1 DEF Latest, InPass, At
<1>4. CASE MgrFree \/ Tick \/ Freed \/ (\E c \in Users : Wakeup(c)) \/ UNCHANGED vars
  <2>1. UNCHANGED <<pc, ret, now>> /\ (clock' = clock \/ clock' = clock + 1)
    BY <1>4 DEF MgrFree, Tick, Freed, Wakeup, vars
  <2> QED BY <1>0, <2>1 DEF Latest, InPass, At
<1>5. CASE HandlerReturns
  <2>1. UNCHANGED <<now, clock>> /\ pc = "handler" /\ pc' = ret BY <1>5 DEF HandlerReturns
  <2> DEFINE L == {"first", "visit"} \cup Following
  <2>a. InPass <=> ret \in L
    <3>1. "handler" \notin L BY DEF Following, Visits
    <3> QED BY <2>1, <3>1 DEF InPass, At
  <2>b. InPass' <=> ret \in L BY <1>a, <2>1 DEF InPass, At
  <2>2. InPass' <=> InPass BY <2>a, <2>b
  <2> QED BY <1>0, <2>1, <2>2 DEF Latest
<1>6. CASE \/ StartWalk \/ Visit \/ Polled \/ NoIO \/ Accept \/ Connected \/ Read \/ ReadPipe
           \/ Write \/ Limits \/ Close \/ Step
  <2>1. /\ UNCHANGED <<now, clock>>
        /\ pc \in {"first", "visit"} \cup Following
        /\ pc' \in {"visit"} \cup Following \/ (pc' = "handler" /\ ret' \in Following)
    BY <1>6 DEF StartWalk, Visit, Polled, NoIO, Accept, Connected, Error, Read, ReadPipe,
                Write, Limits, Close, Step, Following, Visits
  <2>2. InPass /\ InPass' BY <2>1 DEF InPass, At
  <2> QED BY <1>0, <2>1, <2>2 DEF Latest
<1>7. CASE IOTest \/ SocketError
  <2>1. /\ UNCHANGED <<now, clock>>
        /\ pc \in {"idle", "errors"}
        /\ pc' = "errors" \/ (pc' = "handler" /\ ret' = "errors")
    BY <1>7 DEF IOTest, SocketError, Error
  <2>2. ~InPass /\ ~InPass' BY <2>1 DEF InPass, At, Visits, Following
  <2> QED BY <1>0, <2>1, <2>2 DEF Latest
<1> QED BY <1>1, <1>2, <1>3, <1>4, <1>5, <1>6, <1>7 DEF Next, Pass

\* A step that leaves the deadlines of c alone, and at most consumes its input.
LEMMA InTimeKept ==
    ASSUME NEW c \in Users, DataTyped, DataTyped', InTime(c), Latest' >= Latest,
           recv_deadline'[c] = recv_deadline[c], connect_deadline'[c] = connect_deadline[c],
           Remains(recv'[c], recv[c]), RequestTimed(c)' => RequestTimed(c),
           c = cur /\ At({"write", "limits"}) =>
              c = cur' /\ At({"write", "limits"})' /\ now' = now
    PROVE  InTime(c)'
<1>0. /\ recv_deadline[c] \in Nat /\ connect_deadline[c] \in Nat
      /\ request_timeout_ms \in Nat /\ connect_timeout_ms \in Nat
      /\ Latest \in Nat /\ Latest' \in Nat
  <2>1. Latest \in Nat BY TimeTypes
  <2>2. Latest' \in Nat
    <3>1. clock' \in 1..MaxClock /\ now' \in 0..clock' BY DEF DataTyped
    <3>2. clock' \in Nat /\ now' \in Nat BY <3>1, EventLoopAssumption
    <3> QED BY <3>2 DEF Latest
  <2> QED BY <2>1, <2>2, TimeTypes, EventLoopAssumption
<1>1. recv_deadline'[c] <= Latest' + request_timeout_ms
  <2>1. recv_deadline[c] <= Latest + request_timeout_ms BY DEF InTime
  <2> QED BY <1>0, <2>1
<1>2. connect_deadline'[c] <= Latest' + connect_timeout_ms
  <2>1. connect_deadline[c] <= Latest + connect_timeout_ms BY DEF InTime
  <2> QED BY <1>0, <2>1
<1>3. \A i \in DOMAIN recv'[c] : \E j \in DOMAIN recv[c] : recv'[c][i] = recv[c][j]
  BY DEF Remains, Range
<1>4. recv_deadline'[c] # 0 =>
          \A i \in DOMAIN recv'[c] : recv_deadline'[c] <= recv'[c][i] + request_timeout_ms
  BY <1>3 DEF InTime
<1>5. RequestTimed(c) /\ recv'[c] # <<>> /\ recv_deadline'[c] = 0 =>
          /\ c = cur' /\ At({"write", "limits"})'
          /\ \A i \in DOMAIN recv'[c] : recv'[c][i] = now'
  <2> SUFFICES ASSUME RequestTimed(c), recv'[c] # <<>>, recv_deadline'[c] = 0
               PROVE  /\ c = cur' /\ At({"write", "limits"})'
                      /\ \A i \in DOMAIN recv'[c] : recv'[c][i] = now'
    OBVIOUS
  <2>1. recv[c] # <<>> BY DEF Remains
  <2>2. c = cur /\ At({"write", "limits"}) /\ \A i \in DOMAIN recv[c] : recv[c][i] = now
    BY <2>1 DEF InTime
  <2> QED BY <1>3, <2>2
<1> QED BY <1>1, <1>2, <1>4, <1>5 DEF InTime

\* Most steps do no more than that.
LEMMA QuietTimes ==
    ASSUME LoopInv, LoopInv', [Next]_vars, ~Read, ~Limits, ~Close, NEW c \in Users
    PROVE  /\ recv_deadline' = recv_deadline /\ connect_deadline' = connect_deadline
           /\ Remains(recv'[c], recv[c])
           /\ At({"write", "limits"}) =>
                 cur' = cur /\ At({"write", "limits"})' /\ now' = now
<1>0. ret # "handler" /\ recv \in [Users -> Seq(0..MaxClock)] /\ who \in Conns \cup {Nil}
  BY DEF LoopInv, Typed, TypeOK
<1>a. Remains(recv[c], recv[c]) BY DEF Remains
<1> USE DEF control, walk, Call, GoTo, times, buffers
<1>1. CASE UserCode
  <2>0. UNCHANGED <<cur, pc, ret, now>> BY <1>1, UserCodeFrame
  <2>1. UNCHANGED <<recv_deadline, connect_deadline>>
    BY <1>1 DEF UserCode, HandlerSends, HandlerCloses, HandlerDrains,
                HandlerTakesRequest, HandlerReplies, HandlerUpgrades, HandlerConnects, StartDrain
  <2>2. Remains(recv'[c], recv[c])
    <3>1. CASE HandlerTakesRequest
      <4>1. PICK k \in 1..Len(recv[who]) :
               recv' = [recv EXCEPT ![who] = SubSeq(@, k + 1, Len(@))]
        BY <3>1 DEF HandlerTakesRequest
      <4>2. CASE c = who
        <5>1. recv[c] \in Seq(0..MaxClock) /\ recv'[c] = SubSeq(recv[c], k + 1, Len(recv[c]))
          BY <1>0, <4>1, <4>2
        <5> QED BY <4>1, <4>2, <5>1, RemainsRest
      <4>3. CASE c # who BY <1>0, <1>a, <4>1, <4>3
      <4> QED BY <4>2, <4>3
    <3>2. CASE ~HandlerTakesRequest
      <4>1. recv' = recv
        BY <1>1, <3>2 DEF UserCode, HandlerSends, HandlerCloses, HandlerDrains,
                HandlerReplies, HandlerUpgrades, HandlerConnects, StartDrain
      <4> QED BY <1>a, <4>1
    <3> QED BY <3>1, <3>2
  <2> QED BY <2>0, <2>1, <2>2 DEF At
<1>2. CASE HandlerReturns
  <2>1. /\ UNCHANGED <<recv, recv_deadline, connect_deadline, cur, now>>
        /\ pc = "handler" /\ pc' = ret
    BY <1>2 DEF HandlerReturns
  <2> QED BY <1>a, <2>1 DEF At
<1>3. CASE \/ MgrFree \/ Tick \/ Freed \/ (\E d \in Users : Wakeup(d)) \/ UNCHANGED vars
  <2>1. UNCHANGED <<recv, recv_deadline, connect_deadline, cur, pc, ret, now>>
    BY <1>3 DEF MgrFree, Tick, Freed, Wakeup, vars
  <2> QED BY <1>a, <2>1 DEF At
<1>4. CASE Write
  <2>1. /\ UNCHANGED <<recv, recv_deadline, connect_deadline, cur, now>>
        /\ pc' = "limits" \/ (pc' = "handler" /\ ret' = "limits")
    BY <1>4 DEF Write
  <2> QED BY <1>a, <2>1 DEF At
<1>5. CASE \/ IOTest \/ SocketError \/ RunTimers \/ StartWalk \/ Visit \/ Polled \/ NoIO
           \/ Accept \/ Connected \/ ReadPipe \/ Step \/ EndPass
  <2>1. /\ UNCHANGED <<recv, recv_deadline, connect_deadline>>
        /\ pc \notin {"write", "limits", "handler"}
    BY <1>5 DEF IOTest, SocketError, RunTimers, StartWalk, Visit, Polled, NoIO,
                Accept, Connected, ReadPipe, Step, EndPass
  <2> QED BY <1>a, <2>1 DEF At
<1> QED BY <1>1, <1>2, <1>3, <1>4, <1>5 DEF Next, Pass

\* A step keeps everyone in time.
LEMMA DeadlineNext ==
    LoopInv /\ LoopInv' /\ DeadlineInv /\ [Next]_vars => DeadlineInv'
<1> SUFFICES ASSUME LoopInv, LoopInv', DeadlineInv, [Next]_vars, NEW c \in Users
             PROVE  InTime(c)'
  BY DEF DeadlineInv
<1>0. DataTyped /\ DataTyped' /\ WalkInv
  BY DEF LoopInv, Typed, TypeOK, DataTyped
<1>a. InTime(c) /\ Latest' >= Latest BY LatestGrows DEF DeadlineInv
<1>b. Remains(recv[c], recv[c]) BY DEF Remains
<1>c. /\ recv \in [Users -> Seq(0..MaxClock)]
      /\ recv_deadline \in [Users -> Nat] /\ connect_deadline \in [Users -> Nat]
      /\ clock \in Nat /\ now \in Nat /\ Latest \in Nat
      /\ request_timeout_ms \in Nat /\ connect_timeout_ms \in Nat
  BY <1>0, TimeTypes, EventLoopAssumption DEF DataTyped
<1>d. now \in 0..MaxClock
  <2>1. clock \in 1..MaxClock /\ now \in 0..clock BY <1>0 DEF DataTyped
  <2> QED BY <2>1, EventLoopAssumption
<1> USE DEF walk, control, Call, GoTo, buffers, times
<1>1. CASE ~Read /\ ~Limits /\ ~Close
  BY <1>0, <1>1, <1>a, QuietTimes, InTimeKept, TimedBefore
<1>2. CASE Read
  <2>1. /\ UNCHANGED <<recv_deadline, connect_deadline, cur, now>>
        /\ recv' = recv \/ recv' = [recv EXCEPT ![cur] = Append(@, now)]
        /\ pc = "io" /\ (pc' = "write" \/ (pc' = "handler" /\ ret' = "write"))
        /\ RequestTimed(c)' => RequestTimed(c)
    BY <1>2 DEF Read, Error, RequestTimed
  <2>2. ~At({"write", "limits"}) /\ At({"write", "limits"})' BY <2>1 DEF At
  <2>3. CASE recv'[c] = recv[c]
    BY <1>0, <1>a, <1>b, <2>1, <2>2, <2>3, InTimeKept
  <2>4. CASE recv'[c] # recv[c]
    <3>1. c = cur /\ recv'[c] = Append(recv[c], now) BY <1>c, <2>1, <2>4
    <3>2. recv[c] \in Seq(0..MaxClock) BY <1>c
    <3>3. /\ recv'[c] # <<>> /\ DOMAIN recv'[c] = 1..(Len(recv[c]) + 1)
          /\ \A i \in 1..Len(recv[c]) : recv'[c][i] = recv[c][i]
          /\ recv'[c][Len(recv[c]) + 1] = now
      BY <1>d, <3>1, <3>2, AppendProperties
    <3>4. InPass /\ Latest = now
      <4>1. InPass BY <2>1 DEF InPass, At, Visits, Following
      <4> QED BY <4>1 DEF Latest
    <3>5. /\ recv_deadline[c] <= now + request_timeout_ms
          /\ connect_deadline[c] <= now + connect_timeout_ms
      BY <1>a, <3>4 DEF InTime
    <3>6. Latest' = now BY <2>1, <3>4 DEF Latest, InPass, At, Visits, Following
    <3>7. recv_deadline'[c] # 0 => \A i \in DOMAIN recv'[c] :
              recv_deadline'[c] <= recv'[c][i] + request_timeout_ms
      <4> SUFFICES ASSUME recv_deadline[c] # 0, NEW i \in 1..(Len(recv[c]) + 1)
                   PROVE  recv_deadline[c] <= recv'[c][i] + request_timeout_ms
        BY <2>1, <3>3
      <4>1. CASE i = Len(recv[c]) + 1 BY <3>3, <3>5, <4>1
      <4>2. CASE i # Len(recv[c]) + 1
        <5>1. i \in DOMAIN recv[c] BY <3>2, <4>2
        <5>2. recv_deadline[c] <= recv[c][i] + request_timeout_ms
          BY <1>a, <5>1 DEF InTime
        <5> QED BY <3>2, <3>3, <5>1, <5>2
      <4> QED BY <4>1, <4>2
    <3>8. RequestTimed(c) /\ recv_deadline[c] = 0 =>
              \A i \in DOMAIN recv'[c] : recv'[c][i] = now
      <4>1. RequestTimed(c) /\ recv_deadline[c] = 0 => recv[c] = <<>>
        BY <1>a, <2>2 DEF InTime
      <4>2. recv[c] = <<>> => Len(recv[c]) = 0 OBVIOUS
      <4> QED BY <3>2, <3>3, <4>1, <4>2
    <3> QED
      BY <2>1, <2>2, <3>1, <3>5, <3>6, <3>7, <3>8 DEF InTime
  <2> QED BY <2>3, <2>4
<1>3. CASE Limits
  <2>1. /\ UNCHANGED <<recv, cur, now>>
        /\ recv_deadline' = IF RequestTimed(cur)
                            THEN [recv_deadline EXCEPT ![cur] = RequestDeadline(cur)]
                            ELSE recv_deadline
        /\ connect_deadline' = IF ConnectTimed(cur)
                               THEN [connect_deadline EXCEPT ![cur] = ConnectDeadline(cur)]
                               ELSE connect_deadline
        /\ pc = "limits" /\ pc' \in {"close", "next"}
        /\ is_websocket' = is_websocket
    BY <1>3 DEF Limits
  <2>2. CASE c # cur
    <3>1. recv_deadline'[c] = recv_deadline[c] /\ connect_deadline'[c] = connect_deadline[c]
      BY <1>c, <2>1, <2>2
    <3>2. RequestTimed(c)' => RequestTimed(c) BY <2>1 DEF RequestTimed
    <3> QED BY <1>0, <1>a, <1>b, <2>1, <2>2, <3>1, <3>2, InTimeKept
  <2>3. CASE c = cur
    <3>1. Latest = now /\ Latest' = now
      <4>1. InPass /\ InPass' BY <2>1 DEF InPass, At, Visits, Following
      <4> QED BY <2>1, <4>1 DEF Latest
    <3>2. recv_deadline'[c] = IF RequestTimed(c) THEN RequestDeadline(c) ELSE recv_deadline[c]
      BY <1>c, <2>1, <2>3
    <3>3. connect_deadline'[c] = IF ConnectTimed(c) THEN ConnectDeadline(c)
                                 ELSE connect_deadline[c]
      BY <1>c, <2>1, <2>3
    <3>4. recv_deadline'[c] <= now + request_timeout_ms
      BY <1>a, <1>c, <3>1, <3>2 DEF RequestDeadline, InTime
    <3>5. connect_deadline'[c] <= now + connect_timeout_ms
      BY <1>a, <1>c, <3>1, <3>3 DEF ConnectDeadline, InTime
    <3>6. recv[c] \in Seq(0..MaxClock) BY <1>c
    <3>7. RequestTimed(c) /\ recv[c] # <<>> => recv_deadline'[c] # 0
      <4> SUFFICES ASSUME RequestTimed(c), recv[c] # <<>> PROVE recv_deadline'[c] # 0
        OBVIOUS
      <4>1. recv_deadline'[c] = IF recv_deadline[c] = 0 THEN now + request_timeout_ms
                                ELSE recv_deadline[c]
        BY <3>2 DEF RequestDeadline
      <4>2. request_timeout_ms > 0 BY DEF RequestTimed
      <4> QED BY <1>c, <4>1, <4>2
    <3>8. ASSUME recv_deadline'[c] # 0, NEW i \in DOMAIN recv[c]
          PROVE  recv_deadline'[c] <= recv[c][i] + request_timeout_ms
      <4>1. recv[c] # <<>> BY <3>6
      <4>2. CASE recv_deadline'[c] = recv_deadline[c] BY <1>a, <3>8, <4>2 DEF InTime
      <4>3. CASE recv_deadline'[c] # recv_deadline[c]
        <5>1. /\ RequestTimed(c) /\ recv_deadline[c] = 0
              /\ recv_deadline'[c] = now + request_timeout_ms
          BY <3>2, <4>1, <4>3 DEF RequestDeadline
        <5>2. recv[c][i] = now BY <1>a, <4>1, <5>1 DEF InTime
        <5> QED BY <1>c, <5>1, <5>2
      <4> QED BY <4>2, <4>3
    <3>9. recv'[c] = recv[c] /\ (RequestTimed(c)' <=> RequestTimed(c))
      BY <2>1 DEF RequestTimed
    <3> QED BY <3>1, <3>4, <3>5, <3>7, <3>8, <3>9 DEF InTime
  <2> QED BY <2>2, <2>3
<1>4. CASE Close
  <2>1. pc = "close" BY <1>4 DEF Close
  <2>2. ~At({"write", "limits"}) BY <2>1 DEF At
  <2>3. CASE c # cur
    <3>1. /\ recv_deadline'[c] = recv_deadline[c] /\ connect_deadline'[c] = connect_deadline[c]
          /\ recv'[c] = recv[c]
      BY <1>4, <1>c, <2>3 DEF Close
    <3>2. RequestTimed(c)' => RequestTimed(c) BY <1>4, <2>3, TimedBefore
    <3> QED BY <1>0, <1>a, <1>b, <2>2, <3>1, <3>2, InTimeKept
  <2>4. CASE c = cur
    <3>1. recv'[c] = <<>> /\ recv_deadline'[c] = 0 /\ connect_deadline'[c] = 0
      BY <1>4, <1>c, <2>4 DEF Close
    <3>2. Latest' \in Nat
      <4>1. clock' \in 1..MaxClock /\ now' \in 0..clock' BY <1>0 DEF DataTyped
      <4>2. clock' \in Nat /\ now' \in Nat BY <4>1, EventLoopAssumption
      <4> QED BY <4>2 DEF Latest
    <3>3. /\ recv_deadline'[c] <= Latest' + request_timeout_ms
          /\ connect_deadline'[c] <= Latest' + connect_timeout_ms
      <4>1. \A latest \in Nat, limit \in Nat : 0 <= latest + limit BY SMT
      <4>2. request_timeout_ms \in Nat /\ connect_timeout_ms \in Nat BY EventLoopAssumption
      <4>3. /\ 0 <= Latest' + request_timeout_ms
            /\ 0 <= Latest' + connect_timeout_ms
        BY <3>2, <4>1, <4>2
      <4> QED BY <3>1, <4>3
    <3> QED BY <3>1, <3>3 DEF InTime
  <2> QED BY <2>3, <2>4
<1> QED BY <1>1, <1>2, <1>3, <1>4

\* Whatever was settled after a step was settled before it, but for the
\* connection whose limits were just applied.
LEMMA SettledBefore ==
    ASSUME LoopInv, LoopInv', [Next]_vars, InPass', NEW c \in OnList', Settled(c)',
           ~(Limits /\ c = cur)
    PROVE  InPass /\ now' = now /\ c \in OnList /\ Settled(c)
<1>0. /\ ListTyped /\ WalkInv /\ visited \subseteq opened /\ ret # "handler"
  BY TypedParts DEF LoopInv, Typed, ListTyped
<1>1. InPass /\ now' = now BY LatestGrows DEF Settled
<1>a. c \in visited' /\ (At(Visits)' => c # cur') BY DEF Settled
<1> USE DEF walk, control, Call, GoTo
<1>2. c \in visited /\ (At(Visits) => c # cur)
  <2>1. CASE UserCode
    <3>1. UNCHANGED <<visited, cur, pc, ret>> BY <2>1, UserCodeFrame
    <3> QED BY <1>a, <3>1 DEF At
  <2>2. CASE HandlerReturns
    <3>1. UNCHANGED <<visited, cur>> /\ pc = "handler" /\ pc' = ret
      BY <2>2 DEF HandlerReturns
    <3>2. At(Visits) => At(Visits)' BY <3>1 DEF At, Visits
    <3> QED BY <1>a, <3>1, <3>2
  <2>3. CASE \/ MgrFree \/ Tick \/ Freed \/ (\E d \in Users : Wakeup(d)) \/ UNCHANGED vars
    <3>1. UNCHANGED <<visited, cur, pc, ret>>
      BY <2>3 DEF MgrFree, Tick, Freed, Wakeup, vars
    <3> QED BY <1>a, <3>1 DEF At
  <2>4. CASE IOTest \/ SocketError \/ RunTimers \/ EndPass
    <3>1. ~InPass \/ ~InPass'
      BY <2>4 DEF IOTest, SocketError, Error, RunTimers, EndPass, InPass, At, Visits, Following
    <3> QED BY <1>1, <3>1
  <2>5. CASE StartWalk
    <3>1. visited' = {} BY <2>5 DEF StartWalk
    <3> QED BY <1>a, <3>1
  <2>6. CASE Visit
    <3>1. /\ visited' = visited \cup {cur} /\ cur' = cur
          /\ pc = "visit" /\ pc' = "handler" /\ ret' = "polled"
      BY <2>6 DEF Visit
    <3> QED BY <1>a, <3>1 DEF At, Visits
  <2>7. CASE \/ Polled \/ NoIO \/ Accept \/ Connected \/ Read \/ ReadPipe \/ Write
    <3>1. /\ UNCHANGED <<visited, cur>>
          /\ pc' \in Visits \/ (pc' = "handler" /\ ret' \in Visits)
      BY <2>7 DEF Polled, NoIO, Accept, Connected, Error, Read, ReadPipe, Write, Visits
    <3> QED BY <1>a, <3>1 DEF At
  <2>8. CASE Limits
    <3>1. UNCHANGED <<visited, cur>> BY <2>8 DEF Limits
    <3> QED BY <1>a, <2>8, <3>1
  <2>9. CASE Close
    <3>1. UNCHANGED visited BY <2>9 DEF Close
    <3>2. OnList' = OnList \ {cur} BY <1>0, <2>9, Closed
    <3> QED BY <1>a, <3>1, <3>2
  <2>10. CASE Step
    <3>1. UNCHANGED visited /\ pc = "next" BY <2>10 DEF Step
    <3> QED BY <1>a, <3>1 DEF At, Visits
  <2> QED
    BY <2>1, <2>2, <2>3, <2>4, <2>5, <2>6, <2>7, <2>8, <2>9, <2>10 DEF Next, Pass
<1>3. c \in OnList
  <2>1. CASE Close
    <3>1. OnList' = OnList \ {cur} BY <1>0, <2>1, Closed
    <3> QED BY <3>1
  <2>2. CASE ~Close BY <1>0, <1>2, <2>2, GrowsOrCloses, GrowsFrom
  <2> QED BY <2>1, <2>2
<1> QED BY <1>1, <1>2, <1>3 DEF Settled

\* What the limits look at stays as it was, or better, until the pass is over.
LEMMA SettledStays ==
    ASSUME LoopInv, LoopInv', [Next]_vars, NEW c \in OnList \cap Users, c \in OnList',
           Settled(c), ~(Limits /\ c = cur)
    PROVE  /\ last_active'[c] = last_active[c]
           /\ recv_deadline'[c] = recv_deadline[c] /\ connect_deadline'[c] = connect_deadline[c]
           /\ Remains(recv'[c], recv[c])
           /\ c \in is_connecting' => c \in is_connecting
<1>0. /\ ListTyped /\ WalkInv /\ OnList \subseteq opened
      /\ recv \in [Users -> Seq(0..MaxClock)] /\ last_active \in [Users -> 0..MaxClock]
      /\ recv_deadline \in [Users -> Nat] /\ connect_deadline \in [Users -> Nat]
  BY TypedParts DEF LoopInv, ListTyped, DataTyped
<1>a. At(Visits) => c # cur BY DEF Settled
<1>b. Remains(recv[c], recv[c]) BY DEF Remains
<1> USE DEF walk, control, flags, buffers, times
<1>1. CASE ~Read /\ ~Limits /\ ~Close
  <2>1. /\ recv_deadline'[c] = recv_deadline[c] /\ connect_deadline'[c] = connect_deadline[c]
        /\ Remains(recv'[c], recv[c])
    BY <1>1, QuietTimes
  <2>2. /\ last_active'[c] = last_active[c]
        /\ c \in is_connecting' => c \in is_connecting
    <3>1. CASE UserCode
      <4>1. CASE HandlerConnects
        <5>1. PICK d \in Clients \ opened :
                  /\ last_active' = [last_active EXCEPT ![d] = clock]
                  /\ is_connecting' \subseteq is_connecting \cup {d}
          BY <4>1 DEF HandlerConnects
        <5>2. c # d BY <1>0, <5>1
        <5> QED BY <1>0, <5>1, <5>2
      <4>2. CASE ~HandlerConnects
        BY <3>1, <4>2 DEF UserCode, HandlerSends, HandlerCloses, HandlerDrains,
                HandlerTakesRequest, HandlerReplies, HandlerUpgrades, StartDrain
      <4> QED BY <4>1, <4>2
    <3>2. CASE Accept
      <4>1. /\ is_connecting' = is_connecting
            /\ \/ last_active' = last_active
               \/ \E d \in Peers \ opened : last_active' = [last_active EXCEPT ![d] = clock]
        BY <3>2 DEF Accept
      <4> QED BY <1>0, <4>1
    <3>3. CASE Write
      <4>1. /\ is_connecting' = is_connecting /\ pc = "write"
            /\ \/ last_active' = last_active
               \/ last_active' = [last_active EXCEPT ![cur] = clock]
        BY <3>3 DEF Write
      <4>2. c # cur BY <1>a, <4>1 DEF At, Visits
      <4> QED BY <1>0, <4>1, <4>2
    <3>4. CASE Connected BY <3>4 DEF Connected
    <3>5. CASE \/ IOTest \/ SocketError \/ RunTimers \/ StartWalk \/ Visit \/ Polled \/ NoIO
               \/ ReadPipe \/ Step \/ EndPass \/ HandlerReturns \/ MgrFree \/ Tick \/ Freed
               \/ (\E d \in Users : Wakeup(d)) \/ UNCHANGED vars
      BY <3>5 DEF IOTest, SocketError, RunTimers, StartWalk, Visit, Polled, NoIO, ReadPipe,
                  Step, EndPass, HandlerReturns, MgrFree, Tick, Freed, Wakeup, vars
    <3> QED BY <1>1, <3>1, <3>2, <3>3, <3>4, <3>5 DEF Next, Pass
  <2> QED BY <2>1, <2>2
<1>2. CASE Read
  <2>1. /\ UNCHANGED <<recv_deadline, connect_deadline, is_connecting>> /\ pc = "io"
        /\ recv' = recv \/ recv' = [recv EXCEPT ![cur] = Append(@, now)]
        /\ last_active' = last_active \/ last_active' = [last_active EXCEPT ![cur] = clock]
    BY <1>2 DEF Read
  <2>2. c # cur BY <1>a, <2>1 DEF At, Visits
  <2> QED BY <1>0, <1>b, <2>1, <2>2
<1>3. CASE Limits
  <2>1. c # cur BY <1>3
  <2> QED BY <1>0, <1>3, <1>b, <2>1 DEF Limits
<1>4. CASE Close
  <2>1. c # cur BY <1>0, <1>4, Closed
  <2> QED BY <1>0, <1>4, <1>b, <2>1 DEF Close
<1> QED BY <1>1, <1>2, <1>3, <1>4

\* A number below the modulus is its own remainder.
LEMMA SmallMod == ASSUME NEW n \in Nat \ {0}, NEW x \in 0..(n - 1) PROVE x % n = x
OBVIOUS

\* A step keeps whom the pass has settled within the limits.
LEMMA LimitsNext ==
    LoopInv /\ LoopInv' /\ DeadlineInv /\ LimitsInv /\ [Next]_vars => LimitsInv'
<1> SUFFICES ASSUME LoopInv, LoopInv', DeadlineInv, LimitsInv, [Next]_vars,
                    InPass', NEW c \in OnList', Settled(c)'
             PROVE  WithinLimits(c)'
  BY DEF LimitsInv
<1>0. /\ WalkInv /\ clock \in 1..MaxClock /\ now \in 0..clock
      /\ recv \in [Users -> Seq(0..MaxClock)] /\ last_active \in [Users -> 0..MaxClock]
      /\ recv_deadline \in [Users -> Nat] /\ connect_deadline \in [Users -> Nat]
      /\ is_connecting \subseteq Clients /\ is_connecting' \subseteq Clients
  BY DEF LoopInv, Typed, TypeOK
<1>a. RequestTimed(c)' => RequestTimed(c)
  <2>1. Close => c # cur
    <3>1. Close => OnList' = OnList \ {cur} BY TypedParts, Closed DEF LoopInv
    <3> QED BY <3>1
  <2> QED BY <2>1, TimedBefore
<1>1. CASE ~(Limits /\ c = cur)
  <2>1. InPass /\ now' = now /\ c \in OnList /\ Settled(c) BY <1>1, SettledBefore
  <2>2. WithinLimits(c) BY <2>1 DEF LimitsInv
  <2>3. CASE c \in Users
    <3>1. /\ last_active'[c] = last_active[c]
          /\ recv_deadline'[c] = recv_deadline[c] /\ connect_deadline'[c] = connect_deadline[c]
          /\ recv'[c] # <<>> => recv[c] # <<>>
          /\ c \in is_connecting' => c \in is_connecting
      BY <1>1, <2>1, <2>3, SettledStays DEF Remains
    <3> QED BY <1>a, <2>1, <2>2, <3>1 DEF WithinLimits
  <2>4. CASE c \notin Users
    BY <1>0, <2>4 DEF WithinLimits, RequestTimed, Users
  <2> QED BY <2>3, <2>4
<1>2. CASE Limits /\ c = cur
  <2>1. /\ UNCHANGED <<recv, cur, now, is_connecting, last_active>>
        /\ recv_deadline' = IF RequestTimed(cur)
                            THEN [recv_deadline EXCEPT ![cur] = RequestDeadline(cur)]
                            ELSE recv_deadline
        /\ connect_deadline' = IF ConnectTimed(cur)
                               THEN [connect_deadline EXCEPT ![cur] = ConnectDeadline(cur)]
                               ELSE connect_deadline
        /\ PastLimit(cur) => pc' = "close"
    BY <1>2 DEF Limits, walk, buffers, GoTo
  <2>2. ~PastLimit(c)
    <3>1. At(Visits)' => c # cur' BY DEF Settled
    <3> QED BY <1>2, <2>1, <3>1 DEF At, Visits
  <2>3. idle_timeout_ms > 0 /\ c \in Peers => now - last_active[c] <= idle_timeout_ms
    <3> SUFFICES ASSUME idle_timeout_ms > 0, c \in Peers
                 PROVE  now - last_active[c] <= idle_timeout_ms
      OBVIOUS
    <3>1. (now - last_active[c]) % Word <= idle_timeout_ms
      <4>1. ~((now - last_active[c]) % Word > idle_timeout_ms) BY <2>2 DEF PastLimit, Idle
      <4>2. last_active[c] \in Nat /\ now \in Nat /\ Word \in Nat \ {0} /\ idle_timeout_ms \in Nat
        BY <1>0, EventLoopAssumption, SMTT(20) DEF Users
      <4>3. (now - last_active[c]) % Word \in Int BY <4>2
      <4> QED BY <4>1, <4>2, <4>3
    <3>2. /\ last_active[c] \in Nat /\ now \in Nat /\ Word \in Nat \ {0}
          /\ idle_timeout_ms \in Nat /\ now < Word
      BY <1>0, EventLoopAssumption, SMTT(20) DEF Users
    <3>3. CASE last_active[c] <= now
      <4>1. now - last_active[c] \in 0..(Word - 1) BY <3>2, <3>3
      <4>2. (now - last_active[c]) % Word = now - last_active[c] BY <3>2, <4>1, SmallMod
      <4> QED BY <3>1, <4>2
    <3>4. CASE ~(last_active[c] <= now) BY <3>2, <3>4
    <3> QED BY <3>3, <3>4
  <2>4. RequestTimed(c) /\ recv[c] # <<>> => now <= recv_deadline'[c]
    <3> SUFFICES ASSUME RequestTimed(c), recv[c] # <<>> PROVE now <= recv_deadline'[c]
      OBVIOUS
    <3>1. c \in Users BY DEF RequestTimed, Users
    <3>2. recv_deadline'[c] = IF recv_deadline[c] = 0 THEN now + request_timeout_ms
                              ELSE recv_deadline[c]
      BY <1>0, <1>2, <2>1, <3>1 DEF RequestDeadline
    <3>3. recv_deadline[c] # 0 => ~(now > recv_deadline[c])
      BY <2>2 DEF PastLimit, RequestLate
    <3>4. now \in Nat /\ recv_deadline[c] \in Nat /\ request_timeout_ms \in Nat
      BY <1>0, <3>1, EventLoopAssumption
    <3> QED BY <3>2, <3>3, <3>4
  <2>5. connect_timeout_ms > 0 /\ c \in is_connecting => now <= connect_deadline'[c]
    <3> SUFFICES ASSUME connect_timeout_ms > 0, c \in is_connecting
                 PROVE  now <= connect_deadline'[c]
      OBVIOUS
    <3>1. c \in Users /\ ConnectTimed(c) BY <1>0 DEF ConnectTimed, Users
    <3>2. connect_deadline'[c] = IF connect_deadline[c] = 0 THEN now + connect_timeout_ms
                                 ELSE connect_deadline[c]
      BY <1>0, <1>2, <2>1, <3>1 DEF ConnectDeadline
    <3>3. connect_deadline[c] # 0 => ~(now > connect_deadline[c])
      BY <2>2, <3>1 DEF PastLimit, ConnectLate
    <3>4. now \in Nat /\ connect_deadline[c] \in Nat /\ connect_timeout_ms \in Nat
      BY <1>0, <3>1, EventLoopAssumption
    <3> QED BY <3>2, <3>3, <3>4
  <2> QED BY <1>a, <2>1, <2>3, <2>4, <2>5 DEF WithinLimits
<1> QED BY <1>1, <1>2

\* The invariant for the times.
TimesInv == LoopInv /\ DeadlineInv /\ LimitsInv

\* Who is on the list is in time, and whom a pass has settled is within its
\* limits, in every state.
THEOREM TimesInvariant == Spec => []TimesInv
<1>1. Init => TimesInv
  <2> SUFFICES ASSUME Init PROVE TimesInv
    OBVIOUS
  <2>1. LoopInv BY TypedInit, WalkInit, ReadyInit DEF LoopInv
  <2>2. LimitsInv BY DEF Init, LimitsInv, Settled
  <2>3. ASSUME NEW c \in Users PROVE InTime(c)
    <3>1. Latest = 1 BY DEF Init, Latest, InPass, At, Visits, Following
    <3>2. recv[c] = <<>> /\ recv_deadline[c] = 0 /\ connect_deadline[c] = 0
      BY DEF Init
    <3>3. request_timeout_ms \in Nat /\ connect_timeout_ms \in Nat BY EventLoopAssumption
    <3> QED BY <3>1, <3>2, <3>3 DEF InTime
  <2> QED BY <2>1, <2>2, <2>3 DEF TimesInv, DeadlineInv
<1>2. TimesInv /\ LoopInv' /\ [Next]_vars => TimesInv'
  BY DeadlineNext, LimitsNext DEF TimesInv
<1> QED BY <1>1, <1>2, LoopInvariant, PTL DEF Spec

\* SurvivorsInTime: an accepted connection that survives a pass was active within
\* idle_timeout_ms, and, unless it is a WebSocket by then, its oldest input that
\* waits came within request_timeout_ms, of the time that the pass read.
THEOREM SurvivorsAreInTime == Spec => []SurvivorsInTime
<1>1. TimesInv => SurvivorsInTime
  <2> SUFFICES ASSUME TimesInv, pc = "visit", cur = Nil, NEW c \in at_start \cap Accepted
               PROVE  /\ idle_timeout_ms > 0 => now - last_active[c] <= idle_timeout_ms
                      /\ request_timeout_ms > 0 /\ recv[c] # <<>> /\ c \notin is_websocket =>
                            now - Head(recv[c]) <= request_timeout_ms
    BY DEF SurvivorsInTime
  <2>1. c \in visited
    <3>1. PassVisitsAll BY PassVisited DEF TimesInv
    <3> QED BY <3>1 DEF PassVisitsAll
  <2>2. InPass /\ ~At(Visits) /\ ~At({"write", "limits"}) BY DEF InPass, At, Visits, Following
  <2>3. WithinLimits(c) BY <2>1, <2>2 DEF TimesInv, LimitsInv, Settled, Accepted
  <2>4. c \in Peers /\ c \in Users BY DEF Accepted, Users
  <2>5. ASSUME request_timeout_ms > 0, recv[c] # <<>>, c \notin is_websocket
        PROVE  now - Head(recv[c]) <= request_timeout_ms
    <3>0. RequestTimed(c) BY <2>4, <2>5 DEF RequestTimed
    <3>1. now <= recv_deadline[c] BY <2>3, <2>5, <3>0 DEF WithinLimits
    <3>2. InTime(c) BY <2>4 DEF TimesInv, DeadlineInv
    <3>3. recv_deadline[c] # 0 BY <2>2, <2>5, <3>0, <3>2 DEF InTime
    <3>4. recv[c] \in Seq(Nat) /\ recv_deadline[c] \in Nat /\ now \in Nat
          /\ request_timeout_ms \in Nat
      BY <2>4, TypedParts, TimeTypes, EventLoopAssumption DEF TimesInv, LoopInv
    <3>5. 1 \in DOMAIN recv[c] /\ Head(recv[c]) = recv[c][1] /\ recv[c][1] \in Nat
      BY <2>5, <3>4
    <3>6. recv_deadline[c] <= recv[c][1] + request_timeout_ms BY <3>2, <3>3, <3>5 DEF InTime
    <3> QED BY <3>1, <3>4, <3>5, <3>6
  <2> QED BY <2>3, <2>4, <2>5 DEF WithinLimits
<1> QED BY <1>1, TimesInvariant, PTL

\* ConnectInTime: a connect() that is pending keeps the deadline it has, and when
\* a pass ends that deadline is neither past nor further off than its window.
THEOREM ConnectsInTime == Spec => ConnectInTime
<1>1. TimesInv /\ TimesInv' /\ [Next]_vars =>
        [connect_timeout_ms > 0 =>
          \A c \in is_connecting \cap is_connecting' :
             /\ connect_deadline[c] # 0 => connect_deadline'[c] = connect_deadline[c]
             /\ pc = "visit" /\ cur = Nil /\ c \in at_start =>
                   now \in (connect_deadline[c] - connect_timeout_ms)..connect_deadline[c]]_vars
  <2> SUFFICES ASSUME TimesInv, TimesInv', [Next]_vars, connect_timeout_ms > 0,
                      NEW c \in is_connecting \cap is_connecting'
               PROVE  /\ connect_deadline[c] # 0 => connect_deadline'[c] = connect_deadline[c]
                      /\ pc = "visit" /\ cur = Nil /\ c \in at_start =>
                            now \in (connect_deadline[c] - connect_timeout_ms)
                                    ..connect_deadline[c]
    OBVIOUS
  <2>0. /\ c \in OnList \cap Clients /\ c \in Users /\ LoopInv /\ LoopInv'
        /\ connect_deadline \in [Users -> Nat] /\ connect_timeout_ms \in Nat
    BY EventLoopAssumption DEF TimesInv, LoopInv, Typed, TypeOK, Users
  <2>1. connect_deadline[c] # 0 => connect_deadline'[c] = connect_deadline[c]
    <3>1. CASE Read
      BY <3>1 DEF Read
    <3>2. CASE Limits
      BY <2>0, <3>2 DEF Limits, ConnectDeadline
    <3>3. CASE Close
      <4>1. c # cur BY <3>3 DEF Close
      <4> QED BY <2>0, <3>3, <4>1 DEF Close, times
    <3>4. CASE ~Read /\ ~Limits /\ ~Close BY <2>0, <3>4, QuietTimes
    <3> QED BY <3>1, <3>2, <3>3, <3>4
  <2>2. ASSUME pc = "visit", cur = Nil, c \in at_start
        PROVE  now \in (connect_deadline[c] - connect_timeout_ms)..connect_deadline[c]
    <3>1. c \in visited
      <4>1. PassVisitsAll BY PassVisited DEF TimesInv
      <4> QED BY <2>2, <4>1 DEF PassVisitsAll
    <3>2. InPass /\ ~At(Visits) BY <2>2 DEF InPass, At, Visits, Following
    <3>3. WithinLimits(c) BY <2>0, <3>1, <3>2 DEF TimesInv, LimitsInv, Settled
    <3>4. now <= connect_deadline[c] BY <3>3 DEF WithinLimits
    <3>5. InTime(c) BY <2>0 DEF TimesInv, DeadlineInv
    <3>6. connect_deadline[c] <= now + connect_timeout_ms BY <3>2, <3>5 DEF InTime, Latest
    <3>7. now \in Nat /\ connect_deadline[c] \in Nat
      BY <2>0, TypedParts, TimeTypes DEF LoopInv
    <3> QED BY <2>0, <3>4, <3>6, <3>7
  <2> QED BY <2>1, <2>2
<1> QED BY <1>1, TimesInvariant, PTL DEF Spec, ConnectInTime
=============================================================================
