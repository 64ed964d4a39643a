------------------------------ MODULE DnsProofs ------------------------------
(***************************************************************************)
(* Proofs about name resolution, for every set of clients, of names and of *)
(* ids of queries, and whatever user code does while dns_cb() calls it.    *)
(***************************************************************************)
EXTENDS Dns, ListProofs

-----------------------------------------------------------------------------
(* The inductive invariant.                                                *)

\* dns_cb() has been called and has not returned.
InCallback == At("dns_cb") \/ At("free")

\* The types of the lists and of what hangs on them.
ListsTyped ==
    /\ IsList(conns, Conns) /\ IsList(requests, Clients)
    /\ opened \subseteq Clients /\ OnList \subseteq opened \cup {Resolver}
    /\ is_resolving \subseteq OnList \cap Clients /\ is_closing \subseteq OnList
    /\ Active \subseteq OnList
    /\ dns4_c = IF Resolver \in OnList THEN Resolver ELSE Nil

\* The types of what a connection and a query keep.
DataTyped ==
    /\ txnid \in [Clients -> TxnIds \cup {Nil}] /\ expire \in [Clients -> Nat]
    /\ rem \in [Clients -> STRING \cup {Nil}]
    /\ clock \in 0..MaxClock /\ now \in 0..MaxClock

\* The types of where the loop is.
ControlTyped ==
    /\ pc \in Labels /\ ret \in {"idle", "io", "next", "dns_cb", "free"}
    /\ cur \in Conns \cup {Nil} /\ nxt \in Conns \cup {Nil}
    /\ d \in Clients \cup {Nil} /\ tmp \in Clients \cup {Nil}
    /\ ev \in {"none", "POLL", "READ", "CLOSE"}
    /\ ev = "none" <=> ~InCallback

\* The walk over the connections: the one visited is on the list until it is
\* closed, and the saved successor is until it is visited.
WalkInv ==
    /\ pc = "visit" => cur \in OnList \cup {Nil}
    /\ At("io") \/ At("limits") \/ ev \in {"POLL", "READ"} => cur \in OnList
    /\ At("io") \/ At("limits") \/ At("next") \/ InCallback =>
          nxt \in OnList \cup {Nil} /\ nxt # cur

\* The walk of dns_cb() over the queries.
CursorInv ==
    /\ d # Nil => d \in Active /\ InCallback
    /\ At("free") => /\ d # Nil /\ tmp \in Active \cup {Nil}
                     /\ From(requests, d) = {d} \cup From(requests, tmp)
                     /\ d \notin From(requests, tmp)
                     /\ d \notin is_resolving \ is_closing

\* The queries that the lost resolver's handler has still to fail.
Doomed == IF ev = "CLOSE" THEN From(requests, d) ELSE {}

\* Every query has a connection to the resolver, or is about to be failed by the
\* handler of the one that was lost.
WatchInv == Active \subseteq Doomed \/ dns4_c = Resolver

\* The inductive invariant.
DnsInv ==
    /\ ListsTyped /\ DataTyped /\ ControlTyped
    /\ WalkInv /\ CursorInv /\ WatchInv /\ ResolvingIsActive /\ AnswerMatches

-----------------------------------------------------------------------------
\* Unlinking what may be on the list or not.
LEMMA RemoveAny ==
    ASSUME NEW S, NEW s, IsList(s, S), NEW c
    PROVE  /\ IsList(RemoveFirst(s, c), S)
           /\ Range(RemoveFirst(s, c)) = Range(s) \ {c}
<1>1. CASE c \in Range(s) BY <1>1, RemoveRange
<1>2. CASE c \notin Range(s)
  <2>1. ~\E i \in 1..Len(s) : s[i] = c BY <1>2, ListRange
  <2>2. RemoveFirst(s, c) = s BY <2>1 DEF RemoveFirst
  <2> QED BY <1>2, <2>2
<1> QED BY <1>1, <1>2

\* What connect() does to the two lists.
LEMMA ConnectLists ==
    ASSUME ListsTyped, NEW c \in Clients, Connect(c)
    PROVE  /\ IsList(conns', Conns) /\ IsList(requests', Clients)
           /\ c \notin OnList /\ OnList \cup {c} \subseteq OnList'
           /\ OnList' \subseteq OnList \cup {c, Resolver}
           /\ dns4_c' = IF Resolver \in OnList' THEN Resolver ELSE Nil
           /\ \/ /\ requests' = requests /\ is_resolving' = is_resolving
                 /\ is_closing' = is_closing \cup {c} /\ dns4_c' = dns4_c
              \/ /\ requests' = <<c>> \o requests /\ Active' = Active \cup {c}
                 /\ is_resolving' = is_resolving \cup {c} /\ dns4_c' = Resolver
                 /\ is_closing \subseteq is_closing' /\ is_closing' \subseteq is_closing \cup OnList'
<1>0. /\ IsList(conns, Conns) /\ IsList(requests, Clients) /\ c \in Conns
      /\ c \notin opened /\ Resolver \in Conns /\ c # Resolver /\ Nil # Resolver
  BY DnsAssumption DEF ListsTyped, Connect, Conns
<1>1. c \notin OnList /\ c \notin Active BY <1>0 DEF ListsTyped
<1>2. IsList(<<c>> \o conns, Conns) /\ Range(<<c>> \o conns) = {c} \cup OnList
  BY <1>0, <1>1, AddRange DEF OnList
<1>3. IsList(<<c>> \o requests, Clients) /\ Range(<<c>> \o requests) = {c} \cup Active
  BY <1>0, <1>1, AddRange DEF Active
<1>4. CASE /\ dns4_c = Nil /\ conns' = <<c>> \o conns
           /\ is_closing' = is_closing \cup {c}
           /\ UNCHANGED <<dns4_c, requests, queries, is_resolving, budget>>
  BY <1>0, <1>1, <1>2, <1>4 DEF ListsTyped, OnList
<1>5. CASE /\ IF dns4_c = Nil
              THEN conns' = <<Resolver, c>> \o conns /\ dns4_c' = Resolver
              ELSE conns' = <<c>> \o conns /\ UNCHANGED dns4_c
           /\ SendQuery(c)
           /\ is_closing' = is_closing \/
              is_closing' = is_closing \cup ({dns4_c'} \cap Range(conns'))
  <2>1. /\ requests' = <<c>> \o requests /\ Active' = Active \cup {c}
        /\ is_resolving' = is_resolving \cup {c} /\ IsList(requests', Clients)
    BY <1>3, <1>5 DEF SendQuery, Active
  <2>2. is_closing \subseteq is_closing' /\ is_closing' \subseteq is_closing \cup OnList'
    BY <1>5 DEF OnList
  <2>3. CASE dns4_c = Nil
    <3>1. Resolver \notin {c} \cup OnList BY <1>0, <2>3 DEF ListsTyped
    <3>2. conns' = <<Resolver>> \o (<<c>> \o conns)
      <4>1. conns' = <<Resolver, c>> \o conns BY <1>5, <2>3
      <4> QED BY <1>0, <4>1, TwoAtHead DEF IsList
    <3>3. IsList(conns', Conns) /\ OnList' = {Resolver} \cup ({c} \cup OnList)
      BY <1>0, <1>2, <3>1, <3>2, AddRange DEF OnList
    <3>4. dns4_c' = Resolver BY <1>5, <2>3
    <3> QED BY <1>1, <2>1, <2>2, <3>3, <3>4
  <2>4. CASE dns4_c # Nil
    <3>1. conns' = <<c>> \o conns /\ dns4_c' = Resolver /\ Resolver \in OnList
      BY <1>5, <2>4 DEF ListsTyped
    <3>2. IsList(conns', Conns) /\ OnList' = {c} \cup OnList
      BY <1>2, <3>1 DEF OnList
    <3> QED BY <1>1, <2>1, <2>2, <3>1, <3>2
  <2> QED BY <2>3, <2>4
<1> QED BY <1>4, <1>5 DEF Connect

\* What close_conn() does to them.
LEMMA CloseLists ==
    ASSUME ListsTyped, Close, cur \in is_closing
    PROVE  /\ IsList(conns', Conns) /\ OnList' = OnList \ {cur}
           /\ IsList(requests', Clients) /\ Active' = Active \ {cur}
           /\ is_resolving' = is_resolving \ {cur} /\ is_closing' = is_closing \ {cur}
<1>1. /\ requests' = RemoveFirst(requests, cur) /\ conns' = RemoveFirst(conns, cur)
      /\ is_resolving' = is_resolving \ {cur} /\ is_closing' = is_closing \ {cur}
  BY DEF Close, Cancel
<1> QED BY <1>1, RemoveAny DEF ListsTyped, OnList, Active

\* What dns_free() does to them.
LEMMA FreeLists ==
    ASSUME ListsTyped, CursorInv, FreeQuery
    PROVE  /\ IsList(requests', Clients) /\ Active' = Active \ {d} /\ d \in Active
           /\ From(requests', d') = From(requests, tmp)
<1>1. /\ requests' = RemoveFirst(requests, d) /\ d' = tmp /\ pc = "free"
  BY DEF FreeQuery, Successor
<1>2. d \in Active /\ d \notin From(requests, tmp) BY <1>1, DnsAssumption DEF CursorInv, At
<1> QED BY <1>1, <1>2, RemoveAny, FromRemove DEF ListsTyped, Active

\* The other steps leave the lists as they are, and mark connections for closing
\* or take an address for the one whose query dns_cb() is at.
LEMMA OtherSteps ==
    ASSUME [Next]_vars, ~Close, ~FreeQuery, ~\E c \in Clients : Connect(c)
    PROVE  /\ UNCHANGED <<conns, requests, opened, dns4_c>>
           /\ is_resolving' \in {is_resolving, is_resolving \ {d}}
           /\ is_closing \subseteq is_closing'
           /\ \/ is_closing' = is_closing
              \/ d # Nil /\ is_closing' = is_closing \cup {d}
              \/ pc = "io" /\ is_closing' = is_closing \cup {Resolver} /\ cur = Resolver
              \/ \E c \in OnList : is_closing' = is_closing \cup {c}
<1> USE DEF lists, flags
<1>1. CASE PollQuery BY <1>1 DEF PollQuery, InLoop, Fail, Skip
<1>2. CASE ReadQuery
  BY <1>2 DEF ReadQuery, InLoop, Fail, Skip, Resolved, Unresolved
<1>3. CASE CloseQuery BY <1>3 DEF CloseQuery, InLoop, Fail
<1>4. CASE \/ StartPass \/ Visit \/ NoIO \/ Step \/ EndPass \/ CallbackDone
           \/ HandlerReturns \/ Receive \/ Tick \/ UNCHANGED vars
  BY <1>4 DEF StartPass, Visit, NoIO, Step, EndPass, CallbackDone, HandlerReturns,
              Receive, Tick, vars
<1>5. CASE ReceiveFails BY <1>5 DEF ReceiveFails
<1>6. ASSUME NEW c \in Clients, SetClosing(c)
      PROVE  /\ UNCHANGED <<conns, requests, opened, dns4_c, is_resolving>>
             /\ \E e \in OnList : is_closing' = is_closing \cup {e}
  BY <1>6 DEF SetClosing
<1> QED BY <1>1, <1>2, <1>3, <1>4, <1>5, <1>6 DEF Next, Pass, DnsCb

-----------------------------------------------------------------------------
\* Both lists stay lists, and every query stays with a connection that exists.
LEMMA ListsNext ==
    ListsTyped /\ ControlTyped /\ WalkInv /\ CursorInv /\ [Next]_vars => ListsTyped'
<1> SUFFICES ASSUME ListsTyped, ControlTyped, WalkInv, CursorInv, [Next]_vars
             PROVE  ListsTyped'
  OBVIOUS
<1>0. Resolver \notin Clients /\ Nil \notin Conns BY DnsAssumption
<1>1. ASSUME NEW c \in Clients, Connect(c) PROVE ListsTyped'
  <2>1. opened' = opened \cup {c} BY <1>1 DEF Connect
  <2> QED BY <1>0, <1>1, <2>1, ConnectLists DEF ListsTyped, Active, OnList
<1>2. CASE Close /\ cur \in is_closing
  <2>1. opened' = opened /\ dns4_c' = IF cur = dns4_c THEN Nil ELSE dns4_c
    BY <1>2 DEF Close, Forget
  <2>2. cur \in OnList /\ cur # Nil BY <1>0, <1>2, ListRange DEF ListsTyped, OnList
  <2> QED BY <1>2, <2>1, <2>2, CloseLists DEF ListsTyped
<1>3. CASE Close /\ cur \notin is_closing
  BY <1>3 DEF Close, ListsTyped, lists, flags, OnList, Active
<1>4. CASE FreeQuery
  <2>1. UNCHANGED <<conns, opened, flags, dns4_c>> BY <1>4 DEF FreeQuery
  <2> QED BY <1>4, <2>1, FreeLists DEF ListsTyped, flags, OnList
<1>5. CASE ~Close /\ ~FreeQuery /\ ~\E c \in Clients : Connect(c)
  <2>1. /\ UNCHANGED <<conns, requests, opened, dns4_c>>
        /\ is_resolving' \subseteq is_resolving
        /\ is_closing' \subseteq is_closing \cup OnList
    <3>1. d # Nil => d \in OnList BY DEF CursorInv, ListsTyped
    <3>2. pc = "io" => cur \in OnList BY DEF WalkInv, At
    <3> QED BY <1>5, <3>1, <3>2, OtherSteps
  <2> QED BY <2>1 DEF ListsTyped, OnList, Active
<1> QED BY <1>1, <1>2, <1>3, <1>4, <1>5

\* The types of what is known of a query and of the times.
LEMMA DataNext ==
    ListsTyped /\ DataTyped /\ ControlTyped /\ AnswerMatches /\ [Next]_vars
        => DataTyped' /\ AnswerMatches'
<1> SUFFICES ASSUME ListsTyped, DataTyped, ControlTyped, AnswerMatches, [Next]_vars
             PROVE  DataTyped' /\ AnswerMatches'
  OBVIOUS
<1>0. /\ dnstimeout \in Nat /\ MaxClock \in Nat /\ clock \in Nat /\ 0 \in 0..MaxClock
      /\ Host \in [Clients -> STRING]
  BY DnsAssumption DEF DataTyped
<1> USE DEF queries
<1>1. ASSUME NEW c \in Clients, Connect(c) PROVE DataTyped' /\ AnswerMatches'
  <2>1. UNCHANGED <<rem, clock, now>> BY <1>1 DEF Connect
  <2>2. \/ UNCHANGED <<txnid, expire>>
        \/ /\ \E id \in TxnIds : txnid' = [txnid EXCEPT ![c] = id]
           /\ expire' = [expire EXCEPT ![c] = clock + dnstimeout]
    BY <1>1 DEF Connect, SendQuery
  <2>3. txnid' \in [Clients -> TxnIds \cup {Nil}] BY <2>2 DEF DataTyped
  <2>4. expire' \in [Clients -> Nat]
    <3>1. clock + dnstimeout \in Nat BY <1>0
    <3> QED BY <2>2, <3>1 DEF DataTyped
  <2> QED BY <2>1, <2>3, <2>4 DEF DataTyped, AnswerMatches
<1>2. CASE ReadQuery
  <2>1. UNCHANGED <<txnid, expire, clock, now>> BY <1>2 DEF ReadQuery
  <2>2. \/ UNCHANGED rem
        \/ d \in Clients /\ rem' = [rem EXCEPT ![d] = Host[d]]
    BY <1>2 DEF ReadQuery, InLoop, ControlTyped, Matches, Resolved, Unresolved, Skip
  <2> QED BY <1>0, <2>1, <2>2 DEF DataTyped, AnswerMatches
<1>3. CASE StartPass \/ EndPass \/ Tick
  <2>1. /\ UNCHANGED <<txnid, expire, rem>>
        /\ clock' = clock \/ (clock < MaxClock /\ clock' = clock + 1)
        /\ now' \in {now, clock, 0}
    BY <1>3 DEF StartPass, EndPass, Tick
  <2> QED BY <1>0, <2>1 DEF DataTyped, AnswerMatches
<1>4. CASE \/ Visit \/ NoIO \/ Step \/ CallbackDone \/ HandlerReturns \/ Receive \/ Close
           \/ PollQuery \/ CloseQuery \/ FreeQuery \/ ReceiveFails \/ UNCHANGED vars
           \/ \E c \in Clients : SetClosing(c)
  <2>1. UNCHANGED <<txnid, expire, rem, clock, now>>
    BY <1>4 DEF Visit, NoIO, Step, CallbackDone, HandlerReturns, Receive, Close, PollQuery,
                Skip, CloseQuery, FreeQuery, ReceiveFails, SetClosing, vars
  <2> QED BY <2>1 DEF DataTyped, AnswerMatches
<1> QED BY <1>1, <1>2, <1>3, <1>4 DEF Next, Pass, DnsCb

\* What is ahead on the lists is of their types.
LEMMA Successors ==
    ASSUME ListsTyped
    PROVE  /\ HeadOf(conns, Nil) \in OnList \cup {Nil}
           /\ HeadOf(requests, Nil) \in Active \cup {Nil}
           /\ From(requests, HeadOf(requests, Nil)) = Active
           /\ \A x \in OnList : NextOf(conns, x, Nil) \in OnList \cup {Nil}
                                /\ NextOf(conns, x, Nil) # x
           /\ \A x \in Active :
                 /\ NextOf(requests, x, Nil) \in Active \cup {Nil}
                 /\ From(requests, x) = {x} \cup From(requests, NextOf(requests, x, Nil))
                 /\ x \notin From(requests, NextOf(requests, x, Nil))
           /\ OnList \subseteq Conns /\ Active \subseteq Clients
<1>1. /\ IsList(conns, Conns) /\ IsList(requests, Clients)
      /\ Nil \notin Conns /\ Nil \notin Clients
  BY DnsAssumption DEF ListsTyped, Conns
<1>2. OnList \subseteq Conns /\ Active \subseteq Clients BY <1>1, ListRange DEF OnList, Active
<1>3. ASSUME NEW x \in OnList
      PROVE  NextOf(conns, x, Nil) \in OnList \cup {Nil} /\ NextOf(conns, x, Nil) # x
  <2>1. /\ NextOf(conns, x, Nil) \in OnList \cup {Nil}
        /\ x \notin From(conns, NextOf(conns, x, Nil))
    BY <1>1, FromAfter DEF OnList
  <2>2. CASE NextOf(conns, x, Nil) = x BY <1>1, <2>1, <2>2, FromWithin DEF OnList
  <2> QED BY <2>1, <2>2
<1> QED BY <1>1, <1>2, <1>3, FromFirst, FromAfter DEF OnList, Active

\* The types of the control variables.
LEMMA ControlNext ==
    ListsTyped /\ ControlTyped /\ WalkInv /\ CursorInv /\ [Next]_vars => ControlTyped'
<1> SUFFICES ASSUME ListsTyped, ControlTyped, WalkInv, CursorInv, [Next]_vars
             PROVE  ControlTyped'
  OBVIOUS
<1>0. ListsTyped /\ Resolver \notin Clients /\ Nil \notin Conns BY DnsAssumption
<1> USE DEF GoTo, Call, Labels, InCallback, At, walk, cb
<1>1. ASSUME NEW c \in Clients, Connect(c) \/ SetClosing(c) PROVE ControlTyped'
  BY <1>1 DEF Connect, SetClosing, ControlTyped
<1>2. CASE StartPass
  BY <1>2, <1>0, Successors DEF StartPass, ControlTyped
<1>3. CASE Visit
  <2>1. cur \in OnList BY <1>3 DEF Visit, WalkInv
  <2>2. nxt' \in Conns \cup {Nil} BY <1>0, <1>3, <2>1, Successors DEF Visit
  <2>3. HeadOf(requests, Nil) \in Clients \cup {Nil} BY <1>0, Successors
  <2> QED BY <1>3, <2>2, <2>3 DEF Visit, ControlTyped
<1>4. CASE Receive
  <2>1. HeadOf(requests, Nil) \in Clients \cup {Nil} BY <1>0, Successors
  <2> QED BY <1>4, <2>1 DEF Receive, ControlTyped
<1>5. CASE Close
  <2>1. HeadOf(requests, Nil) \in Clients \cup {Nil} BY <1>0, Successors
  <2> QED BY <1>5, <2>1 DEF Close, ControlTyped
<1>6. CASE PollQuery
  <2>1. d \in Active BY <1>6 DEF PollQuery, InLoop, CursorInv
  <2>2. NextOf(requests, d, Nil) \in Clients \cup {Nil} BY <1>0, <2>1, Successors
  <2> QED BY <1>6, <2>2 DEF PollQuery, InLoop, Fail, Skip, ControlTyped
<1>7. CASE ReadQuery
  <2>1. d \in Active BY <1>7 DEF ReadQuery, InLoop, CursorInv
  <2>2. NextOf(requests, d, Nil) \in Clients \cup {Nil} BY <1>0, <2>1, Successors
  <2> QED
    BY <1>7, <2>2 DEF ReadQuery, InLoop, Fail, Skip, Resolved, Unresolved, ControlTyped
<1>8. CASE CloseQuery
  <2>1. d \in Active BY <1>8 DEF CloseQuery, InLoop, CursorInv
  <2>2. NextOf(requests, d, Nil) \in Clients \cup {Nil} BY <1>0, <2>1, Successors
  <2> QED BY <1>8, <2>2 DEF CloseQuery, InLoop, Fail, ControlTyped
<1>9. CASE FreeQuery
  <2>1. tmp \in Clients \cup {Nil} /\ Nil \in Clients \cup {Nil} BY DEF ControlTyped
  <2> QED BY <1>9, <2>1 DEF FreeQuery, Successor, ControlTyped
<1>10. CASE CallbackDone
  <2>1. ev \in {"POLL", "READ", "CLOSE"} BY <1>10 DEF CallbackDone, ControlTyped
  <2>2. pc' \in {"io", "limits", "next"} BY <1>10, <2>1 DEF CallbackDone
  <2> QED BY <1>10, <2>2 DEF CallbackDone, ControlTyped
<1>11. CASE \/ NoIO \/ Step \/ EndPass \/ HandlerReturns \/ ReceiveFails \/ Tick
            \/ UNCHANGED vars
  BY <1>11 DEF NoIO, Step, EndPass, HandlerReturns, ReceiveFails, Tick, vars, ControlTyped
<1> QED
  BY <1>1, <1>2, <1>3, <1>4, <1>5, <1>6, <1>7, <1>8, <1>9, <1>10, <1>11
     DEF Next, Pass, DnsCb

-----------------------------------------------------------------------------
\* A connection leaves the list only when it is closed.
LEMMA OnListNext ==
    ASSUME ListsTyped, [Next]_vars
    PROVE  OnList \subseteq OnList' \/ (Close /\ OnList' = OnList \ {cur})
<1>1. ASSUME NEW c \in Clients, Connect(c) PROVE OnList \subseteq OnList'
  BY <1>1, ConnectLists
<1>2. CASE Close /\ cur \in is_closing BY <1>2, CloseLists
<1>3. CASE Close /\ cur \notin is_closing BY <1>3 DEF Close, lists, OnList
<1>4. CASE FreeQuery BY <1>4 DEF FreeQuery, OnList
<1>5. CASE ~Close /\ ~FreeQuery /\ ~\E c \in Clients : Connect(c)
  BY <1>5, OtherSteps DEF OnList
<1> QED BY <1>1, <1>2, <1>3, <1>4, <1>5

\* The walk over the connections.
LEMMA WalkNext ==
    ListsTyped /\ ControlTyped /\ WalkInv /\ CursorInv /\ [Next]_vars => WalkInv'
<1> SUFFICES ASSUME ListsTyped, ControlTyped, WalkInv, CursorInv, [Next]_vars
             PROVE  WalkInv'
  OBVIOUS
<1>0. ret \in {"idle", "io", "next", "dns_cb", "free"} /\ (ev = "none" <=> ~InCallback)
  BY DEF ControlTyped
<1>a. ~Close => OnList \subseteq OnList' BY OnListNext DEF Close
<1> USE DEF GoTo, Call, walk, cb
<1>1. CASE UNCHANGED <<pc, ret, cur, nxt, ev>> /\ ~Close
  BY <1>1, <1>a DEF WalkInv, At, InCallback
<1>2. ASSUME NEW c \in Clients, Connect(c) \/ SetClosing(c) PROVE WalkInv'
  <2>1. UNCHANGED <<pc, ret, cur, nxt, ev>> /\ ~Close
    BY <1>2 DEF Connect, SetClosing, InUserCode, Close
  <2> QED BY <1>1, <2>1
<1>3. CASE Tick \/ UNCHANGED vars
  <2>1. UNCHANGED <<pc, ret, cur, nxt, ev, conns>> BY <1>3 DEF Tick, lists, vars
  <2> QED BY <2>1 DEF WalkInv, At, InCallback, OnList
<1>4. CASE HandlerReturns
  <2>1. UNCHANGED <<conns, cur, nxt, ev>> /\ pc = "handler" /\ pc' = ret
    BY <1>4 DEF HandlerReturns, lists
  <2> QED BY <1>0, <2>1 DEF WalkInv, At, InCallback, OnList
<1>5. CASE StartPass
  <2>1. /\ UNCHANGED <<conns, ev>> /\ pc = "idle" /\ pc' = "visit"
        /\ cur' = HeadOf(conns, Nil)
    BY <1>5 DEF StartPass, lists
  <2>2. ev = "none" BY <1>0, <2>1 DEF InCallback, At
  <2>3. cur' \in OnList \cup {Nil} BY <2>1, Successors
  <2> QED BY <2>1, <2>2, <2>3 DEF WalkInv, At, InCallback, OnList
<1>6. CASE Visit
  <2>1. /\ UNCHANGED <<conns, cur>> /\ nxt' = NextOf(conns, cur, Nil) /\ cur # Nil
        /\ pc = "visit" /\ (pc' = "dns_cb" \/ (pc' = "handler" /\ ret' = "io"))
    BY <1>6 DEF Visit, lists
  <2>2. cur \in OnList BY <1>6 DEF Visit, WalkInv
  <2>3. nxt' \in OnList \cup {Nil} /\ nxt' # cur BY <2>1, <2>2, Successors
  <2>4. pc' # "visit" BY <1>6 DEF Visit
  <2> QED BY <2>1, <2>2, <2>3, <2>4 DEF WalkInv, OnList
<1>7. CASE Receive
  <2>1. /\ UNCHANGED <<conns, cur, nxt>> /\ pc = "io" /\ pc' = "dns_cb"
    BY <1>7 DEF Receive, lists
  <2> QED BY <2>1 DEF WalkInv, At, InCallback, OnList
<1>8. CASE ReceiveFails \/ NoIO
  <2>1. /\ UNCHANGED <<conns, cur, nxt, ev>> /\ pc = "io" /\ pc' = "limits"
    BY <1>8 DEF ReceiveFails, NoIO, lists
  <2> QED BY <2>1 DEF WalkInv, At, InCallback, OnList
<1>9. CASE Close
  <2>0. pc = "limits" /\ UNCHANGED <<cur, nxt>> BY <1>9 DEF Close
  <2>1. nxt \in OnList \cup {Nil} /\ nxt # cur BY <2>0 DEF WalkInv, At
  <2>2. ev = "none" BY <1>0, <2>0 DEF InCallback, At
  <2>3. /\ pc' \in {"dns_cb", "next"} \/ (pc' = "handler" /\ ret' = "next")
        /\ ev' = "CLOSE" \/ ev' = ev
    BY <1>9 DEF Close
  <2>4. nxt' \in OnList' \cup {Nil} /\ nxt' # cur'
    BY <2>0, <2>1, OnListNext
  <2> QED BY <2>2, <2>3, <2>4 DEF WalkInv, At, InCallback
<1>10. CASE Step
  <2>1. UNCHANGED <<conns, ev>> /\ cur' = nxt /\ pc = "next" /\ pc' = "visit"
    BY <1>10 DEF Step, lists
  <2>2. ev = "none" BY <1>0, <2>1 DEF InCallback, At
  <2> QED BY <2>1, <2>2 DEF WalkInv, At, InCallback, OnList
<1>11. CASE EndPass
  <2>1. UNCHANGED <<conns, ev>> /\ pc = "visit" /\ pc' = "idle"
    BY <1>11 DEF EndPass, lists
  <2>2. ev = "none" BY <1>0, <2>1 DEF InCallback, At
  <2> QED BY <2>1, <2>2 DEF WalkInv, At, InCallback, OnList
<1>12. CASE PollQuery \/ ReadQuery \/ CloseQuery \/ FreeQuery
  <2>1. /\ UNCHANGED <<cur, nxt, ev, conns>> /\ pc \in {"dns_cb", "free"}
        /\ pc' \in {"dns_cb", "free"} \/ (pc' = "handler" /\ ret' \in {"dns_cb", "free"})
    BY <1>12 DEF PollQuery, ReadQuery, CloseQuery, FreeQuery, InLoop, Fail, Skip, Resolved,
                 Unresolved, lists
  <2>2. InCallback BY <2>1 DEF InCallback, At
  <2> QED BY <2>1, <2>2 DEF WalkInv, At, OnList
<1>13. CASE CallbackDone
  <2>1. /\ UNCHANGED <<cur, nxt, conns>> /\ pc = "dns_cb" /\ ev' = "none"
        /\ \/ ev = "POLL" /\ pc' = "io"
           \/ ev = "READ" /\ pc' = "limits"
           \/ ev = "CLOSE" /\ pc' = "next"
    <3>1. ev \in {"POLL", "READ", "CLOSE"}
      BY <1>13 DEF CallbackDone, ControlTyped, InCallback, At
    <3> QED BY <1>13, <3>1 DEF CallbackDone, lists
  <2> QED BY <2>1 DEF WalkInv, At, InCallback, OnList
<1> QED
  BY <1>2, <1>3, <1>4, <1>5, <1>6, <1>7, <1>8, <1>9, <1>10, <1>11, <1>12, <1>13
     DEF Next, Pass, DnsCb

-----------------------------------------------------------------------------
\* The walk over the queries: whatever connect() adds, the query that dns_cb() is
\* at and its successor stay on the list, and what is behind them stays behind.
LEMMA CursorNext ==
    ListsTyped /\ ControlTyped /\ WalkInv /\ CursorInv /\ [Next]_vars => CursorInv'
<1> SUFFICES ASSUME ListsTyped, ControlTyped, WalkInv, CursorInv, [Next]_vars
             PROVE  CursorInv'
  OBVIOUS
<1>0. /\ ret \in {"idle", "io", "next", "dns_cb", "free"} /\ (ev = "none" <=> ~InCallback)
      /\ d \in Clients \cup {Nil} /\ Nil \notin Clients
  BY DnsAssumption DEF ControlTyped, Conns
<1>a. ~InCallback => d = Nil BY DEF CursorInv
<1> USE DEF GoTo, Call, walk, cb, lists, flags
<1>1. ASSUME NEW c \in Clients, Connect(c) PROVE CursorInv'
  <2>1. UNCHANGED <<pc, ret, d, tmp>> BY <1>1 DEF Connect
  <2>2. CASE requests' = requests /\ is_resolving' = is_resolving
             /\ is_closing' = is_closing \cup {c}
    BY <2>1, <2>2 DEF CursorInv, At, InCallback, Active
  <2>3. CASE /\ requests' = <<c>> \o requests /\ Active' = Active \cup {c}
             /\ is_resolving' = is_resolving \cup {c} /\ is_closing \subseteq is_closing'
    <3>1. IsList(requests, Clients) /\ c \notin Active
      BY <1>1, ConnectLists DEF ListsTyped
    <3>2. \A x \in Active \cup {Nil} : From(requests', x) = From(requests, x)
      BY <1>0, <2>3, <3>1, FromAdd DEF Active
    <3>3. d # Nil => d \in Active /\ d # c BY <3>1 DEF CursorInv
    <3> QED BY <2>1, <2>3, <3>2, <3>3 DEF CursorInv, At, InCallback
  <2> QED BY <1>1, <2>2, <2>3, ConnectLists
<1>2. CASE Close
  <2>1. pc = "limits" BY <1>2 DEF Close
  <2>2. d = Nil BY <1>a, <2>1 DEF InCallback, At
  <2>3. CASE pc' = "dns_cb"
    <3>1. cur \in is_closing /\ cur = Resolver /\ d' = HeadOf(requests, Nil)
      BY <1>2, <2>3 DEF Close
    <3>2. Active' = Active \ {Resolver} BY <1>2, <3>1, CloseLists
    <3>3. d' \in Active' \cup {Nil} BY <3>1, <3>2, Successors, DnsAssumption
    <3> QED BY <2>3, <3>3 DEF CursorInv, At, InCallback
  <2>4. CASE pc' # "dns_cb"
    <3>1. d' = d /\ (pc' = "next" \/ (pc' = "handler" /\ ret' = "next"))
      BY <1>2, <2>4 DEF Close
    <3> QED BY <2>2, <3>1 DEF CursorInv, At, InCallback
  <2> QED BY <2>3, <2>4
<1>3. CASE FreeQuery
  <2>1. pc' = "dns_cb" /\ d' = tmp /\ pc = "free"
    BY <1>3 DEF FreeQuery, Successor
  <2>2. tmp \in Active \cup {Nil} /\ d \notin From(requests, tmp)
    BY <2>1 DEF CursorInv, At
  <2>3. tmp # Nil => tmp \in From(requests, tmp)
    BY <2>2, FromWithin DEF ListsTyped, Active
  <2>4. tmp # Nil => tmp \in Active' BY <1>3, <2>2, <2>3, FreeLists
  <2> QED BY <2>1, <2>4 DEF CursorInv, At, InCallback
<1>4. CASE PollQuery
  <2>1. d \in Active /\ pc = "dns_cb" BY <1>4 DEF PollQuery, InLoop, CursorInv
  <2>2. /\ d' = NextOf(requests, d, Nil) /\ requests' = requests
        /\ pc' = "dns_cb" \/ (pc' = "handler" /\ ret' = "dns_cb")
    BY <1>4 DEF PollQuery, InLoop, Fail, Skip
  <2>3. d' \in Active' \cup {Nil} BY <2>1, <2>2, Successors DEF Active
  <2> QED BY <2>2, <2>3 DEF CursorInv, At, InCallback
<1>5. CASE ReadQuery
  <2>1. d \in Active /\ pc = "dns_cb" /\ requests' = requests /\ d # Nil
    BY <1>5 DEF ReadQuery, InLoop, CursorInv
  <2>2. CASE Matches(d)
    <3>1. /\ tmp' = NextOf(requests, d, Nil) /\ d' = d
          /\ pc' = "free" \/ (pc' = "handler" /\ ret' = "free")
          /\ d \notin is_resolving' \ is_closing'
      BY <1>5, <2>2 DEF ReadQuery, Fail, Resolved, Unresolved
    <3>2. /\ tmp' \in Active \cup {Nil}
          /\ From(requests, d) = {d} \cup From(requests, tmp')
          /\ d \notin From(requests, tmp')
      BY <2>1, <3>1, Successors
    <3> QED BY <2>1, <3>1, <3>2 DEF CursorInv, At, InCallback, Active
  <2>3. CASE ~Matches(d)
    <3>1. d' = NextOf(requests, d, Nil) /\ pc' = "dns_cb"
      BY <1>5, <2>1, <2>3 DEF ReadQuery, Skip
    <3>2. d' \in Active' \cup {Nil} BY <2>1, <3>1, Successors DEF Active
    <3> QED BY <3>1, <3>2 DEF CursorInv, At, InCallback
  <2> QED BY <2>2, <2>3
<1>6. CASE CloseQuery
  <2>1. d \in Active /\ pc = "dns_cb" /\ requests' = requests /\ d # Nil
    BY <1>6 DEF CloseQuery, InLoop, CursorInv
  <2>2. /\ tmp' = NextOf(requests, d, Nil) /\ d' = d
        /\ pc' = "handler" /\ ret' = "free" /\ d \in is_closing'
    BY <1>6 DEF CloseQuery, Fail
  <2>3. /\ tmp' \in Active \cup {Nil}
        /\ From(requests, d) = {d} \cup From(requests, tmp')
        /\ d \notin From(requests, tmp')
    BY <2>1, <2>2, Successors
  <2> QED BY <2>1, <2>2, <2>3 DEF CursorInv, At, InCallback, Active
<1>7. CASE CallbackDone
  <2>1. d = Nil /\ d' = Nil BY <1>7 DEF CallbackDone
  <2>2. pc' \in {"io", "limits", "next"}
    <3>1. ev \in {"POLL", "READ", "CLOSE"}
      BY <1>7 DEF CallbackDone, ControlTyped, InCallback, At
    <3> QED BY <1>7, <3>1 DEF CallbackDone
  <2> QED BY <2>1, <2>2 DEF CursorInv, At, InCallback
<1>8. CASE Visit
  <2>1. /\ requests' = requests /\ pc = "visit"
        /\ \/ d' = HeadOf(requests, Nil) /\ pc' = "dns_cb"
           \/ d' = d /\ pc' = "handler" /\ ret' = "io"
    BY <1>8 DEF Visit
  <2>2. d = Nil BY <1>a, <2>1 DEF InCallback, At
  <2>3. HeadOf(requests, Nil) \in Active \cup {Nil} BY Successors
  <2> QED BY <2>1, <2>2, <2>3 DEF CursorInv, At, InCallback, Active
<1>9. CASE Receive
  <2>1. requests' = requests /\ pc' = "dns_cb" /\ d' = HeadOf(requests, Nil)
    BY <1>9 DEF Receive
  <2>2. HeadOf(requests, Nil) \in Active \cup {Nil} BY Successors
  <2> QED BY <2>1, <2>2 DEF CursorInv, At, InCallback, Active
<1>10. CASE StartPass \/ NoIO \/ Step \/ EndPass \/ ReceiveFails
  <2>1. /\ UNCHANGED <<d, requests>> /\ pc \in {"idle", "io", "next", "visit"}
        /\ pc' \in {"idle", "limits", "visit"}
    BY <1>10 DEF StartPass, NoIO, Step, EndPass, ReceiveFails
  <2>2. d = Nil BY <1>a, <2>1 DEF InCallback, At
  <2> QED BY <2>1, <2>2 DEF CursorInv, At, InCallback
<1>11. CASE HandlerReturns
  <2>1. /\ UNCHANGED <<d, tmp, requests, is_resolving, is_closing>>
        /\ pc = "handler" /\ pc' = ret
    BY <1>11 DEF HandlerReturns
  <2> QED BY <1>0, <2>1 DEF CursorInv, At, InCallback, Active
<1>12. CASE Tick \/ UNCHANGED vars \/ \E c \in Clients : SetClosing(c)
  <2>1. /\ UNCHANGED <<d, tmp, requests, is_resolving, pc, ret>>
        /\ is_closing \subseteq is_closing'
    BY <1>12 DEF Tick, vars, SetClosing
  <2> QED BY <2>1 DEF CursorInv, At, InCallback, Active
<1> QED
  BY <1>1, <1>2, <1>3, <1>4, <1>5, <1>6, <1>7, <1>8, <1>9, <1>10, <1>11, <1>12
     DEF Next, Pass, DnsCb

\* What remains on the list is watched by the resolver, or will be failed by the
\* handler of the resolver that was lost.
LEMMA WatchNext ==
    ListsTyped /\ ControlTyped /\ WalkInv /\ CursorInv /\ WatchInv /\ [Next]_vars
        => WatchInv'
<1> SUFFICES ASSUME ListsTyped, ControlTyped, WalkInv, CursorInv, WatchInv, [Next]_vars
             PROVE  WatchInv'
  OBVIOUS
<1>0. /\ (ev = "none" <=> ~InCallback) /\ Resolver # Nil
      /\ IsList(requests, Clients) /\ Nil \notin Clients
  BY DnsAssumption DEF ControlTyped, ListsTyped, Conns
<1>b. From(requests, Nil) = {} BY <1>0, ListRange, FromWithin
<1> USE DEF GoTo, Call, walk, cb, lists, flags
<1>1. ASSUME NEW c \in Clients, Connect(c) PROVE WatchInv'
  <2>1. UNCHANGED <<d, ev>> BY <1>1 DEF Connect
  <2>2. (requests' = requests /\ dns4_c' = dns4_c) \/ dns4_c' = Resolver
    BY <1>1, ConnectLists
  <2> QED BY <2>1, <2>2 DEF WatchInv, Doomed, Active
<1>2. CASE Close /\ cur \in is_closing
  <2>1. pc = "limits" BY <1>2 DEF Close
  <2>2. ev = "none" BY <1>0, <2>1 DEF InCallback, At
  <2>3. Active' = Active \ {cur} BY <1>2, CloseLists
  <2>4. CASE cur = Resolver
    <3>1. ev' = "CLOSE" /\ d' = HeadOf(requests, Nil) /\ Resolver \notin Active
      BY <1>2, <2>4, Successors, DnsAssumption DEF Close
    <3>2. requests' = requests
      <4>1. requests' = RemoveFirst(requests, cur) BY <1>2 DEF Close, Cancel
      <4>2. ~\E i \in 1..Len(requests) : requests[i] = cur
        BY <1>0, <2>4, <3>1, ListRange DEF Active
      <4> QED BY <4>1, <4>2 DEF RemoveFirst
    <3>3. Active' = Active /\ Doomed' = Active
      BY <3>1, <3>2, Successors DEF Active, Doomed
    <3> QED BY <3>3 DEF WatchInv
  <2>5. CASE cur # Resolver
    <3>1. ev' = ev /\ dns4_c' = IF cur = dns4_c THEN Nil ELSE dns4_c
      BY <1>2, <2>5 DEF Close, Forget
    <3>2. Doomed' = {} /\ Doomed = {} BY <2>2, <3>1 DEF Doomed
    <3> QED BY <2>3, <2>5, <3>1, <3>2 DEF WatchInv
  <2> QED BY <2>4, <2>5
<1>3. CASE Close /\ cur \notin is_closing
  BY <1>3 DEF Close, WatchInv, Doomed, Active
<1>4. CASE FreeQuery
  <2>1. UNCHANGED <<ev, dns4_c>> /\ pc = "free" BY <1>4 DEF FreeQuery
  <2>2. From(requests, d) = {d} \cup From(requests, tmp) BY <2>1 DEF CursorInv, At
  <2>3. Active' = Active \ {d} /\ From(requests', d') = From(requests, tmp)
    BY <1>4, FreeLists
  <2> QED BY <2>1, <2>2, <2>3 DEF WatchInv, Doomed
<1>5. CASE CallbackDone
  <2>1. UNCHANGED <<requests, dns4_c>> /\ ev' = "none" /\ d = Nil
    BY <1>5 DEF CallbackDone
  <2> QED BY <1>b, <2>1 DEF WatchInv, Doomed, Active
<1>6. CASE Visit \/ Receive
  <2>1. UNCHANGED <<requests, dns4_c>> /\ pc \in {"visit", "io"} /\ ev' # "CLOSE"
    <3>1. ev # "CLOSE" BY <1>0, <1>6 DEF Visit, Receive, InCallback, At
    <3> QED BY <1>6, <3>1 DEF Visit, Receive
  <2>2. ev = "none" BY <1>0, <2>1 DEF InCallback, At
  <2> QED BY <2>1, <2>2 DEF WatchInv, Doomed, Active
<1>7. CASE PollQuery
  <2>1. UNCHANGED <<requests, dns4_c, ev>> /\ ev = "POLL" BY <1>7 DEF PollQuery, InLoop
  <2> QED BY <2>1 DEF WatchInv, Doomed, Active
<1>8. CASE ReadQuery
  <2>1. UNCHANGED <<requests, dns4_c, ev>> /\ ev = "READ" BY <1>8 DEF ReadQuery, InLoop
  <2> QED BY <2>1 DEF WatchInv, Doomed, Active
<1>9. CASE \/ CloseQuery \/ StartPass \/ NoIO \/ Step \/ EndPass \/ ReceiveFails \/ Tick
           \/ HandlerReturns \/ UNCHANGED vars \/ \E c \in Clients : SetClosing(c)
  <2>1. UNCHANGED <<requests, dns4_c, ev, d>>
    BY <1>9 DEF CloseQuery, Fail, StartPass, NoIO, Step, EndPass, ReceiveFails, Tick,
                HandlerReturns, vars, SetClosing
  <2> QED BY <2>1 DEF WatchInv, Doomed, Active
<1> QED
  BY <1>1, <1>2, <1>3, <1>4, <1>5, <1>6, <1>7, <1>8, <1>9 DEF Next, Pass, DnsCb

\* A connection waits for its address only while its query is on the list.
LEMMA ResolvingNext ==
    ListsTyped /\ CursorInv /\ ResolvingIsActive /\ [Next]_vars => ResolvingIsActive'
<1> SUFFICES ASSUME ListsTyped, CursorInv, ResolvingIsActive, [Next]_vars
             PROVE  ResolvingIsActive'
  OBVIOUS
<1> USE DEF ResolvingIsActive
<1>1. ASSUME NEW c \in Clients, Connect(c) PROVE ResolvingIsActive'
  BY <1>1, ConnectLists DEF Active
<1>2. CASE Close /\ cur \in is_closing BY <1>2, CloseLists
<1>3. CASE Close /\ cur \notin is_closing BY <1>3 DEF Close, lists, flags, Active
<1>4. CASE FreeQuery
  <2>1. UNCHANGED flags /\ pc = "free" BY <1>4 DEF FreeQuery
  <2>2. d \notin is_resolving \ is_closing BY <2>1 DEF CursorInv, At
  <2> QED BY <1>4, <2>1, <2>2, FreeLists DEF flags
<1>5. CASE ~Close /\ ~FreeQuery /\ ~\E c \in Clients : Connect(c)
  <2>1. UNCHANGED requests /\ is_resolving' \subseteq is_resolving
        /\ is_closing \subseteq is_closing'
    BY <1>5, OtherSteps
  <2> QED BY <2>1 DEF Active
<1> QED BY <1>1, <1>2, <1>3, <1>4, <1>5

-----------------------------------------------------------------------------
\* A manager starts with no connection and no query.
LEMMA DnsInit == Init => DnsInv
<1> SUFFICES ASSUME Init PROVE DnsInv
  OBVIOUS
<1> USE DEF Init
<1>1. /\ IsList(<<>>, Conns) /\ IsList(<<>>, Clients) /\ OnList = {} /\ Active = {}
  BY DEF IsList, IsInjective, OnList, Active, Range
<1>2. ListsTyped BY <1>1 DEF ListsTyped
<1>3. DataTyped BY DnsAssumption DEF DataTyped
<1>4. ~InCallback BY DEF InCallback, At
<1>5. ControlTyped BY <1>4 DEF ControlTyped, Labels
<1>6. WalkInv BY <1>4 DEF WalkInv, At
<1>7. CursorInv BY DEF CursorInv, At
<1>8. WatchInv /\ ResolvingIsActive BY <1>1 DEF WatchInv, ResolvingIsActive
<1>9. AnswerMatches BY DEF AnswerMatches
<1> QED BY <1>2, <1>3, <1>5, <1>6, <1>7, <1>8, <1>9 DEF DnsInv

\* The invariant of the resolver holds throughout.
THEOREM DnsInvariant == Spec => []DnsInv
<1>1. DnsInv /\ [Next]_vars => DnsInv'
  BY ListsNext, DataNext, ControlNext, WalkNext, CursorNext, WatchNext, ResolvingNext
     DEF DnsInv
<1> QED BY <1>1, DnsInit, PTL DEF Spec

\* QueriesSound: dns_cb() never follows a query that was freed, no query outlives
\* its connection, and no connection is left waiting for an address, whatever user
\* code connects and closes while the list is walked.
THEOREM QueriesAreSound == Spec => []QueriesSound
<1>1. DnsInv => QueriesSound
  <2> SUFFICES ASSUME DnsInv PROVE QueriesSound
    OBVIOUS
  <2> USE DEF DnsInv
  <2>1. TypeOK
    BY DEF TypeOK, ListsTyped, DataTyped, ControlTyped, IsList, Labels
  <2>2. DnsCursorValid BY DEF DnsCursorValid, CursorInv
  <2>3. RequestsOwned BY DEF RequestsOwned, ListsTyped
  <2>4. ResolverWatches
    <3> SUFFICES ASSUME requests # <<>>, ev # "CLOSE"
                 PROVE  dns4_c = Resolver /\ Resolver \in OnList
      BY DEF ResolverWatches
    <3>1. requests[1] \in Active BY DEF ListsTyped, IsList, Active, Range
    <3>2. dns4_c = Resolver BY <3>1 DEF WatchInv, Doomed
    <3>3. Resolver # Nil BY DnsAssumption DEF Conns
    <3> QED BY <3>2, <3>3 DEF ListsTyped
  <2> QED BY <2>1, <2>2, <2>3, <2>4 DEF QueriesSound
<1> QED BY <1>1, DnsInvariant, PTL

\* AnswerMatches: an address is taken from an answer to the client's own question,
\* however ids are used again and answers arrive late.
THEOREM AnswersMatch == Spec => []AnswerMatches
BY DnsInvariant, PTL DEF DnsInv
=============================================================================
