-------------------------------- MODULE Dns --------------------------------
(***************************************************************************)
(* Name resolution (dns.cpp) in the event loop of one manager.  connect()  *)
(* to a name puts a query on the manager's list and sends it over a UDP    *)
(* connection, the resolver, which is opened on demand and can fail.  Its  *)
(* handler dns_cb() walks the list of queries on every MG_EV_POLL (to time *)
(* them out), MG_EV_READ (to match an answer) and MG_EV_CLOSE (to fail them *)
(* all), and calls user code while it does so; user code connects and      *)
(* closes as it likes.  Answers are lost, late, duplicated and reordered.  *)
(*                                                                         *)
(* A client has one query, so a query is named by its client.  The second  *)
(* query for an IPv6 address (MG_ENABLE_IPV6, off by default) is left out. *)
(***************************************************************************)
EXTENDS Integers, Sequences, FiniteSets, SequencesExt, Lists

CONSTANTS
    Clients,        \* connections opened with connect() to a name
    Resolver,       \* the UDP connection to the DNS server
    Host,           \* Host[c]: the name c connects to
    TxnIds,         \* 0..65535
    Nil,
    dnstimeout,
    Budget,         \* closes by user code, and failures of the resolver (bound)
    MaxClock        \* the clock stops here (bound)

Conns == Clients \cup {Resolver}

ASSUME DnsAssumption ==
    /\ Resolver \notin Clients /\ Nil \notin Conns
    /\ Host \in [Clients -> STRING]
    /\ TxnIds # {} /\ Nil \notin TxnIds
    /\ {dnstimeout, Budget, MaxClock} \subseteq Nat

VARIABLES
    conns,          \* the list of connections
    opened,         \* clients that exist or existed
    is_resolving, is_closing,
    dns4_c,         \* dns4.c: the resolver, or Nil
    requests,       \* active_dns_requests: the list of queries
    txnid, expire,  \* of each query
    rem,            \* the address resolved for a client (the name it is of)
    asked,          \* history: queries sent; any of them may be answered again
    clock, now,     \* millis(), and its value cached for the pass
    pc, ret,        \* the walk, and where it goes on after a handler
    cur, nxt,       \* connection visited, saved successor
    ev, msg,        \* event of dns_cb(), and the answer it reads
    d, tmp,         \* its query, saved successor
    budget

lists == <<conns, requests>>
flags == <<is_resolving, is_closing>>
queries == <<txnid, expire, asked>>
walk == <<cur, nxt>>
cb == <<ev, msg, d, tmp>>
vars == <<lists, opened, flags, dns4_c, queries, rem, clock, now, pc, ret, walk,
          cb, budget>>

Init ==
    /\ conns = <<>> /\ opened = {}
    /\ is_resolving = {} /\ is_closing = {}
    /\ dns4_c = Nil /\ requests = <<>>
    /\ txnid = [c \in Clients |-> Nil] /\ expire = [c \in Clients |-> 0]
    /\ rem = [c \in Clients |-> Nil]
    /\ asked = {}
    /\ clock = 0 /\ now = 0
    /\ pc = "idle" /\ ret = "idle" /\ cur = Nil /\ nxt = Nil
    /\ ev = "none" /\ msg = Nil /\ d = Nil /\ tmp = Nil
    /\ budget = Budget

-----------------------------------------------------------------------------
OnList == Range(conns)
Active == Range(requests)

GoTo(label) == pc' = label /\ UNCHANGED ret
Call(label) == pc' = "handler" /\ ret' = label

-----------------------------------------------------------------------------
(* User code.                                                              *)

InUserCode == pc \in {"idle", "handler"}

FreeTxnId(id) == id \notin {txnid[c] : c \in Active} \/ TxnIds = {txnid[c] : c \in Active}

\* sendnsreq(): the query is put on the list and sent; a failed send fails
\* the resolver.
SendQuery(c) ==
    /\ requests' = <<c>> \o requests
    /\ \E id \in TxnIds :
          /\ FreeTxnId(id)
          /\ txnid' = [txnid EXCEPT ![c] = id]
          /\ asked' = asked \cup {<<id, Host[c]>>}
    /\ expire' = [expire EXCEPT ![c] = clock + dnstimeout]
    /\ is_resolving' = is_resolving \cup {c}

\* connect() to a name.  dnsc_init() opens the resolver when there is none.
\* The guard on the clock leaves it time to run past the deadline.
Connect(c) ==
    /\ InUserCode /\ c \notin opened /\ clock + dnstimeout < MaxClock
    /\ opened' = opened \cup {c}
    /\ \/ /\ IF dns4_c = Nil
             THEN conns' = <<Resolver, c>> \o conns /\ dns4_c' = Resolver
             ELSE conns' = <<c>> \o conns /\ UNCHANGED dns4_c
          /\ SendQuery(c)
          /\ \/ UNCHANGED <<is_closing, budget>>
             \/ /\ budget > 0 /\ budget' = budget - 1
                /\ is_closing' = is_closing \cup ({dns4_c'} \cap Range(conns'))
       \/ /\ dns4_c = Nil                   \* the resolver cannot be opened
          /\ conns' = <<c>> \o conns
          /\ is_closing' = is_closing \cup {c}
          /\ UNCHANGED <<dns4_c, requests, queries, is_resolving, budget>>
    /\ UNCHANGED <<rem, clock, now, pc, ret, walk, cb>>

SetClosing(c) ==
    /\ InUserCode /\ c \in OnList \ is_closing
    /\ budget > 0 /\ budget' = budget - 1
    /\ is_closing' = is_closing \cup {c}
    /\ UNCHANGED <<lists, opened, is_resolving, dns4_c, queries, rem, clock, now,
                   pc, ret, walk, cb>>

HandlerReturns ==
    /\ pc = "handler"
    /\ pc' = ret /\ ret' = "idle"
    /\ UNCHANGED <<lists, opened, flags, dns4_c, queries, rem, clock, now, walk,
                   cb, budget>>

-----------------------------------------------------------------------------
(* The walk of mgr_poll().                                                 *)

StartPass ==
    /\ pc = "idle"
    /\ now' = clock
    /\ cur' = HeadOf(conns, Nil)
    /\ GoTo("visit")
    /\ UNCHANGED <<lists, opened, flags, dns4_c, queries, rem, clock, nxt, cb,
                   budget>>

\* MG_EV_POLL goes to dns_cb() on the resolver, to user code on a client.
Visit ==
    /\ pc = "visit" /\ cur # Nil
    /\ nxt' = NextOf(conns, cur, Nil)
    /\ IF cur = Resolver
       THEN /\ ev' = "POLL" /\ d' = HeadOf(requests, Nil)
            /\ GoTo("dns_cb")
            /\ UNCHANGED <<msg, tmp>>
       ELSE Call("io") /\ UNCHANGED cb
    /\ UNCHANGED <<lists, opened, flags, dns4_c, queries, rem, clock, now, cur,
                   budget>>

\* An answer to some query that was asked, with an address or without.
Receive ==
    /\ pc = "io" /\ cur = Resolver /\ Resolver \notin is_closing
    /\ \E q \in asked, resolved \in BOOLEAN :
          msg' = [txnid |-> q[1], name |-> q[2], resolved |-> resolved]
    /\ ev' = "READ" /\ d' = HeadOf(requests, Nil)
    /\ GoTo("dns_cb")
    /\ UNCHANGED <<lists, opened, flags, dns4_c, queries, rem, clock, now, walk,
                   tmp, budget>>

ReceiveFails ==
    /\ pc = "io" /\ cur = Resolver /\ Resolver \notin is_closing
    /\ budget > 0 /\ budget' = budget - 1
    /\ is_closing' = is_closing \cup {Resolver}
    /\ GoTo("limits")
    /\ UNCHANGED <<lists, opened, is_resolving, dns4_c, queries, rem, clock, now,
                   walk, cb>>

\* Nothing to do: the connection is resolving or closing, or not ready.  What
\* a resolved client does is the event loop's concern.
NoIO ==
    /\ pc = "io"
    /\ GoTo("limits")
    /\ UNCHANGED <<lists, opened, flags, dns4_c, queries, rem, clock, now, walk,
                   cb, budget>>

\* resolve_cancel()
Cancel(c) == requests' = RemoveFirst(requests, c)

\* Mutant: dns4.c goes on pointing to the closed connection.
ForgetNever(c) == UNCHANGED dns4_c

Forget(c) == dns4_c' = IF c = dns4_c THEN Nil ELSE dns4_c

\* close_conn(): MG_EV_CLOSE goes to dns_cb() or to user code.
Close ==
    /\ pc = "limits"
    /\ IF cur \in is_closing
       THEN /\ Cancel(cur)
            /\ conns' = RemoveFirst(conns, cur)
            /\ is_closing' = is_closing \ {cur}
            /\ is_resolving' = is_resolving \ {cur}
            /\ Forget(cur)
            /\ IF cur = Resolver
               THEN /\ ev' = "CLOSE" /\ d' = HeadOf(requests, Nil)
                    /\ GoTo("dns_cb")
                    /\ UNCHANGED <<msg, tmp>>
               ELSE Call("next") /\ UNCHANGED cb
       ELSE GoTo("next") /\ UNCHANGED <<lists, flags, dns4_c, cb>>
    /\ UNCHANGED <<opened, queries, rem, clock, now, walk, budget>>

Step ==
    /\ pc = "next"
    /\ cur' = nxt /\ nxt' = Nil
    /\ GoTo("visit")
    /\ UNCHANGED <<lists, opened, flags, dns4_c, queries, rem, clock, now, cb,
                   budget>>

EndPass ==
    /\ pc = "visit" /\ cur = Nil
    /\ now' = 0                             \* read again before it is used
    /\ GoTo("idle")
    /\ UNCHANGED <<lists, opened, flags, dns4_c, queries, rem, clock, walk, cb,
                   budget>>

-----------------------------------------------------------------------------
(* dns_cb(): one turn of its loop over the queries.  The successor is saved *)
(* before any handler runs.                                                *)

InLoop(event) == pc = "dns_cb" /\ ev = event /\ d # Nil

Skip ==
    /\ d' = NextOf(requests, d, Nil)
    /\ UNCHANGED <<flags, rem, pc, ret, tmp>>

\* error(): user code hears of it.
Fail(label) == is_closing' = is_closing \cup {d} /\ Call(label)

\* Mutant: queries never expire.
ExpiredNever(c) == FALSE

Expired(c) == now > expire[c]

\* MG_EV_POLL: the query is kept until its connection is closed.
PollQuery ==
    /\ InLoop("POLL")
    /\ IF Expired(d)
       THEN /\ Fail("dns_cb")
            /\ d' = NextOf(requests, d, Nil)
            /\ UNCHANGED <<is_resolving, rem, tmp>>
       ELSE Skip
    /\ UNCHANGED <<lists, opened, dns4_c, queries, clock, now, walk, ev, msg,
                   budget>>

\* Mutant: answers are matched by their id alone.
MatchesId(c) == msg.txnid = txnid[c]

Matches(c) == msg.txnid = txnid[c] /\ msg.name = Host[c]

\* connect_resolved(): the socket and its connect() can fail.
Resolved ==
    /\ rem' = [rem EXCEPT ![d] = msg.name]
    /\ is_resolving' = is_resolving \ {d}
    /\ is_closing' \in {is_closing, is_closing \cup {d}}
    /\ Call("free")

Unresolved == Fail("free") /\ UNCHANGED <<is_resolving, rem>>

ReadQuery ==
    /\ InLoop("READ")
    /\ IF Matches(d)
       THEN /\ tmp' = NextOf(requests, d, Nil) /\ UNCHANGED d
            /\ IF d \notin is_resolving
               THEN GoTo("free") /\ UNCHANGED <<flags, rem>>
               ELSE IF msg.resolved THEN Resolved ELSE Unresolved
       ELSE Skip
    /\ UNCHANGED <<lists, opened, dns4_c, queries, clock, now, walk, ev, msg,
                   budget>>

CloseQuery ==
    /\ InLoop("CLOSE")
    /\ tmp' = NextOf(requests, d, Nil) /\ UNCHANGED d
    /\ Fail("free")
    /\ UNCHANGED <<lists, opened, is_resolving, dns4_c, queries, rem, clock, now,
                   walk, ev, msg, budget>>

Successor == tmp

\* dns_free()
FreeQuery ==
    /\ pc = "free"
    /\ requests' = RemoveFirst(requests, d)
    /\ d' = Successor /\ tmp' = Nil
    /\ GoTo("dns_cb")
    /\ UNCHANGED <<conns, opened, flags, dns4_c, queries, rem, clock, now, walk,
                   ev, msg, budget>>

CallbackDone ==
    /\ pc = "dns_cb" /\ d = Nil
    /\ GoTo(CASE ev = "POLL" -> "io" [] ev = "READ" -> "limits" [] ev = "CLOSE" -> "next")
    /\ ev' = "none" /\ msg' = Nil
    /\ UNCHANGED <<lists, opened, flags, dns4_c, queries, rem, clock, now, walk,
                   d, tmp, budget>>

DnsCb == PollQuery \/ ReadQuery \/ CloseQuery \/ FreeQuery \/ CallbackDone

-----------------------------------------------------------------------------
Tick ==
    /\ InUserCode /\ clock < MaxClock
    /\ clock' = clock + 1
    /\ UNCHANGED <<lists, opened, flags, dns4_c, queries, rem, now, pc, ret, walk,
                   cb, budget>>

Pass == \/ StartPass \/ Visit \/ NoIO \/ Close \/ Step \/ EndPass
        \/ DnsCb \/ HandlerReturns

Next ==
    \/ Pass \/ Receive \/ ReceiveFails \/ Tick
    \/ \E c \in Clients : Connect(c) \/ SetClosing(c)

Spec == Init /\ [][Next]_vars

\* The program keeps polling, its handlers return, and time passes.  That an
\* answer ever comes is not assumed.
FairSpec == Spec /\ WF_vars(Pass) /\ SF_vars(Tick)

-----------------------------------------------------------------------------
Labels == {"idle", "visit", "dns_cb", "free", "io", "limits", "next", "handler"}

\* The types, and that neither list has an element twice.
TypeOK ==
    /\ conns \in Seq(Conns) /\ IsInjective(conns)
    /\ requests \in Seq(Clients) /\ IsInjective(requests)
    /\ opened \subseteq Clients /\ OnList \subseteq opened \cup {Resolver}
    /\ is_resolving \subseteq OnList \cap Clients /\ is_closing \subseteq OnList
    /\ dns4_c \in {Nil, Resolver}
    /\ txnid \in [Clients -> TxnIds \cup {Nil}] /\ expire \in [Clients -> Nat]
    /\ {clock, now} \subseteq 0..MaxClock /\ {pc, ret} \subseteq Labels
    /\ {cur, nxt} \subseteq Conns \cup {Nil} /\ {d, tmp} \subseteq Clients \cup {Nil}
    /\ ev \in {"none", "POLL", "READ", "CLOSE"}

At(label) == pc = label \/ (pc = "handler" /\ ret = label)

\* dns_cb() never follows a pointer to a query that was freed, whatever the
\* user code did that it called while it walked the list: the query it is at
\* and the successor it saved are on the list.
DnsCursorValid ==
    /\ d # Nil => d \in Active
    /\ At("free") => d # Nil /\ tmp \in Active \cup {Nil}

\* Every query is of a connection that exists (close_conn cancels those of the
\* connection it frees), so that an answer, a timeout or the loss of the
\* resolver is never reported to a connection that is gone.
RequestsOwned == Active \subseteq OnList

\* As long as there are queries, there is a resolver that times them out; while
\* dns_cb() handles the end of one, those left are the ones it will fail, or
\* they were sent to the next one.
ResolverWatches ==
    requests # <<>> /\ ~(ev = "CLOSE") => dns4_c = Resolver /\ Resolver \in OnList

\* A connection that waits for its address has a query on the list, or is about
\* to be closed: no answer and no loss of the resolver leaves it waiting.
ResolvingIsActive == is_resolving \ is_closing \subseteq Active

\* dns_cb() and the rest of the loop keep the queries in order, whatever user code
\* does while they are walked: the types, and the four properties above.
QueriesSound ==
    TypeOK /\ DnsCursorValid /\ RequestsOwned /\ ResolverWatches /\ ResolvingIsActive

\* A connection gets an address only from an answer to its own question,
\* although ids are used again and old answers arrive late (dns_question_is).
AnswerMatches == \A c \in Clients : rem[c] \in {Nil, Host[c]}

\* Every lookup ends: with an address, or with the end of the connection.
LookupEnds == \A c \in Clients : (c \in is_resolving) ~> (c \notin is_resolving)
=============================================================================
