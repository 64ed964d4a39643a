------------------------------ MODULE EventLoop ------------------------------
(***************************************************************************)
(* One manager (sock.cpp, net.cpp, event.cpp): a pass of mgr_poll() asks    *)
(* the kernel which sockets are ready, then walks the list of connections  *)
(* and for each one raises MG_EV_POLL, accepts, connects, reads, writes,   *)
(* applies the limits and perhaps closes it.  Between any two of these it  *)
(* calls user code, and user code may send, close, drain and connect, on   *)
(* this connection or on any other.                                        *)
(*                                                                         *)
(* The loop is one thread; the clock, the peers and wakeup() from other    *)
(* threads run beside it.  Connections are plain TCP (the TLS branches     *)
(* need a backend), and have an address that needs no DNS.                 *)
(***************************************************************************)
EXTENDS Integers, Sequences, FiniteSets, SequencesExt, Lists

CONSTANTS
    Peers,            \* connections that remote clients open
    Clients,          \* connections that handlers open with connect()
    Listener, Pipe,   \* the listener and the read end of the wakeup pipe
    Nil,              \* end of the list
    max_connections, idle_timeout_ms, request_timeout_ms,
    connect_timeout_ms, max_send_buffer,    \* the limits (0: disabled)
    RecvSize,         \* MG_MAX_RECV_SIZE, in pieces
    Word,             \* 2^64: arithmetic on times is modulo Word
    Budget,           \* things user code and other threads do (bound)
    MaxClock          \* the clock stops here (bound)

Conns == Peers \cup Clients \cup {Listener, Pipe}
Users == Peers \cup Clients

ASSUME EventLoopAssumption ==
    /\ Peers \cap Clients = {}
    /\ Listener # Pipe
    /\ {Listener, Pipe} \cap Users = {}
    /\ Nil \notin Conns
    /\ {max_connections, idle_timeout_ms, request_timeout_ms,
        connect_timeout_ms, max_send_buffer, Budget} \subseteq Nat
    /\ {RecvSize, MaxClock} \subseteq Nat \ {0}
    /\ Word \in Nat /\ Word > MaxClock + request_timeout_ms + connect_timeout_ms

VARIABLES
    conns,              \* the list: new connections are added at its head
    opened,             \* connections that exist or existed
    is_closing, is_draining, is_resp, is_connecting,
    is_websocket,       \* the flags
    readable, writable, \* readiness harvested at the start of the pass
    recv,               \* buffered input: the pass each piece arrived in
    send,               \* length of the buffered output
    last_active, recv_deadline, connect_deadline,
    num_accepted, stat_accepted, stat_closed,
    pipe,               \* datagrams in the wakeup pipe: ids of connections
    pipe_open,          \* its write end is usable
    clock, now,         \* millis(), and its value cached for the pass
    pc, cur, nxt,       \* the walk: current connection, saved successor
    was_resp,           \* is_resp of the current one before MG_EV_POLL
    errs,               \* EPOLLERR reports still to be handled
    who, ret,           \* whose handler runs, and where it returns to
    freeing,            \* mgr_free() is running
    drain_started,      \* history: start_drain() was called
    at_start, visited,  \* history: the list at the head of the pass, and
                        \* the connections visited in it
    budget

flags == <<is_closing, is_draining, is_resp, is_connecting, is_websocket>>
buffers == <<recv, send>>
times == <<last_active, recv_deadline, connect_deadline>>
stats == <<num_accepted, stat_accepted, stat_closed>>
pipeVars == <<pipe, pipe_open>>
walk == <<cur, nxt, was_resp, errs, at_start, visited>>
control == <<pc, who, ret>>
ready == <<readable, writable>>
vars == <<conns, opened, flags, buffers, times, stats, pipeVars, clock, now,
          walk, control, ready, freeing, drain_started, budget>>

Init ==
    /\ conns = <<Listener, Pipe>>
    /\ opened = {Listener, Pipe}
    /\ is_closing = {} /\ is_draining = {} /\ is_resp = {}
    /\ is_connecting = {} /\ is_websocket = {}
    /\ readable = {} /\ writable = {}
    /\ recv = [c \in Users |-> <<>>]
    /\ send = [c \in Users |-> 0]
    /\ last_active = [c \in Users |-> 0]
    /\ recv_deadline = [c \in Users |-> 0]
    /\ connect_deadline = [c \in Users |-> 0]
    /\ num_accepted = 0 /\ stat_accepted = 0 /\ stat_closed = 0
    /\ pipe = <<>> /\ pipe_open = TRUE
    /\ clock = 1 /\ now = 0
    /\ pc = "idle" /\ cur = Nil /\ nxt = Nil
    /\ was_resp = FALSE /\ errs = {}
    /\ who = Nil /\ ret = "idle"
    /\ freeing = FALSE /\ drain_started = FALSE
    /\ at_start = {} /\ visited = {}
    /\ budget = Budget

-----------------------------------------------------------------------------
OnList == Range(conns)
Accepted == OnList \cap Peers

\* Mutant: new connections go to the tail of the list.
AddTail(c) == conns' = Append(conns, c)

AddHead(c) == conns' = <<c>> \o conns

Delete(c) == conns' = RemoveFirst(conns, c)

\* Call the handlers of c, then go on at r.
Call(c, r) == pc' = "handler" /\ who' = c /\ ret' = r
GoTo(label) == pc' = label /\ UNCHANGED <<who, ret>>

Closing(S) == is_closing' = is_closing \cup S

\* error(): the flag is set before the handlers hear of it.
Error(c, r) ==
    /\ Closing({c})
    /\ Call(c, r)

-----------------------------------------------------------------------------
(* User code.  A handler may do several things before it returns; a        *)
(* handler called from inside one of them is more of the same.             *)

Spend == budget > 0 /\ budget' = budget - 1

HandlerSends ==
    \E d \in OnList \cap Users :
        /\ send' = [send EXCEPT ![d] = @ + 1]
        /\ UNCHANGED <<conns, opened, flags, times, recv, stats, drain_started>>

\* Mutant: closing from a handler takes the connection off the list at once.
SetClosingNow(d) == Closing({d}) /\ Delete(d)

SetClosing(d) == Closing({d}) /\ UNCHANGED conns

HandlerCloses ==
    \E d \in OnList \cap Users :
        /\ SetClosing(d)
        /\ UNCHANGED <<opened, is_draining, is_resp, is_connecting, is_websocket, times,
                       buffers, stats, drain_started>>

HandlerDrains ==
    \E d \in OnList \cap Users :
        /\ is_draining' = is_draining \cup {d}
        /\ UNCHANGED <<conns, opened, is_closing, is_resp, is_connecting, is_websocket, times,
                       buffers, stats, drain_started>>

\* A complete request at the head of the buffer is consumed (http_cb); the
\* answer is owed until HandlerReplies.  For a frame (ws_cb), none is.
HandlerTakesRequest ==
    /\ who \in Accepted \ is_resp
    /\ \E k \in 1..Len(recv[who]) :
          recv' = [recv EXCEPT ![who] = SubSeq(@, k + 1, Len(@))]
    /\ \/ is_resp' = is_resp \cup {who}
       \/ who \in is_websocket /\ UNCHANGED is_resp
    /\ UNCHANGED <<conns, opened, is_closing, is_draining, is_connecting, is_websocket, times,
                   send, stats, drain_started>>

HandlerReplies ==
    \E d \in OnList \cap is_resp :
        /\ is_resp' = is_resp \ {d}
        /\ send' = [send EXCEPT ![d] = @ + 1]
        /\ UNCHANGED <<conns, opened, is_closing, is_draining, is_connecting, is_websocket,
                       times, recv, stats, drain_started>>

\* ws_upgrade(): 101 is the answer.  (426 is HandlerReplies, then HandlerDrains.)
HandlerUpgrades ==
    /\ who \in Accepted \cap is_resp
    /\ is_websocket' = is_websocket \cup {who}
    /\ is_resp' = is_resp \ {who}
    /\ send' = [send EXCEPT ![who] = @ + 1]
    /\ UNCHANGED <<conns, opened, is_closing, is_draining, is_connecting, times,
                   recv, stats, drain_started>>

\* connect(): the TCP handshake is pending, is done, or failed at once.
HandlerConnects ==
    \E d \in Clients \ opened :
        /\ AddHead(d)
        /\ opened' = opened \cup {d}
        /\ last_active' = [last_active EXCEPT ![d] = clock]
        /\ \/ /\ is_connecting' = is_connecting \cup {d}
              /\ UNCHANGED is_closing
           \/ UNCHANGED <<is_connecting, is_closing>>
           \/ /\ Closing({d})
              /\ UNCHANGED is_connecting
        /\ UNCHANGED <<is_draining, is_resp, is_websocket, recv_deadline, connect_deadline,
                       buffers, stats,
                       drain_started>>

\* Mutant: the listener keeps accepting.
DrainListenersLeft == UNCHANGED is_closing

DrainListeners == Closing(OnList \cap {Listener})

StartDrain ==
    /\ DrainListeners
    /\ is_draining' = is_draining \cup (Accepted \ is_closing)
    /\ drain_started' = TRUE
    /\ UNCHANGED <<conns, opened, is_resp, is_connecting, is_websocket, times, buffers, stats>>

UserCode ==
    /\ pc = "handler" \/ (pc = "idle" /\ ~freeing)
    /\ Spend
    /\ \/ HandlerSends \/ HandlerCloses \/ HandlerDrains
       \/ HandlerTakesRequest \/ HandlerReplies \/ HandlerUpgrades \/ HandlerConnects
       \/ StartDrain
    /\ UNCHANGED <<pipeVars, clock, now, walk, control, ready, freeing>>

HandlerReturns ==
    /\ pc = "handler"
    /\ pc' = ret /\ who' = Nil /\ ret' = "idle"
    /\ UNCHANGED <<conns, opened, flags, buffers, times, stats, pipeVars, clock,
                   now, walk, ready, freeing, drain_started, budget>>

-----------------------------------------------------------------------------
(* The head of mgr_poll(): iotest(), then the timers.                      *)

CanWrite(c) == c \in is_connecting \/ (c \in Users /\ send[c] > 0)

IOTest ==
    /\ pc = "idle"
    /\ \E err \in SUBSET (OnList \cap Users) :
       \E rd \in SUBSET (OnList \ (err \cup {Pipe})), wr \in SUBSET (OnList \ err) :
          /\ wr \subseteq {c \in OnList : CanWrite(c)}
          /\ errs' = err
          /\ readable' = rd \cup IF pipe = <<>> THEN {} ELSE {Pipe}
          /\ writable' = wr
    /\ GoTo("errors")
    /\ UNCHANGED <<conns, opened, flags, buffers, times, stats, pipeVars, clock,
                   now, cur, nxt, was_resp, at_start, visited, freeing,
                   drain_started, budget>>

SocketError ==
    /\ pc = "errors"
    /\ \E c \in errs : Error(c, "errors") /\ errs' = errs \ {c}
    /\ UNCHANGED <<conns, opened, is_draining, is_resp, is_connecting, is_websocket, buffers,
                   times, stats, pipeVars,
                   clock, now, cur, nxt, was_resp, at_start, visited, ready,
                   freeing, drain_started, budget>>

\* The time is read once; the callbacks of the timers (mgr_free() has
\* deleted them) run before the walk.
RunTimers ==
    /\ pc = "errors" /\ errs = {}
    /\ now' = clock
    /\ IF freeing THEN GoTo("first") ELSE Call(Nil, "first")
    /\ UNCHANGED <<conns, opened, flags, buffers, times, stats, pipeVars, clock,
                   walk, ready, freeing, drain_started, budget>>

StartWalk ==
    /\ pc = "first"
    /\ cur' = HeadOf(conns, Nil)
    /\ at_start' = OnList /\ visited' = {}
    /\ GoTo("visit")
    /\ UNCHANGED <<conns, opened, flags, buffers, times, stats, pipeVars, clock,
                   now, nxt, was_resp, errs, ready, freeing, drain_started, budget>>

-----------------------------------------------------------------------------
(* The visit of one connection.                                            *)

Visit ==
    /\ pc = "visit" /\ cur # Nil
    /\ nxt' = NextOf(conns, cur, Nil)
    /\ was_resp' = (cur \in is_resp)
    /\ visited' = visited \cup {cur}
    /\ Call(cur, "polled")                  \* MG_EV_POLL
    /\ UNCHANGED <<conns, opened, flags, buffers, times, stats, pipeVars, clock,
                   now, cur, errs, at_start, ready, freeing, drain_started, budget>>

\* The reply was completed by the poll: the next request may be waiting.
Polled ==
    /\ pc = "polled"
    /\ IF was_resp /\ cur \notin is_resp
       THEN Call(cur, "io")                 \* MG_EV_READ
       ELSE GoTo("io")
    /\ UNCHANGED <<conns, opened, flags, buffers, times, stats, pipeVars, clock,
                   now, walk, ready, freeing, drain_started, budget>>

NoIO ==
    /\ pc = "io"
    /\ \/ cur \in is_closing
       \/ cur = Listener /\ cur \notin readable
       \/ cur \in is_connecting /\ cur \notin readable \cup writable
    /\ GoTo("limits")
    /\ UNCHANGED <<conns, opened, flags, buffers, times, stats, pipeVars, clock,
                   now, walk, ready, freeing, drain_started, budget>>

\* Mutant: the cap admits one too many.
AtCapOffByOne == max_connections > 0 /\ num_accepted > max_connections

AtCap == max_connections > 0 /\ num_accepted >= max_connections

\* accept_conn(): accept() fails, or a new connection is over the cap, finds
\* no memory, or is put on the list before its handlers run.
Accept ==
    /\ pc = "io" /\ cur = Listener /\ cur \notin is_closing /\ cur \in readable
    /\ \/ /\ GoTo("limits")                 \* accept() failed
          /\ UNCHANGED <<conns, opened, last_active, num_accepted, stat_accepted>>
       \/ \E c \in Peers \ opened :         \* over the cap, or out of memory
             /\ opened' = opened \cup {c}
             /\ GoTo("limits")
             /\ UNCHANGED <<conns, last_active, num_accepted, stat_accepted>>
       \/ \E c \in Peers \ opened :
             /\ ~AtCap
             /\ opened' = opened \cup {c}
             /\ AddHead(c)
             /\ last_active' = [last_active EXCEPT ![c] = clock]
             /\ num_accepted' = num_accepted + 1
             /\ stat_accepted' = stat_accepted + 1
             /\ Call(c, "limits")           \* MG_EV_OPEN, MG_EV_ACCEPT
    /\ UNCHANGED <<flags, buffers, recv_deadline, connect_deadline, stat_closed,
                   pipeVars, clock, now, walk, ready, freeing,
                   drain_started, budget>>

\* connect_conn()
Connected ==
    /\ pc = "io" /\ cur \in is_connecting \ is_closing
    /\ cur \in readable \cup writable
    /\ \/ /\ is_connecting' = is_connecting \ {cur}
          /\ Call(cur, "limits")            \* MG_EV_CONNECT
          /\ UNCHANGED is_closing
       \/ Error(cur, "limits") /\ UNCHANGED is_connecting
    /\ UNCHANGED <<conns, opened, is_draining, is_resp, is_websocket, buffers, times,
                   stats, pipeVars, clock,
                   now, walk, ready, freeing, drain_started, budget>>

Stream == cur \in Users \ (is_connecting \cup is_closing)

\* read_conn() and iolog(): the buffer is full, data arrives, there is none
\* after all, or the peer is gone.
Read ==
    /\ pc = "io" /\ Stream
    /\ IF cur \notin readable
       THEN GoTo("write") /\ UNCHANGED <<is_closing, recv, last_active>>
       ELSE IF Len(recv[cur]) >= RecvSize
       THEN Error(cur, "write") /\ UNCHANGED <<recv, last_active>>
       ELSE \/ /\ recv' = [recv EXCEPT ![cur] = Append(@, now)]
               /\ last_active' = [last_active EXCEPT ![cur] = clock]
               /\ Call(cur, "write")     \* MG_EV_READ
               /\ UNCHANGED is_closing
            \/ GoTo("write") /\ UNCHANGED <<is_closing, recv, last_active>>
            \/ /\ Closing({cur})
               /\ GoTo("write")
               /\ UNCHANGED <<recv, last_active>>
    /\ UNCHANGED <<conns, opened, is_draining, is_resp, is_connecting, is_websocket, send,
                   recv_deadline, connect_deadline, stats, pipeVars, clock, now, walk, ready, freeing,
                   drain_started, budget>>

\* Mutant: a datagram whose connection is gone stays in the pipe.
ConsumedIfFound(p) == IF Head(p) \in OnList THEN Tail(p) ELSE p

Consumed(p) == Tail(p)

\* The wakeup pipe: wufn() raises MG_EV_WAKEUP on the connection with the id
\* of the datagram, if there is one.
ReadPipe ==
    /\ pc = "io" /\ cur = Pipe /\ Pipe \notin is_closing
    /\ IF Pipe \notin readable
       THEN GoTo("limits") /\ UNCHANGED pipe
       ELSE /\ pipe' = Consumed(pipe)
            /\ IF Head(pipe) \in OnList THEN Call(Head(pipe), "limits")
                                        ELSE GoTo("limits")
    /\ UNCHANGED <<conns, opened, flags, buffers, times, stats, pipe_open, clock,
                   now, walk, ready, freeing, drain_started, budget>>

\* write_conn() and iolog(): some or all of the output goes out, none does,
\* or the peer is gone.  A send of nothing counts as an error.
Write ==
    /\ pc = "write"
    /\ IF cur \notin writable
       THEN GoTo("limits") /\ UNCHANGED <<is_closing, send, last_active>>
       ELSE \/ \E n \in 1..send[cur] :
                  /\ send' = [send EXCEPT ![cur] = @ - n]
                  /\ last_active' = [last_active EXCEPT ![cur] = clock]
                  /\ Call(cur, "limits")    \* MG_EV_WRITE
                  /\ UNCHANGED is_closing
            \/ GoTo("limits") /\ UNCHANGED <<is_closing, send, last_active>>
            \/ /\ Closing({cur})
               /\ GoTo("limits")
               /\ UNCHANGED <<send, last_active>>
    /\ UNCHANGED <<conns, opened, is_draining, is_resp, is_connecting, is_websocket, recv,
                   recv_deadline, connect_deadline, stats, pipeVars, clock, now,
                   walk, ready, freeing, drain_started, budget>>

-----------------------------------------------------------------------------
(* The limits, at the end of each visit.                                   *)

\* Mutant: a connection that owes an answer is kept.
FlushedAnswered(c) == c \in is_draining \cap (Users \ is_resp) /\ send[c] = 0

Flushed(c) == c \in is_draining \cap Users /\ send[c] = 0

Idle(c) ==
    /\ idle_timeout_ms > 0 /\ c \in Peers
    /\ (now - last_active[c]) % Word > idle_timeout_ms

\* A WebSocket is left to the idle timeout: it may be silent for long.
RequestTimed(c) == request_timeout_ms > 0 /\ c \in Peers \ is_websocket

RequestLate(c) ==
    /\ RequestTimed(c) /\ recv[c] # <<>>
    /\ recv_deadline[c] # 0 /\ now > recv_deadline[c]

\* Mutant: every pass starts the deadline afresh.
RequestDeadlineSliding(c) ==
    IF recv[c] = <<>> THEN 0 ELSE now + request_timeout_ms

RequestDeadline(c) ==
    IF recv[c] = <<>> THEN 0
    ELSE IF recv_deadline[c] = 0 THEN now + request_timeout_ms
    ELSE recv_deadline[c]

ConnectTimed(c) == connect_timeout_ms > 0 /\ c \in Clients

ConnectLate(c) ==
    /\ ConnectTimed(c) /\ c \in is_connecting
    /\ connect_deadline[c] # 0 /\ now > connect_deadline[c]

\* Mutant: every pass starts the deadline afresh.
ConnectDeadlineSliding(c) ==
    IF c \notin is_connecting THEN 0 ELSE now + connect_timeout_ms

ConnectDeadline(c) ==
    IF c \notin is_connecting THEN 0
    ELSE IF connect_deadline[c] = 0 THEN now + connect_timeout_ms
    ELSE connect_deadline[c]

Backlogged(c) == max_send_buffer > 0 /\ c \in Peers /\ send[c] > max_send_buffer

PastLimit(c) ==
    Flushed(c) \/ Idle(c) \/ RequestLate(c) \/ ConnectLate(c) \/ Backlogged(c)

Limits ==
    /\ pc = "limits"
    /\ LET close == cur \in is_closing \/ PastLimit(cur)
       IN  /\ is_closing' = IF close THEN is_closing \cup {cur} ELSE is_closing
           /\ recv_deadline' = IF RequestTimed(cur)
                               THEN [recv_deadline EXCEPT ![cur] = RequestDeadline(cur)]
                               ELSE recv_deadline
           /\ connect_deadline' = IF ConnectTimed(cur)
                                  THEN [connect_deadline EXCEPT ![cur] = ConnectDeadline(cur)]
                                  ELSE connect_deadline
           /\ GoTo(IF close THEN "close" ELSE "next")
    /\ UNCHANGED <<conns, opened, is_draining, is_resp, is_connecting, is_websocket, buffers,
                   last_active, stats, pipeVars, clock, now, walk, ready, freeing,
                   drain_started, budget>>

\* Mutant: a connection that is closed keeps its place in the count.
UncountNever == UNCHANGED num_accepted

Uncount == num_accepted' = IF num_accepted > 0 THEN num_accepted - 1 ELSE 0

\* sock_close() and close_conn(): off the list and out of the counts before
\* MG_EV_CLOSE.  The pipe's own handler closes the write end.
Close ==
    /\ pc = "close"
    /\ IF cur \in Peers
       THEN Uncount /\ stat_closed' = stat_closed + 1
       ELSE UNCHANGED <<num_accepted, stat_closed>>
    /\ Delete(cur)
    /\ is_closing' = is_closing \ {cur} /\ is_draining' = is_draining \ {cur}
    /\ is_resp' = is_resp \ {cur} /\ is_connecting' = is_connecting \ {cur}
    /\ is_websocket' = is_websocket \ {cur}
    /\ IF cur = Pipe THEN pipe' = <<>> /\ pipe_open' = FALSE ELSE UNCHANGED pipeVars
    /\ IF cur \in Users
       THEN /\ recv' = [recv EXCEPT ![cur] = <<>>]
            /\ send' = [send EXCEPT ![cur] = 0]
            /\ last_active' = [last_active EXCEPT ![cur] = 0]
            /\ recv_deadline' = [recv_deadline EXCEPT ![cur] = 0]
            /\ connect_deadline' = [connect_deadline EXCEPT ![cur] = 0]
       ELSE UNCHANGED <<buffers, times>>
    /\ Call(cur, "next")                    \* MG_EV_CLOSE
    /\ UNCHANGED <<opened, stat_accepted, clock, now, walk,
                   ready, freeing, drain_started, budget>>

Step ==
    /\ pc = "next"
    /\ cur' = nxt /\ nxt' = Nil /\ was_resp' = FALSE
    /\ GoTo("visit")
    /\ UNCHANGED <<conns, opened, flags, buffers, times, stats, pipeVars, clock,
                   now, errs, at_start, visited, ready, freeing,
                   drain_started, budget>>

\* The time and the readiness of the pass are not used again.
EndPass ==
    /\ pc = "visit" /\ cur = Nil
    /\ GoTo(IF freeing THEN "freed" ELSE "idle")
    /\ now' = 0 /\ readable' = {} /\ writable' = {}
    /\ at_start' = {} /\ visited' = {}
    /\ UNCHANGED <<conns, opened, flags, buffers, times, stats, pipeVars, clock,
                   cur, nxt, was_resp, errs, freeing, drain_started, budget>>

-----------------------------------------------------------------------------
\* mgr_free(): every connection is marked, then one last pass.
MgrFree ==
    /\ pc = "idle" /\ ~freeing
    /\ freeing' = TRUE
    /\ Closing(OnList)
    /\ UNCHANGED <<conns, opened, is_draining, is_resp, is_connecting, is_websocket, buffers,
                   times, stats, pipeVars, clock, now, walk, control, ready,
                   drain_started, budget>>

\* wakeup() from another thread: a datagram, whatever the id.  A connection
\* that is gone stands for any id that matches nothing.
Wakeup(c) ==
    /\ pipe_open /\ Spend
    /\ pipe' = Append(pipe, c)
    /\ UNCHANGED <<conns, opened, flags, buffers, times, stats, pipe_open, clock,
                   now, walk, control, ready, freeing, drain_started>>

\* Time passes while the loop waits and while handlers run; there is one of
\* these between any two places that read the clock.
Tick ==
    /\ clock < MaxClock /\ pc \in {"idle", "handler"}
    /\ clock' = clock + 1
    /\ UNCHANGED <<conns, opened, flags, buffers, times, stats, pipeVars, now,
                   walk, control, ready, freeing, drain_started, budget>>

Pass == \/ SocketError \/ RunTimers \/ StartWalk \/ Visit \/ Polled \/ NoIO
        \/ Accept \/ Connected \/ Read \/ ReadPipe \/ Write \/ Limits \/ Close
        \/ Step \/ EndPass \/ HandlerReturns

Freed == pc = "freed" /\ UNCHANGED vars

Next ==
    \/ IOTest \/ Pass \/ UserCode \/ MgrFree \/ Tick \/ Freed
    \/ \E c \in Users : Wakeup(c)

Spec == Init /\ [][Next]_vars

\* The program keeps polling and its handlers return; peers go on reading, so
\* that a socket with output is writable again and again.
FairSpec ==
    /\ Spec
    /\ WF_vars(IOTest \/ Pass)
    /\ SF_vars(IOTest /\ {c \in OnList : CanWrite(c)} \subseteq writable')
    /\ SF_vars(Write /\ recv' = recv /\ send' # send)

-----------------------------------------------------------------------------
Labels == {"idle", "errors", "first", "visit", "polled", "io", "write", "limits",
           "close", "next", "handler", "freed"}

\* The types, and that no connection is on the list twice.
TypeOK ==
    /\ conns \in Seq(Conns) /\ IsInjective(conns)
    /\ OnList \subseteq opened /\ opened \subseteq Conns
    /\ is_closing \subseteq OnList /\ is_draining \subseteq OnList \cap Users
    /\ is_resp \subseteq Accepted /\ is_connecting \subseteq OnList \cap Clients
    /\ is_websocket \subseteq Accepted
    /\ recv \in [Users -> Seq(0..MaxClock)] /\ send \in [Users -> Nat]
    /\ last_active \in [Users -> 0..MaxClock]
    /\ recv_deadline \in [Users -> Nat] /\ connect_deadline \in [Users -> Nat]
    /\ {num_accepted, stat_accepted, stat_closed} \subseteq Nat
    /\ pipe \in Seq(Users) /\ {pipe_open, was_resp, freeing, drain_started} \subseteq BOOLEAN
    /\ {pc, ret} \subseteq Labels /\ {cur, nxt, who} \subseteq Conns \cup {Nil}
    /\ readable \subseteq Conns /\ writable \subseteq Conns /\ errs \subseteq Users

At(labels) == pc \in labels \/ (pc = "handler" /\ ret \in labels)

\* The walk never follows a pointer to a connection that was freed: while a
\* connection is visited, it and the saved successor are on the list, whatever
\* the handlers did since the successor was saved (mgr_poll's tmp).  And what
\* was harvested before any handler ran still holds when write_conn() uses it:
\* there is something to send.  (A send of nothing would be taken for an error
\* and close the connection.)
WalkSound ==
    /\ TypeOK
    /\ At({"polled", "io", "write", "limits", "close"}) => cur \in OnList
    /\ At({"polled", "io", "write", "limits", "close", "next"}) =>
          nxt \in OnList \cup {Nil}
    /\ pc = "write" /\ cur \in writable => send[cur] > 0

\* A pass visits every connection that was on the list when it began, and
\* none that was added by the pass: handlers that close and connect neither
\* make the loop skip a connection nor let it run on without end.
PassVisitsAll ==
    pc = "visit" /\ cur = Nil => visited = at_start

\* The live count, which max_connections is compared with, is the number of
\* accepted connections on the list; the metrics differ by as much.  After
\* mgr_free() it is 0: every connection that was there was closed.
CountsExact ==
    /\ num_accepted = Cardinality(Accepted)
    /\ num_accepted = stat_accepted - stat_closed
    /\ max_connections > 0 => num_accepted <= max_connections
    /\ pc = "freed" => OnList \subseteq Clients

\* Connections that were refused, or closed since.
Over == (Peers \cap opened) \ OnList

\* The manager does what Admission promises: whatever its handlers do meanwhile, a
\* connection of a client is counted from when it is put on the list to when it is
\* taken off, in the same step, is never put on again, and is refused at the cap.
Adm == INSTANCE Admission WITH Conns <- Peers, MaxConns <- max_connections,
                               live <- Accepted, over <- Over, count <- num_accepted
ImplementsAdmission == Adm!Spec

\* start_drain() leaves nothing behind: the listener is closing and every
\* accepted connection is draining or closing, those included whose handlers
\* were running when it was called.
DrainMarksAll ==
    drain_started => /\ Listener \in OnList => Listener \in is_closing
                     /\ Accepted \subseteq is_draining \cup is_closing

\* A connection that survives a pass is within its limits as of the time the
\* pass read: it was active within the window and, unless it has become a
\* WebSocket, which has no request deadline (sock.cpp:1063), the oldest of its
\* unconsumed input came in within the window.
SurvivorsInTime ==
    pc = "visit" /\ cur = Nil =>
        \A c \in at_start \cap Accepted :
            /\ idle_timeout_ms > 0 => now - last_active[c] <= idle_timeout_ms
            /\ request_timeout_ms > 0 /\ recv[c] # <<>> /\ c \notin is_websocket =>
                  now - Head(recv[c]) <= request_timeout_ms

\* An unfinished connect() that survives a pass has a deadline that has not
\* passed, and once it has one no later pass puts it off.
ConnectInTime ==
    [][connect_timeout_ms > 0 =>
          \A c \in is_connecting \cap is_connecting' :
             /\ connect_deadline[c] # 0 => connect_deadline'[c] = connect_deadline[c]
             /\ pc = "visit" /\ cur = Nil /\ c \in at_start =>
                   now \in (connect_deadline[c] - connect_timeout_ms)..connect_deadline[c]]_vars

\* After start_drain() the accepted connections come to an end, if the peers
\* read: "keep driving poll() until num_connections() reaches 0" (net.hpp:423).
DrainEnds == drain_started ~> (Accepted = {} /\ Listener \notin OnList)

\* No datagram stays in the wakeup pipe for ever, one for a connection that is
\* gone included: later wakeups are not held up behind it.
WakeupsServed == \A c \in Users : (c \in Range(pipe)) ~> (c \notin Range(pipe))

\* "An accepted connection that buffers a partial request but does not complete
\* it within this window is closed" (net.hpp:375-376): when the oldest input in
\* the buffer came within the window, the deadline does not close it.
RequestInWindow ==
    pc = "limits" /\ RequestLate(cur) =>
        now - Head(recv[cur]) > request_timeout_ms

\* "Accepted connections share the listener's fn_data pointer" (http.hpp:111),
\* and the handler it points to is deleted when the listener closes.
\* start_drain() promises that an accepted connection "finishes flushing its
\* current response and then closes" (net.hpp:424-425): whenever its handler is
\* called, the handler still exists.
HandlerAlive ==
    pc = "handler" /\ who \in Peers => Listener \in OnList
=============================================================================
