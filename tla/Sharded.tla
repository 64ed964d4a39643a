------------------------------- MODULE Sharded -------------------------------
(***************************************************************************)
(* ShardedManager (projects/nanosrv/sharded.cpp): one acceptor loop, run   *)
(* on the thread that calls run(), accepts connections and hands their     *)
(* descriptors to N worker loops through one mutex-protected queue per     *)
(* worker.  Control threads call stop(), drain(), wakeup() and finally the *)
(* destructor, at any point of the run.                                    *)
(*                                                                         *)
(* A step is what one thread does between two accesses to state that       *)
(* another thread can change: an atomic flag or counter, a queue under its *)
(* lock, a datagram on a wakeup pipe.  The flags are accessed in the       *)
(* program's order (the outcomes of store buffering are not modelled: each *)
(* of them is repaired by the fallback timeout of poll()).                 *)
(***************************************************************************)
EXTENDS Integers, Sequences, FiniteSets

CONSTANTS
    N,           \* number of worker loops
    Conns,       \* connections that clients open
    NoConn,      \* "no connection in hand"
    MaxConns,    \* max_connections_ (0: no cap)
    Ctl,         \* control threads, each makes one call
    Piped,       \* loops whose wakeup pipe could be created
    PipeCap,     \* datagrams a wakeup pipe holds before it drops (bound)
    Stalled,     \* connections whose peer never reads
    MaxRuns      \* how often run() is called (bound)

ASSUME ShardedAssumption ==
    /\ N \in Nat \ {0}
    /\ NoConn \notin Conns
    /\ MaxConns \in Nat
    /\ Piped \subseteq 0..N
    /\ PipeCap \in Nat \ {0}
    /\ Stalled \subseteq Conns
    /\ MaxRuns \in Nat

ASSUME ConnsFinite == IsFiniteSet(Conns)

Workers == 0..(N - 1)
Acceptor == N               \* the acceptor's place among the wakeup pipes
Loops == 0..N

WAKE_ID == 1

VARIABLES
    running, run_active, draining, pipes_ready,   \* the atomic flags
    drain_deadline,  \* "none" (0), "ahead" or "past" of millis()
    live_conns,      \* handed off and not yet closed
    next,            \* round-robin counter
    rpc, runs,       \* the run()/acceptor thread, and how often it ran
    acc_draining,    \* its local copy of draining_
    acc_conn,        \* accepted connection in its hand
    refused,         \* accepted, marked closing, still on the acceptor's list
    backlog,         \* opened by clients, not yet accepted
    closed,          \* descriptors that have been closed
    pending,         \* one queue per worker
    pipe,            \* ids of the datagrams waiting on each wakeup pipe
    wpc,             \* worker threads
    hand,            \* connection popped and not yet adopted
    conns,           \* adopted connections of each worker
    is_draining,     \* connections marked to close once flushed
    stuck,           \* connections with output their peer will never read
    nextid, id,      \* id counter of each worker, id given to a connection
    cpc, destroyed,  \* control threads; the destructor has completed
    aborted          \* history: stop(), the destructor or a deadline cut in

flags == <<running, run_active, draining, pipes_ready, drain_deadline>>
accLocals == <<acc_draining, acc_conn, refused, next>>
accVars == <<rpc, runs, accLocals>>
connVars == <<conns, is_draining, stuck, nextid, id>>
workVars == <<wpc, hand, connVars>>
ctlVars == <<cpc, destroyed, aborted>>
queues == <<live_conns, backlog, closed, pending, pipe>>
vars == <<flags, accVars, workVars, ctlVars, queues>>

Init ==
    /\ running = FALSE
    /\ run_active = FALSE
    /\ draining = FALSE
    /\ pipes_ready = FALSE
    /\ drain_deadline = "none"
    /\ live_conns = 0
    /\ next = 0
    /\ rpc = "idle"
    /\ runs = 0
    /\ acc_draining = FALSE
    /\ acc_conn = NoConn
    /\ refused = {}
    /\ backlog = Conns
    /\ closed = {}
    /\ pending = [w \in Workers |-> <<>>]
    /\ pipe = [e \in Loops |-> <<>>]
    /\ wpc = [w \in Workers |-> "none"]
    /\ hand = [w \in Workers |-> NoConn]
    /\ conns = [w \in Workers |-> {}]
    /\ is_draining = {}
    /\ stuck = {}
    /\ nextid = [w \in Workers |-> w]
    /\ id = [c \in Conns |-> 0]
    /\ cpc = [t \in Ctl |-> "idle"]
    /\ destroyed = FALSE
    /\ aborted = FALSE

-----------------------------------------------------------------------------
(* The wakeup pipes: a send() never blocks, and is lost when the pipe is   *)
(* full or was never created.                                              *)

Sent(p, e, i) ==
    IF e \in Piped /\ Len(p[e]) < PipeCap THEN Append(p[e], i) ELSE p[e]

\* Mutant: the datagram goes to the acceptor's own pipe.
WakeSelf(e) == pipe' = [pipe EXCEPT ![Acceptor] = Sent(pipe, Acceptor, WAKE_ID)]

Wake(e) == pipe' = [pipe EXCEPT ![e] = Sent(pipe, e, WAKE_ID)]

WakeEach(E) ==
    pipe' = [e \in Loops |-> IF e \in E THEN Sent(pipe, e, WAKE_ID) ELSE pipe[e]]

\* The Close branch, a failed adoption and the shutdown give a slot back.
Release == live_conns' = live_conns - 1

\* Mutant: the front of a queue is read and stays there.
PeekFront(w) == UNCHANGED pending

PopFront(w) == pending' = [pending EXCEPT ![w] = Tail(@)]

GoTo(pc) == rpc' = pc
WorkerGoTo(w, pc) == wpc' = [wpc EXCEPT ![w] = pc]
CtlGoTo(t, pc) == cpc' = [cpc EXCEPT ![t] = pc]

-----------------------------------------------------------------------------
(* The thread that calls run(), which is also the acceptor loop.           *)

InDestructor ==
    destroyed \/ \E t \in Ctl : cpc[t] \in {"dgate", "dwake", "dwait"}

RunEnter ==
    /\ rpc = "idle" /\ runs < MaxRuns
    /\ ~ InDestructor
    /\ run_active' = TRUE
    /\ runs' = runs + 1
    /\ GoTo("entered")
    /\ UNCHANGED <<running, draining, pipes_ready, drain_deadline, accLocals,
                   workVars, ctlVars, queues>>

RunSetRunning ==
    /\ rpc = "entered"
    /\ running' = TRUE
    /\ GoTo("arming")
    /\ UNCHANGED <<run_active, draining, pipes_ready, drain_deadline, runs,
                   accLocals, workVars, ctlVars, queues>>

\* wakeup_init() of every loop happened in its constructor; the flag is
\* published and the worker threads start.
RunSpawn ==
    /\ rpc = "arming"
    /\ pipes_ready' = TRUE
    /\ wpc' = [w \in Workers |-> "check"]
    /\ GoTo("top")
    /\ UNCHANGED <<running, run_active, draining, drain_deadline, runs,
                   accLocals, hand, connVars, ctlVars, queues>>

\* Mutant: the loop goes on until every connection has ended.
KeepRunningUntilServed == running \/ live_conns > 0

KeepRunning == running

RunCheck ==
    /\ rpc = "top"
    /\ GoTo(IF KeepRunning THEN "rdrain" ELSE "exit")
    /\ UNCHANGED <<flags, runs, accLocals, workVars, ctlVars, queues>>

RunReadDraining ==
    /\ rpc = "rdrain"
    /\ acc_draining' = draining
    /\ GoTo("poll")
    /\ UNCHANGED <<flags, runs, acc_conn, refused, next, workVars, ctlVars,
                   queues>>

\* The acceptor's poll() returns: a datagram, a client, or the timeout.  Its
\* pass consumes one datagram and closes what earlier passes refused.
AcceptorPollReturn ==
    /\ rpc = "poll"
    /\ pipe' = [pipe EXCEPT ![Acceptor] = IF @ = <<>> THEN @ ELSE Tail(@)]
    /\ closed' = closed \cup refused
    /\ refused' = {}
    /\ GoTo("sweep")
    /\ UNCHANGED <<flags, runs, acc_draining, acc_conn, next, workVars,
                   ctlVars, live_conns, backlog, pending>>

\* Mutant: the flag the loop read before it polled.
RefusingStale == acc_draining

Refusing == draining

Refuse(c) == refused' = refused \cup {c}

\* One listener of the pass accepts a client: the Accept handler refuses it
\* when draining_ is set.  Any number of listeners may be readable.
Accept(c) ==
    /\ rpc = "sweep"
    /\ c \in backlog
    /\ backlog' = backlog \ {c}
    /\ IF Refusing
       THEN /\ Refuse(c)
            /\ UNCHANGED <<acc_conn, rpc>>
       ELSE /\ acc_conn' = c
            /\ GoTo("cap")
            /\ UNCHANGED refused
    /\ UNCHANGED <<flags, runs, acc_draining, next, workVars, ctlVars,
                   live_conns, closed, pending, pipe>>

\* Mutant: the cap compared with the wrong operator.
AtCapOffByOne == MaxConns > 0 /\ live_conns > MaxConns

AtCap == MaxConns > 0 /\ live_conns >= MaxConns

CapCheck ==
    /\ rpc = "cap"
    /\ IF AtCap
       THEN /\ Refuse(acc_conn)
            /\ acc_conn' = NoConn
            /\ GoTo("sweep")
       ELSE /\ GoTo("reserve")
            /\ UNCHANGED <<refused, acc_conn>>
    /\ UNCHANGED <<flags, runs, acc_draining, next, workVars, ctlVars,
                   queues>>

\* detach_fd(), then live->fetch_add(1) and idx = next->fetch_add(1) % num_workers
Chosen == (next - 1) % N

Reserve ==
    /\ rpc = "reserve"
    /\ live_conns' = live_conns + 1
    /\ next' = next + 1
    /\ GoTo("push")
    /\ UNCHANGED <<flags, runs, acc_draining, acc_conn, refused, workVars,
                   ctlVars, backlog, closed, pending, pipe>>

Push ==
    /\ rpc = "push"
    /\ pending' = [pending EXCEPT ![Chosen] = Append(@, acc_conn)]
    /\ acc_conn' = NoConn
    /\ GoTo("wake")
    /\ UNCHANGED <<flags, runs, acc_draining, refused, next, workVars,
                   ctlVars, live_conns, backlog, closed, pipe>>

HandOffWake ==
    /\ rpc = "wake"
    /\ Wake(Chosen)
    /\ GoTo("sweep")
    /\ UNCHANGED <<flags, runs, accLocals, workVars, ctlVars, live_conns,
                   backlog, closed, pending>>

AcceptorPassEnd ==
    /\ rpc = "sweep"
    /\ GoTo(IF acc_draining THEN "deadline" ELSE "top")
    /\ acc_draining' = FALSE   \* the local goes out of scope
    /\ UNCHANGED <<flags, runs, acc_conn, refused, next, workVars, ctlVars,
                   queues>>

\* timed_out is decided from the deadline before live_conns_ is read
AcceptorDeadline ==
    /\ rpc = "deadline"
    /\ GoTo(IF drain_deadline = "past" THEN "clear" ELSE "drained")
    /\ UNCHANGED <<flags, runs, accLocals, workVars, ctlVars, queues>>

\* Mutant: the last live connection is not waited for.
AllServedButOne == live_conns <= 1

AllServed == live_conns = 0

AcceptorDrained ==
    /\ rpc = "drained"
    /\ GoTo(IF AllServed THEN "clear" ELSE "top")
    /\ UNCHANGED <<flags, runs, accLocals, workVars, ctlVars, queues>>

AcceptorClear ==
    /\ rpc = "clear"
    /\ running' = FALSE
    /\ GoTo("top")
    /\ UNCHANGED <<run_active, draining, pipes_ready, drain_deadline, runs,
                   accLocals, workVars, ctlVars, queues>>

RunExit ==
    /\ rpc = "exit"
    /\ pipes_ready' = FALSE
    /\ GoTo("exitWake")
    /\ UNCHANGED <<running, run_active, draining, drain_deadline, runs,
                   accLocals, workVars, ctlVars, queues>>

RunWakeWorkers ==
    /\ rpc = "exitWake"
    /\ WakeEach(Workers)
    /\ GoTo("join")
    /\ UNCHANGED <<flags, runs, accLocals, workVars, ctlVars, live_conns,
                   backlog, closed, pending>>

\* Mutant: only the first thread is joined.
FirstWorkerEnded == wpc[0] = "done"
\* Mutant: a worker has ended when it has no connection left.
WorkersEndedEmpty == \A w \in Workers : wpc[w] = "done" /\ conns[w] = {}

WorkersEnded == \A w \in Workers : wpc[w] = "done"

RunJoin ==
    /\ rpc = "join"
    /\ WorkersEnded
    /\ GoTo("closeq")
    /\ UNCHANGED <<flags, runs, accLocals, workVars, ctlVars, queues>>

\* A descriptor no worker adopted is closed and its slot released.
RunCloseQueued(w) ==
    /\ rpc = "closeq"
    /\ pending[w] # <<>>
    /\ closed' = closed \cup {Head(pending[w])}
    /\ PopFront(w)
    /\ Release
    /\ UNCHANGED <<flags, accVars, workVars, ctlVars, backlog, pipe>>

\* Mutant: descriptors no worker adopted are left in the queues.
QueuesLeft == TRUE

QueuesEmpty == \A w \in Workers : pending[w] = <<>>

RunReturn ==
    /\ rpc = "closeq"
    /\ QueuesEmpty
    /\ run_active' = FALSE
    /\ GoTo("idle")
    /\ UNCHANGED <<running, draining, pipes_ready, drain_deadline, runs,
                   accLocals, workVars, ctlVars, queues>>

RunStep ==
    \/ RunSetRunning \/ RunSpawn \/ RunCheck \/ RunReadDraining
    \/ AcceptorPollReturn \/ (\E c \in Conns : Accept(c))
    \/ CapCheck \/ Reserve \/ Push \/ HandOffWake
    \/ AcceptorPassEnd \/ AcceptorDeadline \/ AcceptorDrained \/ AcceptorClear
    \/ RunExit \/ RunWakeWorkers \/ RunJoin
    \/ (\E w \in Workers : RunCloseQueued(w)) \/ RunReturn

-----------------------------------------------------------------------------
(* Worker threads.                                                         *)

WorkerCheck(w) ==
    /\ wpc[w] = "check"
    /\ WorkerGoTo(w, IF running THEN "adopt" ELSE "done")
    /\ UNCHANGED <<flags, accVars, hand, connVars, ctlVars, queues>>

WorkerPop(w) ==
    /\ wpc[w] = "adopt"
    /\ pending[w] # <<>>
    /\ hand' = [hand EXCEPT ![w] = Head(pending[w])]
    /\ PopFront(w)
    /\ WorkerGoTo(w, "wrap")
    /\ UNCHANGED <<flags, accVars, connVars, ctlVars, live_conns, backlog,
                   closed, pipe>>

WorkerQueueEmpty(w) ==
    /\ wpc[w] = "adopt"
    /\ pending[w] = <<>>
    /\ WorkerGoTo(w, "mark")
    /\ UNCHANGED <<flags, accVars, hand, connVars, ctlVars, queues>>

\* nextid_stride_ of a worker's manager.  Mutant: the default of 1.
StrideOne == 1

Stride == N

\* wrapfd() succeeds: alloc_conn() gives the connection the worker's next id
WorkerAdopt(w) ==
    /\ wpc[w] = "wrap"
    /\ nextid' = [nextid EXCEPT ![w] = @ + Stride]
    /\ id' = [id EXCEPT ![hand[w]] = nextid[w] + Stride]
    /\ conns' = [conns EXCEPT ![w] = @ \cup {hand[w]}]
    /\ hand' = [hand EXCEPT ![w] = NoConn]
    /\ WorkerGoTo(w, "adopt")
    /\ UNCHANGED <<flags, accVars, is_draining, stuck, ctlVars, queues>>

\* wrapfd() fails to allocate: the slot is released, the descriptor closed
WorkerAdoptFail(w) ==
    /\ wpc[w] = "wrap"
    /\ Release
    /\ closed' = closed \cup {hand[w]}
    /\ hand' = [hand EXCEPT ![w] = NoConn]
    /\ WorkerGoTo(w, "adopt")
    /\ UNCHANGED <<flags, accVars, connVars, ctlVars, backlog, pending, pipe>>

\* Mutant: a drain without a deadline marks nothing.
MarkedByDeadline(w) ==
    IF draining /\ drain_deadline # "none" THEN is_draining \cup conns[w] ELSE is_draining

Marked(w) == IF draining THEN is_draining \cup conns[w] ELSE is_draining

\* draining_ is loaded; if it is set every connection of the loop is marked
WorkerMark(w) ==
    /\ wpc[w] = "mark"
    /\ is_draining' = Marked(w)
    /\ WorkerGoTo(w, IF draining THEN "deadline" ELSE "poll")
    /\ UNCHANGED <<flags, accVars, hand, conns, stuck, nextid, id, ctlVars, queues>>

\* The deadline is enforced here too.  The worker then blocks in poll(), for
\* 50 ms ("dpoll"), or for 1000 ms when it is not draining ("poll").
WorkerDeadline(w) ==
    /\ wpc[w] = "deadline"
    /\ running' = (running /\ drain_deadline # "past")
    /\ WorkerGoTo(w, IF drain_deadline = "past" THEN "done" ELSE "dpoll")
    /\ UNCHANGED <<run_active, draining, pipes_ready, drain_deadline, accVars,
                   hand, connVars, ctlVars, queues>>

\* poll() returns, for a datagram, a ready socket or its timeout; the pass over
\* the connections reads at most one datagram (wufn)
WorkerPollReturn(w) ==
    /\ wpc[w] \in {"poll", "dpoll"}
    /\ pipe' = [pipe EXCEPT ![w] = IF @ = <<>> THEN @ ELSE Tail(@)]
    /\ WorkerGoTo(w, "sweep")
    /\ UNCHANGED <<flags, accVars, hand, connVars, ctlVars, live_conns,
                   backlog, closed, pending>>

\* A visit leaves output queued for a peer that does not read.  (Output a peer
\* does read is not tracked: some later visit flushes it.)
VisitStuck(w, c) ==
    /\ wpc[w] = "sweep"
    /\ c \in conns[w] \cap Stalled
    /\ stuck' = stuck \cup {c}
    /\ UNCHANGED <<flags, accVars, wpc, hand, conns, is_draining, nextid, id,
                   ctlVars, queues>>

\* sock_close(), and the Close branch of the adopted connection's handler
CloseAdopted(w, c) ==
    /\ conns' = [conns EXCEPT ![w] = @ \ {c}]
    /\ closed' = closed \cup {c}
    /\ Release
    /\ is_draining' = is_draining \ {c}
    /\ stuck' = stuck \ {c}
    /\ UNCHANGED <<flags, accVars, wpc, hand, nextid, id, ctlVars, backlog,
                   pending, pipe>>

\* A draining connection whose send buffer is empty is closed
VisitDrained(w, c) ==
    /\ wpc[w] = "sweep"
    /\ c \in (conns[w] \cap is_draining) \ stuck
    /\ CloseAdopted(w, c)

\* The peer closes, an error or one of the event loop's limits ends it
VisitDropped(w, c) ==
    /\ wpc[w] = "sweep"
    /\ c \in conns[w]
    /\ CloseAdopted(w, c)

WorkerPassEnd(w) ==
    /\ wpc[w] = "sweep"
    /\ WorkerGoTo(w, "check")
    /\ UNCHANGED <<flags, accVars, hand, connVars, ctlVars, queues>>

\* The steps the code takes whether or not a peer does anything
WorkerOwnStep(w) ==
    \/ WorkerCheck(w) \/ WorkerPop(w) \/ WorkerQueueEmpty(w)
    \/ WorkerAdopt(w) \/ WorkerAdoptFail(w) \/ WorkerMark(w)
    \/ WorkerDeadline(w) \/ WorkerPollReturn(w) \/ WorkerPassEnd(w)

WorkerStep(w) ==
    \/ WorkerOwnStep(w)
    \/ \E c \in Conns : \/ VisitStuck(w, c)
                        \/ VisitDrained(w, c) \/ VisitDropped(w, c)

-----------------------------------------------------------------------------
(* Control threads.                                                        *)

Stop(t) ==
    /\ cpc[t] = "idle" /\ ~ InDestructor
    /\ running' = FALSE
    /\ aborted' = TRUE
    /\ CtlGoTo(t, "sgate")
    /\ UNCHANGED <<run_active, draining, pipes_ready, drain_deadline, accVars,
                   workVars, destroyed, queues>>

Drain(t) ==
    /\ cpc[t] = "idle" /\ ~ InDestructor
    /\ \E d \in {"none", "ahead"} : drain_deadline' = d
    /\ CtlGoTo(t, "setdrain")
    /\ UNCHANGED <<running, run_active, draining, pipes_ready, accVars,
                   workVars, destroyed, aborted, queues>>

DrainPublish(t) ==
    /\ cpc[t] = "setdrain"
    /\ draining' = TRUE
    /\ CtlGoTo(t, "gate")
    /\ UNCHANGED <<running, run_active, pipes_ready, drain_deadline, accVars,
                   workVars, destroyed, aborted, queues>>

\* wake_all() of stop(), drain() and the destructor: gated on pipes_ready_.
\* The sends are one step: a loop that has not got its datagram yet behaves
\* as one that has not read it yet.
WakeGate(t) ==
    /\ cpc[t] \in {"gate", "sgate", "dgate"}
    /\ CtlGoTo(t, IF cpc[t] = "dgate"
                  THEN IF pipes_ready THEN "dwake" ELSE "dwait"
                  ELSE IF pipes_ready THEN "wake" ELSE "done")
    /\ UNCHANGED <<flags, accVars, workVars, destroyed, aborted, queues>>

WakeAll(t) ==
    /\ cpc[t] \in {"wake", "dwake"}
    /\ WakeEach(Loops)
    /\ CtlGoTo(t, IF cpc[t] = "wake" THEN "done" ELSE "dwait")
    /\ UNCHANGED <<flags, accVars, workVars, destroyed, aborted, live_conns,
                   backlog, closed, pending>>

\* wakeup(conn_id): ids a program can hold are those handlers were given
WakeConn(t, c) ==
    /\ cpc[t] = "idle" /\ ~ InDestructor
    /\ id[c] # 0
    /\ pipe' = IF pipes_ready
               THEN [pipe EXCEPT ![id[c] % N] = Sent(pipe, id[c] % N, id[c])]
               ELSE pipe
    /\ CtlGoTo(t, "done")
    /\ UNCHANGED <<flags, accVars, workVars, destroyed, aborted, live_conns,
                   backlog, closed, pending>>

\* ~ShardedManager(): the caller makes no other call during or after it
Destroy(t) ==
    /\ cpc[t] = "idle" /\ ~ InDestructor
    /\ \A u \in Ctl : cpc[u] \in {"idle", "done"}
    /\ running' = FALSE
    /\ aborted' = TRUE
    /\ CtlGoTo(t, "dgate")
    /\ UNCHANGED <<run_active, draining, pipes_ready, drain_deadline, accVars,
                   workVars, destroyed, queues>>

Open == UNION {conns[w] : w \in Workers}

\* Mutant: the acceptor's refused connections are not closed.
LeftoverAdopted == Open

Leftover == Open \cup refused

\* run_active_ is clear: the members go, and mgr_free() closes what is open,
\* firing Close on each adopted connection
DestroyMembers(t) ==
    /\ cpc[t] = "dwait"
    /\ ~ run_active
    /\ live_conns' = live_conns - Cardinality(Open)
    /\ closed' = closed \cup Leftover
    /\ conns' = [w \in Workers |-> {}]
    /\ refused' = {}
    /\ is_draining' = {}
    /\ stuck' = {}
    /\ destroyed' = TRUE
    /\ CtlGoTo(t, "done")
    /\ UNCHANGED <<flags, aborted, rpc, runs, acc_draining, acc_conn, next,
                   wpc, hand, nextid, id, backlog, pending, pipe>>

CtlContinue(t) == DrainPublish(t) \/ WakeGate(t) \/ WakeAll(t) \/ DestroyMembers(t)

CtlStep(t) ==
    \/ Stop(t) \/ Drain(t) \/ Destroy(t) \/ CtlContinue(t)
    \/ \E c \in Conns : WakeConn(t, c)

\* millis() reaches the drain deadline
Expire ==
    /\ drain_deadline = "ahead"
    /\ drain_deadline' = "past"
    /\ aborted' = TRUE
    /\ UNCHANGED <<running, run_active, draining, pipes_ready, accVars,
                   workVars, cpc, destroyed, queues>>

\* Every call has been made and the last run() has returned.
Finished ==
    /\ rpc = "idle"
    /\ destroyed \/ (runs = MaxRuns /\ \A t \in Ctl : cpc[t] = "done")
    /\ UNCHANGED vars

Next ==
    \/ RunEnter \/ RunStep
    \/ \E w \in Workers : WorkerStep(w)
    \/ \E t \in Ctl : CtlStep(t)
    \/ Expire
    \/ Finished

\* Threads are scheduled, a call once made goes on, and time passes.  A peer
\* that reads lets the send buffer of its connection empty now and then.
Fairness ==
    /\ WF_vars(RunStep)
    /\ \A w \in Workers : WF_vars(WorkerOwnStep(w))
    /\ \A t \in Ctl : WF_vars(CtlContinue(t))
    /\ WF_vars(Expire)
    /\ \A w \in Workers, c \in Conns \ Stalled : SF_vars(VisitDrained(w, c))

Spec == Init /\ [][Next]_vars
FairSpec == Spec /\ Fairness
-----------------------------------------------------------------------------
(* Properties.                                                             *)

RunPCs == {"idle", "entered", "arming", "top", "rdrain", "poll", "sweep",
           "cap", "reserve", "push", "wake", "deadline", "drained", "clear",
           "exit", "exitWake", "join", "closeq"}
WorkerPCs == {"none", "check", "adopt", "wrap", "mark",
              "deadline", "poll", "dpoll", "sweep", "done"}
CtlPCs == {"idle", "setdrain", "gate", "sgate", "dgate", "wake", "dwake",
           "dwait", "done"}

\* Every variable has its type.
TypeOK ==
    /\ running \in BOOLEAN /\ run_active \in BOOLEAN
    /\ draining \in BOOLEAN /\ pipes_ready \in BOOLEAN
    /\ drain_deadline \in {"none", "ahead", "past"}
    /\ live_conns \in Int
    /\ next \in Nat
    /\ rpc \in RunPCs /\ runs \in Nat
    /\ acc_draining \in BOOLEAN
    /\ acc_conn \in Conns \cup {NoConn}
    /\ refused \subseteq Conns /\ backlog \subseteq Conns
    /\ closed \subseteq Conns
    /\ pending \in [Workers -> Seq(Conns)]
    /\ pipe \in [Loops -> Seq(Nat)]
    /\ wpc \in [Workers -> WorkerPCs]
    /\ hand \in [Workers -> Conns \cup {NoConn}]
    /\ conns \in [Workers -> SUBSET Conns]
    /\ is_draining \subseteq Conns /\ stuck \subseteq Conns
    /\ nextid \in [Workers -> Nat] /\ id \in [Conns -> Nat]
    /\ cpc \in [Ctl -> CtlPCs]
    /\ destroyed \in BOOLEAN /\ aborted \in BOOLEAN

\* Where a connection's descriptor can be.  A place of the acceptor has 0 as
\* its second component.
Places == ({"backlog", "accepted", "reserved", "refused", "closed"} \X {0})
            \cup ({"queued", "hand", "open"} \X Workers)

At(p) ==
    CASE p[1] = "backlog" -> backlog
      [] p[1] = "accepted" -> IF rpc = "push" THEN {} ELSE {acc_conn} \ {NoConn}
      [] p[1] = "reserved" -> IF rpc = "push" THEN {acc_conn} \ {NoConn} ELSE {}
      [] p[1] = "refused" -> refused
      [] p[1] = "closed" -> closed
      [] p[1] = "queued" -> {pending[p[2]][i] : i \in DOMAIN pending[p[2]]}
      [] p[1] = "hand" -> {hand[p[2]]} \ {NoConn}
      [] p[1] = "open" -> conns[p[2]]

Held == [p \in Places |-> At(p)]

\* Each connection is at one place of h
Owned(h) == \A c \in Conns : \E p \in Places :
                c \in h[p] /\ \A q \in Places \ {p} : c \notin h[q]

\* The places whose connections hold a slot of the cap
SlotPlaces == {p \in Places : p[1] \in {"reserved", "queued", "hand", "open"}}
SlotsOf(h) == UNION {h[p] : p \in SlotPlaces}
Slots == SlotsOf(Held)

\* A descriptor is always in exactly one place, and at most once in a queue:
\* the hand-off from acceptor to worker neither loses it, nor closes it twice,
\* nor lets two loops own it (detach_fd, the queues, adoption, shutdown).
OneOwner ==
    /\ Owned(Held)
    /\ \A w \in Workers : \A i, j \in DOMAIN pending[w] :
          pending[w][i] = pending[w][j] => i = j

\* live_conns_ counts exactly the connections that were handed off and not yet
\* closed, across threads, failed adoptions and shutdown.
LiveExact == live_conns = Cardinality(Slots)

\* set_max_connections(): the acceptor's check-then-increment never over-admits.
CapRespected == MaxConns > 0 => Cardinality(Slots) <= MaxConns

\* Ids partition by worker and are never reused, so a wakeup for a connection
\* only ever waits on the pipe of the worker that owns it.
WakeupsRouteHome ==
    /\ \A c, d \in Conns : id[c] = id[d] /\ id[c] # 0 => c = d
    /\ \A w \in Workers : \A c \in conns[w] :
          /\ id[c] # 0 /\ id[c] % N = w
          /\ \A v \in Loops : \A i \in DOMAIN pipe[v] :
                pipe[v][i] = id[c] => v = w \/ id[c] = WAKE_ID

\* What makes the three inductive: whose hands hold a connection, that no
\* worker runs outside the loops of run(), and that the cap was checked.
HandsInv ==
    /\ rpc \in {"cap", "reserve", "push"} <=> acc_conn # NoConn
    /\ \A w \in Workers : wpc[w] = "wrap" <=> hand[w] # NoConn
    /\ rpc \in {"idle", "entered", "arming", "closeq"} =>
          \A w \in Workers : wpc[w] \in {"none", "done"}
    /\ run_active <=> rpc # "idle"
CapInv ==
    MaxConns > 0 => /\ live_conns <= MaxConns
                    /\ rpc = "reserve" => live_conns < MaxConns
IInv == TypeOK /\ HandsInv /\ OneOwner /\ LiveExact /\ CapInv

Woken(e) == e \in Piped => pipe[e] # <<>>
WakeOnTheWay == \E t \in Ctl : cpc[t] \in {"gate", "sgate", "dgate", "wake", "dwake"}

\* No loop sits out its fallback timeout with something to do: whoever hands
\* off a connection, drains or stops either has woken it or is about to.
NoLostWakeup ==
    /\ \A w \in Workers : wpc[w] = "poll" =>
        /\ pending[w] # <<>> => Woken(w) \/ (rpc = "wake" /\ Chosen = w)
        /\ draining => Woken(w) \/ WakeOnTheWay \/ rpc = "exitWake"
        /\ rpc = "join" => Woken(w)
    /\ rpc = "poll" /\ ~ acc_draining /\ (draining \/ ~ running) =>
          Woken(Acceptor) \/ WakeOnTheWay

\* A worker that saw draining_ never goes back to poll() with a connection it
\* has not marked.
DrainMarksAll ==
    \A w \in Workers : wpc[w] = "dpoll" => conns[w] \subseteq is_draining

\* Once run() has returned no thread of it is left in any queue, hand or pass;
\* in particular the destructor has released nothing a thread still uses.
Quiescent ==
    rpc = "idle" \/ destroyed =>
        /\ rpc = "idle" /\ acc_conn = NoConn /\ ~ run_active
        /\ \A w \in Workers : /\ wpc[w] \in {"none", "done"}
                              /\ pending[w] = <<>> /\ hand[w] = NoConn

\* The destructor closes every connection that was ever accepted, and the count
\* of live ones ends at zero.
DestroyedClean ==
    destroyed => live_conns = 0 /\ closed = Conns \ backlog

\* A drain without a deadline, and no stop(): run() ends with every handed-off
\* connection served to its close by a worker.
DrainLosesNothing == rpc \in {"exit", "exitWake", "join", "closeq"} /\ ~ aborted => Slots = {}

\* Once draining_ is published no further connection is on its way to a
\* worker: what the acceptor had not passed the flag check with is refused.
Admitted == Slots \cup At(<<"accepted", 0>>)
DrainAdmitsNoMore == [][draining => Admitted' \subseteq Admitted]_vars

\* The manager does what Admission promises.
Adm == INSTANCE Admission WITH live <- Slots, over <- closed, count <- live_conns
ImplementsAdmission == Adm!Spec

\* drain(): run() returns, if every peer reads or a deadline is set.
Bounded == Stalled = {} \/ drain_deadline # "none"
DrainEndsRun == (draining /\ run_active /\ Bounded) ~> (~ run_active \/ ~ Bounded)

\* stop() of a run that has set running_ ends it.
StopEndsRun ==
    (~ running /\ run_active /\ rpc # "entered") ~> ~ run_active

\* A connection handed off is adopted, or its descriptor closed.
HandOffCompletes ==
    \A c \in Conns : (\E w \in Workers : c \in At(<<"queued", w>>)) ~>
                     (\E w \in Workers : c \in conns[w]) \/ c \in closed

=============================================================================
