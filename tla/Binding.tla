------------------------------- MODULE Binding -------------------------------
(***************************************************************************)
(* The Python binding (_core.cpp): loops that call Python handlers, from   *)
(* Manager.poll() on the thread that calls it and from ShardedManager.run()*)
(* on worker threads CPython does not know, and Python code that keeps the *)
(* objects its handlers were lent.                                         *)
(*                                                                         *)
(* A thread is attached while it may touch Python objects.  With a global  *)
(* interpreter lock one thread at a time is, and the interpreter may pass  *)
(* the lock on between two instructions of Python code, never inside the   *)
(* C++ code of the binding.  A loop with an event to report is a loop at   *)
(* any time, a handler does anything and returns or raises.                *)
(***************************************************************************)
EXTENDS Integers, FiniteSets

CONSTANTS
    Main,           \* the main thread of Python: runs poll() and run()
    Workers,        \* the threads of ShardedManager
    Others,         \* other Python threads
    NoCall,
    Gil,            \* FALSE: free-threaded CPython
    MaxCalls        \* calls of handlers by each thread (bound)

BThreads == {Main} \cup Workers \cup Others
Loops == {Main} \cup Workers
Calls == Loops \X (1..MaxCalls)

ASSUME BindingAssumption ==
    /\ Main \notin Workers \cup Others /\ Workers \cap Others = {}
    /\ Gil \in BOOLEAN /\ MaxCalls \in Nat /\ NoCall \notin Calls

VARIABLES
    bpc,
    attached,
    states,         \* GILState counter of a thread; 0: it has no PyThreadState
    made,           \* history: PyThreadStates made for a thread of this run
    running, callback,  \* running_, and whether the listener holds its handler
    ncalls, alive,  \* calls of handlers by a thread, those whose token is true
    kept, using,    \* borrowed objects that Python code keeps, and uses
    tripped, owed   \* SIGINT to be raised; history: and not yet seen by Python

bindVars == <<bpc, attached, states, made, running, callback, ncalls, alive,
              kept, using, tripped, owed>>
interpreter == <<attached, states, made>>
borrowed == <<ncalls, alive, kept, using>>
signal == <<tripped, owed>>

BindingInit ==
    /\ bpc = [t \in BThreads |-> IF t \in Workers THEN "off" ELSE "py"]
    /\ attached = {}
    /\ states = [t \in BThreads |-> IF t \in Workers THEN 0 ELSE 1]
    /\ made = [t \in BThreads |-> 0]
    /\ running = FALSE /\ callback = TRUE
    /\ ncalls = [t \in Loops |-> 0] /\ alive = {} /\ kept = {}
    /\ using = [t \in Others |-> NoCall]
    /\ tripped = FALSE /\ owed = FALSE

-----------------------------------------------------------------------------
BGoto(t, from, to) == bpc[t] = from /\ bpc' = [bpc EXCEPT ![t] = to]
Free == Gil => attached = {}
Python(t) == bpc[t] = "py" /\ t \in attached
Lent(t) == <<t, ncalls[t]>>

\* gil_scoped_acquire: PyGILState_Ensure() makes the state of a thread that
\* has none; and what undoes it, which ends the state with the last count.
Ensure(t) ==
    /\ Free /\ attached' = attached \cup {t}
    /\ made' = [made EXCEPT ![t] = IF states[t] = 0 THEN @ + 1 ELSE @]
    /\ states' = [states EXCEPT ![t] = @ + 1]

Release(t) ==
    /\ attached' = attached \ {t}
    /\ states' = [states EXCEPT ![t] = @ - 1]
    /\ UNCHANGED made

\* The interpreter lets other threads run, or Python code waits for something.
Switch(t) ==
    /\ bpc[t] \in {"py", "fn"}
    /\ IF t \in attached THEN attached' = attached \ {t}
                         ELSE Free /\ attached' = attached \cup {t}
    /\ UNCHANGED <<bpc, states, made, running, callback, borrowed, signal>>

Sigint ==
    /\ ~owed /\ tripped' = TRUE /\ owed' = TRUE
    /\ UNCHANGED <<bpc, interpreter, running, callback, borrowed>>

\* KeyboardInterrupt in the main thread's own code.
Interrupted ==
    /\ Python(Main) /\ tripped /\ tripped' = FALSE /\ owed' = FALSE
    /\ UNCHANGED <<bpc, interpreter, running, callback, borrowed>>

-----------------------------------------------------------------------------
LetGo(t) == attached' = attached \ {t}

\* Manager.poll(): gil_scoped_release around the pass.
Poll ==
    /\ Python(Main) /\ BGoto(Main, "py", "loop") /\ LetGo(Main)
    /\ UNCHANGED <<states, made, running, callback, borrowed, signal>>

\* ShardedManager.run(), its threads, and stop().
Run ==
    /\ Python(Main) /\ LetGo(Main) /\ running' = TRUE
    /\ bpc' = [t \in BThreads |-> CASE t = Main -> "run" [] t \in Workers -> "start"
                                    [] OTHER -> bpc[t]]
    /\ made' = [t \in BThreads |-> 0]
    /\ UNCHANGED <<states, callback, borrowed, signal>>

Stop(t) ==
    /\ Python(t) /\ running /\ running' = FALSE
    /\ UNCHANGED <<bpc, interpreter, callback, borrowed, signal>>

\* poll() is over; run() has joined its threads.
Back ==
    /\ \/ BGoto(Main, "loop", "py")
       \/ BGoto(Main, "run", "py") /\ \A w \in Workers : bpc[w] = "off"
    /\ Free /\ attached' = attached \cup {Main}
    /\ UNCHANGED <<states, made, running, callback, borrowed, signal>>

\* worker_thread_start(): the state stays, with the thread detached.
Registered(w) ==
    /\ states' = [states EXCEPT ![w] = @ + 1]
    /\ made' = [made EXCEPT ![w] = IF states[w] = 0 THEN @ + 1 ELSE @]

WorkerStart(w) ==
    /\ BGoto(w, "start", "loop") /\ Free /\ Registered(w)
    /\ UNCHANGED <<attached, running, callback, borrowed, signal>>

\* worker_thread_stop()
WorkerStop(w) ==
    /\ BGoto(w, "loop", "off") /\ ~running /\ Free
    /\ states' = [states EXCEPT ![w] = IF @ > 0 THEN @ - 1 ELSE 0]
    /\ UNCHANGED <<attached, made, running, callback, borrowed, signal>>

-----------------------------------------------------------------------------
\* An event: the handler is called with wrappers that share a token.
Call(t) ==
    /\ callback /\ ncalls[t] < MaxCalls /\ BGoto(t, "loop", "fn") /\ Ensure(t)
    /\ ncalls' = [ncalls EXCEPT ![t] = @ + 1]
    /\ alive' = alive \cup {<<t, ncalls[t] + 1>>}
    /\ UNCHANGED <<running, callback, kept, using, signal>>

Keep(t) ==
    /\ bpc[t] = "fn" /\ t \in attached /\ kept' = kept \cup {Lent(t)}
    /\ UNCHANGED <<bpc, interpreter, running, callback, ncalls, alive, using, signal>>

HandlerEnds(t) ==
    /\ t \in attached
    /\ \/ bpc[t] = "fn" /\ bpc' = [bpc EXCEPT ![t] = "ret"] /\ UNCHANGED tripped
       \/ BGoto(t, "fn", "error") /\ UNCHANGED tripped
       \/ t = Main /\ tripped /\ BGoto(t, "fn", "intr") /\ tripped' = FALSE
    /\ UNCHANGED <<interpreter, running, callback, borrowed, owed>>

\* Mutant: KeyboardInterrupt is reported like any exception of a handler.
RaiseAgainNever(t) == tripped

RaiseAgain(t) == bpc[t] = "intr" \/ tripped

\* handle_handler_error()
Consume(t) ==
    /\ bpc[t] \in {"error", "intr"} /\ bpc' = [bpc EXCEPT ![t] = "ret"]
    /\ tripped' = RaiseAgain(t)
    /\ UNCHANGED <<interpreter, running, callback, borrowed, owed>>

\* Mutant: the token outlives the call.
ExpireLate(t) == alive \ {<<t, ncalls[t] - 1>>}

Expire(t) == alive \ {Lent(t)}

Return(t) ==
    /\ BGoto(t, "ret", "loop") /\ alive' = Expire(t) /\ Release(t)
    /\ UNCHANGED <<running, callback, ncalls, kept, using, signal>>

\* The listener closes during a pass of poll(), and with it goes the last
\* reference to the handler: the deleter of make_callback().
DropHandler(t) ==
    /\ callback /\ t = Main /\ BGoto(t, "loop", "del") /\ Ensure(t)
    /\ callback' = FALSE
    /\ UNCHANGED <<running, borrowed, signal>>

HandlerGone(t) ==
    /\ BGoto(t, "del", "loop") /\ Release(t)
    /\ UNCHANGED <<running, callback, borrowed, signal>>

-----------------------------------------------------------------------------
\* get(): another thread uses what a handler kept; RuntimeError, when the
\* token is false, changes nothing.
Get(t, b) ==
    /\ Python(t) /\ b \in kept \cap alive
    /\ BGoto(t, "py", "use") /\ using' = [using EXCEPT ![t] = b]
    /\ UNCHANGED <<interpreter, running, callback, ncalls, alive, kept, signal>>

Used(t) ==
    /\ BGoto(t, "use", "py") /\ using' = [using EXCEPT ![t] = NoCall]
    /\ UNCHANGED <<interpreter, running, callback, ncalls, alive, kept, signal>>

BindingNext ==
    \/ \E t \in BThreads : Switch(t)
    \/ Sigint \/ Interrupted \/ Poll \/ Run \/ Back
    \/ \E w \in Workers : WorkerStart(w) \/ WorkerStop(w)
    \/ \E t \in Loops :
          \/ Call(t) \/ Keep(t) \/ HandlerEnds(t) \/ Consume(t) \/ Return(t)
          \/ DropHandler(t) \/ HandlerGone(t)
    \/ \E t \in Others : Stop(t) \/ Used(t) \/ \E b \in Calls : Get(t, b)

-----------------------------------------------------------------------------
\* What a handler was lent is used only while the handler runs: the message
\* is on the stack of its caller, the connection may be freed when it returns.
BorrowsLive ==
    \A t \in Others : bpc[t] = "use" =>
        \E l \in Loops : using[t] = Lent(l) /\ bpc[l] \in {"fn", "error", "intr", "ret"}

\* Threads and the interpreter: only an attached thread is in Python or
\* touches its objects, no thread waits for events or for another thread while
\* attached (it would hold the lock, or the collector, up for ever), a thread
\* of run() has one PyThreadState from its start to its end and leaves none,
\* and a SIGINT that lands in a handler is raised again when poll() is over.
InterpreterSound ==
    /\ \A t \in BThreads :
          /\ bpc[t] \in {"use", "ret", "error", "intr", "del"} => t \in attached
          /\ bpc[t] \in {"off", "start", "loop", "run"} => t \notin attached
          /\ t \in Workers /\ bpc[t] # "start" => made[t] <= 1
          /\ t \in Workers => (states[t] = 0 <=> bpc[t] \in {"off", "start"})
    /\ Gil => Cardinality(attached) <= 1
    /\ owed => tripped \/ bpc[Main] = "intr"
=============================================================================
