---------------------------- MODULE BindingProofs ----------------------------
(***************************************************************************)
(* Proofs about the Python binding: threads and the interpreter are in     *)
(* order, with a global interpreter lock and without one, and with the     *)
(* lock nobody uses what a handler was lent once the handler is over.      *)
(***************************************************************************)
EXTENDS Binding, FiniteSetTheorems, TLAPS

\* The threads of the binding, started anywhere.
BindingSpec == BindingInit /\ [][BindingNext]_bindVars

\* Places inside a handler called from a loop.
Handling == {"fn", "error", "intr", "ret"}

\* Where each kind of thread can be.
Places(t) ==
    CASE t = Main -> {"py", "loop", "run", "del"} \cup Handling
      [] t \in Workers -> {"off", "start", "loop", "fn", "error", "ret"}
      [] OTHER -> {"py", "use"}

\* All places of a thread.
Anywhere == {"py", "use", "off", "start", "run", "loop", "del"} \cup Handling

\* The variables have their types.
BTyped ==
    /\ bpc \in [BThreads -> Anywhere] /\ \A t \in BThreads : bpc[t] \in Places(t)
    /\ attached \subseteq BThreads
    /\ states \in [BThreads -> Int] /\ made \in [BThreads -> Nat]
    /\ ncalls \in [Loops -> Nat] /\ using \in [Others -> Calls \cup {NoCall}]
    /\ tripped \in BOOLEAN /\ owed \in BOOLEAN

\* Who is attached: what a thread does decides it, except in Python code.
Attachment ==
    /\ \A t \in BThreads :
          /\ bpc[t] \in {"use", "ret", "error", "intr", "del"} => t \in attached
          /\ bpc[t] \in {"off", "start", "loop", "run"} => t \notin attached
    /\ Gil => \A s, t \in attached : s = t

\* A worker's GILState counter: the state it registered, and one more while it
\* handles an event.  It starts with none, and keeps the one it made.
Counters ==
    \A w \in Workers :
        /\ states[w] = (CASE bpc[w] \in {"off", "start"} -> 0 [] bpc[w] = "loop" -> 1
                          [] OTHER -> 2)
        /\ made[w] <= IF bpc[w] = "start" THEN 0 ELSE 1

\* The workers run only inside run().
WorkersWithin == bpc[Main] # "run" => \A w \in Workers : bpc[w] = "off"

\* SIGINT is remembered until Python has seen it.
Remembered == owed => tripped \/ bpc[Main] = "intr"

\* A token is true only while its handler runs.
TokensLive == \A b \in alive : \E l \in Loops : b = Lent(l) /\ bpc[l] \in Handling

\* The inductive invariant.
BindingInv == BTyped /\ Attachment /\ Counters /\ WorkersWithin /\ Remembered /\ TokensLive

-----------------------------------------------------------------------------
\* The three kinds of threads are distinct.
LEMMA Kinds ==
    /\ Main \in BThreads /\ Main \in Loops /\ Main \notin Workers /\ Main \notin Others
    /\ Workers \subseteq BThreads /\ Workers \subseteq Loops /\ Workers \cap Others = {}
    /\ Others \subseteq BThreads /\ Loops \subseteq BThreads
BY BindingAssumption DEF BThreads, Loops

\* The places of each kind.
LEMMA PlacesAre ==
    /\ Places(Main) = {"py", "loop", "run", "del", "fn", "error", "intr", "ret"}
    /\ \A t \in Workers : Places(t) = {"off", "start", "loop", "fn", "error", "ret"}
    /\ \A t \in Others : Places(t) = {"py", "use"}
    /\ \A t \in BThreads : Places(t) \subseteq Anywhere
<1>1. Places(Main) = {"py", "loop", "run", "del", "fn", "error", "intr", "ret"}
  BY Kinds DEF Places, Handling
<1>2. \A t \in Workers : Places(t) = {"off", "start", "loop", "fn", "error", "ret"}
  BY Kinds DEF Places
<1>3. \A t \in Others : Places(t) = {"py", "use"} BY Kinds DEF Places
<1>4. ASSUME NEW t \in BThreads PROVE Places(t) \subseteq Anywhere
  <2>1. t = Main \/ t \in Workers \/ t \in Others BY DEF BThreads
  <2> QED BY <1>1, <1>2, <1>3, <2>1 DEF Anywhere, Handling
<1> QED BY <1>1, <1>2, <1>3, <1>4

\* Initially the invariant holds.
LEMMA BindingStart == BindingInit => BindingInv
<1> USE Kinds
<1> SUFFICES ASSUME BindingInit PROVE BindingInv OBVIOUS
<1>1. BTyped
  <2>1. \A t \in BThreads : bpc[t] = IF t \in Workers THEN "off" ELSE "py" BY DEF BindingInit
  <2>2. \A t \in BThreads : bpc[t] \in Places(t) BY <2>1, PlacesAre DEF BThreads
  <2>3. bpc \in [BThreads -> Anywhere] BY <2>2, PlacesAre DEF BindingInit
  <2>4. states \in [BThreads -> Int] /\ made \in [BThreads -> Nat] BY DEF BindingInit
  <2> QED BY <2>2, <2>3, <2>4 DEF BindingInit, BTyped
<1>2. Attachment BY DEF BindingInit, Attachment, BThreads
<1>3. Counters /\ WorkersWithin BY DEF BindingInit, Counters, WorkersWithin, BThreads
<1>4. Remembered /\ TokensLive BY DEF BindingInit, Remembered, TokensLive
<1> QED BY <1>1, <1>2, <1>3, <1>4 DEF BindingInv

\* A thread that moves to one of its places.
LEMMA OneMoves ==
    ASSUME bpc \in [BThreads -> Anywhere], \A t \in BThreads : bpc[t] \in Places(t),
           NEW t \in BThreads, NEW q \in Places(t), bpc' = [bpc EXCEPT ![t] = q]
    PROVE  bpc' \in [BThreads -> Anywhere] /\ \A s \in BThreads : bpc'[s] \in Places(s)
BY PlacesAre

\* Threads stay at their places.
LEMMA PlacesNext ==
    ASSUME BTyped, BindingNext
    PROVE  bpc' \in [BThreads -> Anywhere] /\ \A t \in BThreads : bpc'[t] \in Places(t)
<1> USE Kinds, PlacesAre
<1> DEFINE Goal == bpc' \in [BThreads -> Anywhere] /\ \A t \in BThreads : bpc'[t] \in Places(t)
<1>0. bpc \in [BThreads -> Anywhere] /\ \A t \in BThreads : bpc[t] \in Places(t) BY DEF BTyped
<1>a. CASE UNCHANGED bpc BY <1>0, <1>a
<1>b. ASSUME NEW t \in BThreads, NEW q \in Places(t), bpc' = [bpc EXCEPT ![t] = q] PROVE Goal
  BY <1>0, <1>b, OneMoves
<1> HIDE DEF Goal
<1>1. CASE \/ \E t \in BThreads : Switch(t)
           \/ Sigint \/ Interrupted
           \/ \E t \in Loops : Keep(t)
           \/ \E t \in Others : Stop(t)
  BY <1>1, <1>a DEF Switch, Sigint, Interrupted, Keep, Stop, Goal
<1>2. CASE Poll \/ Back
  <2>1. \/ bpc' = [bpc EXCEPT ![Main] = "loop"] \/ bpc' = [bpc EXCEPT ![Main] = "py"]
    BY <1>2 DEF Poll, Back, BGoto
  <2>2. Main \in BThreads /\ "loop" \in Places(Main) /\ "py" \in Places(Main) OBVIOUS
  <2> QED BY <1>b, <2>1, <2>2 DEF Goal
<1>3. CASE Run
  <2>1. bpc' = [t \in BThreads |-> CASE t = Main -> "run" [] t \in Workers -> "start"
                                    [] OTHER -> bpc[t]]
    BY <1>3 DEF Run
  <2>2. \A t \in BThreads : bpc'[t] = IF t = Main THEN "run" ELSE IF t \in Workers THEN "start"
                                      ELSE bpc[t]
    BY <2>1
  <2>3. \A t \in BThreads : bpc'[t] \in Places(t) BY <1>0, <2>2
  <2> QED BY <2>1, <2>3 DEF Goal
<1>4. ASSUME NEW w \in Workers, WorkerStart(w) \/ WorkerStop(w) PROVE Goal
  BY <1>4, <1>b DEF WorkerStart, WorkerStop, BGoto
<1>5. ASSUME NEW t \in Loops, Call(t) \/ Return(t) \/ HandlerGone(t) \/ DropHandler(t)
      PROVE  Goal
  <2>1. "loop" \in Places(t) /\ "fn" \in Places(t) /\ "del" \in Places(Main) BY DEF Loops
  <2> QED BY <1>5, <1>b, <2>1 DEF Call, Return, DropHandler, HandlerGone, BGoto
<1>6. ASSUME NEW t \in Loops, HandlerEnds(t) PROVE Goal
  <2>1. "ret" \in Places(t) /\ "error" \in Places(t) /\ "intr" \in Places(Main) BY DEF Loops
  <2> QED BY <1>6, <1>b, <2>1 DEF HandlerEnds, BGoto
<1>7. ASSUME NEW t \in Loops, Consume(t) PROVE Goal
  <2>1. "ret" \in Places(t) BY DEF Loops
  <2> QED BY <1>7, <1>b, <2>1 DEF Consume
<1>8. ASSUME NEW t \in Others, Used(t) \/ \E b \in Calls : Get(t, b) PROVE Goal
  BY <1>8, <1>b DEF Used, Get, BGoto
<1> QED BY <1>1, <1>2, <1>3, <1>4, <1>5, <1>6, <1>7, <1>8 DEF BindingNext, Goal

\* The other types.
LEMMA CountersTyped ==
    ASSUME BTyped, BindingNext
    PROVE  /\ attached' \subseteq BThreads
           /\ states' \in [BThreads -> Int] /\ made' \in [BThreads -> Nat]
<1> USE Kinds
<1> DEFINE Goal == /\ attached' \subseteq BThreads
                   /\ states' \in [BThreads -> Int] /\ made' \in [BThreads -> Nat]
<1>0. attached \subseteq BThreads /\ states \in [BThreads -> Int] /\ made \in [BThreads -> Nat]
  BY DEF BTyped
<1>1. CASE UNCHANGED interpreter BY <1>0, <1>1 DEF interpreter
<1>2. ASSUME NEW t \in BThreads, UNCHANGED <<states, made>>,
             attached' \subseteq attached \cup {t}
      PROVE  Goal
  BY <1>0, <1>2
<1>3. ASSUME NEW t \in BThreads, Ensure(t) PROVE Goal
  BY <1>0, <1>3 DEF Ensure
<1>4. ASSUME NEW t \in BThreads, Release(t) PROVE Goal
  BY <1>0, <1>4 DEF Release
<1> HIDE DEF Goal
<1>5. CASE Sigint \/ Interrupted \/ \E t \in Others : Stop(t) \/ Used(t) \/ \E b \in Calls : Get(t, b)
  BY <1>5, <1>1 DEF Sigint, Interrupted, Stop, Used, Get
<1>6. CASE \/ \E t \in BThreads : Switch(t)
           \/ Poll \/ Back
  <2>1. UNCHANGED <<states, made>> BY <1>6 DEF Switch, Poll, Back
  <2>2. \E t \in BThreads : attached' \subseteq attached \cup {t}
    BY <1>6 DEF Switch, Poll, Back, LetGo
  <2> QED BY <1>2, <2>1, <2>2 DEF Goal
<1>7. CASE Run
  <2>1. attached' \subseteq attached /\ states' = states /\ made' = [t \in BThreads |-> 0]
    BY <1>7 DEF Run, LetGo
  <2> QED BY <1>0, <2>1 DEF Goal
<1>8. ASSUME NEW w \in Workers, WorkerStart(w) PROVE Goal
  <2>1. attached' = attached /\ Registered(w) BY <1>8 DEF WorkerStart
  <2> QED BY <1>0, <2>1 DEF Registered, Goal
<1>9. ASSUME NEW w \in Workers, WorkerStop(w) PROVE Goal
  <2>1. /\ attached' = attached /\ made' = made
        /\ states' = [states EXCEPT ![w] = IF @ > 0 THEN @ - 1 ELSE 0]
    BY <1>9 DEF WorkerStop
  <2> QED BY <1>0, <2>1 DEF Goal
<1>10. ASSUME NEW t \in Loops,
              \/ Call(t) \/ Return(t) \/ DropHandler(t) \/ HandlerGone(t)
              \/ Keep(t) \/ HandlerEnds(t) \/ Consume(t)
       PROVE  Goal
  <2>1. Ensure(t) \/ Release(t) \/ UNCHANGED interpreter
    BY <1>10 DEF Call, Return, DropHandler, HandlerGone, Keep, HandlerEnds, Consume
  <2>2. t \in BThreads OBVIOUS
  <2> QED BY <1>1, <1>3, <1>4, <2>1, <2>2 DEF Goal
<1> QED BY <1>5, <1>6, <1>7, <1>8, <1>9, <1>10 DEF BindingNext, Goal

\* So the types are kept.
LEMMA BTypedNext ==
    ASSUME BTyped, BindingNext
    PROVE  BTyped'
<1> USE Kinds
<1>1. ncalls' \in [Loops -> Nat]
  <2>1. ncalls \in [Loops -> Nat] BY DEF BTyped
  <2>2. ncalls' = ncalls \/ \E t \in Loops : ncalls' = [ncalls EXCEPT ![t] = @ + 1]
    BY DEF BindingNext, Switch, Sigint, Interrupted, Poll, Run, Back, WorkerStart, WorkerStop,
           Call, Keep, HandlerEnds, Consume, Return, DropHandler, HandlerGone, Stop, Used, Get,
           borrowed
  <2> QED BY <2>1, <2>2
<1>2. tripped' \in BOOLEAN /\ owed' \in BOOLEAN
  <2>1. tripped \in BOOLEAN /\ owed \in BOOLEAN BY DEF BTyped
  <2>2. /\ (tripped' \in {tripped, TRUE, FALSE} \/ \E t \in Loops : tripped' = RaiseAgain(t))
        /\ owed' \in {owed, TRUE, FALSE}
    BY DEF BindingNext, Switch, Sigint, Interrupted, Poll, Run, Back, WorkerStart, WorkerStop,
           Call, Keep, HandlerEnds, Consume, Return, DropHandler, HandlerGone, Stop, Used, Get,
           borrowed, signal
  <2> QED BY <2>1, <2>2 DEF RaiseAgain
<1>3. using' \in [Others -> Calls \cup {NoCall}]
  <2>1. using \in [Others -> Calls \cup {NoCall}] BY DEF BTyped
  <2>2. \/ using' = using
        \/ \E t \in Others : \E b \in Calls \cup {NoCall} : using' = [using EXCEPT ![t] = b]
    BY DEF BindingNext, Switch, Sigint, Interrupted, Poll, Run, Back, WorkerStart, WorkerStop,
           Call, Keep, HandlerEnds, Consume, Return, DropHandler, HandlerGone, Stop, Used, Get,
           borrowed
  <2> QED BY <2>1, <2>2
<1> QED BY <1>1, <1>2, <1>3, PlacesNext, CountersTyped DEF BTyped

-----------------------------------------------------------------------------
\* A step as threads see it: one of them is attached or detached where it is,
\* or moves and is attached, stays attached, is detached or stays detached; or
\* run() starts the workers.
LEMMA Ways ==
    ASSUME BTyped, Attachment, BindingNext
    PROVE  \/ UNCHANGED <<bpc, attached>>
           \/ \E t \in BThreads :
                 /\ bpc[t] \in {"py", "fn"} /\ UNCHANGED bpc
                 /\ \/ attached' = attached \ {t}
                    \/ Free /\ attached' = attached \cup {t}
           \/ \E t \in BThreads : \E q \in Anywhere :
                 /\ bpc' = [bpc EXCEPT ![t] = q]
                 /\ \/ q \in {"use", "py", "ret", "error", "intr"} /\ t \in attached
                       /\ attached' = attached
                    \/ q \in {"py", "fn", "del"} /\ Free /\ attached' = attached \cup {t}
                    \/ q = "loop" /\ attached' = attached \ {t}
                    \/ q \in {"loop", "off"} /\ t \notin attached /\ attached' = attached
           \/ Run
<1> USE Kinds
<1> DEFINE Moves(t, q) == /\ bpc' = [bpc EXCEPT ![t] = q]
                          /\ \/ q \in {"use", "py", "ret", "error", "intr"} /\ t \in attached
                                /\ attached' = attached
                             \/ q \in {"py", "fn", "del"} /\ Free /\ attached' = attached \cup {t}
                             \/ q = "loop" /\ attached' = attached \ {t}
                             \/ q \in {"loop", "off"} /\ t \notin attached /\ attached' = attached
           Goal == \/ UNCHANGED <<bpc, attached>>
                   \/ \E t \in BThreads :
                         /\ bpc[t] \in {"py", "fn"} /\ UNCHANGED bpc
                         /\ \/ attached' = attached \ {t}
                            \/ Free /\ attached' = attached \cup {t}
                   \/ \E t \in BThreads : \E q \in Anywhere : Moves(t, q)
                   \/ Run
<1>a. ASSUME NEW t \in BThreads, NEW q \in Anywhere, Moves(t, q) PROVE Goal BY <1>a
<1>b. Anywhere = {"py", "use", "off", "start", "run", "loop", "del",
                  "fn", "error", "intr", "ret"}
  BY DEF Anywhere, Handling
<1>c. \A t \in BThreads :
          /\ bpc[t] \in {"use", "ret", "error", "intr", "del"} => t \in attached
          /\ bpc[t] \in {"off", "start", "loop", "run"} => t \notin attached
  BY DEF Attachment
<1>1. CASE \/ Sigint \/ Interrupted
           \/ \E t \in Loops : Keep(t)
           \/ \E t \in Others : Stop(t)
  BY <1>1 DEF Sigint, Interrupted, Keep, Stop, interpreter
<1>2. ASSUME NEW t \in BThreads, Switch(t) PROVE Goal
  BY <1>2 DEF Switch
<1>3. CASE Poll
  <2>1. Moves(Main, "loop") BY <1>3 DEF Poll, BGoto, LetGo
  <2> QED BY <1>a, <1>b, <2>1
<1>4. CASE Back
  <2>1. Moves(Main, "py") BY <1>4 DEF Back, BGoto
  <2> QED BY <1>a, <1>b, <2>1
<1>5. ASSUME NEW w \in Workers, WorkerStart(w) \/ WorkerStop(w) PROVE Goal
  <2>1. CASE WorkerStart(w)
    <3>1. Moves(w, "loop") BY <1>c, <2>1 DEF WorkerStart, BGoto
    <3> QED BY <1>a, <1>b, <3>1
  <2>2. CASE WorkerStop(w)
    <3>1. Moves(w, "off") BY <1>c, <2>2 DEF WorkerStop, BGoto
    <3> QED BY <1>a, <1>b, <3>1
  <2> QED BY <1>5, <2>1, <2>2
<1>6. ASSUME NEW t \in Loops, Call(t) PROVE Goal
  <2>1. Moves(t, "fn") BY <1>6 DEF Call, BGoto, Ensure
  <2> QED BY <1>a, <1>b, <2>1
<1>7. ASSUME NEW t \in Loops, DropHandler(t) PROVE Goal
  <2>1. Moves(t, "del") BY <1>7 DEF DropHandler, BGoto, Ensure
  <2> QED BY <1>a, <1>b, <2>1
<1>8. ASSUME NEW t \in Loops, Return(t) \/ HandlerGone(t) PROVE Goal
  <2>1. Moves(t, "loop") BY <1>8 DEF Return, HandlerGone, BGoto, Release
  <2> QED BY <1>a, <1>b, <2>1
<1>9. ASSUME NEW t \in Loops, HandlerEnds(t) \/ Consume(t) PROVE Goal
  <2>1. t \in attached /\ attached' = attached
    BY <1>9, <1>c DEF HandlerEnds, Consume, interpreter
  <2>2. \E q \in {"ret", "error", "intr"} : bpc' = [bpc EXCEPT ![t] = q]
    BY <1>9 DEF HandlerEnds, Consume, BGoto
  <2>3. PICK q \in {"ret", "error", "intr"} : bpc' = [bpc EXCEPT ![t] = q] BY <2>2
  <2>4. Moves(t, q) BY <2>1, <2>3
  <2> QED BY <1>a, <1>b, <2>4
<1>10. ASSUME NEW t \in Others, NEW b \in Calls, Get(t, b) PROVE Goal
  <2>1. Moves(t, "use") BY <1>10 DEF Get, BGoto, Python, interpreter
  <2> QED BY <1>a, <1>b, <2>1
<1>11. ASSUME NEW t \in Others, Used(t) PROVE Goal
  <2>1. t \in attached BY <1>11, <1>c DEF Used, BGoto
  <2>2. Moves(t, "py") BY <1>11, <2>1 DEF Used, BGoto, interpreter
  <2> QED BY <1>a, <1>b, <2>2
<1> QED
  BY <1>1, <1>2, <1>3, <1>4, <1>5, <1>6, <1>7, <1>8, <1>9, <1>10, <1>11 DEF BindingNext

\* Threads stay attached and detached as what they do wants it, one at a time
\* under the lock.
LEMMA AttachmentNext ==
    ASSUME BTyped, Attachment, WorkersWithin, BindingNext
    PROVE  Attachment'
<1> DEFINE A == {"use", "ret", "error", "intr", "del"}
           D == {"off", "start", "loop", "run"}
<1>1. /\ bpc \in [BThreads -> Anywhere] /\ attached \subseteq BThreads
      /\ \A t \in BThreads : (bpc[t] \in A => t \in attached) /\ (bpc[t] \in D => t \notin attached)
      /\ Gil => \A s, t \in attached : s = t
  BY DEF BTyped, Attachment
<1>2. CASE UNCHANGED <<bpc, attached>> BY <1>1, <1>2 DEF Attachment
<1>3. ASSUME NEW t \in BThreads, bpc[t] \in {"py", "fn"}, UNCHANGED bpc,
             attached' = attached \ {t} \/ (Free /\ attached' = attached \cup {t})
      PROVE  Attachment'
  BY <1>1, <1>3 DEF Attachment, Free
<1>4. ASSUME NEW t \in BThreads, NEW q \in Anywhere, bpc' = [bpc EXCEPT ![t] = q],
             \/ q \in {"use", "py", "ret", "error", "intr"} /\ t \in attached
                /\ attached' = attached
             \/ q \in {"py", "fn", "del"} /\ Free /\ attached' = attached \cup {t}
             \/ q = "loop" /\ attached' = attached \ {t}
             \/ q \in {"loop", "off"} /\ t \notin attached /\ attached' = attached
      PROVE  Attachment'
  <2>1. bpc'[t] = q /\ \A s \in BThreads \ {t} : bpc'[s] = bpc[s] BY <1>1, <1>4
  <2>2. \A s \in BThreads \ {t} : s \in attached' <=> s \in attached BY <1>4
  <2>3. (q \in A => t \in attached') /\ (q \in D => t \notin attached') BY <1>4
  <2>4. Gil => \A r, s \in attached' : r = s BY <1>1, <1>4 DEF Free
  <2> QED BY <1>1, <2>1, <2>2, <2>3, <2>4 DEF Attachment
<1>5. CASE Run
  <2>1. attached' = attached \ {Main} /\ Main \in attached BY <1>5 DEF Run, LetGo, Python
  <2>2. \A t \in BThreads : bpc'[t] = CASE t = Main -> "run" [] t \in Workers -> "start"
                                        [] OTHER -> bpc[t]
    BY <1>5 DEF Run
  <2>3. \A t \in BThreads : bpc'[t] = IF t = Main THEN "run"
                                      ELSE IF t \in Workers THEN "start" ELSE bpc[t]
    BY <2>2, Kinds
  <2>4. \A w \in Workers : w \notin attached
    BY <1>1, <1>5, Kinds DEF Run, Python, WorkersWithin
  <2> QED BY <1>1, <2>1, <2>3, <2>4 DEF Attachment
<1> QED BY <1>2, <1>3, <1>4, <1>5, Ways

\* The counters of the workers.
LEMMA CountersNext ==
    ASSUME BTyped, Counters, WorkersWithin, BindingNext
    PROVE  Counters'
<1> USE Kinds
<1> DEFINE Count(p) == IF p \in {"off", "start"} THEN 0 ELSE IF p = "loop" THEN 1 ELSE 2
           Good(w) == states[w] = Count(bpc[w]) /\ made[w] <= IF bpc[w] = "start" THEN 0 ELSE 1
<1>0. /\ bpc \in [BThreads -> Anywhere]
      /\ states \in [BThreads -> Int] /\ made \in [BThreads -> Nat]
  BY DEF BTyped
<1>1. /\ \A w \in Workers : Good(w)
      /\ (\A w \in Workers : Good(w)') => Counters'
  BY DEF Counters
<1>a. CASE UNCHANGED <<bpc, states, made>> BY <1>0, <1>1, <1>a
<1>b. ASSUME NEW t \in BThreads \ Workers, NEW q,
             bpc' = [bpc EXCEPT ![t] = q] \/ UNCHANGED bpc,
             Ensure(t) \/ Release(t) \/ UNCHANGED <<states, made>>
      PROVE  Counters'
  <2>1. \A w \in Workers : bpc'[w] = bpc[w] /\ states'[w] = states[w] /\ made'[w] = made[w]
    BY <1>0, <1>b DEF Ensure, Release
  <2> QED BY <1>1, <2>1
<1>c. ASSUME NEW t \in Workers, NEW q, bpc' = [bpc EXCEPT ![t] = q],
             states'[t] = Count(q), made'[t] <= 1, q # "start",
             \A w \in Workers \ {t} : states'[w] = states[w] /\ made'[w] = made[w]
      PROVE  Counters'
  <2>1. \A w \in Workers \ {t} : bpc'[w] = bpc[w] BY <1>0, <1>c
  <2>2. bpc'[t] = q BY <1>0, <1>c
  <2> QED BY <1>1, <1>c, <2>1, <2>2
<1>2. CASE \/ Sigint \/ Interrupted
           \/ \E t \in BThreads : Switch(t)
           \/ \E t \in Loops : Keep(t)
           \/ \E t \in Others : Stop(t)
  BY <1>2, <1>a DEF Sigint, Interrupted, Switch, Keep, Stop, interpreter
<1>3. CASE Poll \/ Back
  <2>1. UNCHANGED <<states, made>> /\ \E q \in Anywhere : bpc' = [bpc EXCEPT ![Main] = q]
    BY <1>3 DEF Poll, Back, BGoto, Anywhere
  <2> QED BY <1>b, <2>1
<1>4. CASE Run
  <2>1. /\ states' = states
        /\ bpc[Main] = "py" /\ \A w \in Workers : made'[w] = 0
    BY <1>4 DEF Run, Python
  <2>2. bpc' = [t \in BThreads |-> CASE t = Main -> "run" [] t \in Workers -> "start"
                                    [] OTHER -> bpc[t]]
    BY <1>4 DEF Run
  <2>3. \A w \in Workers : bpc'[w] = "start" BY <2>2
  <2>4. \A w \in Workers : bpc[w] = "off" BY <2>1 DEF WorkersWithin
  <2> QED BY <1>1, <2>1, <2>3, <2>4
<1>5. ASSUME NEW w \in Workers, WorkerStart(w) PROVE Counters'
  <2>1. bpc[w] = "start" /\ bpc' = [bpc EXCEPT ![w] = "loop"] BY <1>5 DEF WorkerStart, BGoto
  <2>2. states[w] = 0 /\ made[w] <= 0 BY <1>1, <2>1
  <2>3. states'[w] = 1 /\ made'[w] <= 1
    BY <1>0, <1>5, <2>2 DEF WorkerStart, Registered
  <2>4. \A v \in Workers \ {w} : states'[v] = states[v] /\ made'[v] = made[v]
    BY <1>0, <1>5 DEF WorkerStart, Registered
  <2> QED BY <1>c, <2>1, <2>3, <2>4
<1>6. ASSUME NEW w \in Workers, WorkerStop(w) PROVE Counters'
  <2>1. bpc[w] = "loop" /\ bpc' = [bpc EXCEPT ![w] = "off"] BY <1>6 DEF WorkerStop, BGoto
  <2>2. states[w] = 1 /\ made[w] <= 1 BY <1>1, <2>1
  <2>3. states'[w] = 0 /\ made' = made BY <1>0, <1>6, <2>2 DEF WorkerStop
  <2>4. \A v \in Workers \ {w} : states'[v] = states[v] BY <1>0, <1>6 DEF WorkerStop
  <2> QED BY <1>c, <2>1, <2>2, <2>3, <2>4
<1>7. ASSUME NEW t \in Loops, Call(t) PROVE Counters'
  <2>1. bpc[t] = "loop" /\ bpc' = [bpc EXCEPT ![t] = "fn"] /\ Ensure(t)
    BY <1>7 DEF Call, BGoto
  <2>2. CASE t \in Workers
    <3>1. states[t] = 1 /\ made[t] <= 1 BY <1>1, <2>1, <2>2
    <3>2. states'[t] = 2 /\ made'[t] <= 1 BY <1>0, <2>1, <3>1 DEF Ensure
    <3>3. \A v \in Workers \ {t} : states'[v] = states[v] /\ made'[v] = made[v]
      BY <1>0, <2>1 DEF Ensure
    <3> QED BY <1>c, <2>1, <2>2, <3>2, <3>3
  <2>3. CASE t \notin Workers BY <1>b, <2>1, <2>3
  <2> QED BY <2>2, <2>3
<1>8. ASSUME NEW t \in Loops, Return(t) PROVE Counters'
  <2>1. bpc[t] = "ret" /\ bpc' = [bpc EXCEPT ![t] = "loop"] /\ Release(t)
    BY <1>8 DEF Return, BGoto
  <2>2. CASE t \in Workers
    <3>1. states[t] = 2 /\ made[t] <= 1 BY <1>1, <2>1, <2>2
    <3>2. states'[t] = 1 /\ made' = made BY <1>0, <2>1, <3>1 DEF Release
    <3>3. \A v \in Workers \ {t} : states'[v] = states[v] BY <1>0, <2>1 DEF Release
    <3> QED BY <1>c, <2>1, <2>2, <3>1, <3>2, <3>3
  <2>3. CASE t \notin Workers BY <1>b, <2>1, <2>3
  <2> QED BY <2>2, <2>3
<1>9. ASSUME NEW t \in Loops, HandlerEnds(t) \/ Consume(t) PROVE Counters'
  <2>1. UNCHANGED <<states, made>> BY <1>9 DEF HandlerEnds, Consume, interpreter
  <2>2. bpc[t] \in {"fn", "error", "intr"} BY <1>9 DEF HandlerEnds, Consume, BGoto
  <2>3. \E q \in {"ret", "error", "intr"} : bpc' = [bpc EXCEPT ![t] = q]
    BY <1>9 DEF HandlerEnds, Consume, BGoto
  <2>4. PICK q \in {"ret", "error", "intr"} : bpc' = [bpc EXCEPT ![t] = q] BY <2>3
  <2>5. CASE t \in Workers
    <3>1. states[t] = 2 /\ made[t] <= 1 BY <1>1, <2>2, <2>5
    <3>2. Count(q) = 2 /\ q # "start" BY <2>4
    <3> QED BY <1>c, <2>1, <2>4, <2>5, <3>1, <3>2
  <2>6. CASE t \notin Workers BY <1>b, <2>1, <2>4, <2>6
  <2> QED BY <2>5, <2>6
<1>10. ASSUME NEW t \in Loops, DropHandler(t) \/ HandlerGone(t) PROVE Counters'
  <2>1. Ensure(t) \/ Release(t) BY <1>10 DEF DropHandler, HandlerGone
  <2>2. \E q \in {"del", "loop"} : bpc' = [bpc EXCEPT ![t] = q]
    BY <1>10 DEF DropHandler, HandlerGone, BGoto
  <2>3. bpc[t] = "del" \/ t = Main BY <1>10 DEF DropHandler, HandlerGone, BGoto
  <2>4. t \notin Workers BY <2>3, PlacesAre DEF BTyped
  <2> QED BY <1>b, <2>1, <2>2, <2>4
<1>11. ASSUME NEW t \in Others, Used(t) \/ \E b \in Calls : Get(t, b) PROVE Counters'
  <2>1. UNCHANGED <<states, made>> BY <1>11 DEF Used, Get, interpreter
  <2>2. \E q \in {"py", "use"} : bpc' = [bpc EXCEPT ![t] = q] BY <1>11 DEF Used, Get, BGoto
  <2>3. t \in BThreads \ Workers OBVIOUS
  <2> QED BY <1>b, <2>1, <2>2, <2>3
<1> QED
  BY <1>2, <1>3, <1>4, <1>5, <1>6, <1>7, <1>8, <1>9, <1>10, <1>11 DEF BindingNext

\* Workers run within run().
LEMMA WithinNext ==
    ASSUME BTyped, WorkersWithin, BindingNext
    PROVE  WorkersWithin'
<1> USE Kinds
<1> SUFFICES ASSUME bpc'[Main] # "run", NEW w \in Workers PROVE bpc'[w] = "off"
  BY DEF WorkersWithin
<1>0. bpc \in [BThreads -> Anywhere] BY DEF BTyped
<1>1. CASE bpc[Main] = "run"
  <2>1. bpc' # bpc BY <1>1
  <2>2. Back /\ bpc[Main] = "run"
    BY <1>1, <2>1, <1>0
    DEF BindingNext, Switch, Sigint, Interrupted, Poll, Run, Back, WorkerStart, WorkerStop,
        Call, Keep, HandlerEnds, Consume, Return, DropHandler, HandlerGone, Stop, Used, Get,
        BGoto, Python
  <2>3. bpc' = [bpc EXCEPT ![Main] = "py"] /\ bpc[w] = "off" BY <2>2 DEF Back, BGoto
  <2> QED BY <1>0, <2>3
<1>2. CASE bpc[Main] # "run"
  <2>1. \A v \in Workers : bpc[v] = "off" BY <1>2 DEF WorkersWithin
  <2>2. bpc'[w] = bpc[w]
    BY <1>0, <1>2, <2>1
    DEF BindingNext, Switch, Sigint, Interrupted, Poll, Run, Back, WorkerStart, WorkerStop,
        Call, Keep, HandlerEnds, Consume, Return, DropHandler, HandlerGone, Stop, Used, Get,
        BGoto, Python
  <2> QED BY <2>1, <2>2
<1> QED BY <1>1, <1>2

\* A SIGINT that a handler raised as KeyboardInterrupt is set again.
LEMMA RememberedNext ==
    ASSUME BTyped, Remembered, BindingNext
    PROVE  Remembered'
<1> USE Kinds
<1>0. bpc \in [BThreads -> Anywhere] BY DEF BTyped
<1>1. CASE Sigint \/ Interrupted
  BY <1>1 DEF Sigint, Interrupted, Remembered
<1>2. ASSUME NEW t \in Loops, HandlerEnds(t) PROVE Remembered'
  <2>1. owed' = owed /\ bpc[t] = "fn" BY <1>2 DEF HandlerEnds, BGoto
  <2>2. CASE tripped' = tripped /\ \E q \in Anywhere : bpc' = [bpc EXCEPT ![t] = q]
    <3>1. t = Main => bpc[Main] # "intr" BY <2>1
    <3>2. t # Main => bpc'[Main] = bpc[Main] BY <1>0, <2>2
    <3> QED BY <2>1, <2>2, <3>1, <3>2 DEF Remembered
  <2>3. CASE t = Main /\ bpc' = [bpc EXCEPT ![t] = "intr"]
    <3>1. bpc'[Main] = "intr" BY <1>0, <2>3
    <3> QED BY <3>1 DEF Remembered
  <2> QED BY <1>2, <2>2, <2>3 DEF HandlerEnds, BGoto, Anywhere, Handling
<1>3. ASSUME NEW t \in Loops, Consume(t) PROVE Remembered'
  <2>1. /\ owed' = owed /\ bpc' = [bpc EXCEPT ![t] = "ret"]
        /\ tripped' = (bpc[t] = "intr" \/ tripped)
    BY <1>3 DEF Consume, RaiseAgain
  <2>2. t # Main => bpc'[Main] = bpc[Main] BY <1>0, <2>1
  <2> QED BY <2>1, <2>2 DEF Remembered
<1>4. CASE /\ UNCHANGED signal
           /\ bpc'[Main] = bpc[Main] \/ bpc[Main] # "intr"
  BY <1>4 DEF Remembered, signal
<1>5. CASE Run
  BY <1>5, <1>4 DEF Run, Python
<1>6. ASSUME NEW t \in BThreads, NEW q, bpc' = [bpc EXCEPT ![t] = q], t # Main \/ bpc[t] # "intr",
             UNCHANGED signal
      PROVE  Remembered'
  BY <1>0, <1>4, <1>6
<1>7. ASSUME NEW t \in BThreads, Switch(t) PROVE Remembered'
  BY <1>4, <1>7 DEF Switch
<1>8. ASSUME NEW t \in Others, Stop(t) PROVE Remembered'
  BY <1>4, <1>8 DEF Stop
<1>9. ASSUME NEW t \in Loops, Keep(t) PROVE Remembered'
  BY <1>4, <1>9 DEF Keep
<1>10. CASE Poll \/ Back
  <2>1. UNCHANGED signal /\ bpc[Main] # "intr" BY <1>10 DEF Poll, Back, BGoto
  <2> QED BY <1>4, <2>1
<1>11. ASSUME NEW w \in Workers, WorkerStart(w) \/ WorkerStop(w) PROVE Remembered'
  <2>1. UNCHANGED signal /\ \E q \in Anywhere : bpc' = [bpc EXCEPT ![w] = q]
    BY <1>11 DEF WorkerStart, WorkerStop, BGoto, Anywhere
  <2> QED BY <1>6, <2>1
<1>12. ASSUME NEW t \in Loops, Call(t) \/ Return(t) \/ DropHandler(t) \/ HandlerGone(t)
       PROVE  Remembered'
  <2>1. UNCHANGED signal /\ bpc[t] # "intr" /\ \E q \in Anywhere : bpc' = [bpc EXCEPT ![t] = q]
    BY <1>12 DEF Call, Return, DropHandler, HandlerGone, BGoto, Anywhere, Handling
  <2> QED BY <1>6, <2>1
<1>13. ASSUME NEW t \in Others, Used(t) \/ \E b \in Calls : Get(t, b) PROVE Remembered'
  <2>1. UNCHANGED signal /\ \E q \in Anywhere : bpc' = [bpc EXCEPT ![t] = q]
    BY <1>13 DEF Used, Get, BGoto, Anywhere
  <2> QED BY <1>6, <2>1
<1> QED
  BY <1>1, <1>2, <1>3, <1>5, <1>7, <1>8, <1>9, <1>10, <1>11, <1>12, <1>13 DEF BindingNext

-----------------------------------------------------------------------------
\* The steps that matter to what is lent: a call begins or ends, or the threads
\* that handle an event and the calls they handle stay as they are.
LEMMA Lending ==
    ASSUME BTyped, WorkersWithin, BindingNext
    PROVE  \/ \E t \in Loops : Call(t) \/ Return(t)
           \/ /\ UNCHANGED <<ncalls, alive>>
              /\ \A l \in Loops : bpc[l] \in Handling => bpc'[l] \in Handling
<1> USE Kinds
<1>0. bpc \in [BThreads -> Anywhere] BY DEF BTyped
<1> DEFINE Goal == /\ UNCHANGED <<ncalls, alive>>
                   /\ \A l \in Loops : bpc[l] \in Handling => bpc'[l] \in Handling
<1>a. CASE UNCHANGED <<ncalls, alive, bpc>> BY <1>a
<1>b. ASSUME NEW t \in BThreads, NEW q, bpc' = [bpc EXCEPT ![t] = q],
             bpc[t] \notin Handling \/ q \in Handling, UNCHANGED <<ncalls, alive>>
      PROVE  Goal
  BY <1>0, <1>b
<1>1. CASE \/ Sigint \/ Interrupted
           \/ \E t \in BThreads : Switch(t)
           \/ \E t \in Loops : Keep(t)
           \/ \E t \in Others : Stop(t)
  BY <1>1, <1>a DEF Sigint, Interrupted, Switch, Keep, Stop, borrowed
<1>2. CASE Poll \/ Back
  <2>1. UNCHANGED <<ncalls, alive>> /\ bpc[Main] \notin Handling
    BY <1>2 DEF Poll, Back, BGoto, borrowed, Handling
  <2>2. \E q \in Anywhere : bpc' = [bpc EXCEPT ![Main] = q]
    BY <1>2 DEF Poll, Back, BGoto, Anywhere
  <2> QED BY <1>b, <2>1, <2>2
<1>3. ASSUME NEW w \in Workers, WorkerStart(w) \/ WorkerStop(w) PROVE Goal
  <2>1. UNCHANGED <<ncalls, alive>> /\ bpc[w] \notin Handling
    BY <1>3 DEF WorkerStart, WorkerStop, BGoto, borrowed, Handling
  <2>2. \E q \in Anywhere : bpc' = [bpc EXCEPT ![w] = q]
    BY <1>3 DEF WorkerStart, WorkerStop, BGoto, Anywhere
  <2> QED BY <1>b, <2>1, <2>2
<1>4. ASSUME NEW t \in Loops, HandlerEnds(t) \/ Consume(t) PROVE Goal
  <2>1. UNCHANGED <<ncalls, alive>> BY <1>4 DEF HandlerEnds, Consume, borrowed
  <2>2. \E q \in Handling : bpc' = [bpc EXCEPT ![t] = q]
    BY <1>4 DEF HandlerEnds, Consume, BGoto, Handling
  <2> QED BY <1>b, <2>1, <2>2
<1>5. ASSUME NEW t \in Loops, DropHandler(t) \/ HandlerGone(t) PROVE Goal
  <2>1. UNCHANGED <<ncalls, alive>> /\ bpc[t] \notin Handling
    BY <1>5 DEF DropHandler, HandlerGone, BGoto, borrowed, Handling
  <2>2. \E q \in Anywhere : bpc' = [bpc EXCEPT ![t] = q]
    BY <1>5 DEF DropHandler, HandlerGone, BGoto, Anywhere
  <2> QED BY <1>b, <2>1, <2>2
<1>6. ASSUME NEW t \in Others, Used(t) \/ \E b \in Calls : Get(t, b) PROVE Goal
  <2>1. UNCHANGED <<ncalls, alive>> /\ bpc[t] \notin Handling
    BY <1>6 DEF Used, Get, BGoto, Handling
  <2>2. \E q \in Anywhere : bpc' = [bpc EXCEPT ![t] = q] BY <1>6 DEF Used, Get, BGoto, Anywhere
  <2> QED BY <1>b, <2>1, <2>2
<1>7. CASE Run
  <2>1. UNCHANGED <<ncalls, alive>> /\ bpc[Main] = "py" BY <1>7 DEF Run, Python, borrowed
  <2>2. \A l \in Loops : bpc[l] \notin Handling
    BY <2>1 DEF WorkersWithin, Loops, Handling
  <2> QED BY <2>1, <2>2
<1> QED BY <1>1, <1>2, <1>3, <1>4, <1>5, <1>6, <1>7 DEF BindingNext

\* The token of a call is made true when it begins and false when it ends.
LEMMA TokensNext ==
    ASSUME BTyped, WorkersWithin, TokensLive, BindingNext
    PROVE  TokensLive'
<1>0. bpc \in [BThreads -> Anywhere] /\ ncalls \in [Loops -> Nat] /\ Loops \subseteq BThreads
  BY Kinds DEF BTyped
<1>1. ASSUME NEW t \in Loops, Call(t) PROVE TokensLive'
  <2>1. /\ bpc[t] = "loop" /\ bpc' = [bpc EXCEPT ![t] = "fn"]
        /\ ncalls' = [ncalls EXCEPT ![t] = @ + 1]
        /\ alive' = alive \cup {<<t, ncalls[t] + 1>>}
    BY <1>1 DEF Call, BGoto
  <2>2. <<t, ncalls[t] + 1>> = Lent(t)' /\ bpc'[t] \in Handling
    BY <1>0, <2>1 DEF Lent, Handling
  <2>3. \A l \in Loops \ {t} : Lent(l)' = Lent(l) /\ bpc'[l] = bpc[l]
    BY <1>0, <2>1 DEF Lent
  <2>4. bpc[t] \notin Handling BY <2>1 DEF Handling
  <2>5. ASSUME NEW b \in alive PROVE \E l \in Loops : b = Lent(l)' /\ bpc'[l] \in Handling
    <3>1. PICK l \in Loops : b = Lent(l) /\ bpc[l] \in Handling BY DEF TokensLive
    <3>2. l # t BY <3>1, <2>4
    <3> QED BY <2>3, <3>1, <3>2
  <2> QED BY <2>1, <2>2, <2>5 DEF TokensLive
<1>2. ASSUME NEW t \in Loops, Return(t) PROVE TokensLive'
  <2>1. /\ bpc' = [bpc EXCEPT ![t] = "loop"] /\ ncalls' = ncalls
        /\ alive' = alive \ {Lent(t)}
    BY <1>2 DEF Return, Expire, BGoto
  <2>2. \A l \in Loops : Lent(l)' = Lent(l) BY <2>1 DEF Lent
  <2>3. ASSUME NEW b \in alive' PROVE \E l \in Loops : b = Lent(l)' /\ bpc'[l] \in Handling
    <3>1. PICK l \in Loops : b = Lent(l) /\ bpc[l] \in Handling BY <2>1 DEF TokensLive
    <3>2. l # t BY <2>1, <3>1
    <3>3. bpc'[l] = bpc[l] BY <1>0, <2>1, <3>2
    <3> QED BY <2>2, <3>1, <3>3
  <2> QED BY <2>3 DEF TokensLive
<1>3. CASE /\ UNCHANGED <<ncalls, alive>>
           /\ \A l \in Loops : bpc[l] \in Handling => bpc'[l] \in Handling
  <2>1. \A l \in Loops : Lent(l)' = Lent(l) BY <1>3 DEF Lent
  <2> QED BY <1>3, <2>1 DEF TokensLive
<1> QED BY <1>1, <1>2, <1>3, Lending

\* Every step keeps the invariant.
LEMMA BindingInvNext == BindingInv /\ [BindingNext]_bindVars => BindingInv'
<1> SUFFICES ASSUME BindingInv, [BindingNext]_bindVars PROVE BindingInv' OBVIOUS
<1>1. CASE BindingNext
  BY <1>1, BTypedNext, AttachmentNext, CountersNext, WithinNext, RememberedNext, TokensNext
  DEF BindingInv
<1>2. CASE UNCHANGED bindVars
  <2>1. BTyped' BY <1>2 DEF BindingInv, BTyped, bindVars
  <2>2. Attachment' /\ Counters' /\ WorkersWithin'
    BY <1>2 DEF BindingInv, Attachment, Counters, WorkersWithin, bindVars
  <2>3. Remembered' BY <1>2 DEF BindingInv, Remembered, bindVars
  <2>4. TokensLive' BY <1>2 DEF BindingInv, TokensLive, Lent, bindVars
  <2> QED BY <2>1, <2>2, <2>3, <2>4 DEF BindingInv
<1> QED BY <1>1, <1>2

\* The threads of the binding are always where, and counted as, the invariant
\* says.
THEOREM BindingInvariant == BindingSpec => []BindingInv
BY BindingStart, BindingInvNext, PTL DEF BindingSpec

\* Threads and the interpreter are always in order: who touches Python objects
\* is attached and who waits is not, at most one at a time under a lock, a
\* worker makes one PyThreadState and leaves none, and no SIGINT is lost.
THEOREM InterpreterIsSound == BindingSpec => []InterpreterSound
<1>1. BindingInv => InterpreterSound
  <2> SUFFICES ASSUME BindingInv PROVE InterpreterSound OBVIOUS
  <2>1. ASSUME NEW t \in BThreads
        PROVE  /\ bpc[t] \in {"use", "ret", "error", "intr", "del"} => t \in attached
               /\ bpc[t] \in {"off", "start", "loop", "run"} => t \notin attached
    BY DEF BindingInv, Attachment
  <2>2. ASSUME NEW t \in Workers
        PROVE  /\ bpc[t] # "start" => made[t] <= 1
               /\ states[t] = 0 <=> bpc[t] \in {"off", "start"}
    BY DEF BindingInv, Counters
  <2>3. ASSUME Gil PROVE Cardinality(attached) <= 1
    <3>1. CASE attached = {} BY <3>1, FS_EmptySet
    <3>2. ASSUME NEW t \in attached PROVE Cardinality(attached) <= 1
      <4>1. attached = {t} BY <2>3 DEF BindingInv, Attachment
      <4>2. Cardinality({t}) = 1 BY FS_Singleton
      <4> QED BY <4>1, <4>2
    <3> QED BY <3>1, <3>2
  <2>4. owed => tripped \/ bpc[Main] = "intr" BY DEF BindingInv, Remembered
  <2> QED BY <2>1, <2>2, <2>3, <2>4 DEF InterpreterSound
<1> QED BY <1>1, BindingInvariant, PTL

-----------------------------------------------------------------------------
\* Only the lock keeps a handler from returning while another thread uses what
\* it was lent: both would have to be attached.
LEMMA BorrowsNext ==
    ASSUME Gil, BindingInv, BorrowsLive, BindingNext
    PROVE  BorrowsLive'
<1> USE Kinds
<1>0. bpc \in [BThreads -> Anywhere] /\ ncalls \in [Loops -> Nat] BY DEF BindingInv, BTyped
<1> SUFFICES ASSUME NEW t \in Others, bpc'[t] = "use"
             PROVE  \E l \in Loops : using'[t] = Lent(l)' /\ bpc'[l] \in Handling
  BY DEF BorrowsLive, Handling
<1> DEFINE Goal == \E l \in Loops : using'[t] = Lent(l)' /\ bpc'[l] \in Handling
<1>a. using \in [Others -> Calls \cup {NoCall}] /\ t \in BThreads /\ t \notin Loops
  BY DEF BindingInv, BTyped, Loops
<1>1. ASSUME NEW b \in Calls, Get(t, b) PROVE Goal
  <2>1. /\ b \in alive /\ ncalls' = ncalls /\ bpc' = [bpc EXCEPT ![t] = "use"]
        /\ using' = [using EXCEPT ![t] = b]
    BY <1>1 DEF Get, BGoto
  <2>2. PICK l \in Loops : b = Lent(l) /\ bpc[l] \in Handling
    BY <2>1 DEF BindingInv, TokensLive
  <2>3. l # t BY <1>a
  <2>4. bpc'[l] = bpc[l] BY <1>0, <2>1, <2>3
  <2>5. Lent(l)' = Lent(l) BY <2>1 DEF Lent
  <2>6. using'[t] = b BY <1>a, <2>1
  <2> QED BY <2>2, <2>4, <2>5, <2>6
<1>2. CASE ~\E b \in Calls : Get(t, b)
  <2>1. bpc[t] = "use" /\ using'[t] = using[t]
    BY <1>0, <1>a, <1>2
    DEF BindingNext, Switch, Sigint, Interrupted, Poll, Run, Back, WorkerStart, WorkerStop,
        Call, Keep, HandlerEnds, Consume, Return, DropHandler, HandlerGone, Stop, Used, Get,
        BGoto, borrowed
  <2>2. PICK l \in Loops : using[t] = Lent(l) /\ bpc[l] \in Handling
    BY <2>1 DEF BorrowsLive, Handling
  <2>3. t \in attached /\ (bpc[l] \in {"ret", "error", "intr"} => l \in attached)
    BY <1>a, <2>1 DEF BindingInv, Attachment
  <2>4. ~Return(l)
    <3>1. bpc[l] = "ret" => l = t BY <2>3 DEF BindingInv, Attachment
    <3> QED BY <1>a, <3>1 DEF Return, BGoto
  <2>5. ~Call(l) BY <2>2 DEF Call, BGoto, Handling
  <2>6. bpc'[l] \in Handling /\ ncalls'[l] = ncalls[l]
    <3>1. CASE \E k \in Loops \ {l} : Call(k) \/ Return(k)
      BY <1>0, <2>2, <3>1 DEF Call, Return, BGoto
    <3>2. CASE ~\E k \in Loops : Call(k) \/ Return(k)
      BY <2>2, <3>2, Lending DEF BindingInv
    <3> QED BY <2>4, <2>5, <3>1, <3>2
  <2> QED BY <2>1, <2>2, <2>6 DEF Lent
<1> QED BY <1>1, <1>2

\* Under a global interpreter lock, what a handler was lent is used only while
\* that handler runs, whoever keeps it and whenever threads are switched.
THEOREM BorrowsAreLive == ASSUME Gil PROVE BindingSpec => []BorrowsLive
<1>1. BindingInit => BorrowsLive
  BY Kinds DEF BindingInit, BorrowsLive
<1>2. ASSUME BindingInv, BorrowsLive, [BindingNext]_bindVars PROVE BorrowsLive'
  <2>1. CASE BindingNext BY <1>2, <2>1, BorrowsNext
  <2>2. CASE UNCHANGED bindVars BY <1>2, <2>2 DEF BorrowsLive, Lent, bindVars
  <2> QED BY <1>2, <2>1, <2>2
<1> QED BY <1>1, <1>2, BindingInvariant, PTL DEF BindingSpec
=============================================================================
