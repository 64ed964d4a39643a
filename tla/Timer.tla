-------------------------------- MODULE Timer --------------------------------
(***************************************************************************)
(* The timers of a manager (timer.cpp, and timer_add() in net.cpp): a list *)
(* that timer_poll() walks while the functions it calls add timers to it   *)
(* and take timers off.  User code obeys two rules that the code needs and *)
(* nothing checks: a function takes off neither the timer that runs nor    *)
(* the next one on the list, which timer_poll() has saved.                 *)
(***************************************************************************)
EXTENDS Integers, Sequences, SequencesExt, Lists

CONSTANTS
    Timers, NoTimer,
    Heap,           \* made by timer_add(), with MG_TIMER_AUTODELETE
    Repeat, RunNow, \* with MG_TIMER_REPEAT, with MG_TIMER_RUN_NOW
    Period(_),
    ClockWrap,      \* millis() starts again at 0 (2^32 where it counts ticks)
    MaxTime         \* time stops here (bound)

ASSUME TimerAssumption ==
    /\ NoTimer \notin Timers /\ Heap \cup Repeat \cup RunNow \subseteq Timers
    /\ ClockWrap \in Nat \ {0} /\ MaxTime \in Nat
    /\ \A t \in Timers : Period(t) \in 1..(ClockWrap - 1)

VARIABLES
    timers, texpire, tcalled,   \* the list, Timer::expire, MG_TIMER_CALLED
    ttime, tnow,    \* time, and the time when the poll began
    tpc, tcur, ttmp,
    tfirst, tfired, \* history: time of the first poll, times expired since
    tdue            \* history: what the poll began with and has yet to reach

twalk == <<tpc, tcur, ttmp>>
thistory == <<tfirst, tfired>>
timerVars == <<timers, texpire, tcalled, ttime, tnow, twalk, thistory, tdue>>

TimerInit ==
    /\ timers = <<>> /\ texpire = [t \in Timers |-> 0] /\ tcalled = {}
    /\ ttime = 1 /\ tnow = 0
    /\ tpc = "out" /\ tcur = NoTimer /\ ttmp = NoTimer
    /\ tfirst = [t \in Timers |-> 0] /\ tfired = [t \in Timers |-> 0]
    /\ tdue = {}

-----------------------------------------------------------------------------
\* Mutant: timers join the list at its end.
JoinedLast(t) == Append(timers, t)

Joined(t) == <<t>> \o timers

\* timer_init()
AddTimer(t) ==
    /\ tpc \in {"out", "fn"} /\ t \notin Range(timers) \cup {tcur}
    /\ timers' = Joined(t)
    /\ texpire' = [texpire EXCEPT ![t] = 0] /\ tcalled' = tcalled \ {t}
    /\ tfirst' = [tfirst EXCEPT ![t] = 0] /\ tfired' = [tfired EXCEPT ![t] = 0]
    /\ UNCHANGED <<ttime, tnow, twalk, tdue>>

\* timer_free()
TakeOff(t) == timers' = RemoveFirst(timers, t)

RemoveTimer(t) ==
    /\ tpc \in {"out", "fn"} /\ t \in Range(timers) \ {tcur, ttmp}
    /\ TakeOff(t)
    /\ tdue' = tdue \ {t}
    /\ UNCHANGED <<texpire, tcalled, ttime, tnow, twalk, thistory>>

PollTimers ==
    /\ tpc = "out" /\ tpc' = "poll"
    /\ tnow' = ttime
    /\ tcur' = HeadOf(timers, NoTimer)
    /\ tdue' = Range(timers)
    /\ UNCHANGED <<timers, texpire, tcalled, ttime, ttmp, thistory>>

Now == tnow % ClockWrap

\* Mutant: a clock that wrapped is not noticed.
ArmedStale(e, prd) == IF e = 0 THEN Now + prd ELSE e

\* timer_expired(): what it compares with the time, and what it leaves there.
Armed(e, prd) == IF e = 0 \/ Now + prd < e THEN Now + prd ELSE e

NextExpire(a, prd) ==
    IF a > Now THEN a ELSE IF Now - a > prd THEN Now + prd ELSE a + prd

PollOne ==
    /\ tpc = "poll" /\ tcur # NoTimer
    /\ LET a == Armed(texpire[tcur], Period(tcur))
           once == texpire[tcur] = 0 /\ tcur \in RunNow \ tcalled
       IN  /\ texpire' = [texpire EXCEPT ![tcur] = NextExpire(a, Period(tcur))]
           /\ ttmp' = NextOf(timers, tcur, NoTimer)
           /\ tpc' = IF ~once /\ a > Now THEN "next"
                     ELSE IF tcur \in Repeat \/ tcur \notin tcalled THEN "fn" ELSE "done"
           /\ tfirst' = [tfirst EXCEPT ![tcur] = IF texpire[tcur] = 0 THEN tnow ELSE @]
           /\ tfired' = [tfired EXCEPT ![tcur] = IF a > Now THEN @ ELSE @ + 1]
    /\ tdue' = tdue \ {tcur}
    /\ UNCHANGED <<timers, tcalled, ttime, tnow, tcur>>

PollDone ==
    /\ tpc \in {"fn", "done"} /\ tpc' = "next"
    /\ tcalled' = tcalled \cup {tcur}
    /\ IF tcur \in Heap \ Repeat THEN TakeOff(tcur) ELSE UNCHANGED timers
    /\ UNCHANGED <<texpire, ttime, tnow, tcur, ttmp, thistory, tdue>>

PollNext ==
    /\ \/ tpc = "next" /\ tcur' = ttmp /\ tpc' = "poll"
       \/ tpc = "poll" /\ tcur = NoTimer /\ tpc' = "out" /\ UNCHANGED tcur
    /\ ttmp' = NoTimer
    /\ UNCHANGED <<timers, texpire, tcalled, ttime, tnow, thistory, tdue>>

TimePasses ==
    /\ tpc \in {"out", "fn"} /\ ttime < MaxTime /\ ttime' = ttime + 1
    /\ UNCHANGED <<timers, texpire, tcalled, tnow, twalk, thistory, tdue>>

TimerNext ==
    \/ \E t \in Timers : AddTimer(t) \/ RemoveTimer(t)
    \/ PollTimers \/ PollOne \/ PollDone \/ PollNext \/ TimePasses

-----------------------------------------------------------------------------
\* The walk is safe whatever the functions called did: the saved successor is
\* still on the list when it is reached, and a poll comes once to every timer
\* that was on the list and stayed there, and to none that was added.
TimersSound ==
    /\ IsInjective(timers)
    /\ {tcur, ttmp} \subseteq (IF tpc \in {"poll", "fn"} THEN Range(timers) \cup {NoTimer}
                               ELSE Timers \cup {NoTimer})
    /\ tpc = "poll" => IF tcur = NoTimer THEN tdue = {} ELSE tcur \in tdue

\* Timers keep time.  When a poll is over, each timer it came to is due within
\* one period from then, neither forgotten in the past nor, when the clock has
\* wrapped, put off to a time that never comes; and a timer has expired at
\* most once for each period since its first poll, however late the polls.
TimersOnTime ==
    /\ tpc = "poll" /\ tcur = NoTimer =>
          \A t \in Range(timers) : texpire[t] # 0 => texpire[t] - Now \in 0..Period(t)
    /\ \A t \in Timers : tfired[t] * Period(t) <= tnow - tfirst[t]
=============================================================================
