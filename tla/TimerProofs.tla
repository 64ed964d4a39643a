----------------------------- MODULE TimerProofs -----------------------------
(***************************************************************************)
(* Proofs about the timers: the walk over their list is safe and comes     *)
(* once to each, and they keep time, although the clock wraps and polls    *)
(* come late.                                                              *)
(***************************************************************************)
EXTENDS Timer, ListProofs

\* The timers of one manager, polled at any times.
TimerSpec == TimerInit /\ [][TimerNext]_timerVars

\* The variables have their types.
TimerTyped ==
    /\ IsList(timers, Timers)
    /\ ttime \in Nat /\ tnow \in Nat /\ tnow <= ttime
    /\ texpire \in [Timers -> Nat] /\ tfirst \in [Timers -> Nat] /\ tfired \in [Timers -> Nat]
    /\ tpc \in {"out", "poll", "fn", "done", "next"}
    /\ tcur \in Timers \cup {NoTimer} /\ ttmp \in Timers \cup {NoTimer}

\* What the poll has yet to come to is what is ahead of the walk.  The timer
\* that runs is on the list, behind the successor that was saved.
TimerWalk ==
    /\ tpc = "out" => tcur = NoTimer /\ ttmp = NoTimer /\ tdue = {}
    /\ tpc = "poll" => /\ tcur \in Range(timers) \cup {NoTimer} /\ ttmp = NoTimer
                       /\ tdue = From(timers, tcur)
    /\ tpc \in {"fn", "done", "next"} => /\ ttmp \in Range(timers) \cup {NoTimer}
                                         /\ tdue = From(timers, ttmp)
    /\ tpc \in {"fn", "done"} => tcur \in Range(timers) /\ tcur \notin tdue

\* The inductive invariant.
TimerInv == TimerTyped /\ TimerWalk

\* During a poll, the timers it has come to are due within a period.
Reached ==
    tpc # "out" =>
        \A t \in Range(timers) \ tdue : texpire[t] # 0 => texpire[t] - Now \in 0..Period(t)

\* The time at which the clock last began at 0.
Base == tnow - Now

\* A timer's expiry is counted from the clock's last 0.  Taken as a time since
\* then, it leaves a period for each time the timer expired and for the next.
Spaced(t) ==
    /\ tfired[t] * Period(t) <= tnow - tfirst[t]
    /\ IF texpire[t] = 0 THEN tfired[t] = 0
       ELSE (tfired[t] + 1) * Period(t) <= Base + texpire[t] - tfirst[t]

\* The inductive invariant for the times.
KeepTime == TimerInv /\ Reached /\ \A t \in Timers : Spaced(t)

-----------------------------------------------------------------------------
\* The list stays one, of timers.
LEMMA TimerListNext ==
    ASSUME TimerInv, TimerNext
    PROVE  IsList(timers', Timers)
<1>0. IsList(timers, Timers) BY DEF TimerInv, TimerTyped
<1>1. ASSUME NEW t \in Timers, AddTimer(t) PROVE IsList(timers', Timers)
  BY <1>0, <1>1, AddRange DEF AddTimer, Joined
<1>2. ASSUME NEW t \in Timers, RemoveTimer(t) PROVE IsList(timers', Timers)
  BY <1>0, <1>2, RemoveRange DEF RemoveTimer, TakeOff
<1>3. CASE PollDone
  <2>1. tcur \in Range(timers) BY <1>3 DEF PollDone, TimerInv, TimerWalk
  <2>2. timers' = timers \/ timers' = RemoveFirst(timers, tcur) BY <1>3 DEF PollDone, TakeOff
  <2> QED BY <1>0, <2>1, <2>2, RemoveRange
<1>4. CASE PollTimers \/ PollOne \/ PollNext \/ TimePasses
  BY <1>0, <1>4 DEF PollTimers, PollOne, PollNext, TimePasses
<1> QED BY <1>1, <1>2, <1>3, <1>4 DEF TimerNext

\* The clock shows a number below its wrap.
LEMMA NowIs == ASSUME tnow \in Nat PROVE Now \in 0..(ClockWrap - 1) /\ Now \in Nat
BY TimerAssumption DEF Now

\* The types of the rest.
LEMMA TimerTypedNext ==
    ASSUME TimerInv, TimerNext
    PROVE  TimerTyped'
<1>0. /\ ttime \in Nat /\ tnow \in Nat /\ tnow <= ttime
      /\ texpire \in [Timers -> Nat] /\ tfirst \in [Timers -> Nat] /\ tfired \in [Timers -> Nat]
      /\ tpc \in {"out", "poll", "fn", "done", "next"}
      /\ tcur \in Timers \cup {NoTimer} /\ ttmp \in Timers \cup {NoTimer}
      /\ IsList(timers, Timers)
  BY DEF TimerInv, TimerTyped
<1>1. ttime' \in Nat /\ tnow' \in Nat /\ tnow' <= ttime'
  BY <1>0 DEF TimerNext, AddTimer, RemoveTimer, PollTimers, PollOne, PollDone, PollNext, TimePasses
<1>2. tpc' \in {"out", "poll", "fn", "done", "next"}
  BY <1>0 DEF TimerNext, AddTimer, RemoveTimer, PollTimers, PollOne, PollDone, PollNext,
              TimePasses, twalk
<1>3. tcur' \in Timers \cup {NoTimer} /\ ttmp' \in Timers \cup {NoTimer}
  <2>1. HeadOf(timers, NoTimer) \in Timers \cup {NoTimer}
    BY <1>0, TimerAssumption, FromFirst, ListRange
  <2>2. CASE PollOne
    <3>1. tcur \in Range(timers) BY <2>2 DEF PollOne, TimerInv, TimerWalk
    <3>2. NextOf(timers, tcur, NoTimer) \in Timers \cup {NoTimer}
      BY <1>0, <3>1, TimerAssumption, FromAfter, ListRange
    <3> QED BY <1>0, <2>2, <3>2 DEF PollOne
  <2>3. CASE ~PollOne
    BY <1>0, <2>1, <2>3 DEF TimerNext, AddTimer, RemoveTimer, PollTimers, PollDone, PollNext,
                            TimePasses, twalk
  <2> QED BY <2>2, <2>3
<1>4. /\ texpire' \in [Timers -> Nat] /\ tfirst' \in [Timers -> Nat]
      /\ tfired' \in [Timers -> Nat]
  <2>1. CASE PollOne
    <3>1. tcur \in Timers BY <1>0, <2>1 DEF PollOne
    <3>2. Period(tcur) \in Nat /\ Now \in Nat BY <1>0, <3>1, TimerAssumption, NowIs
    <3>3. texpire[tcur] \in Nat BY <1>0, <3>1
    <3>4. NextExpire(Armed(texpire[tcur], Period(tcur)), Period(tcur)) \in Nat
      BY <3>2, <3>3 DEF NextExpire, Armed
    <3>5. /\ texpire' = [texpire EXCEPT ![tcur] =
                            NextExpire(Armed(texpire[tcur], Period(tcur)), Period(tcur))]
          /\ tfirst' = [tfirst EXCEPT ![tcur] = IF texpire[tcur] = 0 THEN tnow ELSE @]
          /\ \/ tfired' = [tfired EXCEPT ![tcur] = @]
             \/ tfired' = [tfired EXCEPT ![tcur] = @ + 1]
      BY <2>1 DEF PollOne
    <3>6. texpire' \in [Timers -> Nat] BY <1>0, <3>1, <3>4, <3>5
    <3>7. tfirst' \in [Timers -> Nat] BY <1>0, <3>5
    <3>8. tfired' \in [Timers -> Nat] BY <1>0, <3>1, <3>5
    <3> QED BY <3>6, <3>7, <3>8
  <2>2. CASE ~PollOne
    BY <1>0, <2>2 DEF TimerNext, AddTimer, RemoveTimer, PollTimers, PollDone, PollNext,
                      TimePasses, thistory
  <2> QED BY <2>1, <2>2
<1> QED BY <1>1, <1>2, <1>3, <1>4, TimerListNext DEF TimerTyped

\* The walk is where it should be.
LEMMA TimerWalkNext ==
    ASSUME TimerInv, TimerNext
    PROVE  TimerWalk'
<1>0. /\ IsList(timers, Timers) /\ NoTimer \notin Timers /\ Range(timers) \subseteq Timers
      /\ tcur \in Timers \cup {NoTimer} /\ ttmp \in Timers \cup {NoTimer}
      /\ TimerWalk
  BY ListRange, TimerAssumption DEF TimerInv, TimerTyped
<1>1. ASSUME NEW t \in Timers, AddTimer(t) PROVE TimerWalk'
  <2>1. /\ tpc \in {"out", "fn"} /\ t \notin Range(timers) /\ t # tcur
        /\ timers' = <<t>> \o timers /\ UNCHANGED <<tpc, tcur, ttmp, tdue>>
    BY <1>1 DEF AddTimer, Joined, twalk
  <2>2. Range(timers') = {t} \cup Range(timers) BY <1>0, <2>1, AddRange
  <2>3. tpc = "fn" => t # ttmp /\ From(timers', ttmp) = From(timers, ttmp)
    BY <1>0, <2>1, FromAdd DEF TimerWalk
  <2> QED BY <1>0, <2>1, <2>2, <2>3 DEF TimerWalk
<1>2. ASSUME NEW t \in Timers, RemoveTimer(t) PROVE TimerWalk'
  <2>1. /\ tpc \in {"out", "fn"} /\ t \in Range(timers) /\ t # tcur /\ t # ttmp
        /\ timers' = RemoveFirst(timers, t) /\ UNCHANGED <<tpc, tcur, ttmp>>
        /\ tdue' = tdue \ {t}
    BY <1>2 DEF RemoveTimer, TakeOff, twalk
  <2>2. Range(timers') = Range(timers) \ {t} BY <1>0, <2>1, RemoveRange
  <2>3. From(timers', ttmp) = From(timers, ttmp) \ {t} BY <1>0, <2>1, FromRemoveOther
  <2> QED BY <1>0, <2>1, <2>2, <2>3 DEF TimerWalk
<1>3. CASE PollTimers
  <2>1. /\ tpc = "out" /\ tpc' = "poll" /\ tcur' = HeadOf(timers, NoTimer)
        /\ tdue' = Range(timers) /\ timers' = timers /\ ttmp' = ttmp
    BY <1>3 DEF PollTimers
  <2>2. /\ From(timers, HeadOf(timers, NoTimer)) = Range(timers)
        /\ HeadOf(timers, NoTimer) \in Range(timers) \cup {NoTimer}
    BY <1>0, FromFirst
  <2> QED BY <1>0, <2>1, <2>2 DEF TimerWalk
<1>4. CASE PollOne
  <2>1. /\ tpc = "poll" /\ tcur # NoTimer /\ tpc' \in {"next", "fn", "done"}
        /\ ttmp' = NextOf(timers, tcur, NoTimer) /\ tdue' = tdue \ {tcur}
        /\ timers' = timers /\ tcur' = tcur
    BY <1>4 DEF PollOne
  <2>2. tcur \in Range(timers) /\ tdue = From(timers, tcur) BY <1>0, <2>1 DEF TimerWalk
  <2>3. /\ ttmp' \in Range(timers) \cup {NoTimer}
        /\ From(timers, tcur) = {tcur} \cup From(timers, ttmp')
        /\ tcur \notin From(timers, ttmp')
    BY <1>0, <2>1, <2>2, FromAfter
  <2> QED BY <2>1, <2>2, <2>3 DEF TimerWalk
<1>5. CASE PollDone
  <2>1. /\ tpc \in {"fn", "done"} /\ tpc' = "next" /\ UNCHANGED <<tcur, ttmp, tdue>>
        /\ timers' = timers \/ timers' = RemoveFirst(timers, tcur)
    BY <1>5 DEF PollDone, TakeOff
  <2>2. /\ tcur \in Range(timers) /\ tcur \notin tdue /\ tdue = From(timers, ttmp)
        /\ ttmp \in Range(timers) \cup {NoTimer}
    BY <1>0, <2>1 DEF TimerWalk
  <2>3. ttmp # tcur BY <1>0, <2>2, FromWithin
  <2>4. CASE timers' = RemoveFirst(timers, tcur)
    <3>1. Range(timers') = Range(timers) \ {tcur} BY <1>0, <2>2, <2>4, RemoveRange
    <3>2. From(timers', ttmp) = From(timers, ttmp) BY <1>0, <2>2, <2>4, FromRemove
    <3> QED BY <2>1, <2>2, <2>3, <3>1, <3>2 DEF TimerWalk
  <2>5. CASE timers' = timers BY <2>1, <2>2, <2>5 DEF TimerWalk
  <2> QED BY <2>1, <2>4, <2>5
<1>6. CASE PollNext
  <2>1. CASE tpc = "next" BY <1>0, <1>6, <2>1 DEF PollNext, TimerWalk
  <2>2. CASE tpc = "poll" /\ tcur = NoTimer
    <3>1. From(timers, NoTimer) = {} BY <1>0, FromWithin
    <3>2. tpc' = "out" /\ tcur' = NoTimer /\ ttmp' = NoTimer /\ tdue' = tdue
      BY <1>6, <2>2 DEF PollNext
    <3>3. tdue = {} BY <1>0, <2>2, <3>1 DEF TimerWalk
    <3> QED BY <3>2, <3>3 DEF TimerWalk
  <2> QED BY <1>6, <2>1, <2>2 DEF PollNext
<1>7. CASE TimePasses BY <1>0, <1>7 DEF TimePasses, TimerWalk, twalk
<1> QED BY <1>1, <1>2, <1>3, <1>4, <1>5, <1>6, <1>7 DEF TimerNext

\* The invariant of the walk over the timers holds throughout.
THEOREM TimerInvariant == TimerSpec => []TimerInv
<1>1. TimerInit => TimerInv
  <2> SUFFICES ASSUME TimerInit PROVE TimerInv OBVIOUS
  <2>1. IsList(timers, Timers) BY DEF TimerInit, IsList, IsInjective
  <2> QED BY <2>1 DEF TimerInit, TimerInv, TimerTyped, TimerWalk
<1>2. TimerInv /\ [TimerNext]_timerVars => TimerInv'
  <2> SUFFICES ASSUME TimerInv, [TimerNext]_timerVars PROVE TimerInv' OBVIOUS
  <2>1. CASE TimerNext BY <2>1, TimerTypedNext, TimerWalkNext DEF TimerInv
  <2>2. CASE UNCHANGED timerVars
    BY <2>2 DEF timerVars, twalk, thistory, TimerInv, TimerTyped, TimerWalk
  <2> QED BY <2>1, <2>2
<1> QED BY <1>1, <1>2, PTL DEF TimerSpec

\* A poll is safe whatever the functions it calls do to the list, within the
\* rules: what it saved is there when it gets to it, and it comes once to each
\* timer that was there and stayed.
THEOREM TimersAreSound == TimerSpec => []TimersSound
<1>1. TimerInv => TimersSound
  <2> SUFFICES ASSUME TimerInv PROVE TimersSound OBVIOUS
  <2>1. /\ IsList(timers, Timers) /\ NoTimer \notin Timers /\ Range(timers) \subseteq Timers
        /\ tcur \in Timers \cup {NoTimer} /\ ttmp \in Timers \cup {NoTimer} /\ TimerWalk
    BY ListRange, TimerAssumption DEF TimerInv, TimerTyped
  <2>2. IsInjective(timers) BY <2>1 DEF IsList
  <2>3. tpc \in {"poll", "fn"} => {tcur, ttmp} \subseteq Range(timers) \cup {NoTimer}
    BY <2>1 DEF TimerWalk
  <2>4. tpc = "poll" => IF tcur = NoTimer THEN tdue = {} ELSE tcur \in tdue
    BY <2>1, FromWithin DEF TimerWalk
  <2> QED BY <2>1, <2>2, <2>3, <2>4 DEF TimersSound
<1> QED BY <1>1, TimerInvariant, PTL

-----------------------------------------------------------------------------
\* What a poll leaves in a timer that it came to lies within a period from now.
LEMMA NextInRange ==
    ASSUME NEW e \in Nat, NEW prd \in Nat \ {0}, NEW n \in Nat, n = Now
    PROVE  /\ NextExpire(Armed(e, prd), prd) - n \in 0..prd
           /\ NextExpire(Armed(e, prd), prd) # 0
BY DEF NextExpire, Armed

\* A function's timers join the list with no time of expiry, and what the poll
\* has come to stays in range, as the time of the poll does not change.
LEMMA ReachedNext ==
    ASSUME TimerInv, TimerInv', Reached, TimerNext
    PROVE  Reached'
<1>0. /\ IsList(timers, Timers) /\ Range(timers) \subseteq Timers /\ tnow \in Nat
      /\ texpire \in [Timers -> Nat] /\ TimerWalk
  BY ListRange DEF TimerInv, TimerTyped
<1>a. CASE /\ tnow' = tnow /\ texpire' = texpire /\ tpc # "out"
           /\ Range(timers') \ tdue' \subseteq Range(timers) \ tdue
  BY <1>a DEF Reached, Now
<1>b. CASE tpc' = "out" BY <1>b DEF Reached
<1>1. ASSUME NEW t \in Timers, AddTimer(t) PROVE Reached'
  <2>1. /\ t \notin Range(timers) /\ timers' = <<t>> \o timers /\ tpc' = tpc /\ tnow' = tnow
        /\ tdue' = tdue /\ texpire' = [texpire EXCEPT ![t] = 0]
    BY <1>1 DEF AddTimer, Joined, twalk
  <2>2. Range(timers') = {t} \cup Range(timers) BY <1>0, <2>1, AddRange
  <2>3. \A u \in Timers \ {t} : texpire'[u] = texpire[u] BY <1>0, <2>1
  <2>4. texpire'[t] = 0 BY <1>0, <2>1
  <2> QED BY <1>0, <2>1, <2>2, <2>3, <2>4 DEF Reached, Now
<1>2. ASSUME NEW t \in Timers, RemoveTimer(t) PROVE Reached'
  <2>1. /\ t \in Range(timers) /\ timers' = RemoveFirst(timers, t) /\ tdue' = tdue \ {t}
        /\ tnow' = tnow /\ texpire' = texpire /\ tpc' = tpc
    BY <1>2 DEF RemoveTimer, TakeOff, twalk
  <2>2. Range(timers') = Range(timers) \ {t} BY <1>0, <2>1, RemoveRange
  <2> QED BY <1>a, <1>b, <2>1, <2>2
<1>3. CASE PollTimers
  <2>1. Range(timers') \ tdue' = {} BY <1>3 DEF PollTimers
  <2> QED BY <2>1 DEF Reached
<1>4. CASE PollOne
  <2>1. /\ tpc = "poll" /\ tcur # NoTimer /\ timers' = timers /\ tnow' = tnow
        /\ tdue' = tdue \ {tcur}
        /\ texpire' = [texpire EXCEPT ![tcur] =
                          NextExpire(Armed(texpire[tcur], Period(tcur)), Period(tcur))]
    BY <1>4 DEF PollOne
  <2>2. tcur \in Timers BY <1>0, <2>1 DEF TimerWalk
  <2>3. Period(tcur) \in Nat \ {0} /\ Now \in Nat /\ texpire[tcur] \in Nat
    BY <1>0, <2>2, TimerAssumption, NowIs
  <2>4. texpire'[tcur] - Now \in 0..Period(tcur) BY <1>0, <2>1, <2>2, <2>3, NextInRange
  <2>5. \A u \in Timers \ {tcur} : texpire'[u] = texpire[u] BY <1>0, <2>1
  <2>6. Now' = Now BY <2>1 DEF Now
  <2> SUFFICES ASSUME NEW u \in Range(timers) \ tdue', texpire'[u] # 0
               PROVE  texpire'[u] - Now \in 0..Period(u)
    BY <2>1, <2>6 DEF Reached
  <2>7. CASE u = tcur BY <2>4, <2>7
  <2>8. CASE u # tcur
    <3>1. u \in Range(timers) \ tdue /\ texpire'[u] = texpire[u] BY <1>0, <2>1, <2>5, <2>8
    <3> QED BY <2>1, <3>1 DEF Reached
  <2> QED BY <2>7, <2>8
<1>5. CASE PollDone
  <2>1. /\ tpc \in {"fn", "done"} /\ UNCHANGED <<tnow, texpire, tdue>>
        /\ timers' = timers \/ timers' = RemoveFirst(timers, tcur)
    BY <1>5 DEF PollDone, TakeOff
  <2>2. tcur \in Range(timers) BY <1>0, <2>1 DEF TimerWalk
  <2>3. Range(timers') \subseteq Range(timers) BY <1>0, <2>1, <2>2, RemoveRange
  <2> QED BY <1>a, <2>1, <2>3
<1>6. CASE PollNext BY <1>6, <1>a DEF PollNext
<1>7. CASE TimePasses BY <1>7, <1>a, <1>b DEF TimePasses, twalk
<1> QED BY <1>1, <1>2, <1>3, <1>4, <1>5, <1>6, <1>7 DEF TimerNext

-----------------------------------------------------------------------------
\* Division with a remainder.
LEMMA Divided ==
    ASSUME NEW n \in Nat \ {0}, NEW x \in Nat, NEW q \in Int, NEW r \in Int,
           q = x \div n, r = x % n
    PROVE  x = n * q + r
OBVIOUS

\* A greater multiple of n is greater by n or more.
LEMMA Multiples ==
    \A n \in Nat \ {0} : \A q, k \in Int : q < k => n * q + n <= n * k
<1> SUFFICES ASSUME NEW n \in Nat \ {0}, NEW q \in Int, NEW k \in Int, q < k
             PROVE  n * q + n <= n * k
  OBVIOUS
<1> DEFINE d == k - q - 1
<1>1. d \in Nat /\ k = q + 1 + d OBVIOUS
<1> HIDE DEF d
<1>2. n * k = n * q + n + n * d BY <1>1
<1>3. n * d \in Nat BY <1>1
<1> QED BY <1>2, <1>3

\* The time at which the clock last began at 0 does not go back.
LEMMA BaseGrows ==
    ASSUME NEW n \in Nat \ {0}, NEW x \in Nat, NEW y \in Nat, x <= y
    PROVE  x - (x % n) <= y - (y % n)
<1> DEFINE q == x \div n  k == y \div n  r == x % n  s == y % n
<1>1. q \in Int /\ k \in Int /\ r \in 0..(n - 1) /\ s \in 0..(n - 1) OBVIOUS
<1>2. q = x \div n /\ r = x % n /\ k = y \div n /\ s = y % n OBVIOUS
<1> HIDE DEF q, k, r, s
<1>3. x = n * q + r /\ y = n * k + s BY <1>1, <1>2, Divided
<1>4. n * q <= n * k
  <2>1. CASE q = k BY <1>1, <2>1
  <2>2. CASE q < k
    <3>1. n * q + n <= n * k BY <1>1, <2>2, Multiples
    <3> QED BY <1>1, <3>1
  <2>3. CASE k < q
    <3>1. n * k + n <= n * q BY <1>1, <2>3, Multiples
    <3> QED BY <1>1, <1>3, <3>1
  <2> QED BY <1>1, <2>1, <2>2, <2>3
<1> QED BY <1>1, <1>2, <1>3, <1>4

\* One more period.
LEMMA OnePeriod == \A f, p \in Nat : (f + 1) * p = f * p + p
OBVIOUS

\* What Spaced says of a timer that has an expiry e, with the clock at n since b.
Paced(f, p, s, b, n, e) == f * p <= b + n - s /\ (f + 1) * p <= b + e - s

\* What a poll does to a timer leaves the spacing of its times of expiry: the
\* numbers only.  a is the expiry that is compared with the time n.
LEMMA SpacingKept ==
    ASSUME NEW e \in Nat, NEW n \in Nat, NEW b \in Int, NEW p \in Nat \ {0},
           NEW f \in Nat, NEW s \in Int, NEW a, NEW x, NEW g,
           e # 0, n = Now,
           Paced(f, p, s, b, n, e),
           a = Armed(e, p), x = NextExpire(a, p), g = IF a > n THEN f ELSE f + 1
    PROVE  Paced(g, p, s, b, n, x)
<1> DEFINE fp == f * p
<1>1. fp \in Nat /\ (f + 1) * p = fp + p BY OnePeriod
<1>2. ((f + 1) + 1) * p = fp + p + p BY <1>1, OnePeriod
<1>3. fp <= b + n - s /\ fp + p <= b + e - s BY <1>1 DEF Paced
<1>4. a = IF n + p < e THEN n + p ELSE e BY DEF Armed
<1>5. x = IF a > n THEN a ELSE IF n - a > p THEN n + p ELSE a + p BY DEF NextExpire
<1>6. CASE a > n
  <2>1. g = f BY <1>6
  <2>2. fp + p <= b + x - s
    <3> HIDE DEF fp
    <3> QED BY <1>1, <1>3, <1>4, <1>5, <1>6
  <2> QED BY <1>1, <1>3, <2>1, <2>2 DEF Paced
<1>7. CASE ~(a > n)
  <2>1. g = f + 1 BY <1>7
  <2>2. fp + p <= b + n - s /\ fp + p + p <= b + x - s
    <3> HIDE DEF fp
    <3> QED BY <1>1, <1>3, <1>4, <1>5, <1>7
  <2> QED BY <1>1, <1>2, <2>1, <2>2 DEF Paced
<1> QED BY <1>6, <1>7

\* Every timer keeps its spacing, whatever happens to it and to the clock.
LEMMA SpacedNext ==
    ASSUME TimerInv, TimerInv', TimerNext, NEW t \in Timers, Spaced(t)
    PROVE  Spaced(t)'
<1>0. /\ tnow \in Nat /\ tnow' \in Nat /\ ttime \in Nat /\ tnow <= ttime
      /\ texpire \in [Timers -> Nat] /\ tfirst \in [Timers -> Nat] /\ tfired \in [Timers -> Nat]
      /\ Period(t) \in Nat \ {0} /\ ClockWrap \in Nat \ {0}
  BY TimerAssumption DEF TimerInv, TimerTyped
<1>a. CASE texpire'[t] = texpire[t] /\ tfirst'[t] = tfirst[t] /\ tfired'[t] = tfired[t]
           /\ tnow <= tnow'
  <2>1. Base <= Base'
    <3>1. tnow - (tnow % ClockWrap) <= tnow' - (tnow' % ClockWrap) BY <1>0, <1>a, BaseGrows
    <3>2. Base = tnow - (tnow % ClockWrap) BY DEF Base, Now
    <3>3. Base' = tnow' - (tnow' % ClockWrap) BY DEF Base, Now
    <3> QED BY <3>1, <3>2, <3>3
  <2>2. Base \in Int /\ Base' \in Int BY <1>0 DEF Base, Now
  <2> DEFINE g == tfired[t] * Period(t)
             h == (tfired[t] + 1) * Period(t)
  <2>3. g \in Int /\ h \in Int BY <1>0
  <2>4. /\ g <= tnow - tfirst[t]
        /\ IF texpire[t] = 0 THEN tfired[t] = 0 ELSE h <= Base + texpire[t] - tfirst[t]
    BY DEF Spaced
  <2>5. /\ g <= tnow' - tfirst[t]
        /\ IF texpire[t] = 0 THEN tfired[t] = 0 ELSE h <= Base' + texpire[t] - tfirst[t]
    <3> HIDE DEF g, h
    <3> QED BY <1>0, <1>a, <2>1, <2>2, <2>3, <2>4
  <2> QED BY <1>a, <2>5 DEF Spaced
<1>1. ASSUME NEW u \in Timers, AddTimer(u) PROVE Spaced(t)'
  <2>1. /\ texpire' = [texpire EXCEPT ![u] = 0] /\ tfirst' = [tfirst EXCEPT ![u] = 0]
        /\ tfired' = [tfired EXCEPT ![u] = 0] /\ tnow' = tnow
    BY <1>1 DEF AddTimer
  <2>2. CASE u = t
    <3>1. texpire'[t] = 0 /\ tfirst'[t] = 0 /\ tfired'[t] = 0 BY <1>0, <2>1, <2>2
    <3> QED BY <1>0, <3>1 DEF Spaced
  <2>3. CASE u # t
    <3>1. /\ texpire'[t] = texpire[t] /\ tfirst'[t] = tfirst[t] /\ tfired'[t] = tfired[t]
          /\ tnow <= tnow'
      BY <1>0, <2>1, <2>3
    <3> QED BY <1>a, <3>1
  <2> QED BY <2>2, <2>3
<1>2. CASE PollOne
  <2> DEFINE a == Armed(texpire[tcur], Period(tcur))
  <2>1. /\ texpire' = [texpire EXCEPT ![tcur] = NextExpire(a, Period(tcur))]
        /\ tfirst' = [tfirst EXCEPT ![tcur] = IF texpire[tcur] = 0 THEN tnow ELSE @]
        /\ tfired' = [tfired EXCEPT ![tcur] = IF a > Now THEN @ ELSE @ + 1]
        /\ tnow' = tnow
    BY <1>2 DEF PollOne
  <2>2. CASE tcur # t
    <3>1. /\ texpire'[t] = texpire[t] /\ tfirst'[t] = tfirst[t] /\ tfired'[t] = tfired[t]
          /\ tnow <= tnow'
      BY <1>0, <2>1, <2>2
    <3> QED BY <1>a, <3>1
  <2>3. CASE tcur = t
    <3> DEFINE e == texpire[t]  p == Period(t)  f == tfired[t]  s == tfirst[t]  n == Now
               x == NextExpire(a, p)  g == IF a > n THEN f ELSE f + 1
    <3>1. texpire'[t] = x /\ tfirst'[t] = (IF e = 0 THEN tnow ELSE s) /\ tfired'[t] = g
      BY <1>0, <2>1, <2>3
    <3>2. e \in Nat /\ p \in Nat \ {0} /\ f \in Nat /\ s \in Nat /\ n \in Nat /\ a = Armed(e, p)
      BY <1>0, <2>3, NowIs
    <3>3. x # 0 BY <3>2, NextInRange
    <3>4. Base' = Base /\ Base \in Int /\ tnow = Base + n /\ tnow' = tnow
      BY <1>0, <2>1, <3>2 DEF Base, Now
    <3>5. CASE e = 0
      <4>1. a = n + p BY <3>5, <3>2 DEF Armed
      <4>2. a > n BY <3>2, <4>1
      <4>3. x = n + p /\ g = f BY <4>1, <4>2 DEF NextExpire
      <4>4. f = 0 BY <3>5 DEF Spaced
      <4>5. (f + 1) * p = p /\ f * p = 0 BY <3>2, <4>4
      <4> HIDE DEF e, f, g, n, p, s, x, a
      <4>6. /\ tfired'[t] = f /\ tfirst'[t] = tnow /\ texpire'[t] = x
        BY <3>1, <3>5, <4>3
      <4>7. f * p <= tnow' - tnow /\ (f + 1) * p <= Base' + x - tnow
        BY <1>0, <3>2, <3>4, <4>3, <4>5
      <4> QED BY <3>3, <4>6, <4>7 DEF Spaced, p
    <3>6. CASE e # 0
      <4>1. f * p <= tnow - s /\ (f + 1) * p <= Base + e - s BY <3>6 DEF Spaced
      <4>2. /\ x = NextExpire(a, p) /\ g = IF a > n THEN f ELSE f + 1
            /\ n = Now
        OBVIOUS
      <4>3. /\ tfired'[t] = g /\ tfirst'[t] = s /\ texpire'[t] = x
        BY <3>1, <3>6
      <4>4. Period(t) = p OBVIOUS
      <4> HIDE DEF e, p, f, g, n, s, x, a
      <4>5. Base + n - s = tnow - s BY <3>2, <3>4
      <4>6. Paced(f, p, s, Base, n, e) BY <4>1, <4>5 DEF Paced
      <4>7. Paced(g, p, s, Base, n, x) BY <3>2, <3>4, <3>6, <4>2, <4>6, SpacingKept
      <4>8. g * p <= tnow' - s /\ (g + 1) * p <= Base' + x - s
        BY <3>4, <4>5, <4>7 DEF Paced
      <4> QED BY <3>3, <4>3, <4>4, <4>8 DEF Spaced
    <3> QED BY <3>5, <3>6
  <2> QED BY <2>2, <2>3
<1>3. ASSUME NEW u \in Timers, RemoveTimer(u) PROVE Spaced(t)'
  BY <1>0, <1>3, <1>a DEF RemoveTimer, thistory
<1>4. CASE PollTimers BY <1>0, <1>4, <1>a DEF PollTimers, thistory
<1>5. CASE PollDone \/ PollNext \/ TimePasses
  BY <1>0, <1>5, <1>a DEF PollDone, PollNext, TimePasses, thistory
<1> QED BY <1>1, <1>2, <1>3, <1>4, <1>5 DEF TimerNext

\* The invariant that relates the times of expiry to the clock.
THEOREM TimersKeepTime == TimerSpec => []KeepTime
<1>1. TimerInit => Reached /\ \A t \in Timers : Spaced(t)
  BY TimerAssumption DEF TimerInit, Reached, Spaced
<1>2. TimerInv /\ TimerInv' /\ (Reached /\ \A t \in Timers : Spaced(t)) /\ [TimerNext]_timerVars
      => (Reached /\ \A t \in Timers : Spaced(t))'
  <2> SUFFICES ASSUME TimerInv, TimerInv', Reached, \A t \in Timers : Spaced(t),
                      [TimerNext]_timerVars
               PROVE  Reached' /\ \A t \in Timers : Spaced(t)'
    OBVIOUS
  <2>1. CASE TimerNext BY <2>1, ReachedNext, SpacedNext
  <2>2. CASE UNCHANGED timerVars
    BY <2>2 DEF timerVars, twalk, thistory, Reached, Spaced, Base, Now
  <2> QED BY <2>1, <2>2
<1> QED BY <1>1, <1>2, TimerInvariant, PTL DEF TimerSpec, KeepTime

\* Timers keep time: what a poll has come to is due within a period, whether the
\* poll was late or the clock has wrapped, and a timer expires at most once for
\* each period since it was first polled.
THEOREM TimersAreOnTime == TimerSpec => []TimersOnTime
<1>1. KeepTime => TimersOnTime
  <2> SUFFICES ASSUME KeepTime PROVE TimersOnTime OBVIOUS
  <2>1. IsList(timers, Timers) /\ NoTimer \notin Range(timers)
    BY ListRange, TimerAssumption DEF KeepTime, TimerInv, TimerTyped
  <2>2. tpc = "poll" /\ tcur = NoTimer => tdue = {}
    BY <2>1, FromWithin DEF KeepTime, TimerInv, TimerWalk
  <2> QED BY <2>2 DEF KeepTime, Reached, Spaced, TimersOnTime
<1> QED BY <1>1, TimersKeepTime, PTL
=============================================================================
