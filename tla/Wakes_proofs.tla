---- MODULE Wakes_proofs ----
(***************************************************************************)
(* What is proved of Wakes, for every wake-ahead, threshold, delay,        *)
(* interval and length of sleep.                                           *)
(***************************************************************************)
EXTENDS Wakes, FiniteSetTheorems, TLAPS

One(S) == S \subseteq Int /\ \A s, t \in S : s = t
IsMin(m, S) == m \in S /\ \A t \in S : m <= t

TimesInv ==
    /\ One(job) /\ One(cron) /\ One(beat) /\ One(timer) /\ One(idle)
    /\ poke \subseteq Int
    /\ plan \subseteq Int /\ (plan = {} \/ \E m \in plan : IsMin(m, plan))
    /\ since \in Int /\ lag \in Nat /\ gateway \in BOOLEAN

\* A tick brings the time of a set closer and keeps the first of them first.
LEMMA CloserTimes ==
    ASSUME NEW S \in SUBSET Int
    PROVE  /\ Closer(S) \subseteq Int
           /\ One(S) => One(Closer(S))
           /\ \A m \in S : IsMin(m, S) => IsMin(IF m > -MaxSleep THEN m - 1 ELSE m, Closer(S))
           /\ \A x \in Int : x > 0 => (x \in Closer(S) <=> x + 1 \in S)
           /\ S = {} => Closer(S) = {}
<1> DEFINE c(t) == IF t > -MaxSleep THEN t - 1 ELSE t
<1>1. MaxSleep \in Nat
  BY WakesAssumption
<1>2. Closer(S) = {c(t) : t \in S}
  BY DEF Closer
<1>3. \A t \in Int : c(t) \in Int
  BY <1>1
<1>4. \A s, t \in Int : s <= t => c(s) <= c(t)
  BY <1>1
<1>5. \A t \in Int, x \in Int : x > 0 => (x = c(t) <=> x + 1 = t)
  BY <1>1
<1> HIDE DEF c
<1>6. Closer(S) \subseteq Int /\ (S = {} => Closer(S) = {})
  BY <1>2, <1>3
<1>7. One(S) => One(Closer(S))
  BY <1>2, <1>6 DEF One
<1>8. \A m \in S : IsMin(m, S) => IsMin(c(m), Closer(S))
  BY <1>2, <1>4 DEF IsMin
<1>9. \A x \in Int : x > 0 => (x \in Closer(S) <=> x + 1 \in S)
  BY <1>2, <1>5
<1> QED BY <1>6, <1>7, <1>8, <1>9 DEF c

\* The operators of the library, on the sets there are.
LEMMA MinIsMin ==
    ASSUME NEW S \in SUBSET Int, NEW m \in S, IsMin(m, S) PROVE Min(S) = m
<1>1. \E x \in S : \A y \in S : x <= y
  BY DEF IsMin
<1>2. Min(S) \in S /\ \A y \in S : Min(S) <= y
  BY <1>1 DEF Min
<1>3. Min(S) <= m /\ m <= Min(S)
  BY <1>2 DEF IsMin
<1>4. \A x, y \in Int : x <= y /\ y <= x => x = y
  OBVIOUS
<1> QED BY <1>2, <1>3, <1>4

LEMMA MaxOfTwo == ASSUME NEW a \in Int PROVE Max({0, a}) = IF a > 0 THEN a ELSE 0
BY DEF Max

\* The arithmetic of the heartbeat gives a time.
LEMMA BeatIsTime ==
    ASSUME TimesInv, NEW t \in HeartbeatSchedule PROVE t \in Int
<1>1. Every \in Nat /\ Every # 0
  BY WakesAssumption DEF HeartbeatSchedule
<1>2. \A a, b \in Int : b > 0 => Ceil(a, b) \in Int
  BY DEF Ceil
<1>3. -since \in Int /\ -lag \in Int /\ Every \in Int /\ Every > 0
  BY <1>1 DEF TimesInv
<1>4. Ceil(-lag - (-since), Every) \in Int
  BY <1>2, <1>3
<1>5. Ceil(-lag - (-since), Every) * Every \in Int
  BY <1>3, <1>4
<1>6. NextBeat(-since, -lag, Every) \in Int
  BY <1>3, <1>5 DEF NextBeat
<1> QED BY <1>6 DEF HeartbeatSchedule

\* What runSuspend has of the two schedules has a first time.
LEMMA CandidatesHaveFirst ==
    ASSUME TimesInv PROVE Candidates = {} \/ \E m \in Candidates : IsMin(m, Candidates)
<1>1. One(Future(cron)) /\ One(Future(beat))
  BY DEF TimesInv, Future, One
<1>2. \A a, b \in Int : a <= b \/ b <= a
  OBVIOUS
<1>3. CASE Future(cron) = {}
  BY <1>1, <1>3 DEF Candidates, IsMin, One
<1>4. CASE Future(beat) = {}
  BY <1>1, <1>4 DEF Candidates, IsMin, One
<1>5. ASSUME NEW a \in Future(cron), NEW b \in Future(beat)
      PROVE  \E m \in Candidates : IsMin(m, Candidates)
  <2>1. Candidates = {a, b} /\ a \in Int /\ b \in Int
    BY <1>1 DEF Candidates, One
  <2> QED BY <1>2, <2>1 DEF IsMin
<1> QED BY <1>3, <1>4, <1>5

\* The gateway and the agent's deferred runs.
LEMMA GatewayTimes == TimesInv /\ Gateway => TimesInv'
<1> SUFFICES ASSUME TimesInv, Gateway PROVE TimesInv'
  OBVIOUS
<1>1. JobEvery - lag \in Int /\ One({JobEvery - lag})
  BY WakesAssumption DEF TimesInv, One
<1>2. CASE JobRuns
  BY <1>1, <1>2 DEF JobRuns, suspendVars, TimesInv
<1>3. CASE Beats
  BY <1>3 DEF Beats, suspendVars, TimesInv
<1>4. CASE GatewayStops \/ GatewayStarts
  BY <1>4 DEF GatewayStops, GatewayStarts, suspendVars, TimesInv
<1>5. CASE Pokes
  BY <1>1, <1>5 DEF Pokes, suspendVars, TimesInv
<1> QED BY <1>2, <1>3, <1>4, <1>5 DEF Gateway

\* The delay of a timer, cut down or not.
LEMMA DelayIsTime ==
    /\ \A d \in Int : SetTimeout(d) \in {0, d} /\ SetTimeout(d) \in Int
    /\ \A S \in SUBSET Int : One(S) => One({SetTimeout(d) : d \in S})
BY WakesAssumption DEF SetTimeout, One

\* The poll and the suspend.
LEMMA SuspendTimes == TimesInv /\ (PollFindsIdle \/ PollFindsBusy \/ Suspend) => TimesInv'
<1> SUFFICES ASSUME TimesInv, PollFindsIdle \/ PollFindsBusy \/ Suspend PROVE TimesInv'
  OBVIOUS
<1>1. One({0}) /\ One({})
  BY DEF One
<1>2. CASE PollFindsIdle \/ PollFindsBusy
  BY <1>1, <1>2 DEF PollFindsIdle, PollFindsBusy, guestVars, suspendVars, TimesInv
<1>3. CASE AsksCron
  <2>1. One(cron')
    BY <1>1, <1>3 DEF AsksCron, CronAnswers, CronSchedules, TimesInv
  <2> QED BY <1>3, <2>1 DEF AsksCron, guestVars, TimesInv
<1>4. CASE AsksBeat
  <2>1. beat' \in {HeartbeatSchedule, {}, HeartbeatFromNow}
    BY <1>4 DEF AsksBeat, BeatAnswers
  <2>2. One(HeartbeatSchedule)
    BY BeatIsTime DEF HeartbeatSchedule, One
  <2>3. One(HeartbeatFromNow)
    BY WakesAssumption DEF HeartbeatFromNow, One, TimesInv
  <2> QED BY <1>1, <1>4, <2>1, <2>2, <2>3 DEF AsksBeat, guestVars, TimesInv
<1>5. CASE Skips
  BY <1>1, <1>5 DEF Skips, Forgets, guestVars, TimesInv
<1>6. CASE Pauses
  <2>1. Candidates \subseteq Int
    BY DEF Candidates, Future, TimesInv, One
  <2> QED BY <1>6, <2>1, CandidatesHaveFirst DEF Pauses, guestVars, TimesInv, IsMin
<1>7. CASE Sleeps
  <2>1. One(Future(NextWake))
    <3>1. CASE Candidates = {}
      BY <1>1, <3>1 DEF NextWake, Future, One
    <3>2. ASSUME NEW m \in Candidates, IsMin(m, Candidates) PROVE One(Future(NextWake))
      <4>1. Candidates \in SUBSET Int
        BY DEF Candidates, Future, TimesInv, One
      <4>2. Min(Candidates) = m
        BY <3>2, <4>1, MinIsMin
      <4>3. NextWake = {m - WakeAhead} /\ m - WakeAhead \in Int
        BY <3>2, <4>1, <4>2, WakesAssumption DEF NextWake
      <4> QED BY <4>3 DEF Future, One
    <3> QED BY <3>1, <3>2, CandidatesHaveFirst
  <2>2. One(timer')
    BY <1>7, <2>1, DelayIsTime DEF Sleeps, One
  <2> QED BY <1>1, <1>7, <2>2 DEF Sleeps, Forgets, guestVars, TimesInv
<1> QED BY <1>2, <1>3, <1>4, <1>5, <1>6, <1>7 DEF Suspend

\* The resume.
LEMMA ResumeTimes == TimesInv /\ Resume => TimesInv'
<1> SUFFICES ASSUME TimesInv, Resume PROVE TimesInv'
  OBVIOUS
<1>1. One({})
  BY DEF One
<1>2. CASE TimerFires \/ Requested
  BY <1>1, <1>2 DEF TimerFires, Requested, guestVars, TimesInv
<1>3. CASE Loads
  BY <1>3 DEF Loads, guestVars, TimesInv
<1>4. CASE SetsTime
  <2>1. lag' \in Nat
    BY <1>4 DEF SetsTime, SetGuestTime, TimesInv
  <2> QED BY <1>1, <1>4, <2>1 DEF SetsTime, suspendVars, TimesInv
<1>5. CASE PokesCron
  <2>1. ASSUME NEW t \in job PROVE Max({0, t + lag}) + PokeDelay \in Int
    <3>1. t + lag \in Int
      BY DEF TimesInv, One
    <3> QED BY <3>1, MaxOfTwo, WakesAssumption
  <2>2. Deferred \subseteq Int
    BY <2>1 DEF Deferred
  <2>3. poke' \subseteq Int
    BY <1>5, <2>2 DEF PokesCron, PokeCron, TimesInv
  <2>4. One({-(WakeAhead + PokeDelay)})
    BY WakesAssumption DEF One
  <2> QED BY <1>5, <2>3, <2>4 DEF PokesCron, suspendVars, TimesInv
<1> QED BY <1>2, <1>3, <1>4, <1>5 DEF Resume

\* Time.
LEMMA TickTimes == TimesInv /\ Ticks => TimesInv'
<1> SUFFICES ASSUME TimesInv, Ticks PROVE TimesInv'
  OBVIOUS
<1>1. /\ job' = Closer(job) /\ cron' = Closer(cron) /\ beat' = Closer(beat)
      /\ timer' = Closer(timer) /\ plan' = Closer(plan) /\ poke' \in {poke, Closer(poke)}
      /\ gateway' = gateway
  BY DEF Ticks
<1>2. One(job') /\ One(cron') /\ One(beat') /\ One(timer')
  BY <1>1, CloserTimes DEF TimesInv, One
<1>3. poke' \subseteq Int
  BY <1>1, CloserTimes DEF TimesInv
<1>4. plan' \subseteq Int /\ (plan' = {} \/ \E m \in plan' : IsMin(m, plan'))
  BY <1>1, CloserTimes DEF TimesInv, IsMin
<1>5. One(idle')
  <2>1. idle' = {IF t < Threshold THEN t + 1 ELSE t : t \in idle}
    BY DEF Ticks
  <2> QED BY <2>1, WakesAssumption DEF TimesInv, One
<1>6. since' \in Int /\ lag' \in Nat
  BY WakesAssumption DEF Ticks, TimesInv
<1> QED BY <1>1, <1>2, <1>3, <1>4, <1>5, <1>6 DEF TimesInv

LEMMA NextTimes == TimesInv /\ [Next]_vars => TimesInv'
<1>1. TimesInv /\ UNCHANGED vars => TimesInv'
  BY DEF TimesInv, vars, guestVars, suspendVars
<1> QED BY <1>1, GatewayTimes, SuspendTimes, ResumeTimes, TickTimes DEF Next

LEMMA InitTimes == Init => TimesInv
<1>1. One({}) /\ One({JobEvery})
  BY WakesAssumption DEF One
<1> QED BY <1>1, WakesAssumption DEF Init, TimesInv

----
(* The timer. While the snapshot is copied, what runSuspend computes the   *)
(* wake from is what it tested, as far as it still lies ahead; from then   *)
(* on, the first of it and the timer come closer together.                 *)
TimerInv ==
    /\ op \in {"cron", "beat", "test", "clock", "poke"} => vm = "running"
    /\ op = "copy" => vm = "asleep" /\ Future(plan) = Candidates
    /\ vm = "asleep" /\ op = "none" /\ plan # {} /\ inTime =>
          \E m \in plan : IsMin(m, plan) /\ m >= WakeAhead /\ timer = {SetTimeout(m - WakeAhead)}

\* The invariant implies the property.
LEMMA TimerInvAhead == TimesInv /\ TimerInv => TimerAhead
BY MinIsMin DEF TimesInv, TimerInv, TimerAhead

\* The end of a suspend.
LEMMA SleepsTimer == TimesInv /\ TimerInv /\ Sleeps => TimerInv'
<1> SUFFICES ASSUME TimesInv, TimerInv, Sleeps, plan # {}, \A t \in plan : t > WakeAhead
             PROVE  \E m \in plan : IsMin(m, plan) /\ m >= WakeAhead /\ timer' = {SetTimeout(m - WakeAhead)}
  BY DEF Sleeps, TimerInv, IsMin
<1>1. PICK m \in plan : IsMin(m, plan)
  BY DEF TimesInv
<1>2. m \in Int /\ m > WakeAhead /\ WakeAhead \in Nat
  BY WakesAssumption DEF TimesInv
<1>3. Candidates = plan
  <2>1. \A t \in plan : t \in Int /\ t > 0
    BY WakesAssumption DEF TimesInv
  <2>2. Future(plan) = plan
    BY <2>1 DEF Future
  <2> QED BY <2>2 DEF Sleeps, TimerInv
<1>4. NextWake = {m - WakeAhead}
  BY <1>1, <1>3, MinIsMin DEF NextWake, TimesInv
<1>5. timer' = {SetTimeout(m - WakeAhead)}
  BY <1>2, <1>4 DEF Sleeps, Future
<1> QED BY <1>1, <1>2, <1>5

\* A tick.
LEMMA TicksTimer == TimesInv /\ TimerInv /\ Ticks => TimerInv'
<1> SUFFICES ASSUME TimesInv, TimerInv, Ticks PROVE TimerInv'
  OBVIOUS
<1>1. /\ UNCHANGED <<vm, op, inTime>>
      /\ cron' = Closer(cron) /\ beat' = Closer(beat)
      /\ timer' = Closer(timer) /\ plan' = Closer(plan)
  BY DEF Ticks
<1>2. ASSUME op = "copy" PROVE Future(plan)' = Candidates'
  <2>1. Future(plan) = Future(cron) \cup Future(beat)
    BY <1>2 DEF TimerInv, Candidates
  <2>2. cron \in SUBSET Int /\ beat \in SUBSET Int /\ plan \in SUBSET Int
    BY DEF TimesInv, One
  <2>3. \A S \in {cron, beat, plan} : \A x \in Int :
            x > 0 => (x \in Closer(S) <=> x + 1 \in Future(S))
    BY <2>2, CloserTimes DEF Future
  <2>4. \A S \in {cron, beat, plan} : Closer(S) \subseteq Int
    BY <2>2, CloserTimes
  <2>5. \A x \in Int : x > 0 =>
            (x \in Closer(plan) <=> x \in Closer(cron) \/ x \in Closer(beat))
    BY <2>1, <2>3
  <2> QED BY <1>1, <2>4, <2>5 DEF Future, Candidates
<1>3. ASSUME vm = "asleep", op = "none", plan' # {}, inTime
      PROVE  \E m \in plan' : IsMin(m, plan') /\ m >= WakeAhead /\ timer' = {SetTimeout(m - WakeAhead)}
  <2>1. plan # {} /\ plan \in SUBSET Int
    BY <1>1, <1>3, CloserTimes DEF TimesInv
  <2>2. PICK m \in plan : IsMin(m, plan) /\ m >= WakeAhead /\ timer = {SetTimeout(m - WakeAhead)}
    BY <1>3, <2>1 DEF TimerInv
  <2>3. m \in Int /\ WakeAhead \in Nat /\ WakeAhead > 0 /\ MaxSleep \in Nat
    BY <2>1, WakesAssumption
  <2>4. 0 \notin timer
    BY <1>3 DEF Ticks
  <2>5. m - WakeAhead > 0 /\ m - WakeAhead <= MaxDelay /\ timer = {m - WakeAhead}
    BY <2>2, <2>3, <2>4, WakesAssumption DEF SetTimeout
  <2>6. IsMin(m - 1, plan')
    BY <1>1, <2>1, <2>2, <2>3, <2>5, CloserTimes
  <2>7. timer' = {SetTimeout(m - 1 - WakeAhead)}
    <3>1. m - WakeAhead > -MaxSleep /\ m - WakeAhead - 1 = m - 1 - WakeAhead
      BY <2>3, <2>5
    <3>2. SetTimeout(m - 1 - WakeAhead) = m - 1 - WakeAhead
      BY <2>3, <2>5, WakesAssumption DEF SetTimeout
    <3> QED BY <1>1, <2>5, <3>1, <3>2 DEF Closer
  <2>8. m - 1 >= WakeAhead
    BY <2>3, <2>5
  <2> QED BY <2>6, <2>7, <2>8 DEF IsMin
<1> QED BY <1>1, <1>2, <1>3 DEF TimerInv

\* Every step keeps it.
LEMMA NextTimer == TimesInv /\ TimerInv /\ [Next]_vars => TimerInv'
<1> SUFFICES ASSUME TimesInv, TimerInv, [Next]_vars PROVE TimerInv'
  OBVIOUS
<1>1. CASE UNCHANGED vars
  BY <1>1 DEF vars, suspendVars, TimerInv, Candidates
<1>2. CASE Gateway
  BY <1>2 DEF Gateway, JobRuns, Beats, GatewayStops, GatewayStarts, Pokes, suspendVars,
              TimerInv, Candidates
<1>3. CASE PollFindsIdle \/ PollFindsBusy
  BY <1>3 DEF PollFindsIdle, PollFindsBusy, TimerInv
<1>4. CASE AsksCron \/ AsksBeat
  BY <1>4 DEF AsksCron, AsksBeat, TimerInv
<1>5. CASE Skips
  BY <1>5 DEF Skips, TimerInv
<1>6. CASE Pauses
  <2>1. Future(plan)' = Candidates'
    BY <1>6 DEF Pauses, Future, Candidates
  <2> QED BY <1>6, <2>1 DEF Pauses, TimerInv
<1>7. CASE TimerFires \/ Requested
  BY <1>7 DEF TimerFires, Requested, TimerInv
<1>8. CASE Loads
  BY <1>8 DEF Loads, TimerInv
<1>9. CASE SetsTime
  BY <1>9 DEF SetsTime, suspendVars, TimerInv
<1>10. CASE PokesCron
  BY <1>10 DEF PokesCron, suspendVars, TimerInv
<1> QED BY <1>1, <1>2, <1>3, <1>4, <1>5, <1>6, <1>7, <1>8, <1>9, <1>10,
           SleepsTimer, TicksTimer DEF Next, Suspend, Resume

\* A suspend that was over in time has set the timer to the wake-ahead before the first of
\* all schedules it had tested, or, when setTimeout does not reach that far, to fire at once,
\* however long the snapshot took and the tenant has slept.
THEOREM TimerIsAhead == Spec => []TimerAhead
<1>1. Init => TimerInv
  BY DEF Init, TimerInv
<1> QED BY <1>1, InitTimes, NextTimes, NextTimer, TimerInvAhead, PTL DEF Spec

----
(* The job. Until it has run, the agent's deferred run is still to come,   *)
(* no earlier than the job is due and no later than the grace ends.        *)
OwedInv ==
    owed =>
        /\ vm = "running" /\ op = "none" /\ lag = 0 /\ gateway
        /\ \E t \in job, p \in poke, i \in idle : p >= 0 /\ t <= p /\ i + p <= 0

\* The poke of a tenant that woke for its job.
LEMMA PokesCronOwed ==
    ASSUME TimesInv, TimerInv, OwedInv, PokesCron PROVE OwedInv'
<1> SUFFICES ASSUME owed' PROVE OwedInv'
  BY DEF OwedInv
<1>1. op = "poke" /\ vm = "running" /\ ~owed
  BY DEF PokesCron, TimerInv, OwedInv
<1>2. PICK t \in job : lag = 0 /\ gateway /\ t <= WakeAhead /\ poke' = poke \cup Deferred
  BY <1>1 DEF PokesCron, PokeCron
<1>3. t \in Int /\ WakeAhead \in Nat /\ PokeDelay \in Nat /\ t + lag = t
  BY <1>2, WakesAssumption DEF TimesInv, One
<1> DEFINE p == (IF t > 0 THEN t ELSE 0) + PokeDelay
           i == -(WakeAhead + PokeDelay)
<1>4. p \in poke'
  <2>1. Max({0, t + lag}) + PokeDelay \in Deferred
    BY <1>2 DEF Deferred
  <2>2. Max({0, t + lag}) = IF t > 0 THEN t ELSE 0
    BY <1>3, MaxOfTwo
  <2> QED BY <1>2, <2>1, <2>2
<1>5. i \in idle'
  BY DEF PokesCron
<1>6. p >= 0 /\ t <= p /\ i + p <= 0
  BY <1>2, <1>3
<1> HIDE DEF p, i
<1> QED BY <1>1, <1>2, <1>4, <1>5, <1>6 DEF PokesCron, OwedInv

\* Time does not pass the deferred run.
LEMMA TicksOwed ==
    ASSUME Threshold > 0, TimesInv, OwedInv, Ticks PROVE OwedInv'
<1> SUFFICES ASSUME owed PROVE OwedInv'
  BY DEF Ticks, OwedInv
<1>1. PICK t \in job, p \in poke, i \in idle : p >= 0 /\ t <= p /\ i + p <= 0
  BY DEF OwedInv
<1>2. vm = "running" /\ op = "none" /\ lag = 0 /\ gateway
  BY DEF OwedInv
<1>3. t \in Int /\ p \in Int /\ i \in Int /\ MaxSleep \in Nat /\ Threshold \in Nat
  BY WakesAssumption DEF TimesInv, One
<1>4. p > 0 /\ i < 0
  <2>1. 0 \notin poke
    BY <1>2 DEF Ticks
  <2> QED BY <1>1, <1>3, <2>1
<1> DEFINE u == IF t > -MaxSleep THEN t - 1 ELSE t
<1>5. u \in job' /\ p - 1 \in poke' /\ i + 1 \in idle'
  <2>1. u \in Closer(job)
    BY DEF Closer
  <2>2. p - 1 \in Closer(poke)
    <3>1. p > -MaxSleep
      BY <1>3, <1>4
    <3> QED BY <3>1 DEF Closer
  <2>3. i < Threshold
    BY <1>3, <1>4
  <2> QED BY <1>2, <2>1, <2>2, <2>3 DEF Ticks
<1>6. p - 1 >= 0 /\ u <= p - 1 /\ (i + 1) + (p - 1) <= 0
  BY <1>1, <1>3, <1>4
<1>7. vm' = "running" /\ op' = "none" /\ lag' = 0 /\ gateway'
  BY <1>2 DEF Ticks
<1> HIDE DEF u
<1> QED BY <1>5, <1>6, <1>7 DEF OwedInv

\* The deferred run finds the job due.
LEMMA PokesOwed == ASSUME TimesInv, OwedInv, Pokes PROVE OwedInv'
<1> SUFFICES ASSUME owed, owed' PROVE OwedInv'
  BY DEF Pokes, OwedInv
<1>1. PICK t \in job, p \in poke, i \in idle : p >= 0 /\ t <= p /\ i + p <= 0
  BY DEF OwedInv
<1>2. vm = "running" /\ op = "none" /\ lag = 0 /\ gateway
  BY DEF OwedInv
<1>3. ~Due /\ job' = job /\ poke' = poke \ {0} /\ UNCHANGED <<vm, op, lag, gateway, idle>>
  BY DEF Pokes
<1>4. p # 0
  BY <1>1, <1>2, <1>3 DEF Due, TimesInv, One
<1> QED BY <1>1, <1>2, <1>3, <1>4 DEF OwedInv

\* Every step keeps it.
LEMMA NextOwed ==
    ASSUME Threshold > 0, TimesInv, TimerInv, OwedInv, [Next]_vars PROVE OwedInv'
<1>1. CASE UNCHANGED vars
  BY <1>1 DEF vars, guestVars, OwedInv
<1>2. CASE JobRuns \/ GatewayStops \/ PollFindsBusy
  BY <1>2 DEF JobRuns, GatewayStops, PollFindsBusy, OwedInv
<1>3. CASE Beats
  BY <1>3 DEF Beats, OwedInv
<1>4. CASE GatewayStarts
  BY <1>4 DEF GatewayStarts, OwedInv
<1>5. CASE PollFindsIdle
  <2> SUFFICES ASSUME owed PROVE FALSE
    BY <1>5 DEF PollFindsIdle, OwedInv
  <2>1. PICK t \in job, p \in poke, i \in idle : p >= 0 /\ t <= p /\ i + p <= 0
    BY DEF OwedInv
  <2>2. i \in Int /\ p \in Int /\ Threshold \in Nat
    BY WakesAssumption DEF TimesInv, One
  <2>3. i >= Threshold
    BY <1>5, <2>1 DEF PollFindsIdle
  <2> QED BY <2>1, <2>2, <2>3
<1>6. CASE AsksCron \/ AsksBeat \/ Skips \/ Pauses \/ Sleeps
  BY <1>6 DEF AsksCron, AsksBeat, Skips, Pauses, Sleeps, OwedInv
<1>7. CASE TimerFires \/ Requested \/ Loads \/ SetsTime
  BY <1>7 DEF TimerFires, Requested, Loads, SetsTime, OwedInv, TimerInv
<1> QED BY <1>1, <1>2, <1>3, <1>4, <1>5, <1>6, <1>7, PokesCronOwed, TicksOwed, PokesOwed
        DEF Next, Suspend, Resume, Gateway

\* A tenant woken for its job is not suspended before the job has run, whatever the
\* wake-ahead, the delay of the agent's run and the interval, as long as a tenant has to be
\* idle for any time at all.
THEOREM WokenJobAlwaysRuns ==
    ASSUME Threshold > 0
    PROVE  Spec => WokenJobRuns
<1>1. Init => TimerInv /\ OwedInv
  BY DEF Init, TimerInv, OwedInv
<1>2. TimesInv /\ TimerInv /\ OwedInv /\ [Next]_vars =>
          TimesInv' /\ TimerInv' /\ OwedInv'
  BY NextTimes, NextTimer, NextOwed
<1>3. OwedInv /\ [Next]_vars => [vm = "running" /\ vm' = "asleep" => ~owed]_vars
  <2> SUFFICES ASSUME OwedInv, Next, vm = "running", vm' = "asleep" PROVE ~owed
    OBVIOUS
  <2>1. Pauses
    BY DEF Next, Suspend, Resume, Gateway, JobRuns, Beats, GatewayStops, GatewayStarts, Pokes,
           PollFindsIdle, PollFindsBusy, AsksCron, AsksBeat, Skips, Sleeps, TimerFires,
           Requested, Loads, SetsTime, PokesCron, Ticks
  <2> QED BY <2>1 DEF Pauses, OwedInv
<1> QED BY <1>1, <1>2, <1>3, InitTimes, PTL DEF Spec, WokenJobRuns

----
(* The answer of the agent: what it takes to be the next beat.             *)

\* Division rounds down, whatever the divisor.
LEMMA Quotient ==
    ASSUME NEW a \in Int, NEW b \in Nat, b > 0
    PROVE  /\ a \div b \in Int
           /\ b * (a \div b) <= a /\ a < b * (a \div b) + b
OBVIOUS

\* A multiple leaves no remainder.
LEMMA Multiple ==
    ASSUME NEW k \in Int, NEW b \in Nat, b > 0 PROVE (k * b) % b = 0
OBVIOUS

\* Rounding up gives the first multiple that is not below.
LEMMA CeilIsNext ==
    ASSUME NEW a \in Int, NEW b \in Nat, b > 0
    PROVE  Ceil(a, b) \in Int /\ a <= Ceil(a, b) * b /\ Ceil(a, b) * b < a + b
<1>1. a + b - 1 \in Int
  OBVIOUS
<1> DEFINE q == (a + b - 1) \div b
<1>2. q \in Int /\ b * q <= a + b - 1 /\ a + b - 1 < b * q + b
  BY <1>1, Quotient
<1>3. Ceil(a, b) = q
  BY DEF Ceil
<1> HIDE DEF q
<1>4. q * b = b * q
  BY <1>2
<1> QED BY <1>2, <1>3, <1>4

\* The beat that handleGetHeartbeatSchedule answers with.
LEMMA BeatIsNext ==
    ASSUME TimesInv, NEW t \in HeartbeatSchedule
    PROVE  /\ Every \in Nat /\ Every > 0
           /\ (t + since) % Every = 0
           /\ t + lag >= 0
           /\ t = Every - since \/ t + lag < Every
<1>1. Every \in Nat /\ Every > 0 /\ t = NextBeat(-since, -lag, Every)
  BY WakesAssumption DEF HeartbeatSchedule
<1>2. since \in Int /\ lag \in Nat
  BY DEF TimesInv
<1>3. CASE -since + Every <= -lag
  <2> DEFINE k == Ceil(-lag - (-since), Every)
             n == -lag - (-since)
  <2>1. n \in Int /\ n = since - lag
    BY <1>2
  <2>2. k \in Int /\ n <= k * Every /\ k * Every < n + Every
    BY <1>1, <2>1, CeilIsNext
  <2>3. t = -since + k * Every
    BY <1>1, <1>3 DEF NextBeat
  <2> HIDE DEF k, n
  <2>4. k * Every \in Int
    BY <1>1, <2>2
  <2>5. t + since = k * Every /\ t + lag >= 0 /\ t + lag < Every
    BY <1>1, <1>2, <2>1, <2>2, <2>3, <2>4
  <2> QED BY <1>1, <2>2, <2>5, Multiple
<1>4. CASE ~(-since + Every <= -lag)
  <2>1. t = -since + Every
    BY <1>1, <1>4 DEF NextBeat
  <2>2. t + since = 1 * Every /\ t + lag >= 0 /\ t = Every - since
    BY <1>1, <1>2, <1>4, <2>1
  <2> QED BY <1>1, <2>2, Multiple
<1> QED BY <1>3, <1>4

\* However many beats were missed and however late the guest's clock was set, the agent
\* answers with the first beat that is not past by its clock, for every interval.
THEOREM NextBeatIsRight == Spec => []NextBeatIsNext
<1>1. TimesInv => NextBeatIsNext
  BY BeatIsNext DEF NextBeatIsNext
<1> QED BY <1>1, InitTimes, NextTimes, PTL DEF Spec

----
(* The range of every time. The job's next run is no further ahead than    *)
(* its interval, which bounds the deferred run the agent counts from it.   *)
RangeInv ==
    /\ vm \in {"running", "asleep"}
    /\ op \in {"none", "cron", "beat", "test", "copy", "load", "clock", "poke"}
    /\ timed \in BOOLEAN /\ gateway \in BOOLEAN /\ owed \in BOOLEAN /\ inTime \in BOOLEAN
    /\ job \subseteq -MaxSleep..JobEvery
    /\ cron \subseteq Times /\ beat \subseteq Times /\ plan \subseteq Times
    /\ timer \subseteq Times /\ poke \subseteq Times /\ idle \subseteq Times
    /\ since \in 0..(Every + MaxSleep) /\ lag \in 0..MaxSleep

\* What lies within the range.
LEMMA InTimes ==
    /\ Times \subseteq Int
    /\ -MaxSleep..JobEvery \subseteq Times
    /\ \A t \in Int : -MaxSleep <= t /\ t <= Every => t \in Times
    /\ \A t \in Times, u \in Int : 0 < u /\ u <= t => u \in Times
    /\ \A t \in Times, u \in Int : -MaxSleep <= u /\ u <= t => u \in Times
    /\ \A t \in Times : t < Threshold => t + 1 \in Times
    /\ 0 \in Times /\ -(WakeAhead + PokeDelay) \in Times
    /\ \A t \in 0..(JobEvery + MaxSleep) : t + PokeDelay \in Times
BY WakesAssumption DEF Times

\* A tick leaves a time within its range.
LEMMA CloserStays ==
    /\ \A S \in SUBSET Times : Closer(S) \subseteq Times
    /\ \A S \in SUBSET (-MaxSleep..JobEvery) : Closer(S) \subseteq -MaxSleep..JobEvery
<1>1. MaxSleep \in Nat /\ JobEvery \in Nat
  BY WakesAssumption
<1>2. \A t \in Times : (IF t > -MaxSleep THEN t - 1 ELSE t) \in Times
  BY WakesAssumption DEF Times
<1>3. \A t \in -MaxSleep..JobEvery :
          (IF t > -MaxSleep THEN t - 1 ELSE t) \in -MaxSleep..JobEvery
  BY <1>1
<1> QED BY <1>2, <1>3 DEF Closer

\* The gateway and the agent's deferred runs.
LEMMA GatewayRange == TimesInv /\ RangeInv /\ Gateway => RangeInv'
<1> SUFFICES ASSUME TimesInv, RangeInv, Gateway PROVE RangeInv'
  OBVIOUS
<1>1. {JobEvery - lag} \subseteq -MaxSleep..JobEvery
  BY WakesAssumption DEF RangeInv
<1>2. lag \in 0..(Every + MaxSleep)
  BY WakesAssumption DEF RangeInv
<1>3. CASE JobRuns
  BY <1>1, <1>3 DEF JobRuns, suspendVars, RangeInv
<1>4. CASE Beats
  BY <1>2, <1>4 DEF Beats, suspendVars, RangeInv
<1>5. CASE GatewayStops \/ GatewayStarts
  BY <1>5 DEF GatewayStops, GatewayStarts, suspendVars, RangeInv
<1>6. CASE Pokes
  BY <1>1, <1>6 DEF Pokes, suspendVars, RangeInv
<1> QED BY <1>3, <1>4, <1>5, <1>6 DEF Gateway

\* The poll and the suspend.
LEMMA SuspendRange ==
    TimesInv /\ RangeInv /\ (PollFindsIdle \/ PollFindsBusy \/ Suspend) => RangeInv'
<1> SUFFICES ASSUME TimesInv, RangeInv, PollFindsIdle \/ PollFindsBusy \/ Suspend
             PROVE  RangeInv'
  OBVIOUS
<1>1. CASE PollFindsIdle \/ PollFindsBusy
  BY <1>1, InTimes DEF PollFindsIdle, PollFindsBusy, guestVars, suspendVars, RangeInv
<1>2. CASE AsksCron
  <2>1. cron' \subseteq Times
    BY <1>2, InTimes DEF AsksCron, CronAnswers, CronSchedules, RangeInv
  <2> QED BY <1>2, <2>1 DEF AsksCron, guestVars, RangeInv
<1>3. CASE AsksBeat
  <2>1. beat' \in {HeartbeatSchedule, {}, HeartbeatFromNow}
    BY <1>3 DEF AsksBeat, BeatAnswers
  <2>2. ASSUME NEW t \in HeartbeatSchedule PROVE t \in Times
    <3>1. t \in Int
      BY BeatIsTime
    <3>2. -MaxSleep <= t /\ t <= Every
      BY <3>1, BeatIsNext, WakesAssumption DEF RangeInv
    <3> QED BY <3>1, <3>2, InTimes
  <2>3. HeartbeatFromNow \subseteq Times
    <3>1. Every - lag \in Int /\ -MaxSleep <= Every - lag /\ Every - lag <= Every
      BY WakesAssumption DEF RangeInv
    <3> QED BY <3>1, InTimes DEF HeartbeatFromNow
  <2> QED BY <1>3, <2>1, <2>2, <2>3 DEF AsksBeat, guestVars, RangeInv
<1>4. CASE Skips
  BY <1>4 DEF Skips, Forgets, guestVars, RangeInv
<1>5. CASE Pauses
  BY <1>5 DEF Pauses, Candidates, Future, guestVars, RangeInv
<1>6. CASE Sleeps
  <2>1. Future(NextWake) \subseteq Times
    <3>1. CASE Candidates = {}
      BY <3>1 DEF NextWake, Future
    <3>2. ASSUME NEW m \in Candidates, IsMin(m, Candidates)
          PROVE  Future(NextWake) \subseteq Times
      <4>1. Candidates \in SUBSET Times
        BY DEF Candidates, Future, RangeInv
      <4>2. m \in Times /\ m \in Int /\ Min(Candidates) = m
        BY <3>2, <4>1, InTimes, MinIsMin
      <4>3. NextWake = {m - WakeAhead} /\ m - WakeAhead \in Int /\ m - WakeAhead <= m
        BY <3>2, <4>2, WakesAssumption DEF NextWake
      <4> QED BY <4>2, <4>3, InTimes DEF Future
    <3> QED BY <3>1, <3>2, CandidatesHaveFirst
  <2>2. timer' \subseteq Times
    BY <1>6, <2>1, DelayIsTime, InTimes DEF Sleeps
  <2> QED BY <1>6, <2>2 DEF Sleeps, Forgets, guestVars, RangeInv
<1> QED BY <1>1, <1>2, <1>3, <1>4, <1>5, <1>6 DEF Suspend

\* The resume.
LEMMA ResumeRange == TimesInv /\ RangeInv /\ Resume => RangeInv'
<1> SUFFICES ASSUME TimesInv, RangeInv, Resume PROVE RangeInv'
  OBVIOUS
<1>1. CASE TimerFires \/ Requested
  BY <1>1 DEF TimerFires, Requested, guestVars, RangeInv
<1>2. CASE Loads
  BY <1>2 DEF Loads, guestVars, RangeInv
<1>3. CASE SetsTime
  <2>1. lag' \in 0..MaxSleep
    BY <1>3, WakesAssumption DEF SetsTime, SetGuestTime, RangeInv
  <2> QED BY <1>3, <2>1 DEF SetsTime, suspendVars, RangeInv
<1>4. CASE PokesCron
  <2>1. ASSUME NEW t \in job PROVE Max({0, t + lag}) + PokeDelay \in Times
    <3>1. t + lag \in Int /\ t + lag <= JobEvery + MaxSleep
      BY WakesAssumption DEF RangeInv
    <3>2. Max({0, t + lag}) \in 0..(JobEvery + MaxSleep)
      BY <3>1, MaxOfTwo, WakesAssumption
    <3> QED BY <3>2, InTimes
  <2>2. poke' \subseteq Times
    <3>1. Deferred \subseteq Times
      BY <2>1 DEF Deferred
    <3> QED BY <1>4, <3>1 DEF PokesCron, PokeCron, RangeInv
  <2>3. owed' \in BOOLEAN
    BY <1>4 DEF PokesCron, PokeCron, RangeInv
  <2> QED BY <1>4, <2>2, <2>3, InTimes DEF PokesCron, suspendVars, RangeInv
<1> QED BY <1>1, <1>2, <1>3, <1>4 DEF Resume

\* Time.
LEMMA TickRange == TimesInv /\ RangeInv /\ Ticks => RangeInv'
<1> SUFFICES ASSUME TimesInv, RangeInv, Ticks PROVE RangeInv'
  OBVIOUS
<1>1. /\ job' \subseteq -MaxSleep..JobEvery
      /\ cron' \subseteq Times /\ beat' \subseteq Times /\ plan' \subseteq Times
      /\ timer' \subseteq Times /\ poke' \subseteq Times
  BY CloserStays DEF Ticks, RangeInv
<1>2. idle' \subseteq Times
  <2>1. \A t \in idle : (IF t < Threshold THEN t + 1 ELSE t) \in Times
    BY InTimes DEF RangeInv
  <2> QED BY <2>1 DEF Ticks
<1>3. lag' \in 0..MaxSleep
  BY WakesAssumption DEF Ticks, RangeInv
<1>4. since' \in 0..(Every + MaxSleep)
  BY WakesAssumption DEF Ticks, RangeInv
<1> QED BY <1>1, <1>2, <1>3, <1>4 DEF Ticks, RangeInv

\* A set of at most one time has at most one member.
LEMMA OneMember == ASSUME NEW S, One(S) PROVE Cardinality(S) <= 1
<1>1. CASE S = {}
  BY <1>1, FS_EmptySet
<1>2. ASSUME NEW s \in S PROVE Cardinality(S) <= 1
  <2>1. S = {s}
    BY DEF One
  <2>2. Cardinality({s}) = 1
    BY FS_Singleton
  <2> QED BY <2>1, <2>2
<1> QED BY <1>1, <1>2

\* The types, for every length of the intervals and of the sleep.
THEOREM WakesTypes == Spec => []WakesTypeOK
<1>1. Init => RangeInv
  <2>1. JobEvery \in -MaxSleep..JobEvery /\ 0 \in 0..(Every + MaxSleep) /\ 0 \in 0..MaxSleep
    BY WakesAssumption
  <2> QED BY <2>1 DEF Init, RangeInv
<1>2. TimesInv /\ RangeInv /\ [Next]_vars => RangeInv'
  <2>1. RangeInv /\ UNCHANGED vars => RangeInv'
    BY DEF RangeInv, vars, guestVars, suspendVars
  <2> QED BY <2>1, GatewayRange, SuspendRange, ResumeRange, TickRange DEF Next
<1>3. TimesInv /\ RangeInv => WakesTypeOK
  BY InTimes, OneMember DEF TimesInv, RangeInv, WakesTypeOK
<1> QED BY <1>1, <1>2, <1>3, InitTimes, NextTimes, PTL DEF Spec
====
