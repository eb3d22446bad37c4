---- MODULE Wakes ----
(***************************************************************************)
(* When a suspended tenant is to wake: the schedules the guest agent       *)
(* reports (guest/lobster-agent.mjs), the wake time runSuspend derives     *)
(* from them (src/commands/suspend.ts), the timer, the resume that sets    *)
(* the guest's clock, and the poke of its overdue jobs with the grace the  *)
(* idle clock then has (src/watchdog/scheduler.ts).                        *)
(*                                                                         *)
(* Times are relative to the host's clock, in ticks: each is a set that is *)
(* empty or has one member, which a tick brings closer. How long something *)
(* is past matters only within MaxSleep.                                   *)
(***************************************************************************)
EXTENDS Integers, FiniteSetsExt

CONSTANTS
    WakeAhead,  \* config.watchdog.cronWakeAheadMs
    Threshold,  \* config.watchdog.idleThresholdMs
    PokeDelay,  \* POKE_DELAY_MS, and the extra grace after a timed wake
    Every,      \* the heartbeat's interval; 0 when it has none
    JobEvery,   \* from one run of the cron job to the next; 0 when there is no job
    MaxDelay,   \* the longest delay setTimeout keeps to, 2^31 - 1 ms
    MaxSleep,   \* bound: how far the guest's clock falls behind
    MayFail     \* "call" (a call of the agent, or the agent's of the gateway), "clock"
                \* (the setting of the guest's clock), "gateway" (it is not running)

ASSUME WakesAssumption ==
    /\ {WakeAhead, Threshold, PokeDelay, Every, JobEvery, MaxDelay, MaxSleep} \subseteq Nat
    /\ WakeAhead > 0

VARIABLES
    vm,         \* "running" or "asleep"
    op,         \* where the suspend or resume is
    timed,      \* the resume was started by the wake timer
    gateway,    \* the gateway runs
    job,        \* nextRunAtMs of the cron job
    since,      \* ticks since the last heartbeat, of a projected beat from 1 on
    lag,        \* how far the guest's clock is behind
    cron,       \* cronSchedules of runSuspend
    beat,       \* heartbeatSchedule of runSuspend
    timer,      \* the wake timer
    poke,       \* the deferred cron.run of the agent; its clock stops with the guest
    idle,       \* ticks since idleSince, which may lie ahead
    owed,       \* history: the job the tenant was woken for has not run yet
    plan,       \* history: what the suspend had to wake for when it tested it
    inTime      \* history: it was still time to set a timer when the suspend was over

guestVars == <<gateway, job, since, lag, poke>>
suspendVars == <<cron, beat, timer, plan, inTime>>
vars == <<vm, op, timed, guestVars, suspendVars, idle, owed>>

Init ==
    /\ vm = "running" /\ op = "none" /\ timed = FALSE
    /\ gateway = TRUE
    /\ job = IF JobEvery > 0 THEN {JobEvery} ELSE {}
    /\ since = 0 /\ lag = 0
    /\ cron = {} /\ beat = {} /\ timer = {} /\ poke = {}
    /\ idle = {} /\ owed = FALSE
    /\ plan = {} /\ inTime = FALSE

----
(* The arithmetic of handleGetHeartbeatSchedule. *)

Ceil(a, b) == (a + b - 1) \div b

\* Slip: the periods are rounded down.
NextBeatFloor(last, now, every) ==
    IF last + every <= now THEN last + ((now - last) \div every) * every ELSE last + every

\* The next beat of a gateway whose last was at last, projected forward when it is past.
NextBeat(last, now, every) ==
    IF last + every <= now THEN last + Ceil(now - last, every) * every ELSE last + every

\* The answer of the agent, whose clock is behind.
HeartbeatSchedule ==
    IF Every = 0 \/ ~gateway THEN {} ELSE {NextBeat(-since, -lag, Every)}

\* Without the gateway's last heartbeat the agent counts from now.
HeartbeatFromNow == IF Every = 0 \/ ~gateway THEN {} ELSE {Every - lag}

CronSchedules == IF gateway THEN job ELSE {}

\* The deferred runs of handlePokeCron: after the job's time, by the agent's clock.
Deferred == IF gateway THEN {Max({0, t + lag}) + PokeDelay : t \in job} ELSE {}

Future(times) == {t \in times : t > 0}

----
(* The gateway. Its own timers may be late after a resume.                 *)

\* Its job is due, by its own clock.
Due == vm = "running" /\ gateway /\ \E t \in job : t + lag <= 0

JobRuns ==
    /\ Due
    /\ job' = {JobEvery - lag}
    /\ owed' = FALSE
    /\ UNCHANGED <<vm, op, timed, gateway, since, lag, poke, suspendVars, idle>>

Beats ==
    /\ vm = "running" /\ gateway /\ Every > 0 /\ since > 0
    /\ since' = lag
    /\ UNCHANGED <<vm, op, timed, gateway, job, lag, poke, suspendVars, idle, owed>>

GatewayStops ==
    /\ "gateway" \in MayFail
    /\ vm = "running" /\ gateway
    /\ gateway' = FALSE /\ owed' = FALSE
    /\ UNCHANGED <<vm, op, timed, job, since, lag, poke, suspendVars, idle>>

GatewayStarts ==
    /\ vm = "running" /\ ~gateway /\ gateway' = TRUE
    /\ UNCHANGED <<vm, op, timed, job, since, lag, poke, suspendVars, idle, owed>>

(* The agent's deferred cron.run, mode "due": a job that is not due or has *)
(* run is left alone.                                                      *)
Pokes ==
    /\ vm = "running" /\ 0 \in poke
    /\ poke' = poke \ {0}
    /\ \/ /\ IF Due THEN job' = {JobEvery - lag} /\ owed' = FALSE
                    ELSE UNCHANGED <<job, owed>>
       \/ "call" \in MayFail /\ owed' = FALSE /\ UNCHANGED job
    /\ UNCHANGED <<vm, op, timed, gateway, since, lag, suspendVars, idle>>

----
(* The idle poll finds the tenant idle.                                    *)
PollFindsIdle ==
    /\ vm = "running" /\ op = "none"
    /\ IF idle = {}
       THEN idle' = {0} /\ UNCHANGED op
       ELSE /\ \A t \in idle : t >= Threshold
            /\ op' = "cron" /\ UNCHANGED idle
    /\ UNCHANGED <<vm, timed, guestVars, suspendVars, owed>>

(* It finds it busy: a user has come, and the grace of a timed wake ends.  *)
PollFindsBusy ==
    /\ vm = "running" /\ op = "none" /\ idle # {}
    /\ idle' = {} /\ owed' = FALSE
    /\ UNCHANGED <<vm, op, timed, guestVars, suspendVars>>

\* What the calls of the agent return.
CronAnswers == {CronSchedules} \cup (IF "call" \in MayFail THEN {{}} ELSE {})
BeatAnswers ==
    {HeartbeatSchedule} \cup (IF "call" \in MayFail THEN {{}, HeartbeatFromNow} ELSE {})

(* runSuspend asks for the cron schedules; without an answer it goes on    *)
(* with none.                                                              *)
AsksCron ==
    /\ op = "cron" /\ op' = "beat"
    /\ cron' \in CronAnswers
    /\ UNCHANGED <<vm, timed, guestVars, beat, timer, plan, inTime, idle, owed>>

(* It asks for the heartbeat.                                              *)
AsksBeat ==
    /\ op = "beat" /\ op' = "test"
    /\ beat' \in BeatAnswers
    /\ UNCHANGED <<vm, timed, guestVars, cron, timer, plan, inTime, idle, owed>>

Candidates == Future(cron) \cup Future(beat)

\* The next wake would be in the past.
TooNear == Candidates # {} /\ Min(Candidates) - WakeAhead <= 0

\* What runSuspend keeps no longer than its end.
Forgets == cron' = {} /\ beat' = {}

(* The suspend is skipped.                                                 *)
Skips ==
    /\ op = "test" /\ TooNear
    /\ op' = "none" /\ idle' = {}
    /\ Forgets
    /\ UNCHANGED <<vm, timed, guestVars, timer, plan, inTime, owed>>

(* The VM is paused, to be snapshotted and copied.                         *)
Pauses ==
    /\ op = "test" /\ ~TooNear
    /\ op' = "copy" /\ vm' = "asleep"
    /\ plan' = Candidates /\ owed' = FALSE
    /\ UNCHANGED <<timed, guestVars, cron, beat, timer, inTime, idle>>

\* Slip: the cron schedule alone decides when there is one.
NextWakeCronFirst ==
    {t - WakeAhead : t \in IF Future(cron) # {} THEN Future(cron) ELSE Future(beat)}

\* Slip: a timer for each schedule.
NextWakeEach == {t - WakeAhead : t \in Candidates}

\* nextWakeAtMs, computed anew.
NextWake == IF Candidates = {} THEN {} ELSE {Min(Candidates) - WakeAhead}

\* When setTimeout fires: a delay too long for it is cut down to 1 ms.
SetTimeout(delay) == IF delay > MaxDelay THEN 0 ELSE delay

(* The suspend is over and the wake scheduled; scheduleWake finds the      *)
(* tenant in flight when the time is up already, and sets no timer.        *)
Sleeps ==
    /\ op = "copy" /\ op' = "none"
    /\ timer' = {SetTimeout(delay) : delay \in Future(NextWake)}
    /\ inTime' = (\A t \in plan : t > WakeAhead)
    /\ idle' = {}
    /\ Forgets
    /\ UNCHANGED <<vm, timed, guestVars, plan, owed>>

----
(* The timer fires.                                                        *)
TimerFires ==
    /\ vm = "asleep" /\ op = "none" /\ 0 \in timer
    /\ op' = "load" /\ timed' = TRUE /\ timer' = {}
    /\ UNCHANGED <<vm, guestVars, cron, beat, plan, inTime, idle, owed>>

(* A request or a command resumes the tenant.                              *)
Requested ==
    /\ vm = "asleep" /\ op = "none"
    /\ op' = "load" /\ timed' = FALSE /\ timer' = {}
    /\ UNCHANGED <<vm, guestVars, cron, beat, plan, inTime, idle, owed>>

(* The guest runs again.                                                   *)
Loads ==
    /\ op = "load" /\ op' = "clock" /\ vm' = "running"
    /\ plan' = {} /\ inTime' = FALSE
    /\ UNCHANGED <<timed, guestVars, cron, beat, timer, idle, owed>>

\* setGuestTime.
SetGuestTime == lag' \in {0} \cup (IF "clock" \in MayFail THEN {lag} ELSE {})

(* Its clock is set, which may fail softly. A tenant that was not woken by *)
(* a timer is not poked.                                                   *)
SetsTime ==
    /\ op = "clock"
    /\ SetGuestTime
    /\ op' = IF timed THEN "poke" ELSE "none"
    /\ idle' = {}
    /\ UNCHANGED <<vm, timed, gateway, job, since, poke, suspendVars, owed>>

\* pokeCron: the agent defers a run of the jobs the gateway lists.
PokeCron ==
    \/ /\ poke' = poke \cup Deferred
       /\ owed' = (lag = 0 /\ gateway /\ \E t \in job : t <= WakeAhead)
    \/ "call" \in MayFail /\ UNCHANGED <<poke, owed>>

\* Slip: the idle clock starts at once.
PokesCronWithoutGrace ==
    /\ op = "poke" /\ op' = "none" /\ timed' = FALSE
    /\ PokeCron
    /\ idle' = {0}
    /\ UNCHANGED <<vm, gateway, job, since, lag, suspendVars>>

(* The overdue jobs are poked and the idle clock gets its grace, whether   *)
(* that worked or not.                                                     *)
PokesCron ==
    /\ op = "poke" /\ op' = "none" /\ timed' = FALSE
    /\ PokeCron
    /\ idle' = {-(WakeAhead + PokeDelay)}
    /\ UNCHANGED <<vm, gateway, job, since, lag, suspendVars>>

----
Closer(times) == {IF t > -MaxSleep THEN t - 1 ELSE t : t \in times}

(* Time passes. What is due has happened: timers of host and agent fire.   *)
Ticks ==
    /\ ~(vm = "running" /\ 0 \in poke)
    /\ ~(vm = "asleep" /\ op = "none" /\ 0 \in timer)
    /\ vm = "asleep" => lag < MaxSleep
    /\ job' = Closer(job) /\ cron' = Closer(cron) /\ beat' = Closer(beat)
    /\ timer' = Closer(timer) /\ plan' = Closer(plan)
    /\ since' = IF Every = 0 THEN 0 ELSE IF since >= Every + lag THEN since + 1 - Every
                ELSE since + 1
    /\ idle' = {IF t < Threshold THEN t + 1 ELSE t : t \in idle}
    /\ IF vm = "running"
       THEN poke' = Closer(poke) /\ UNCHANGED lag
       ELSE lag' = lag + 1 /\ UNCHANGED poke
    /\ UNCHANGED <<vm, op, timed, gateway, inTime, owed>>

Suspend == AsksCron \/ AsksBeat \/ Skips \/ Pauses \/ Sleeps
Resume == TimerFires \/ Requested \/ Loads \/ SetsTime \/ PokesCron
Gateway == JobRuns \/ Beats \/ GatewayStops \/ GatewayStarts \/ Pokes

Next == Suspend \/ Resume \/ Gateway \/ PollFindsIdle \/ PollFindsBusy \/ Ticks

Spec == Init /\ [][Next]_vars

----
\* How far anything is past or ahead.
Times == -(MaxSleep + WakeAhead + PokeDelay)..(JobEvery + Every + MaxSleep + PokeDelay + Threshold)

WakesTypeOK ==
    /\ vm \in {"running", "asleep"}
    /\ op \in {"none", "cron", "beat", "test", "copy", "load", "clock", "poke"}
    /\ timed \in BOOLEAN /\ gateway \in BOOLEAN /\ owed \in BOOLEAN /\ inTime \in BOOLEAN
    /\ \A times \in {job, cron, beat, timer, poke, idle, plan} : times \subseteq Times
    /\ \A times \in {job, cron, beat, timer, idle} : Cardinality(times) <= 1
    /\ since \in 0..(Every + MaxSleep) /\ lag \in 0..MaxSleep

\* A suspended tenant wakes in time for whatever it has to do first, cron job or heartbeat,
\* though the schedules are filtered twice, before and after a snapshot that takes as long as
\* it takes: as long as there was time left when it was done, the timer is set to the
\* wake-ahead before the first of all that the test had seen, and to no later time, which is
\* at once, when that is further ahead than setTimeout reaches.
TimerAhead ==
    vm = "asleep" /\ op = "none" /\ plan # {} /\ inTime =>
        timer = {SetTimeout(Min(plan) - WakeAhead)}

\* A tenant sleeps until then. (It does not when that is further ahead than setTimeout
\* reaches: it is resumed at once, found idle and suspended, again and again.)
SleepsUntilWake ==
    vm = "asleep" /\ op = "none" /\ plan # {} /\ inTime => timer = {Min(plan) - WakeAhead}

\* A tenant woken for its job is not suspended again before the job has run, though the
\* gateway's own timer is late and the agent's deferred run comes after the job's time: the
\* grace outlasts it, unless a user came and went, the gateway stopped, or a call failed.
WokenJobRuns == [][vm = "running" /\ vm' = "asleep" => ~owed]_vars

\* Whatever beats were missed asleep, and however late the clock was set, the agent answers
\* with the first beat, a whole number of intervals after the last one, that is not past by
\* its clock.
NextBeatIsNext ==
    \A t \in HeartbeatSchedule :
        /\ (t + since) % Every = 0
        /\ t + lag >= 0
        /\ t = Every - since \/ t + lag < Every
====
