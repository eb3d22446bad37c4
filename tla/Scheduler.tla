---- MODULE Scheduler ----
(***************************************************************************)
(* Auto-suspend, wake-on-request and timed wake-up:                        *)
(* src/watchdog/scheduler.ts. Its entry points (the idle poll, a sentinel  *)
(* accepting a connection, a timer, start-up) start asynchronous suspends  *)
(* and resumes; every await is a step boundary.                            *)
(*                                                                         *)
(* Time is abstract: the idle clock of a tenant is none, counting or       *)
(* elapsed, and a timer that is set fires at any later moment.             *)
(***************************************************************************)
EXTENDS DaemonState

CONSTANTS
    Polls,      \* invocations of the idle poll that may overlap
    NoName,     \* no tenant: the loop variable of a poll or of start-up between two
    QuickStart, \* TRUE: the start-up function is done before the first poll
    LateWake    \* TRUE: the wake time can pass while the suspend is under way

VARIABLES
    poll,       \* poll[p]: one invocation of the setInterval callback
    boot,       \* the start-up function
    susPc,      \* where triggerSuspend(n) and the runSuspend it awaits are
    susIdx,     \* the index triggerSuspend(n) keeps
    susSnap,    \* the registry runSuspend(n) read
    resPc,      \* where triggerResume(n) and the runResume it awaits are
    resCron,    \* whether triggerResume(n) was called by a timer
    resSnap,    \* the registry runResume(n) read
    listener,   \* the TCP listener on the guest IP: off, armed, or fired once
    mapped,     \* whether sentinels has the tenant
    timer,      \* whether cronTimers has the tenant
    idle        \* idleSince

susVars == <<susPc, susIdx, susSnap>>
resVars == <<resPc, resCron, resSnap>>
schedVars == <<poll, boot, susVars, resVars, listener, mapped, timer, idle>>

ASSUME NoNameAssumption == NoName \notin Names

IdlePoll == [pc |-> "idle", i |-> 0, name |-> NoName]

PollPc == {"idle", "loop", "asking", "listening"}
BootPc == {"loop", "listening", "done"}
SuspendPc == {"idle", "loading", "working", "saved", "listening", "thrown"}
ResumePc == {"idle", "stopping", "loading", "working", "saved", "poking"}

SchedulerInit ==
    /\ poll = [p \in Polls |-> IdlePoll]
    /\ boot = [pc |-> "loop", i |-> 1, name |-> NoName]
    /\ susPc = [n \in Names |-> "idle"]
    /\ susIdx = [n \in Names |-> 0]
    /\ susSnap = [n \in Names |-> NoTenants]
    /\ resPc = [n \in Names |-> "idle"]
    /\ resCron = [n \in Names |-> FALSE]
    /\ resSnap = [n \in Names |-> NoTenants]
    /\ listener = [n \in Names |-> "off"]
    /\ mapped = [n \in Names |-> FALSE]
    /\ timer = [n \in Names |-> FALSE]
    /\ idle = [n \in Names |-> "none"]

(* The process starts again with empty maps.                               *)
SchedulerRestarts ==
    /\ poll' = [p \in Polls |-> IdlePoll]
    /\ boot' = [pc |-> "loop", i |-> 1, name |-> NoName]
    /\ susPc' = [n \in Names |-> "idle"]
    /\ susIdx' = [n \in Names |-> 0]
    /\ susSnap' = [n \in Names |-> NoTenants]
    /\ resPc' = [n \in Names |-> "idle"]
    /\ resCron' = [n \in Names |-> FALSE]
    /\ resSnap' = [n \in Names |-> NoTenants]
    /\ listener' = [n \in Names |-> "off"]
    /\ mapped' = [n \in Names |-> FALSE]
    /\ timer' = [n \in Names |-> FALSE]
    /\ idle' = [n \in Names |-> "none"]

----
\* Slip: triggerResume waits for the map to be cleared but leaves the socket open.
TriggerResumeLeavesSocket(n, cron, has, heard) ==
    IF n \in inFlight
    THEN /\ listener' = [listener EXCEPT ![n] = heard]
         /\ UNCHANGED <<inFlight, resVars>>
    ELSE /\ inFlight' = inFlight \cup {n}
         /\ listener' = [listener EXCEPT ![n] = heard]
         /\ resPc' = [resPc EXCEPT ![n] = IF has THEN "stopping" ELSE "loading"]
         /\ resCron' = [resCron EXCEPT ![n] = cron]
         /\ UNCHANGED resSnap

(* triggerResume up to its first await. has: whether sentinels has the     *)
(* tenant; heard: the listener as the event left it. server.stop is        *)
(* synchronous, the rest of stopSentinel is not.                           *)
TriggerResume(n, cron, has, heard) ==
    IF n \in inFlight
    THEN /\ listener' = [listener EXCEPT ![n] = heard]
         /\ UNCHANGED <<inFlight, resVars>>
    ELSE /\ inFlight' = inFlight \cup {n}
         /\ listener' = [listener EXCEPT ![n] = IF has THEN "off" ELSE heard]
         /\ resPc' = [resPc EXCEPT ![n] = IF has THEN "stopping" ELSE "loading"]
         /\ resCron' = [resCron EXCEPT ![n] = cron]
         /\ UNCHANGED resSnap

\* The timer scheduleWake leaves: it returns first when there is no wake time.
TimerAfter(n) == [timer EXCEPT ![n] = IF wake[n] = "none" THEN @ ELSE wake[n] = "ahead"]

(* scheduleWake of a tenant whose sentinel is in the map.                  *)
ScheduleWake(n, heard) ==
    /\ timer' = TimerAfter(n)
    /\ IF wake[n] = "due"
       THEN TriggerResume(n, TRUE, TRUE, heard)
       ELSE listener' = [listener EXCEPT ![n] = heard] /\ UNCHANGED <<inFlight, resVars>>

(* A connection reaches the sentinel; later ones are only held.            *)
Connects(n) ==
    /\ listener[n] = "armed"
    /\ TriggerResume(n, FALSE, mapped[n], "fired")
    /\ UNCHANGED <<disk, wake, mem, watch, poll, boot, susVars, mapped, timer, idle>>

(* The cron timer fires.                                                   *)
TimerFires(n) ==
    /\ timer[n]
    /\ timer' = [timer EXCEPT ![n] = FALSE]
    /\ TriggerResume(n, TRUE, mapped[n], listener[n])
    /\ UNCHANGED <<disk, wake, mem, watch, poll, boot, susVars, mapped, idle>>

----
\* Slip: stopSentinel leaves the stopped sentinel in the map.
ResumeStopsKeepsEntry(n) ==
    /\ resPc[n] = "stopping"
    /\ resPc' = [resPc EXCEPT ![n] = "loading"]
    /\ UNCHANGED <<sharedVars, poll, boot, susVars, resCron, resSnap, listener, mapped,
                   timer, idle>>

(* triggerResume, after stopSentinel.                                      *)
ResumeStops(n) ==
    /\ resPc[n] = "stopping"
    /\ mapped' = [mapped EXCEPT ![n] = FALSE]
    /\ resPc' = [resPc EXCEPT ![n] = "loading"]
    /\ UNCHANGED <<sharedVars, poll, boot, susVars, resCron, resSnap, listener, timer,
                   idle>>

EndResume(n) ==
    /\ resPc' = [resPc EXCEPT ![n] = "idle"]
    /\ resCron' = [resCron EXCEPT ![n] = FALSE]
    /\ resSnap' = [resSnap EXCEPT ![n] = NoTenants]
    /\ inFlight' = inFlight \ {n}

(* runResume reads the registry; it refuses a tenant that is not suspended *)
(* or has no suspendInfo.                                                  *)
ResumeLoads(n) ==
    /\ resPc[n] = "loading"
    /\ IF disk[n] = Suspended
       THEN /\ resPc' = [resPc EXCEPT ![n] = "working"]
            /\ resSnap' = [resSnap EXCEPT ![n] = disk]
            /\ UNCHANGED <<resCron, inFlight>>
       ELSE EndResume(n)
    /\ UNCHANGED <<disk, wake, mem, watch, poll, boot, susVars, listener, mapped,
                   timer, idle>>

(* A step of runResume failed: neither sentinel nor timer is started again.*)
ResumeFails(n) ==
    /\ "resume" \in MayFail
    /\ resPc[n] = "working"
    /\ EndResume(n)
    /\ UNCHANGED <<disk, wake, mem, watch, poll, boot, susVars, listener, mapped,
                   timer, idle>>

(* runResume saves the registry it read at its start.                      *)
ResumeSaves(n) ==
    /\ resPc[n] = "working"
    /\ disk' = [resSnap[n] EXCEPT ![n] = Active]
    /\ wake' = [wake EXCEPT ![n] = "none"]
    /\ resPc' = [resPc EXCEPT ![n] = "saved"]
    /\ resSnap' = [resSnap EXCEPT ![n] = NoTenants]
    /\ UNCHANGED <<mem, inFlight, watch, poll, boot, susVars, resCron, listener,
                   mapped, timer, idle>>

(* triggerResume after runResume: the in-memory entry is found anew.       *)
ResumeSyncs(n) ==
    /\ resPc[n] = "saved"
    /\ mem' = IF IndexOf(n) = 0 THEN mem
              ELSE [mem EXCEPT ![IndexOf(n)] = AsTenant(n, Active)]
    /\ timer' = [timer EXCEPT ![n] = FALSE]
    /\ IF resCron[n]
       THEN /\ resPc' = [resPc EXCEPT ![n] = "poking"]
            /\ UNCHANGED <<resCron, resSnap, inFlight, idle>>
       ELSE EndResume(n) /\ idle' = [idle EXCEPT ![n] = "none"]
    /\ UNCHANGED <<disk, wake, watch, poll, boot, susVars, listener, mapped>>

(* pokeCron has answered or failed; the idle clock starts in the future.   *)
ResumePokes(n) ==
    /\ resPc[n] = "poking"
    /\ EndResume(n)
    /\ idle' = [idle EXCEPT ![n] = "counting"]
    /\ UNCHANGED <<disk, wake, mem, watch, poll, boot, susVars, listener, mapped, timer>>

Resume(n) ==
    \/ ResumeStops(n) \/ ResumeLoads(n) \/ ResumeFails(n)
    \/ ResumeSaves(n) \/ ResumeSyncs(n) \/ ResumePokes(n)

----
\* Slip: triggerSuspend does not look at the in-flight set.
TriggerSuspendUnguarded(n) ==
    /\ inFlight' = inFlight \cup {n}
    /\ susPc' = [susPc EXCEPT ![n] = "loading"]
    /\ susIdx' = [susIdx EXCEPT ![n] = IndexOf(n)]
    /\ UNCHANGED susSnap
    /\ mem' = IF IndexOf(n) = 0 THEN mem
              ELSE [mem EXCEPT ![IndexOf(n)].status = "suspended"]

\* Slip: the mark is a status the registry does not know.
TriggerSuspendNewStatus(n) ==
    IF n \in inFlight
    THEN UNCHANGED <<inFlight, susVars, mem>>
    ELSE /\ inFlight' = inFlight \cup {n}
         /\ susPc' = [susPc EXCEPT ![n] = "loading"]
         /\ susIdx' = [susIdx EXCEPT ![n] = IndexOf(n)]
         /\ UNCHANGED susSnap
         /\ mem' = IF IndexOf(n) = 0 THEN mem
                   ELSE [mem EXCEPT ![IndexOf(n)].status = "suspending"]

(* triggerSuspend up to its first await: the tenant is marked suspended in *)
(* memory, and its index there is kept for later.                          *)
TriggerSuspend(n) ==
    IF n \in inFlight
    THEN UNCHANGED <<inFlight, susVars, mem>>
    ELSE /\ inFlight' = inFlight \cup {n}
         /\ susPc' = [susPc EXCEPT ![n] = "loading"]
         /\ susIdx' = [susIdx EXCEPT ![n] = IndexOf(n)]
         /\ UNCHANGED susSnap
         /\ mem' = IF IndexOf(n) = 0 THEN mem
                   ELSE [mem EXCEPT ![IndexOf(n)].status = "suspended"]

\* Slip: the idle clock that led to the suspend runs on.
EndSuspendKeepsClock(n) ==
    /\ susPc' = [susPc EXCEPT ![n] = "idle"]
    /\ susIdx' = [susIdx EXCEPT ![n] = 0]
    /\ susSnap' = [susSnap EXCEPT ![n] = NoTenants]
    /\ inFlight' = inFlight \ {n}
    /\ UNCHANGED idle

EndSuspend(n) ==
    /\ susPc' = [susPc EXCEPT ![n] = "idle"]
    /\ susIdx' = [susIdx EXCEPT ![n] = 0]
    /\ susSnap' = [susSnap EXCEPT ![n] = NoTenants]
    /\ inFlight' = inFlight \ {n}
    /\ idle' = [idle EXCEPT ![n] = "none"]

\* The continuation finds no tenant at the index it kept and throws: the name stays in
\* flight.
Throws(n) ==
    /\ susPc' = [susPc EXCEPT ![n] = "thrown"]
    /\ susSnap' = [susSnap EXCEPT ![n] = NoTenants]
    /\ UNCHANGED <<susIdx, mem, inFlight, idle>>

\* Slip: a failed suspend leaves the mark in memory.
RevertMarkForgets(n) == EndSuspend(n) /\ UNCHANGED mem

\* Slip: a failed suspend stays in the in-flight set.
RevertMarkInFlight(n) ==
    LET idx == susIdx[n] IN
    IF idx > Len(mem) THEN Throws(n)
    ELSE /\ mem' = IF idx = 0 THEN mem ELSE [mem EXCEPT ![idx].status = "active"]
         /\ susPc' = [susPc EXCEPT ![n] = "idle"]
         /\ idle' = [idle EXCEPT ![n] = "none"]
         /\ UNCHANGED <<susIdx, susSnap, inFlight>>

(* The error paths of triggerSuspend: the mark is taken back at the index  *)
(* it was put, whatever tenant is there now.                               *)
RevertMark(n) ==
    LET idx == susIdx[n] IN
    IF idx > Len(mem) THEN Throws(n)
    ELSE /\ mem' = IF idx = 0 THEN mem ELSE [mem EXCEPT ![idx].status = "active"]
         /\ EndSuspend(n)

(* runSuspend reads the registry; it refuses a tenant that is not active.  *)
SuspendLoads(n) ==
    /\ susPc[n] = "loading"
    /\ IF disk[n].status = "active"
       THEN /\ susPc' = [susPc EXCEPT ![n] = "working"]
            /\ susSnap' = [susSnap EXCEPT ![n] = disk]
            /\ UNCHANGED <<susIdx, mem, inFlight, idle>>
       ELSE RevertMark(n)
    /\ UNCHANGED <<disk, wake, watch, poll, boot, resVars, listener, mapped, timer>>

(* A step of runSuspend failed, or it skipped because a wake is near.      *)
SuspendFails(n) ==
    /\ "suspend" \in MayFail
    /\ susPc[n] = "working"
    /\ RevertMark(n)
    /\ UNCHANGED <<disk, wake, watch, poll, boot, resVars, listener, mapped, timer>>

(* runSuspend saves the registry it read at its start.                     *)
SuspendSaves(n) ==
    /\ susPc[n] = "working"
    /\ disk' = [susSnap[n] EXCEPT ![n] = Suspended]
    /\ \E w \in {"none", "ahead"} : wake' = [wake EXCEPT ![n] = w]
    /\ susPc' = [susPc EXCEPT ![n] = "saved"]
    /\ susSnap' = [susSnap EXCEPT ![n] = NoTenants]
    /\ UNCHANGED <<mem, inFlight, watch, poll, boot, susIdx, resVars, listener, mapped,
                   timer, idle>>

(* triggerSuspend after runSuspend: the result is assigned to whatever     *)
(* tenant is at the index now. With a sentinel already there only the wake *)
(* is scheduled, and it finds the tenant in flight if it is due.           *)
SuspendSyncs(n) ==
    LET idx == susIdx[n] IN
    /\ susPc[n] = "saved"
    /\ IF idx > Len(mem) THEN Throws(n) /\ UNCHANGED timer
       ELSE /\ mem' = IF idx = 0 THEN mem
                      ELSE [mem EXCEPT ![idx] = AsTenant(n, Suspended)]
            /\ IF idx = 0
               THEN EndSuspend(n) /\ UNCHANGED timer
               ELSE IF mapped[n]
               THEN /\ timer' = TimerAfter(n)
                    /\ EndSuspend(n)
               ELSE /\ susPc' = [susPc EXCEPT ![n] = "listening"]
                    /\ UNCHANGED <<susIdx, susSnap, inFlight, idle, timer>>
    /\ UNCHANGED <<disk, wake, watch, poll, boot, resVars, listener, mapped>>

\* Slip: the wake is scheduled only by the start-up function.
SuspendListensOnly(n) ==
    /\ susPc[n] = "listening" /\ listener[n] = "off"
    /\ listener' = [listener EXCEPT ![n] = "armed"]
    /\ mapped' = [mapped EXCEPT ![n] = TRUE]
    /\ EndSuspend(n)
    /\ UNCHANGED <<disk, wake, mem, watch, poll, boot, resVars, timer>>

(* The sentinel listens and the wake is scheduled, of the tenant that is   *)
(* at the index now. A wake time that has been reached only clears the     *)
(* timer, for triggerResume finds the tenant in flight. A port that is     *)
(* taken makes Bun.listen throw.                                           *)
SuspendListens(n) ==
    LET idx == susIdx[n] IN
    /\ susPc[n] = "listening"
    /\ IF listener[n] # "off"
       THEN Throws(n) /\ UNCHANGED <<listener, mapped, timer>>
       ELSE /\ listener' = [listener EXCEPT ![n] = "armed"]
            /\ mapped' = [mapped EXCEPT ![n] = TRUE]
            /\ IF idx > Len(mem)
               THEN Throws(n) /\ UNCHANGED timer
               ELSE /\ timer' = TimerAfter(mem[idx].name)
                    /\ EndSuspend(n)
                    /\ UNCHANGED mem
    /\ UNCHANGED <<disk, wake, watch, poll, boot, resVars>>

Suspend(n) ==
    \/ SuspendLoads(n) \/ SuspendFails(n) \/ SuspendSaves(n)
    \/ SuspendSyncs(n) \/ SuspendListens(n)

----
\* The poll moves on to the next tenant.
PollOn(p) == poll' = [poll EXCEPT ![p].pc = "loop", ![p].i = @ + 1, ![p].name = NoName]

(* setInterval fires, whether or not an earlier invocation has ended.      *)
PollStarts(p) ==
    /\ poll[p].pc = "idle"
    /\ QuickStart => boot.pc = "done"
    /\ poll' = [poll EXCEPT ![p].pc = "loop", ![p].i = 1]
    /\ UNCHANGED <<sharedVars, boot, susVars, resVars, listener, mapped, timer, idle>>

PollEnds(p) ==
    /\ poll[p].pc = "loop" /\ poll[p].i > Len(mem)
    /\ poll' = [poll EXCEPT ![p] = IdlePoll]
    /\ UNCHANGED <<sharedVars, boot, susVars, resVars, listener, mapped, timer, idle>>

Polled(p) == mem[poll[p].i]

Unhealthy(n) == watch[n].state \in {"DEGRADED", "RECOVERING", "FAILED"}

\* Tenants the poll asks about their connections.
Pollable(t) == t.status = "active" /\ t.name \notin inFlight /\ ~Unhealthy(t.name)

\* Suspended tenants found without a sentinel.
NeedsSentinel(t) ==
    t.status = "suspended" /\ ~mapped[t.name] /\ t.name \notin inFlight

(* A tenant that is not asked; its idle clock is reset unless it is merely *)
(* in flight.                                                              *)
PollPasses(p) ==
    LET t == Polled(p) IN
    /\ poll[p].pc = "loop" /\ poll[p].i <= Len(mem)
    /\ ~NeedsSentinel(t) /\ ~Pollable(t)
    /\ idle' = IF t.status = "active" /\ t.name \in inFlight THEN idle
               ELSE [idle EXCEPT ![t.name] = "none"]
    /\ PollOn(p)
    /\ UNCHANGED <<sharedVars, boot, susVars, resVars, listener, mapped, timer>>

(* getActiveConnections, or the ip command of startSentinel, is awaited.   *)
PollAsks(p) ==
    LET t == Polled(p) IN
    /\ poll[p].pc = "loop" /\ poll[p].i <= Len(mem)
    /\ NeedsSentinel(t) \/ Pollable(t)
    /\ poll' = [poll EXCEPT ![p].pc = IF Pollable(t) THEN "asking" ELSE "listening",
                            ![p].name = t.name]
    /\ UNCHANGED <<sharedVars, boot, susVars, resVars, listener, mapped, timer, idle>>

(* The sentinel of a suspended tenant listens; a taken port rejects the    *)
(* callback, which ends here.                                              *)
PollListens(p) ==
    LET n == poll[p].name IN
    /\ poll[p].pc = "listening"
    /\ IF listener[n] # "off"
       THEN poll' = [poll EXCEPT ![p] = IdlePoll] /\ UNCHANGED <<listener, mapped, idle>>
       ELSE /\ listener' = [listener EXCEPT ![n] = "armed"]
            /\ mapped' = [mapped EXCEPT ![n] = TRUE]
            /\ idle' = [idle EXCEPT ![n] = "none"]
            /\ PollOn(p)
    /\ UNCHANGED <<sharedVars, boot, susVars, resVars, timer>>

(* The agent reports nobody: the idle clock starts, or has run out.        *)
PollFindsIdle(p) ==
    LET n == poll[p].name IN
    /\ poll[p].pc = "asking"
    /\ idle' = [idle EXCEPT ![n] = IF @ = "none" THEN "counting" ELSE @]
    /\ IF idle[n] = "elapsed" THEN TriggerSuspend(n) ELSE UNCHANGED <<inFlight,
                                                                      susVars, mem>>
    /\ PollOn(p)
    /\ UNCHANGED <<disk, wake, watch, boot, resVars, listener, mapped, timer>>

(* The agent reports a connection, a cron job or a hold, or cannot be      *)
(* reached, which leaves the idle clock alone.                             *)
PollFindsBusy(p, reachable) ==
    /\ poll[p].pc = "asking"
    /\ idle' = IF reachable THEN [idle EXCEPT ![poll[p].name] = "none"] ELSE idle
    /\ PollOn(p)
    /\ UNCHANGED <<sharedVars, boot, susVars, resVars, listener, mapped, timer>>

Poll(p) ==
    \/ PollStarts(p) \/ PollEnds(p) \/ PollPasses(p) \/ PollAsks(p) \/ PollListens(p)
    \/ PollFindsIdle(p)
    \/ (\E reachable \in BOOLEAN : PollFindsBusy(p, reachable))

(* idleThresholdMs have passed since the tenant was first seen idle.       *)
IdleElapses(n) ==
    /\ idle[n] = "counting"
    /\ idle' = [idle EXCEPT ![n] = "elapsed"]
    /\ UNCHANGED <<sharedVars, poll, boot, susVars, resVars, listener, mapped, timer>>

(* The wake time of a suspended tenant is reached.                         *)
WakeDue(n) ==
    /\ wake[n] = "ahead" /\ disk[n].info
    /\ LateWake \/ susPc[n] = "idle"
    /\ wake' = [wake EXCEPT ![n] = "due"]
    /\ UNCHANGED <<disk, mem, inFlight, watch, schedVars>>

----
BootOn == boot' = [pc |-> "loop", i |-> boot.i + 1, name |-> NoName]

NeedsBoot(t) == [status |-> t.status, info |-> t.info] = Suspended

(* Past the tenants that are not suspended to the end of the list.         *)
BootPasses ==
    /\ boot.pc = "loop"
    /\ IF boot.i > Len(mem) THEN boot' = [boot EXCEPT !.pc = "done"]
       ELSE ~NeedsBoot(mem[boot.i]) /\ BootOn
    /\ UNCHANGED <<sharedVars, poll, susVars, resVars, listener, mapped, timer, idle>>

(* A suspended tenant: startSentinel is awaited, unless a poll has put a   *)
(* sentinel there already.                                                 *)
BootVisits ==
    LET n == mem[boot.i].name IN
    /\ boot.pc = "loop" /\ boot.i <= Len(mem)
    /\ NeedsBoot(mem[boot.i])
    /\ IF mapped[n]
       THEN BootOn /\ ScheduleWake(n, listener[n])
       ELSE /\ boot' = [boot EXCEPT !.pc = "listening", !.name = n]
            /\ UNCHANGED <<inFlight, resVars, listener, timer>>
    /\ UNCHANGED <<disk, wake, mem, watch, poll, susVars, mapped, idle>>

(* The sentinel listens and the wake is scheduled, in flight or not. A     *)
(* taken port ends the start-up function.                                  *)
BootListens ==
    LET n == boot.name IN
    /\ boot.pc = "listening"
    /\ IF listener[n] # "off"
       THEN /\ boot' = [boot EXCEPT !.pc = "done"]
            /\ UNCHANGED <<inFlight, resVars, listener, mapped, timer>>
       ELSE /\ BootOn
            /\ mapped' = [mapped EXCEPT ![n] = TRUE]
            /\ ScheduleWake(n, "armed")
    /\ UNCHANGED <<disk, wake, mem, watch, poll, susVars, idle>>

Boot == BootPasses \/ BootVisits \/ BootListens
====
