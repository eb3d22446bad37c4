---- MODULE WatchDaemon ----
(***************************************************************************)
(* The watchdog process, src/commands/watch.tsx: the health loop and the   *)
(* scheduler over one in-memory registry and one in-flight set, beside     *)
(* other lobsterd commands that save the same registry file.               *)
(***************************************************************************)
EXTENDS WatchLoop, Scheduler

CONSTANTS
    Cli,            \* what commands other processes run: spawn, suspend, resume, evict
    MaxRestarts     \* bound: how often the watchdog is killed and started again

ASSUME RestartsAssumption == MaxRestarts \in Nat

VARIABLE restarts

vars == <<sharedVars, loopVars, schedVars, restarts>>

(* runWatch: load the registry, start both loops.                          *)
StartWatch ==
    /\ LoopInit
    /\ SchedulerInit
    /\ inFlight = {}
    /\ watch = [n \in Names |-> InitialWatchState]
    /\ mem \in Listings(disk)

Init ==
    /\ disk \in [Names -> {Absent, Active, Suspended}] \ {NoTenants}
    /\ wake \in [Names -> WakeTime]
    /\ \A n \in Names : disk[n] # Suspended => wake[n] = "none"
    /\ restarts = 0
    /\ StartWatch

(* The watchdog is killed and started again; the registry file stays.  *)
(* It waits for a tenant before it starts its loops.                       *)
Restart ==
    /\ restarts < MaxRestarts
    /\ disk # NoTenants
    /\ restarts' = restarts + 1
    /\ inFlight' = {}
    /\ watch' = [n \in Names |-> InitialWatchState]
    /\ mem' \in Listings(disk)
    /\ tick' = IdleTick
    /\ spree' = [n \in Names |-> 0]
    /\ SchedulerRestarts
    /\ UNCHANGED <<disk, wake>>

----
\* A command in another process has saved the registry; the rest of the command is not
\* looked at here.
Others == UNCHANGED <<mem, inFlight, watch, loopVars, schedVars, restarts>>

OtherSpawns(n) ==
    /\ "spawn" \in Cli
    /\ disk[n] = Absent
    /\ disk' = [disk EXCEPT ![n] = Active]
    /\ Others /\ UNCHANGED wake

OtherSuspends(n) ==
    /\ "suspend" \in Cli
    /\ disk[n].status = "active"
    /\ disk' = [disk EXCEPT ![n] = Suspended]
    /\ \E w \in {"none", "ahead"} : wake' = [wake EXCEPT ![n] = w]
    /\ Others

OtherResumes(n) ==
    /\ "resume" \in Cli
    /\ disk[n] = Suspended
    /\ disk' = [disk EXCEPT ![n] = Active]
    /\ wake' = [wake EXCEPT ![n] = "none"]
    /\ Others

(* runEvict saves twice: the status at its start, the removal at its end.  *)
OtherEvicts(n) ==
    /\ "evict" \in Cli
    /\ disk[n].status # "absent"
    /\ disk' = [disk EXCEPT ![n] = IF @.status = "removing" THEN Absent
                                   ELSE [@ EXCEPT !.status = "removing"]]
    /\ wake' = [wake EXCEPT ![n] = "none"]
    /\ Others

Command(n) == OtherSpawns(n) \/ OtherSuspends(n) \/ OtherResumes(n) \/ OtherEvicts(n)

----
LoopStep == Tick /\ UNCHANGED <<schedVars, restarts>>
Cooled(n) == CooldownEnds(n) /\ UNCHANGED <<schedVars, restarts>>

Rest == UNCHANGED <<loopVars, restarts>>
BootStep == Boot /\ Rest
PollStep(p) == Poll(p) /\ Rest
SuspendStep(n) == Suspend(n) /\ Rest
ResumeStep(n) == Resume(n) /\ Rest
TimerStep(n) == TimerFires(n) /\ Rest
IdleStep(n) == IdleElapses(n) /\ Rest
WakeStep(n) == WakeDue(n) /\ Rest
ClientStep(n) == Connects(n) /\ Rest

Next ==
    \/ LoopStep \/ BootStep \/ Restart
    \/ \E p \in Polls : PollStep(p)
    \/ \E n \in Names :
          \/ Cooled(n) \/ SuspendStep(n) \/ ResumeStep(n) \/ TimerStep(n)
          \/ IdleStep(n) \/ WakeStep(n)
          \/ ClientStep(n) \/ Command(n)

Spec == Init /\ [][Next]_vars

\* What is awaited answers, timers and intervals fire, and time passes. Nothing is assumed
\* of commands, clients or the idleness of a tenant.
FairSpec ==
    /\ Spec
    /\ WF_vars(LoopStep) /\ WF_vars(BootStep)
    /\ \A p \in Polls : WF_vars(PollStep(p))
    /\ \A n \in Names :
          /\ WF_vars(SuspendStep(n)) /\ WF_vars(ResumeStep(n))
          /\ WF_vars(TimerStep(n)) /\ WF_vars(WakeStep(n))

----
DaemonTypeOK ==
    /\ disk \in Registry
    /\ wake \in [Names -> WakeTime]
    /\ mem \in Seq(Tenant)
    /\ inFlight \subseteq Names
    /\ watch \in [Names -> TenantWatchState]
    /\ tick \in [pc : TickPc, i : Nat, fresh : Registry, current : TenantWatchState]
    /\ spree \in [Names -> Nat]
    /\ poll \in [Polls -> [pc : PollPc, i : Nat, name : Names \cup {NoName}]]
    /\ boot \in [pc : BootPc, i : Nat, name : Names \cup {NoName}]
    /\ susPc \in [Names -> SuspendPc]
    /\ susIdx \in [Names -> Nat]
    /\ susSnap \in [Names -> Registry]
    /\ resPc \in [Names -> ResumePc]
    /\ resCron \in [Names -> BOOLEAN]
    /\ resSnap \in [Names -> Registry]
    /\ listener \in [Names -> {"off", "armed", "fired"}]
    /\ mapped \in [Names -> BOOLEAN]
    /\ timer \in [Names -> BOOLEAN]
    /\ idle \in [Names -> {"none", "counting", "elapsed"}]
    /\ restarts \in 0..MaxRestarts

Suspending(n) == susPc[n] # "idle"
Resuming(n) == resPc[n] # "idle"

\* The in-flight set serialises the scheduler's work on a tenant: whatever the idle
\* polls, sentinels, timers and start-up ask for, and however the operations end, at most
\* one suspend or resume of a tenant is under way, and the name is in the set exactly as
\* long.
OneOperationAtATime ==
    \A n \in Names :
        /\ ~(Suspending(n) /\ Resuming(n))
        /\ n \in inFlight <=> Suspending(n) \/ Resuming(n)

\* A tenant the sentinels map holds has a socket on its address, unless its resume is just
\* tearing that down: startSentinelForTenant trusts the map, so an entry without a socket
\* would leave the tenant deaf for good.
SentinelsListen ==
    \A n \in Names : mapped[n] => listener[n] # "off" \/ resPc[n] = "stopping"

\* A tenant that keeps failing its checks is repaired at most maxRepairAttempts times (once
\* if that is 0) before the watchdog leaves it FAILED: no skipped tick, reload, cooldown
\* or status recheck in between buys it another repair.
RepairBudget ==
    \A n \in Names :
        spree[n] <= IF MaxRepairAttempts = 0 THEN 1 ELSE MaxRepairAttempts

\* The status triggerSuspend sets in memory before the tenant is suspended does not outlive
\* the operation: a tenant out of flight that the daemon holds for suspended has its
\* suspendInfo, whatever commands saved meanwhile.
MarkIsTemporary ==
    \A j \in DOMAIN mem :
        mem[j].status = "suspended" /\ mem[j].name \notin inFlight => mem[j].info

Repairing(n) == tick.pc = "repairing" /\ Visited.name = n

\* The daemon never suspends a tenant it is repairing.
NoSuspendWhileRepairing == \A n \in Names : ~(Suspending(n) /\ Repairing(n))

\* Full VM state is preserved: nothing the daemon does turns a suspended tenant active
\* again but that tenant's own resume. (An entry that is active while the VM is a
\* snapshot gets the tenant repaired, that is, booted afresh.)
OnlyResumeActivates ==
    [][\A n \in Names :
          disk[n] = Suspended /\ disk'[n].status = "active" => resPc[n] = "working"]_vars

\* A tenant that is suspended while the daemon does nothing with it.
Sleeps(n) == disk[n] = Suspended /\ n \notin inFlight /\ boot.pc = "done"

\* Wake-on-request, as a state: once start-up is done a sleeping tenant has a socket that
\* still answers. No suspend is let in that would find the sentinel of the last one, no
\* connection uses one up while the tenant is in flight.
SentinelsKept == \A n \in Names : Sleeps(n) => listener[n] = "armed"

\* Timed wake-up, as a state: a sleeping tenant with a wake time has a timer. No timer
\* fires, or is cleared, without a resume to go with it.
TimersKept == \A n \in Names : Sleeps(n) /\ wake[n] # "none" => timer[n]

\* No exception strands a tenant: a name that triggerSuspend's continuation left in flight
\* would never be suspended or resumed again. Each suspend finds its place in the list and a
\* free port, whatever polls, resumes and sentinels came before.
NobodyStranded == \A n \in Names : susPc[n] # "thrown"

\* Every suspend and resume of the scheduler comes to an end and releases the tenant.
OperationsEnd == \A n \in Names : n \in inFlight ~> n \notin inFlight

\* Wake-on-request: a suspended tenant does not stay deaf. Again and again a sentinel
\* listens for its requests, or its resume is under way.
WakeOnRequest ==
    \A n \in Names :
        disk[n] = Suspended ~>
            (disk[n] # Suspended \/ listener[n] = "armed" \/ Resuming(n))

\* A tenant whose wake time has come does not stay suspended.
WakeServed ==
    \A n \in Names : (disk[n] = Suspended /\ wake[n] = "due") ~> disk[n] # Suspended
====
