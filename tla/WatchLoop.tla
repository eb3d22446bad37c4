---- MODULE WatchLoop ----
(***************************************************************************)
(* The health loop of the watchdog, src/watchdog/loop.ts: a tick reads the *)
(* registry, brings the in-memory copy up to date, and then checks and     *)
(* repairs one tenant after the other. Every await is a step boundary.     *)
(***************************************************************************)
EXTENDS DaemonState

CONSTANT FreshReads     \* TRUE: nothing changes between a tick's read and its use

VARIABLES
    tick,       \* tickInProgress and how far the tick is
    spree       \* history: repairs of a tenant since it last passed its checks,
                \* was seen suspended or was added to the list

loopVars == <<tick, spree>>

TickPc == {"idle", "read", "loop", "checking", "rechecking", "repairing"}

\* The tick before tenant i: fresh is the registry it read, current the health state it
\* took before the checks of a tenant.
TickAt(at, i) ==
    [pc |-> at, i |-> i, fresh |-> NoTenants, current |-> InitialWatchState]
IdleTick == TickAt("idle", 0)

LoopInit ==
    /\ tick = IdleTick
    /\ spree = [n \in Names |-> 0]

Visited == mem[tick.i]

NextTenant == tick' = TickAt("loop", tick.i + 1)

(* setInterval fires and no tick is in progress: loadRegistry is awaited.  *)
TickReads ==
    /\ tick.pc = "idle"
    /\ tick' = [tick EXCEPT !.pc = "read", !.fresh = IF FreshReads THEN @ ELSE disk]
    /\ UNCHANGED <<sharedVars, spree>>

----
Listed == {mem[j].name : j \in DOMAIN mem}

\* Object.assign of each fresh tenant that is in the list and not in flight.
Updated(fresh) ==
    [j \in DOMAIN mem |->
        LET n == mem[j].name IN
        IF j = IndexOf(n) /\ n \notin inFlight /\ fresh[n].status # "absent"
        THEN AsTenant(n, fresh[n]) ELSE mem[j]]

\* The places of the tenants that are not spliced out as evicted.
Kept(fresh) ==
    {j \in DOMAIN mem :
        mem[j].name \in inFlight \/ fresh[mem[j].name].status # "absent"}
InOrder(places) ==
    {s \in SetToSeqs(places) : \A j, k \in DOMAIN s : j < k => s[j] < s[k]}

\* Newly spawned tenants are pushed, even one that is in flight.
Added(fresh) == {n \in Names \ Listed : fresh[n].status # "absent"}

(* The tick resumes with the registry it read.                             *)
TickSyncs ==
    LET fresh == IF FreshReads THEN disk ELSE tick.fresh
        stays(n) == \E j \in Kept(fresh) : mem[j].name = n IN
    /\ tick.pc = "read"
    /\ \E left \in InOrder(Kept(fresh)), new \in SetToSeqs(Added(fresh)) :
          mem' = [k \in DOMAIN left |-> Updated(fresh)[left[k]]]
                 \o [k \in DOMAIN new |-> AsTenant(new[k], fresh[new[k]])]
    /\ watch' = [n \in Names |-> IF stays(n) THEN watch[n] ELSE InitialWatchState]
    /\ spree' = [n \in Names |-> IF stays(n) THEN spree[n] ELSE 0]
    /\ tick' = TickAt("loop", 1)
    /\ UNCHANGED <<disk, wake, inFlight>>

(* loadRegistry returned an error: the tick goes on with what it has.      *)
TickLoadFails ==
    /\ "load" \in MayFail
    /\ tick.pc = "read"
    /\ tick' = TickAt("loop", 1)
    /\ UNCHANGED <<sharedVars, spree>>

----
TickEnds ==
    /\ tick.pc = "loop" /\ tick.i > Len(mem)
    /\ tick' = IdleTick
    /\ UNCHANGED <<sharedVars, spree>>

Skipped(t) == t.status = "removing" \/ t.name \in inFlight

(* A tenant being removed, in flight or repaired a moment ago is passed by.*)
TickSkips ==
    /\ tick.pc = "loop" /\ tick.i <= Len(mem)
    /\ Skipped(Visited) \/ (Visited.status # "suspended" /\ watch[Visited.name].cooling)
    /\ NextTenant
    /\ UNCHANGED <<sharedVars, spree>>

(* A suspended tenant's health record starts afresh, unless it already     *)
(* reads SUSPENDED.                                                        *)
TickSeesSuspended ==
    LET n == Visited.name IN
    /\ tick.pc = "loop" /\ tick.i <= Len(mem)
    /\ ~Skipped(Visited) /\ Visited.status = "suspended"
    /\ watch' = IF watch[n].state = "SUSPENDED" THEN watch
                ELSE [watch EXCEPT ![n] = [InitialWatchState EXCEPT !.state = "SUSPENDED"]]
    /\ spree' = [spree EXCEPT ![n] = 0]
    /\ NextTenant
    /\ UNCHANGED <<disk, wake, mem, inFlight>>

(* runAllChecks is awaited.                                                *)
TickBeginsChecks ==
    /\ tick.pc = "loop" /\ tick.i <= Len(mem)
    /\ ~Skipped(Visited) /\ Visited.status # "suspended"
    /\ ~watch[Visited.name].cooling
    /\ tick' = [tick EXCEPT !.pc = "checking", !.current = watch[Visited.name]]
    /\ UNCHANGED <<sharedVars, spree>>

\* Slip: a repair is started on the status the tick began with.
TickChecksOnly(allOk) ==
    LET n == Visited.name IN
    /\ allOk \/ "check" \in MayFail
    /\ tick.pc = "checking"
    /\ watch' = [watch EXCEPT ![n] = Transition(tick.current, allOk)]
    /\ spree' = IF allOk THEN [spree EXCEPT ![n] = 0] ELSE spree
    /\ IF NeedsRepair(tick.current, allOk)
       THEN tick' = TickAt("repairing", tick.i) ELSE NextTenant
    /\ UNCHANGED <<disk, wake, mem, inFlight>>

(* The checks have answered: the state machine moves, and when it asks for *)
(* a repair the in-memory status is looked at again.                       *)
TickChecks(allOk) ==
    LET n == Visited.name IN
    /\ allOk \/ "check" \in MayFail
    /\ tick.pc = "checking"
    /\ watch' = [watch EXCEPT ![n] = Transition(tick.current, allOk)]
    /\ spree' = IF allOk THEN [spree EXCEPT ![n] = 0] ELSE spree
    /\ IF NeedsRepair(tick.current, allOk) /\ Visited.status = "active"
       THEN tick' = TickAt("rechecking", tick.i) ELSE NextTenant
    /\ UNCHANGED <<disk, wake, mem, inFlight>>

(* The status on disk is looked at again as well. A tenant that is no      *)
(* longer there, or whose status cannot be read, is repaired all the same. *)
TickRechecks ==
    LET n == Visited.name IN
    /\ tick.pc = "rechecking"
    /\ \/ /\ disk[n].status \in {"active", "absent"} \/ "recheck" \in MayFail
          /\ tick' = TickAt("repairing", tick.i)
          /\ UNCHANGED mem
       \/ /\ disk[n].status \notin {"active", "absent"}
          /\ mem' = [mem EXCEPT ![tick.i] = AsTenant(n, disk[n])]
          /\ NextTenant
    /\ UNCHANGED <<disk, wake, inFlight, watch, spree>>

(* runRepairs has returned; it never fails. When it restarted the VM it    *)
(* saved the whole in-memory registry; any other repair saves nothing.     *)
TickRepairs(saved) ==
    LET n == Visited.name IN
    /\ tick.pc = "repairing"
    /\ disk' = IF saved THEN MemAsRegistry ELSE disk
    /\ watch' = [watch EXCEPT ![n].repairAttempts = @ + 1, ![n].cooling = TRUE]
    /\ spree' = [spree EXCEPT ![n] = @ + 1]
    /\ NextTenant
    /\ UNCHANGED <<wake, mem, inFlight>>

(* repairCooldownMs have passed since the last repair.                     *)
CooldownEnds(n) ==
    /\ watch[n].cooling
    /\ watch' = [watch EXCEPT ![n].cooling = FALSE]
    /\ UNCHANGED <<disk, wake, mem, inFlight, tick, spree>>

Tick ==
    \/ TickReads \/ TickSyncs \/ TickLoadFails \/ TickEnds
    \/ TickSkips \/ TickSeesSuspended \/ TickBeginsChecks
    \/ (\E allOk \in BOOLEAN : TickChecks(allOk))
    \/ TickRechecks
    \/ (\E saved \in BOOLEAN : TickRepairs(saved))
====
