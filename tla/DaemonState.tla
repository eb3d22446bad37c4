---- MODULE DaemonState ----
(***************************************************************************)
(* What the two loops of the watchdog process share: the registry file,    *)
(* the in-memory registry, the in-flight set and the health states.        *)
(*                                                                         *)
(* A registry entry is abstracted to its status and whether it carries     *)
(* suspendInfo, without which a tenant cannot be resumed. The wake time    *)
(* inside suspendInfo is kept relative to now.                             *)
(***************************************************************************)
EXTENDS Naturals, SequencesExt, WatchState

CONSTANTS
    Names,      \* the names tenants are given
    MayFail     \* what can go wrong: "load" (reading registry.json at the start of a tick),
                \* "recheck" (reading it again before a repair), "check" (a health check),
                \* "suspend", "resume" (a step after the first test of each)

ASSUME NamesAssumption == IsFiniteSet(Names)

VARIABLES
    disk,       \* registry.json, by tenant name
    wake,       \* suspendInfo.nextWakeAtMs of each tenant
    mem,        \* registry.tenants of the watchdog process, in order
    inFlight,   \* tenants with a scheduler suspend or resume under way
    watch       \* tenantStates of loop.ts

sharedVars == <<disk, wake, mem, inFlight, watch>>

Status == {"absent", "active", "suspended", "removing"}

Entry == [status : Status, info : BOOLEAN]
Absent == [status |-> "absent", info |-> FALSE]
Active == [status |-> "active", info |-> FALSE]
Suspended == [status |-> "suspended", info |-> TRUE]

Tenant == [name : Names, status : Status, info : BOOLEAN]
AsTenant(n, e) == [name |-> n, status |-> e.status, info |-> e.info]

Registry == [Names -> Entry]
NoTenants == [n \in Names |-> Absent]

\* No wake needed, a wake in the future, a wake time that has been reached.
WakeTime == {"none", "ahead", "due"}

\* registry.tenants.findIndex by name; 0 stands for -1.
IndexOf(n) == SelectInSeq(mem, LAMBDA t : t.name = n)

\* The in-memory registry as saveRegistry writes it.
MemAsRegistry ==
    [n \in Names |->
        IF IndexOf(n) = 0 THEN Absent
        ELSE [status |-> mem[IndexOf(n)].status, info |-> mem[IndexOf(n)].info]]

\* A registry as loadRegistry reads it into memory: some order of its tenants.
Listings(reg) ==
    { [i \in DOMAIN order |-> AsTenant(order[i], reg[order[i]])] :
        order \in SetToSeqs({n \in Names : reg[n].status # "absent"}) }
====
