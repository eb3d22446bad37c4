---- MODULE Host ----
(***************************************************************************)
(* What a host has of each tenant, and the operations that create, repair  *)
(* and remove it: init, uninit, spawn with its rollback, evict, and the    *)
(* watchdog's repairs of the TAP device and of the proxy routes. They run  *)
(* the programs of HostCommands, one command at a time.                    *)
(*                                                                         *)
(* The four counters of the registry go up together, and are one: the      *)
(* index of a tenant stands for its address, port, context id and user id. *)
(***************************************************************************)
EXTENDS HostCommands, Subnets

CONSTANTS
    Names,      \* tenant names
    NoName,     \* of the host itself
    Ops,        \* operations that may be under way at a time
    Kinds,      \* which there are, of AllKinds
    MayFail,    \* "command": a command fails; "crash": an operation is killed;
                \* "reboot": the host restarts
    MaxFaults,  \* bound: how often something of this happens
    MaxIndex,   \* bound: the last index that is given out
    MaxCopies   \* bound: no spawn begins where more copies of an item are left behind

ASSUME HostAssumption ==
    /\ NoName \notin Names /\ Kinds \subseteq AllKinds
    /\ MaxFaults \in Nat /\ MaxIndex \in Nat \ {0} /\ MaxCopies \in Nat

VARIABLES
    host,       \* host[i]: how many there are of item i
    registry,   \* registry.json; as EMPTY_REGISTRY if there is no such file
    lockdown,   \* config.json: agentLockdown is set
    kind,       \* kind[o]: the operation o, or "none"
    who,        \* who[o]: the tenant it works on
    stage,      \* stage[o]: the stage of its program it is in
    step,       \* step[o]: the next command of the stage
    undoing,    \* undoing[o]: it rolls back
    read,       \* read[o]: the registry it read
    locked,     \* locked[o]: the agentLockdown it read
    debris,     \* history: items that a failure may have left
    torn,       \* history: tenants whose rules a failure left incomplete
    faults      \* history: how often something failed

opVars == <<kind, who, stage, step, undoing, read, locked>>
history == <<debris, torn, faults>>
vars == <<host, registry, lockdown, opVars, history>>

Tenant == [name : Names \cup {NoName}, index : Nat]
NoTenant == [name |-> NoName, index |-> 0]
Registry == [tenants : SUBSET Tenant, next : Nat]
EmptyRegistry == [tenants |-> {}, next |-> 1]
Registered == {t.name : t \in registry.tenants}
Ips(t) == ComputeSubnetIps(SubnetBase, t.index)

\* An item is a thing with the name and the index it is found by.
Key(thing, t) ==
    <<thing, IF thing \in ByName THEN t.name ELSE NoName,
      IF thing \in ByAddress THEN t.index ELSE 0>>
Items ==
    {Key(thing, t) : thing \in Own, t \in [name : Names, index : 1 .. MaxIndex]}
        \cup {Key(thing, NoTenant) : thing \in Global}
ItemsOf(t) == {Key(thing, t) : thing \in Own} \cap Items
Has(thing, t) == host[Key(thing, t)] > 0
HasGlobal(thing) == Has(thing, NoTenant)

Init ==
    /\ host = [i \in Items |-> 0]
    /\ registry = EmptyRegistry
    /\ lockdown = FALSE
    /\ kind = [o \in Ops |-> "none"]
    /\ who = [o \in Ops |-> NoTenant]
    /\ stage = [o \in Ops |-> 1]
    /\ step = [o \in Ops |-> 1]
    /\ undoing = [o \in Ops |-> FALSE]
    /\ read = [o \in Ops |-> EmptyRegistry]
    /\ locked = [o \in Ops |-> FALSE]
    /\ debris = {} /\ torn = {} /\ faults = 0

----
(* Beginnings: what an operation tests before its first command. *)

Begins(o, k, t) ==
    /\ kind[o] = "none" /\ k \in Kinds
    /\ kind' = [kind EXCEPT ![o] = k]
    /\ who' = [who EXCEPT ![o] = t]
    /\ read' = [read EXCEPT ![o] = registry]
    /\ locked' = [locked EXCEPT ![o] = lockdown]
    /\ UNCHANGED <<host, registry, lockdown, stage, step, undoing, history>>

SpawnBegins(o, n) ==
    /\ n \notin Registered
    /\ registry.next <= MaxIndex /\ \A i \in Items : host[i] <= MaxCopies
    /\ Begins(o, "spawn", [name |-> n, index |-> registry.next])

EvictBegins(o, t) ==
    /\ t \in registry.tenants
    /\ Begins(o, "evict", t)

\* checkTapDevice looks for the device alone.
RepairTapBegins(o, t) ==
    /\ t \in registry.tenants
    /\ ~Has("tap", t)
    /\ Begins(o, "repairTap", t)

\* checkCaddyRoute wants both routes.
RepairCaddyRouteBegins(o, t) ==
    /\ t \in registry.tenants
    /\ ~(Has("ws-route", t) /\ Has("http-route", t))
    /\ Begins(o, "repairCaddyRoute", t)

InitBegins(o) == Begins(o, "init", NoTenant)

UninitBegins(o) ==
    /\ registry.tenants = {}
    /\ Begins(o, "uninit", NoTenant)

(* The REST server writes its default configuration when it first starts.  *)
BuoyStarts ==
    /\ ~lockdown /\ HasGlobal("config-dir")
    /\ lockdown' = TRUE
    /\ UNCHANGED <<host, registry, opVars, history>>

----
(* Commands. *)

Program(o) == Programs[kind[o]][locked[o]]
Current(o) == IF undoing[o] THEN Program(o)[stage[o]].undo ELSE Program(o)[stage[o]].do
Busy(o) == kind[o] # "none" /\ step[o] \in DOMAIN Current(o)
Command1(o) == Current(o)[step[o]]

\* Slip: what is removed need not be there.
CanDropAbsent(c, t) == Place(c.thing) # "host" => HasGlobal(Place(c.thing))

\* The place where a command works is there, and so is, or is not, the thing.
Can(c, t) ==
    /\ Place(c.thing) # "host" => HasGlobal(Place(c.thing))
    /\ c.act = "create" => ~Has(c.thing, t)
    /\ c.act \in {"use", "drop", "mark", "save"} => Has(c.thing, t)
    /\ c.act = "remove" =>
          \A i \in Items : Place(i[1]) = c.thing => host[i] = 0

In(i, place) == Place(i[1]) = place /\ i[1] \notin ToSet(Jumps)

After(c, t) ==
    CASE c.act = "append" -> [host EXCEPT ![Key(c.thing, t)] = @ + 1]
      [] c.act = "drop" -> [host EXCEPT ![Key(c.thing, t)] = @ - 1]
      [] c.act \in {"create", "make"} -> [host EXCEPT ![Key(c.thing, t)] = 1]
      [] c.act \in {"clear", "remove"} -> [host EXCEPT ![Key(c.thing, t)] = 0]
      [] c.act = "empty" -> [i \in Items |-> IF In(i, c.thing) THEN 0 ELSE host[i]]
      [] OTHER -> host

\* Slip: the counters are not raised.
SavedUncounted(o, c) ==
    IF c.act = "save" /\ kind[o] = "spawn"
    THEN [read[o] EXCEPT !.tenants = @ \cup {who[o]}]
    ELSE registry

\* Slip: an evict gives an index back.
SavedReusing(o, c) ==
    CASE c.act = "save" /\ kind[o] = "spawn" ->
            [tenants |-> read[o].tenants \cup {who[o]}, next |-> read[o].next + 1]
      [] c.act = "save" /\ kind[o] = "evict" ->
            [tenants |-> read[o].tenants \ {who[o]}, next |-> read[o].next - 1]
      [] OTHER -> registry

\* The registry an operation saves is the one it read, changed.
Saved(o, c) ==
    CASE c.act = "mark" -> read[o]
      [] c.act = "save" /\ kind[o] = "spawn" ->
            [tenants |-> read[o].tenants \cup {who[o]}, next |-> read[o].next + 1]
      [] c.act = "save" /\ kind[o] = "evict" ->
            [read[o] EXCEPT !.tenants = {t \in @ : t.name # who[o].name}]
      [] c.act = "clear" /\ c.thing = "config-dir" -> EmptyRegistry
      [] OTHER -> registry

Does(o) ==
    /\ Busy(o)
    /\ LET c == Command1(o) IN
          /\ Can(c, who[o])
          /\ host' = After(c, who[o])
          /\ registry' = Saved(o, c)
          /\ lockdown' = (lockdown /\ ~(c.act = "clear" /\ c.thing = "config-dir"))
    /\ step' = [step EXCEPT ![o] = @ + 1]
    /\ UNCHANGED <<kind, who, stage, undoing, read, locked, history>>

Fault(event) == event \in MayFail /\ faults < MaxFaults /\ faults' = faults + 1

\* A command fails because it cannot be done, or for a reason of its own.
CommandFails(o) ==
    IF Can(Command1(o), who[o]) THEN Fault("command") ELSE UNCHANGED faults

Idles(o) ==
    /\ kind' = [kind EXCEPT ![o] = "none"]
    /\ who' = [who EXCEPT ![o] = NoTenant]
    /\ stage' = [stage EXCEPT ![o] = 1]
    /\ step' = [step EXCEPT ![o] = 1]
    /\ undoing' = [undoing EXCEPT ![o] = FALSE]
    /\ read' = [read EXCEPT ![o] = EmptyRegistry]
    /\ locked' = [locked EXCEPT ![o] = FALSE]

\* What is left behind at the end, and what is complete again.
Left(more) == debris' = {i \in (debris \cup more) \cap Items : host[i] > 0}
Ends(o) ==
    /\ Idles(o)
    /\ Left({})
    /\ torn' = IF kind[o] \in {"evict", "repairTap"} THEN torn \ {who[o].name} ELSE torn

(* A command whose failure is ignored fails.                               *)
Misses(o) ==
    /\ Busy(o) /\ Command1(o).soft
    /\ CommandFails(o)
    /\ step' = [step EXCEPT ![o] = @ + 1]
    /\ debris' = debris \cup ({Key(Command1(o).thing, who[o])} \cap Items)
    /\ UNCHANGED <<host, registry, lockdown, kind, who, stage, undoing, read, locked, torn>>

Undoes(o, from) ==
    /\ stage' = [stage EXCEPT ![o] = from]
    /\ step' = [step EXCEPT ![o] = 1]
    /\ undoing' = [undoing EXCEPT ![o] = TRUE]
    /\ UNCHANGED <<kind, who, read, locked>>

(* Any other failure ends the operation, a spawn with a rollback. What the *)
(* commands of the same stage have done is not undone. A command that timed*)
(* out may have done its work.                                             *)
Breaks(o) ==
    /\ Busy(o) /\ ~Command1(o).soft
    /\ CommandFails(o)
    /\ debris' = debris \cup ({Key(c.thing, who[o]) : c \in ToSet(Current(o))} \cap Items)
    /\ torn' = IF kind[o] \in {"repairTap", "evict"} THEN torn \cup {who[o].name} ELSE torn
    /\ IF stage[o] = 1 THEN Idles(o) ELSE Undoes(o, stage[o] - 1)
    /\ host' \in {host} \cup
                 (IF Can(Command1(o), who[o]) THEN {After(Command1(o), who[o])} ELSE {})
    /\ UNCHANGED <<registry, lockdown>>

(* The commands of a stage are done.                                       *)
StageEnds(o) ==
    /\ kind[o] # "none" /\ ~Busy(o)
    /\ IF stage[o] = (IF undoing[o] THEN 1 ELSE Len(Program(o)))
       THEN Ends(o)
       ELSE /\ stage' = [stage EXCEPT ![o] = IF undoing[o] THEN @ - 1 ELSE @ + 1]
            /\ step' = [step EXCEPT ![o] = 1]
            /\ UNCHANGED <<kind, who, undoing, read, locked, debris, torn>>
    /\ UNCHANGED <<host, registry, lockdown, faults>>

(* An operation is killed.                                                 *)
Dies(o) ==
    /\ kind[o] # "none"
    /\ Fault("crash")
    /\ Idles(o)
    /\ Left(ItemsOf(who[o]) \cup {Key(thing, NoTenant) : thing \in Global})
    /\ torn' = torn \cup {who[o].name}
    /\ UNCHANGED <<host, registry, lockdown>>

(* The host restarts. Files stay.                                          *)
Files == {"overlay", "keys", "chroot", "images", "service", "base-dir", "config-dir"}
Reboots ==
    /\ Fault("reboot")
    /\ host' = [i \in Items |-> IF i[1] \in Files THEN host[i] ELSE 0]
    /\ kind' = [o \in Ops |-> "none"]
    /\ who' = [o \in Ops |-> NoTenant]
    /\ stage' = [o \in Ops |-> 1]
    /\ step' = [o \in Ops |-> 1]
    /\ undoing' = [o \in Ops |-> FALSE]
    /\ read' = [o \in Ops |-> EmptyRegistry]
    /\ locked' = [o \in Ops |-> FALSE]
    /\ debris' = {i \in debris \cup UNION {ItemsOf(who[o]) : o \in Ops} : host'[i] > 0}
    /\ torn' = {}
    /\ UNCHANGED <<registry, lockdown>>

Next ==
    \/ BuoyStarts
    \/ Reboots
    \/ \E o \in Ops :
          \/ \E n \in Names : SpawnBegins(o, n)
          \/ \E t \in registry.tenants :
                EvictBegins(o, t) \/ RepairTapBegins(o, t) \/ RepairCaddyRouteBegins(o, t)
          \/ InitBegins(o) \/ UninitBegins(o)
          \/ Does(o) \/ Misses(o) \/ Breaks(o) \/ StageEnds(o) \/ Dies(o)

Spec == Init /\ [][Next]_vars

----
HostTypeOK ==
    /\ host \in [Items -> Nat]
    /\ registry \in Registry
    /\ lockdown \in BOOLEAN
    /\ kind \in [Ops -> AllKinds \cup {"none"}]
    /\ who \in [Ops -> Tenant]
    /\ stage \in [Ops -> Nat \ {0}]
    /\ step \in [Ops -> Nat \ {0}]
    /\ undoing \in [Ops -> BOOLEAN]
    /\ read \in [Ops -> Registry]
    /\ locked \in [Ops -> BOOLEAN]
    /\ debris \subseteq Items
    /\ torn \subseteq Names \cup {NoName}
    /\ faults \in 0 .. MaxFaults

AtRest == \A o \in Ops : kind[o] = "none"

\* The registry never has a name or an address twice, whatever was saved over what.
RegistryDistinct ==
    \A s, t \in registry.tenants :
        s.name = t.name \/ Ips(s) = Ips(t) => s = t

\* Every tenant has a subnet of its own: no two tenants have rules on the host for the
\* same address, unless a failure left those of the one behind.
AddressesDistinct ==
    LET Used == {t \in [name : Names, index : 1 .. MaxIndex] :
                    Has("dnat", t) /\ Key("dnat", t) \notin debris}
    IN  \A s, t \in Used : Ips(s) = Ips(t) => s = t

\* Rollback and evict leave nothing of a tenant: what no registered tenant has, a command
\* that failed left, in the stage that broke or in a removal.
OnlyDebrisLeft ==
    AtRest =>
        \A i \in Items :
            host[i] > 0 /\ i[1] \in Own =>
                i \in debris \/ \E t \in registry.tenants : i \in ItemsOf(t)

\* A tenant's TAP device is never up with its rules missing or there twice, but for a
\* repair or a removal that broke: the check of the device stands for its rules.
TapHasRules ==
    AtRest =>
        \A t \in registry.tenants : Has("tap", t) /\ t.name \notin torn =>
            \A r \in ToSet(NatRules) \cup ToSet(IsolationRules) :
                host[Key(r, t)] = 1 \/ Key(r, t) \in debris

\* The rules that isolate a tenant are in place whenever its TAP device is.
TapIsIsolated ==
    AtRest =>
        \A t \in registry.tenants : Has("tap", t) =>
            \A r \in ToSet(IsolationRules) : Has(r, t)

\* No operation on one tenant touches what another one has.
OthersUntouched ==
    [][\A o \in Ops : kind[o] \in AllKinds \ {"init", "uninit"} /\ step'[o] = step[o] + 1 =>
          \A t \in registry.tenants : t.name # who[o].name =>
              \A thing \in Own : host'[Key(thing, t)] = host[Key(thing, t)]]_vars
====
