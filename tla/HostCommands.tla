---- MODULE HostCommands ----
(***************************************************************************)
(* What the operations on the host run: programs made of commands that     *)
(* each create or remove one thing (a file, a device, an iptables rule, a  *)
(* route of the proxy) or only use it. A program is a sequence of stages;  *)
(* when a command fails that is not soft, the stages completed before are  *)
(* undone in reverse order.                                                *)
(*                                                                         *)
(* How iptables spells a rule is left out; which rules are added and       *)
(* removed, in which chain and by what they are found again, is not. The   *)
(* test "iptables -C" is one command with the -I it guards.                *)
(***************************************************************************)
EXTENDS Naturals, Sequences, SequencesExt

\* Rules of a tenant, in the order they are added.
NatRules == <<"dnat", "masquerade-in", "masquerade-out">>
IsolationRules ==
    <<"host-return", "block-host", "return", "gateway-in", "block-10", "block-172",
      "block-192", "block-link-local", "connlimit", "outbound">>
LockdownRules == <<"agent-root", "health-root", "agent-drop", "health-drop">>
Chains == <<"input-chain", "forward-chain", "output-chain">>
Jumps == <<"input-jump", "forward-jump", "output-jump">>

Routes == {"ws-route", "http-route"}
Rules == ToSet(NatRules) \cup ToSet(IsolationRules) \cup ToSet(LockdownRules)
\* What a tenant has of its own, and what there is once on the host.
Own == Rules \cup Routes \cup {"overlay", "tap", "chroot", "vm", "keys"}
Global ==
    ToSet(Chains) \cup ToSet(Jumps)
        \cup {"server", "service", "base-dir", "config-dir", "images"}
Things == Own \cup Global

\* Rules that name the address or the port of the tenant are found by them.
ByAddress == {"dnat", "masquerade-out"} \cup ToSet(LockdownRules)
\* Slip: a route has the same id for all tenants.
ByNameButRoutes == Own \ (ToSet(LockdownRules) \cup Routes)
ByName == Own \ ToSet(LockdownRules)

\* The chain, server or directory a thing is put into.
Place(thing) ==
    CASE thing \in {"host-return", "block-host", "input-jump"} -> "input-chain"
      [] thing \in ToSet(LockdownRules) \cup {"output-jump"} -> "output-chain"
      [] thing \in ToSet(IsolationRules) \cup {"forward-jump"} -> "forward-chain"
      [] thing \in Routes -> "server"
      [] thing \in {"overlay", "keys", "chroot", "images"} -> "base-dir"
      [] OTHER -> "host"

Acts ==
    {"append", "drop",      \* one more, one less
     "create",              \* fails if it is there
     "make", "clear",       \* there once, not there
     "use",                 \* fails if it is not there
     "empty",               \* a chain, the server or a directory is emptied of its things
     "remove",              \* a chain, which must be empty and not be jumped to
     "mark", "save"}        \* the registry is saved

Command == [act : Acts, thing : Things, soft : BOOLEAN]
Hard(act, thing) == [act |-> act, thing |-> thing, soft |-> FALSE]
Soft(act, thing) == [act |-> act, thing |-> thing, soft |-> TRUE]
Each(Does(_, _), act, things) == [i \in DOMAIN things |-> Does(act, things[i])]

----
(* network.ts *)

AddNat == Each(Hard, "append", NatRules)
RemoveNat == Each(Soft, "drop", NatRules)
AddIsolationRules == Each(Hard, "append", IsolationRules)
RemoveIsolationRules == Each(Soft, "drop", IsolationRules)
AddAgentLockdownRules == Each(Hard, "append", LockdownRules)
RemoveAgentLockdownRules == Each(Soft, "drop", LockdownRules)

\* addr add, link set up and sysctl follow the creation of the device.
CreateTap == <<Hard("create", "tap"), Hard("use", "tap")>>
DeleteTap == <<Soft("clear", "tap")>>

EnsureChains == Each(Soft, "create", Chains) \o Each(Hard, "make", Jumps)
FlushAndRemoveChains ==
    Each(Soft, "drop", Jumps) \o Each(Soft, "empty", Chains)
        \o Each(Soft, "remove", Chains)

----
(* caddy.ts. Loading the base configuration replaces the server with one   *)
(* that has no routes.                                                     *)

AddRoute == <<Hard("append", "ws-route"), Hard("append", "http-route")>>
RemoveRoute == <<Soft("drop", "ws-route"), Soft("drop", "http-route")>>
WriteCaddyBaseConfig == <<Hard("empty", "server"), Hard("make", "server")>>

----
(* image.ts, ssh.ts, jailer.ts, and the calls of firecracker.ts that boot a*)
(* VM.                                                                     *)

CreateOverlay == <<Hard("make", "overlay"), Hard("use", "overlay")>>
DeleteOverlay == <<Soft("clear", "overlay")>>
\* ssh-keygen does not replace a key.
GenerateKeypair == <<Hard("create", "keys"), Hard("use", "keys")>>
RemoveKeypair == <<Soft("clear", "keys")>>
CleanupChroot == <<Soft("clear", "chroot")>>
StartJailer == <<Hard("append", "vm"), Hard("make", "chroot")>>
\* Slip: the chroot stays.
StopJailerOnly == <<Soft("drop", "vm")>>
StopJailer == <<Soft("drop", "vm")>> \o CleanupChroot
LinkChrootFiles == <<Hard("use", "images"), Hard("use", "overlay"), Hard("use", "chroot")>>
BootVm == <<Hard("use", "vm"), Hard("use", "tap")>>
\* waitForAgent, and injectSecrets over the same connection.
Greet == <<Hard("use", "vm")>>

----
(* The operations. Kernel, root filesystem and binaries, which init installs *)
(* where they are missing, are the images.                                 *)

Stage(do, undo) == [do |-> do, undo |-> undo]
Once(do) == <<Stage(do, <<>>)>>

SpawnStages(lockdown) ==
    <<Stage(CreateOverlay, DeleteOverlay),
      Stage(CreateTap, DeleteTap),
      Stage(AddNat, RemoveNat),
      Stage(AddIsolationRules, RemoveIsolationRules),
      IF lockdown THEN Stage(AddAgentLockdownRules, RemoveAgentLockdownRules)
                  ELSE Stage(<<>>, <<>>),
      Stage(CleanupChroot \o StartJailer, StopJailer),
      Stage(LinkChrootFiles \o BootVm \o Greet \o GenerateKeypair, RemoveKeypair),
      Stage(Greet \o AddRoute, RemoveRoute),
      Stage(<<Hard("save", "config-dir")>>, <<>>)>>

EvictStages(lockdown) ==
    Once(<<Hard("mark", "config-dir")>> \o RemoveRoute \o <<Soft("drop", "vm")>>
           \o RemoveIsolationRules
           \o (IF lockdown THEN RemoveAgentLockdownRules ELSE <<>>)
           \o RemoveNat \o DeleteTap \o CleanupChroot \o DeleteOverlay \o RemoveKeypair
           \o <<Hard("save", "config-dir")>>)

\* Slip: a new device gets no isolation rules.
RepairTapStagesBare == Once(CreateTap \o AddNat)
RepairTapStages == Once(CreateTap \o AddNat \o AddIsolationRules)
RepairCaddyRouteStages == Once(RemoveRoute \o AddRoute)

InstallImages == <<Hard("make", "base-dir"), Hard("make", "images")>>
EnsureDirs == <<Hard("make", "base-dir"), Hard("make", "config-dir")>>
EnableService == <<Hard("make", "service")>>
InitStages ==
    Once(InstallImages \o EnsureDirs \o EnsureChains \o WriteCaddyBaseConfig \o EnableService)

UninitStages ==
    Once(<<Soft("clear", "service")>> \o FlushAndRemoveChains
           \o <<Soft("empty", "base-dir"), Soft("clear", "base-dir"),
                Soft("clear", "config-dir")>>)

AllKinds == {"spawn", "evict", "repairTap", "repairCaddyRoute", "init", "uninit"}
Stages(kind, lockdown) ==
    CASE kind = "spawn" -> SpawnStages(lockdown)
      [] kind = "evict" -> EvictStages(lockdown)
      [] kind = "repairTap" -> RepairTapStages
      [] kind = "repairCaddyRoute" -> RepairCaddyRouteStages
      [] kind = "init" -> InitStages
      [] OTHER -> UninitStages
Programs == [kind \in AllKinds |-> [lockdown \in BOOLEAN |-> Stages(kind, lockdown)]]
====
