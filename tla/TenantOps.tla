---- MODULE TenantOps ----
(***************************************************************************)
(* The commands that stop, start, reboot and remove the VM of one tenant:  *)
(* suspend, resume, repair, molt and evict, each as the chain of host      *)
(* operations it awaits. A command works on the registry entry it read at  *)
(* its start and saves that back, changed, at its end.                     *)
(*                                                                         *)
(* The state of a guest is one value of Memory. The two snapshot files are *)
(* one, and of the chroot directory only the API socket and the snapshot   *)
(* in it matter. What a command has started ends with it when its process  *)
(* dies, but for the VM.                                                   *)
(***************************************************************************)
EXTENDS Naturals, FiniteSets

CONSTANTS
    Ops,        \* commands that may be under way at a time
    Kinds,      \* which there are: "suspend", "resume", "repair", "molt", "evict"
    Vms,        \* process ids of Firecracker processes
    Memory,     \* contents of a guest's memory
    Fresh,      \* the content after a boot
    NoVm,       \* no process
    Nothing,    \* no snapshot, no guest
    Torn,       \* a snapshot file that is not complete
    MayFail     \* what can go wrong: "vm" (a VM ends on its own), "rm" (the removal of a
                \* directory), "pkill", and what ends a command early: see EndsEarlyAt

ASSUME TenantAssumption ==
    /\ Fresh \in Memory
    /\ NoVm \notin Vms
    /\ Nothing \notin Memory /\ Torn \notin Memory /\ Nothing # Torn

VARIABLES
    entry,      \* the tenant in registry.json
    proc,       \* proc[p]: what the Firecracker process p is doing
    guest,      \* guest[p]: the memory of the guest in p
    sock,       \* the process that answers on the API socket of the tenant
    image,      \* the snapshot file in the chroot
    store,      \* the snapshot file in snapshotDir
    current,    \* history: the tenant's memory as it last ran
    kind,       \* kind[o]: the command o
    pc,         \* pc[o]: its next step
    read,       \* read[o]: the entry it read
    held,       \* held[o]: the entry molt read before its hold resumed the tenant
    mine        \* mine[o]: the process it started

hostVars == <<proc, guest, sock, image, store, current>>
opVars == <<kind, pc, read, held, mine>>
vars == <<entry, hostVars, opVars>>

Entry ==
    [status : {"absent", "active", "suspended", "removing"},
     pid : Vms \cup {NoVm}, info : BOOLEAN]
NoEntry == [status |-> "absent", pid |-> NoVm, info |-> FALSE]

Alive(p) == p \in Vms /\ proc[p] # "dead"
Guests == {p \in Vms : proc[p] \in {"running", "paused"}}
Running == {p \in Vms : proc[p] = "running"}

Init ==
    /\ \E p \in Vms :
          /\ entry = [status |-> "active", pid |-> p, info |-> FALSE]
          /\ proc = [q \in Vms |-> IF q = p THEN "running" ELSE "dead"]
          /\ guest = [q \in Vms |-> IF q = p THEN Fresh ELSE Nothing]
          /\ sock = p
    /\ image = Nothing /\ store = Nothing /\ current = Fresh
    /\ kind \in [Ops -> Kinds]
    /\ pc = [o \in Ops |-> "idle"]
    /\ read = [o \in Ops |-> NoEntry]
    /\ held = [o \in Ops |-> NoEntry]
    /\ mine = [o \in Ops |-> NoVm]

----
(* The guest runs.                                                         *)
Works(p) ==
    /\ proc[p] = "running"
    /\ \E m \in Memory : guest' = [guest EXCEPT ![p] = m] /\ current' = m
    /\ UNCHANGED <<entry, proc, sock, image, store, opVars>>

\* What is left when a process ends.
Killed(gone) ==
    /\ proc' = [p \in Vms |-> IF p \in gone THEN "dead" ELSE proc[p]]
    /\ guest' = [p \in Vms |-> IF p \in gone THEN Nothing ELSE guest[p]]
    /\ sock' = IF sock \in gone THEN NoVm ELSE sock

(* A Firecracker process ends by itself.                                   *)
VmDies(p) ==
    /\ "vm" \in MayFail
    /\ Alive(p)
    /\ Killed({p})
    /\ UNCHANGED <<entry, image, store, current, opVars>>

----
Goto(o, label) == pc' = [pc EXCEPT ![o] = label]
At(o, label) == pc[o] = label /\ UNCHANGED kind

Begins(o, k, label) ==
    /\ pc[o] = "idle" /\ k \in Kinds
    /\ kind' = [kind EXCEPT ![o] = k]
    /\ Goto(o, label)
    /\ read' = [read EXCEPT ![o] = entry]
    /\ UNCHANGED <<entry, hostVars, mine>>

Ends(o) ==
    /\ Goto(o, "idle")
    /\ read' = [read EXCEPT ![o] = NoEntry]
    /\ held' = [held EXCEPT ![o] = NoEntry]
    /\ mine' = [mine EXCEPT ![o] = NoVm]

Goes(o, label) == Goto(o, label) /\ UNCHANGED <<read, held, mine>>

\* The steps at which a command may end for a fault: an operation that is not made soft
\* fails, or the command's process dies.
EndsEarlyAt(fault) ==
    CASE fault = "host" ->      \* before it has started a VM
            {"pause", "snapshot", "copy", "copying", "kill", "tidy", "clean", "launch",
             "check", "slay", "discard", "stop", "network"}
      [] fault = "late" ->      \* with a VM that no entry names
            {"restore", "greet"}
      [] fault = "midway" ->    \* loaded, or so without an answer, and not yet removed
            {"drop"}
      [] fault = "save" ->      \* at the latest when the lock times out
            {"save", "mark"}
      [] OTHER -> {}

(* A command ends early; what it has done to the host stays.               *)
Fails(o) ==
    /\ \E fault \in MayFail : pc[o] \in EndsEarlyAt(fault)
    /\ Ends(o)
    /\ UNCHANGED <<entry, hostVars, kind>>

\* What rm -rf may leave of a file; its failures are ignored.
AfterRm(file) ==
    IF "rm" \in MayFail /\ file # Nothing THEN {Nothing, Torn, file} ELSE {Nothing}

----
(* cleanupChroot: the socket and the snapshot copy go with the directory; a*)
(* process that still runs in it goes on without.                          *)
CleansChroot(o, next) ==
    /\ sock' \in IF "rm" \in MayFail THEN {sock, NoVm} ELSE {NoVm}
    /\ image' \in AfterRm(image)
    /\ Goes(o, next)
    /\ UNCHANGED <<entry, proc, guest, store, current>>

\* A process id nothing refers to any more.
Unused(p) ==
    /\ ~Alive(p) /\ entry.pid # p
    /\ \A o \in Ops : p \notin {read[o].pid, held[o].pid, mine[o]}

\* Slip: the process id is recorded in the registry as soon as there is one.
LaunchesRecording(o) ==
    /\ At(o, "launch")
    /\ \E p \in Vms :
          /\ Unused(p)
          /\ mine' = [mine EXCEPT ![o] = p]
          /\ proc' = [proc EXCEPT ![p] = "jailed"]
          /\ sock' = p
          /\ entry' = [entry EXCEPT !.pid = p]
    /\ Goto(o, "restore")
    /\ UNCHANGED <<guest, image, store, current, read, held>>

(* A jailer is started. It owns the socket, or ends at once, as when       *)
(* another command has put a chroot there meanwhile.                       *)
Launches(o) ==
    /\ At(o, "launch")
    /\ \E p \in Vms :
          /\ Unused(p)
          /\ mine' = [mine EXCEPT ![o] = p]
          /\ \/ proc' = [proc EXCEPT ![p] = "jailed"] /\ sock' = p
             \/ (sock # NoVm \/ "host" \in MayFail) /\ UNCHANGED <<proc, sock>>
    /\ Goto(o, "restore")
    /\ UNCHANGED <<entry, guest, image, store, current, read, held>>

----
(* runSuspend. *)
SuspendBegins(o) ==
    /\ entry.status = "active"
    /\ Begins(o, "suspend", "pause")
    /\ UNCHANGED held

(* pauseVm, over the socket.                                               *)
Pauses(o) ==
    /\ At(o, "pause")
    /\ sock \in Guests
    /\ proc' = [proc EXCEPT ![sock] = "paused"]
    /\ Goes(o, "snapshot")
    /\ UNCHANGED <<entry, guest, sock, image, store, current>>

(* createSnapshot writes into the chroot.                                  *)
Snapshots(o) ==
    /\ At(o, "snapshot")
    /\ sock \in Guests /\ proc[sock] = "paused"
    /\ image' = guest[sock]
    /\ Goes(o, "copy")
    /\ UNCHANGED <<entry, proc, guest, sock, store, current>>

\* Slip: the copy is not awaited before the VM is killed.
CopyStartsUnawaited(o) ==
    /\ At(o, "copy")
    /\ store' = Torn
    /\ Goes(o, "kill")
    /\ UNCHANGED <<entry, proc, guest, sock, image, current>>

\* Slip: a snapshot that is there already is not written again.
CopyStartsIfMissing(o) ==
    /\ At(o, "copy")
    /\ store' = IF store = Nothing THEN Torn ELSE store
    /\ Goes(o, IF store = Nothing THEN "copying" ELSE "kill")
    /\ UNCHANGED <<entry, proc, guest, sock, image, current>>

(* The copy to the snapshot directory has begun. cp needs the files.       *)
CopyStarts(o) ==
    /\ At(o, "copy")
    /\ image # Nothing
    /\ store' = Torn
    /\ Goes(o, "copying")
    /\ UNCHANGED <<entry, proc, guest, sock, image, current>>

(* It is complete.                                                         *)
CopyEnds(o) ==
    /\ At(o, "copying")
    /\ image # Nothing
    /\ store' = image
    /\ Goes(o, "kill")
    /\ UNCHANGED <<entry, proc, guest, sock, image, current>>

(* SIGKILL to the process id the entry had.                                *)
Kills(o) ==
    /\ At(o, "kill")
    /\ Killed({read[o].pid} \cap Vms)
    /\ Goes(o, "tidy")
    /\ UNCHANGED <<entry, image, store, current>>

Tidies(o) == At(o, "tidy") /\ CleansChroot(o, "save")

SuspendSaves(o) ==
    /\ At(o, "save") /\ kind[o] = "suspend"
    /\ entry' = [status |-> "suspended", pid |-> NoVm, info |-> TRUE]
    /\ Ends(o)
    /\ UNCHANGED hostVars

----
(* runResume, on its own or as withHold calls it for molt.                 *)
ResumeBegins(o) ==
    /\ entry.status = "suspended" /\ entry.info
    /\ Begins(o, "resume", "clean")
    /\ UNCHANGED held

Cleans(o) == At(o, "clean") /\ CleansChroot(o, "launch")

\* Whether the tenant is to be restored from its snapshot; a repair boots it.
Restoring(o) == kind[o] = "resume" \/ (kind[o] = "molt" /\ held[o] # NoEntry)

\* A Firecracker answers that has no guest yet.
Configurable == sock # NoVm /\ proc[sock] = "jailed"

(* The snapshot is copied into the chroot and loaded over the socket.      *)
Restores(o) ==
    /\ At(o, "restore") /\ Restoring(o)
    /\ image' = IF store = Nothing THEN image ELSE store
    /\ IF Configurable /\ store \notin {Nothing, Torn}
       THEN /\ proc' = [proc EXCEPT ![sock] = "running"]
            /\ guest' = [guest EXCEPT ![sock] = store]
            /\ Goes(o, "drop")
       ELSE Ends(o) /\ UNCHANGED <<proc, guest>>
    /\ UNCHANGED <<entry, sock, store, current>>

\* Slip: the snapshot is kept until after the save.
DropsLater(o) ==
    /\ At(o, "drop")
    /\ Goes(o, "save")
    /\ UNCHANGED <<entry, hostVars>>

(* The snapshot directory is removed.                                      *)
Drops(o) ==
    /\ At(o, "drop")
    /\ store' \in AfterRm(store)
    /\ Goes(o, "save")
    /\ UNCHANGED <<entry, proc, guest, sock, image, current>>

\* Slip: suspendInfo is not cleared.
ResumeSavesInfo(o) ==
    /\ At(o, "save") /\ kind[o] = "resume"
    /\ entry' = [read[o] EXCEPT !.status = "active", !.pid = mine[o]]
    /\ Ends(o)
    /\ UNCHANGED hostVars

(* molt goes on with the entry it read before the resume.                  *)
ResumeSaves(o) ==
    /\ At(o, "save") /\ Restoring(o)
    /\ entry' = [status |-> "active", pid |-> mine[o], info |-> FALSE]
    /\ IF kind[o] = "resume" THEN Ends(o)
       ELSE /\ Goto(o, "check")
            /\ read' = [read EXCEPT ![o] = held[o]]
            /\ held' = [held EXCEPT ![o] = NoEntry]
            /\ mine' = [mine EXCEPT ![o] = NoVm]
    /\ UNCHANGED hostVars

----
(* The watchdog's repair, or molt, of an active tenant.                    *)
RepairBegins(o) ==
    /\ entry.status = "active"
    /\ Begins(o, "repair", "check")
    /\ UNCHANGED held

(* molt of a suspended tenant: withHold resumes it first.                  *)
MoltBegins(o) ==
    /\ entry.status = "suspended" /\ entry.info
    /\ Begins(o, "molt", "clean")
    /\ held' = [held EXCEPT ![o] = entry]

(* checkVmProcess: only a recorded process that is gone has the VM         *)
(* restarted.                                                              *)
Checks(o) ==
    /\ At(o, "check")
    /\ IF Alive(read[o].pid) THEN Ends(o) ELSE Goes(o, "slay")
    /\ UNCHANGED <<entry, hostVars>>

\* Slip: only the recorded process is killed.
SlaysRecorded(o) ==
    /\ At(o, "slay")
    /\ Killed({read[o].pid} \cap Vms)
    /\ Goes(o, "clean")
    /\ UNCHANGED <<entry, image, store, current>>

(* SIGKILL to the recorded process, and pkill of every process of this     *)
(* vmId, whose result nobody looks at.                                     *)
Slays(o) ==
    /\ At(o, "slay")
    /\ \/ Killed(Vms)
       \/ "pkill" \in MayFail /\ Killed({read[o].pid} \cap Vms)
    /\ Goes(o, "clean")
    /\ UNCHANGED <<entry, image, store, current>>

(* The VM is configured over the socket and booted.                        *)
Boots(o) ==
    /\ At(o, "restore") /\ ~Restoring(o)
    /\ IF Configurable
       THEN /\ proc' = [proc EXCEPT ![sock] = "running"]
            /\ guest' = [guest EXCEPT ![sock] = Fresh]
            /\ current' = Fresh
            /\ Goes(o, "greet")
       ELSE Ends(o) /\ UNCHANGED <<proc, guest, current>>
    /\ UNCHANGED <<entry, sock, image, store>>

(* The agent of a guest that runs answers and has its secrets.             *)
Greets(o) ==
    /\ At(o, "greet")
    /\ IF Running # {} THEN Goes(o, "save") ELSE Ends(o)
    /\ UNCHANGED <<entry, hostVars>>

RepairSaves(o) ==
    /\ At(o, "save") /\ kind[o] \in {"repair", "molt"} /\ ~Restoring(o)
    /\ entry' = [read[o] EXCEPT !.pid = mine[o]]
    /\ Ends(o)
    /\ UNCHANGED hostVars

----
(* runEvict.                                                               *)
EvictBegins(o) ==
    /\ entry.status # "absent"
    /\ Begins(o, "evict", "mark")
    /\ UNCHANGED held

EvictMarks(o) ==
    /\ At(o, "mark")
    /\ entry' = [read[o] EXCEPT !.status = "removing"]
    /\ Goes(o, "discard")
    /\ UNCHANGED hostVars

(* The snapshot of a suspended tenant is removed.                          *)
EvictDiscards(o) ==
    /\ At(o, "discard")
    /\ store' \in IF read[o].info THEN AfterRm(store) ELSE {store}
    /\ Goes(o, "stop")
    /\ UNCHANGED <<entry, proc, guest, sock, image, current>>

(* If a process is recorded, the VM is told to shut down, over the socket, *)
(* and the process is killed in the end.                                   *)
EvictStops(o) ==
    /\ At(o, "stop")
    /\ IF read[o].pid \in Vms
       THEN \E told \in SUBSET ({sock} \cap Running) : Killed({read[o].pid} \cup told)
       ELSE Killed({})
    /\ Goes(o, "network")
    /\ UNCHANGED <<entry, image, store, current>>

(* The TAP device is deleted and the chroot removed.                       *)
EvictCleans(o) == At(o, "network") /\ CleansChroot(o, "save")

EvictSaves(o) ==
    /\ At(o, "save") /\ kind[o] = "evict"
    /\ entry' = NoEntry
    /\ Ends(o)
    /\ UNCHANGED hostVars

----
Suspend(o) ==
    \/ SuspendBegins(o) \/ Pauses(o) \/ Snapshots(o) \/ CopyStarts(o) \/ CopyEnds(o)
    \/ Kills(o) \/ Tidies(o) \/ SuspendSaves(o)

Resume(o) ==
    \/ ResumeBegins(o) \/ Cleans(o) \/ Launches(o) \/ Restores(o) \/ Drops(o)
    \/ ResumeSaves(o)

Repair(o) ==
    \/ RepairBegins(o) \/ MoltBegins(o) \/ Checks(o) \/ Slays(o) \/ Boots(o) \/ Greets(o)
    \/ RepairSaves(o)

Evict(o) ==
    \/ EvictBegins(o) \/ EvictMarks(o) \/ EvictDiscards(o) \/ EvictStops(o)
    \/ EvictCleans(o) \/ EvictSaves(o)

Next ==
    \/ \E p \in Vms : Works(p) \/ VmDies(p)
    \/ \E o \in Ops :
          \/ Suspend(o) \/ Resume(o) \/ Repair(o) \/ Evict(o)
          \/ Fails(o)

Spec == Init /\ [][Next]_vars

----
Pc == {"idle", "pause", "snapshot", "copy", "copying", "kill", "tidy", "save", "clean",
       "launch", "restore", "drop", "check", "slay", "greet", "mark", "discard", "stop",
       "network"}

\* The types; an active entry has no suspendInfo.
TenantTypeOK ==
    /\ entry \in Entry /\ (entry.status = "active" => ~entry.info)
    /\ proc \in [Vms -> {"dead", "jailed", "running", "paused"}]
    /\ guest \in [Vms -> Memory \cup {Nothing}]
    /\ sock \in Vms \cup {NoVm}
    /\ image \in Memory \cup {Nothing, Torn}
    /\ store \in Memory \cup {Nothing, Torn}
    /\ current \in Memory
    /\ kind \in [Ops -> Kinds]
    /\ pc \in [Ops -> Pc]
    /\ read \in [Ops -> Entry]
    /\ held \in [Ops -> Entry]
    /\ mine \in [Ops -> Vms \cup {NoVm}]

AtRest == \A o \in Ops : pc[o] = "idle"

\* Somebody has the tenant's memory: a guest, or the snapshot directory.
Kept == store = current \/ (\E p \in Guests : guest[p] = current)

\* The VM that command o stops or starts is up, or is not started yet, and has not died
\* by itself in between.
VmIsUp(o) ==
    IF kind[o] = "suspend" /\ pc[o] \notin {"tidy", "save"}
    THEN read[o].pid \in Guests
    ELSE mine[o] # NoVm => Alive(mine[o])

\* Suspend and resume preserve the full VM state: none of their steps, failed ones
\* included, loses the memory the tenant last ran with, as long as its VM does not die by
\* itself under them.
MemoryKept ==
    [][\A o \in Ops :
          /\ kind[o] \in {"suspend", "resume"} /\ pc[o] # "idle" /\ pc'[o] # pc[o]
          /\ VmIsUp(o) /\ Kept
          => Kept']_vars

\* One VM at most writes to the tenant's overlay.
OneRunning == Cardinality(Running) <= 1

\* A guest that runs goes on from where the tenant last was: no resume brings back an
\* older snapshot, whatever failed suspends, repairs and resumes left lying about.
RunningIsCurrent == \A p \in Running : guest[p] = current

\* The memory of the guest that runs, or else of the one that last did.
RunningMemory == IF Running = {} THEN current ELSE guest[CHOOSE p \in Running : TRUE]

Promise ==
    INSTANCE Lifecycle
        WITH status <- entry.status, running <- (Running # {}), memory <- RunningMemory

\* The chains of host operations implement Lifecycle: whatever of MayFail goes wrong in
\* whichever of them, a guest that is started continues where the last one stopped or is a
\* fresh boot of an active tenant, and a tenant that is being removed is never started.
ImplementsLifecycle == Promise!Spec

\* A VM restart leaves no other process of the tenant that could hijack the API socket.
RepairedIsAlone ==
    \A o \in Ops :
        pc[o] = "greet" => \A p \in Vms : Alive(p) => p = mine[o]

\* The health check of the recorded process tells of the tenant's VM: a process an active
\* entry names is gone, or it has the guest and answers on the socket.
RecordedVmIsTheVm ==
    AtRest /\ entry.status = "active" /\ Alive(entry.pid) =>
        entry.pid \in Guests /\ sock = entry.pid

\* A suspended tenant at rest can be resumed: its snapshot is there, and it is the last
\* state of the tenant.
SuspendedIsResumable == AtRest /\ entry.status = "suspended" => store = current
====
