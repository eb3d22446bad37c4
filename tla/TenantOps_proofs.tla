---- MODULE TenantOps_proofs ----
(***************************************************************************)
(* Theorems about TenantOps: its types for any commands at a time and      *)
(* whatever fails and, if commands do not overlap and what fails is        *)
(* contained, that one VM runs, from the memory the tenant last had, and   *)
(* that without molt and failing saves a suspended tenant can be resumed.  *)
(***************************************************************************)
EXTENDS TenantOps, FiniteSetTheorems, TLAPS

\* Entries are saved as they were read, so what holds of the file holds of the copies.
Clean(e) == e.status = "active" => ~e.info

EntryTyped == entry \in Entry /\ Clean(entry)

HostTyped ==
    /\ proc \in [Vms -> {"dead", "jailed", "running", "paused"}]
    /\ guest \in [Vms -> Memory \cup {Nothing}]
    /\ sock \in Vms \cup {NoVm}
    /\ image \in Memory \cup {Nothing, Torn}
    /\ store \in Memory \cup {Nothing, Torn}
    /\ current \in Memory

OpsTyped ==
    /\ kind \in [Ops -> Kinds]
    /\ pc \in [Ops -> Pc]
    /\ read \in [Ops -> Entry]
    /\ held \in [Ops -> Entry]
    /\ mine \in [Ops -> Vms \cup {NoVm}]
    /\ \A o \in Ops : Clean(read[o]) /\ Clean(held[o])

TypeInv == EntryTyped /\ HostTyped /\ OpsTyped

\* Commands follow each other, and the faults that undo each other's safety nets do not
\* come together. A resume does not end between the loading of the snapshot and its
\* removal. Where a removal may fail, or pkill, every save works and there is no molt.
\* Where pkill may fail, no repair or resume ends with a VM that no entry names.
Serial == \A a, b \in Ops : a = b
Contained ==
    /\ Serial
    /\ "midway" \notin MayFail
    /\ MayFail \cap {"rm", "pkill"} # {} => "save" \notin MayFail /\ "molt" \notin Kinds
    /\ "pkill" \in MayFail => "late" \notin MayFail

AtMostOne == \A p, q \in Running : p = q

\* While the entry is active the VM that runs is the one a pause would reach.
ActiveByItsSocket == entry.status = "active" => Running \subseteq {sock}

\* A command under way is not one that has just loaded the snapshot.
NothingLoaded == \A o \in Ops : pc[o] \notin {"drop", "save"}

\* A suspended tenant with a snapshot to load has no VM, but for the one that has just
\* loaded it.
SuspendedIsDown ==
    entry.status = "suspended" /\ store # Nothing /\ NothingLoaded => Running = {}

\* Which command can be at which step.
StepOfKind(o) ==
    /\ pc[o] \in {"pause", "snapshot", "copy", "copying", "kill", "tidy"}
          => kind[o] = "suspend"
    /\ pc[o] \in {"clean", "launch", "restore"} => kind[o] \in {"resume", "repair", "molt"}
    /\ pc[o] = "drop" => Restoring(o)
    /\ pc[o] \in {"check", "slay", "greet"} => kind[o] \in {"repair", "molt"} /\ ~Restoring(o)
    /\ pc[o] \in {"mark", "discard", "stop", "network"} => kind[o] = "evict"
    /\ pc[o] = "save" => kind[o] \in {"suspend", "resume", "repair", "molt", "evict"}

\* What a command that is alone knows of the entry and the VM.
SuspendKnows(o) ==
    kind[o] = "suspend" /\ pc[o] # "idle" =>
        /\ entry.status = "active"
        /\ pc[o] # "pause" => Running = {}

ResumeKnows(o) ==
    Restoring(o) /\ pc[o] # "idle" =>
        /\ entry.status = "suspended"
        /\ pc[o] \in {"drop", "save"} => Running \subseteq {sock}
        /\ pc[o] = "save" => store = Nothing \/ "rm" \in MayFail

RepairKnows(o) ==
    kind[o] \in {"repair", "molt"} /\ ~Restoring(o) /\ pc[o] # "idle" =>
        /\ entry.status = "active"
        /\ pc[o] \in {"clean", "launch", "restore"} => Running = {}
        /\ read[o].status = "suspended" => store = Nothing
        /\ kind[o] = "repair" => read[o].status = "active"

EvictKnows(o) ==
    kind[o] = "evict" /\ pc[o] \notin {"idle", "mark"} => entry.status = "removing"

VmInv ==
    /\ AtMostOne
    /\ ActiveByItsSocket
    /\ SuspendedIsDown
    /\ \A o \in Ops :
          /\ StepOfKind(o)
          /\ SuspendKnows(o) /\ ResumeKnows(o) /\ RepairKnows(o) /\ EvictKnows(o)

\* Where pkill may fail, every process that lives is one the entry names or one the command
\* under way has started.
HasNoVm(o) ==
    \/ pc[o] \notin {"restore", "drop", "greet", "save"}
    \/ kind[o] \in {"suspend", "evict"}

OrphanKnows(o) ==
    /\ HasNoVm(o) => mine[o] = NoVm
    /\ kind[o] = "suspend" /\ pc[o] = "save" => ~Alive(entry.pid)
    /\ kind[o] = "repair" /\ pc[o] \in {"check", "slay"} => read[o].pid = entry.pid
    /\ kind[o] = "repair" /\ pc[o] \in {"clean", "launch", "restore", "greet", "save"} =>
          ~Alive(entry.pid)
    /\ pc[o] = "greet" /\ Alive(mine[o]) => mine[o] \in Running

NoOrphans ==
    /\ entry.status \in {"active", "suspended"} =>
          \A p : Alive(p) => p \in {entry.pid} \cup {mine[o] : o \in Ops}
    /\ entry.status = "suspended" => entry.pid = NoVm
    /\ \A o \in Ops : OrphanKnows(o)

OrphanInv == "pkill" \in MayFail => NoOrphans
----
\* An absent tenant has a well typed entry.
LEMMA NoEntryType == NoEntry \in Entry /\ Clean(NoEntry)
BY DEF NoEntry, Entry, Clean

\* Giving an entry another process, or marking it, keeps it well typed.
LEMMA SavedType ==
    ASSUME NEW e \in Entry, Clean(e), NEW p \in Vms \cup {NoVm}
    PROVE  /\ [e EXCEPT !.pid = p] \in Entry /\ Clean([e EXCEPT !.pid = p])
           /\ [e EXCEPT !.status = "removing"] \in Entry
           /\ Clean([e EXCEPT !.status = "removing"])
BY DEF Entry, Clean

\* The initial states are well typed.
LEMMA InitTyped == Init => TypeInv
BY TenantAssumption, NoEntryType
DEF Init, TypeInv, EntryTyped, HostTyped, OpsTyped, Entry, Clean, Pc

\* A command that ends leaves the commands well typed.
LEMMA EndsTyped ==
    ASSUME OpsTyped, NEW o \in Ops, Ends(o), UNCHANGED kind
    PROVE  OpsTyped'
BY NoEntryType DEF Ends, Goto, OpsTyped, Pc

\* A command that moves on stays well typed.
LEMMA GoesTyped ==
    ASSUME OpsTyped, NEW o \in Ops, NEW label \in Pc, Goes(o, label), UNCHANGED kind
    PROVE  OpsTyped'
BY DEF Goes, Goto, OpsTyped

\* So does one that begins, with the entry it has read.
LEMMA BeginsTyped ==
    ASSUME OpsTyped, EntryTyped, NEW o \in Ops, NEW k, NEW label \in Pc,
           Begins(o, k, label), held' = held \/ held' = [held EXCEPT ![o] = entry]
    PROVE  OpsTyped'
BY DEF Begins, Goto, OpsTyped, EntryTyped

\* The end of processes keeps the host well typed.
LEMMA KilledTyped ==
    ASSUME HostTyped, NEW gone, Killed(gone), UNCHANGED <<image, store, current>>
    PROVE  HostTyped'
BY DEF Killed, HostTyped

\* What leaves the host alone keeps it well typed.
LEMMA HostUnchanged == HostTyped /\ UNCHANGED hostVars => HostTyped'
BY DEF HostTyped, hostVars

\* What leaves the entry alone keeps it well typed.
LEMMA EntryUnchanged == EntryTyped /\ UNCHANGED entry => EntryTyped'
BY DEF EntryTyped, Clean

\* cleanupChroot keeps the types.
LEMMA CleansTyped ==
    ASSUME HostTyped, OpsTyped, EntryTyped, NEW o \in Ops, NEW label \in Pc,
           CleansChroot(o, label), UNCHANGED kind
    PROVE  HostTyped' /\ OpsTyped' /\ EntryTyped'
BY GoesTyped, EntryUnchanged DEF CleansChroot, HostTyped, AfterRm

\* A step of a suspend keeps the types.
LEMMA SuspendTyped == ASSUME TypeInv, NEW o \in Ops, Suspend(o) PROVE TypeInv'
<1> USE DEF TypeInv, At, Pc
<1>1. CASE SuspendBegins(o)
  BY <1>1, BeginsTyped, HostUnchanged, EntryUnchanged DEF SuspendBegins, Begins
<1>2. CASE Pauses(o)
  BY <1>2, GoesTyped, EntryUnchanged DEF Pauses, HostTyped
<1>3. CASE Snapshots(o)
  BY <1>3, GoesTyped, EntryUnchanged DEF Snapshots, HostTyped, Guests
<1>4. CASE CopyStarts(o)
  BY <1>4, GoesTyped, EntryUnchanged DEF CopyStarts, HostTyped
<1>5. CASE CopyEnds(o)
  BY <1>5, GoesTyped, EntryUnchanged DEF CopyEnds, HostTyped
<1>6. CASE Kills(o)
  BY <1>6, GoesTyped, KilledTyped, EntryUnchanged DEF Kills
<1>7. CASE Tidies(o)
  BY <1>7, CleansTyped DEF Tidies
<1>8. CASE SuspendSaves(o)
  BY <1>8, EndsTyped, HostUnchanged DEF SuspendSaves, EntryTyped, Entry, Clean
<1> QED BY <1>1, <1>2, <1>3, <1>4, <1>5, <1>6, <1>7, <1>8 DEF Suspend

\* A step of a resume keeps the types.
LEMMA ResumeTyped == ASSUME TypeInv, NEW o \in Ops, Resume(o) PROVE TypeInv'
<1> USE DEF TypeInv, At, Pc
<1>1. CASE ResumeBegins(o)
  BY <1>1, BeginsTyped, HostUnchanged, EntryUnchanged DEF ResumeBegins, Begins
<1>2. CASE Cleans(o)
  BY <1>2, CleansTyped DEF Cleans
<1>3. CASE Launches(o)
  <2>1. HostTyped'
    BY <1>3 DEF Launches, HostTyped
  <2>2. OpsTyped' /\ EntryTyped'
    BY <1>3, EntryUnchanged DEF Launches, OpsTyped, Goto
  <2> QED BY <2>1, <2>2
<1>4. CASE Restores(o)
  <2>1. HostTyped' /\ EntryTyped'
    BY <1>4, EntryUnchanged DEF Restores, HostTyped
  <2>2. OpsTyped'
    BY <1>4, GoesTyped, EndsTyped DEF Restores
  <2> QED BY <2>1, <2>2
<1>5. CASE Drops(o)
  BY <1>5, GoesTyped, EntryUnchanged DEF Drops, HostTyped, AfterRm
<1>6. CASE ResumeSaves(o)
  <2>1. HostTyped' /\ EntryTyped'
    BY <1>6, HostUnchanged DEF ResumeSaves, EntryTyped, OpsTyped, Entry, Clean
  <2>2. OpsTyped'
    <3>1. CASE kind[o] = "resume"
      BY <1>6, <3>1, EndsTyped DEF ResumeSaves
    <3>2. CASE kind[o] # "resume"
      BY <1>6, <3>2, NoEntryType DEF ResumeSaves, OpsTyped, Goto
    <3> QED BY <3>1, <3>2
  <2> QED BY <2>1, <2>2
<1> QED BY <1>1, <1>2, <1>3, <1>4, <1>5, <1>6 DEF Resume

\* A step of a repair or of molt keeps the types.
LEMMA RepairTyped == ASSUME TypeInv, NEW o \in Ops, Repair(o) PROVE TypeInv'
<1> USE DEF TypeInv, At, Pc
<1>1. CASE RepairBegins(o)
  BY <1>1, BeginsTyped, HostUnchanged, EntryUnchanged DEF RepairBegins, Begins
<1>2. CASE MoltBegins(o)
  BY <1>2, BeginsTyped, HostUnchanged, EntryUnchanged DEF MoltBegins, Begins
<1>3. CASE Checks(o)
  BY <1>3, GoesTyped, EndsTyped, HostUnchanged, EntryUnchanged DEF Checks
<1>4. CASE Slays(o)
  BY <1>4, GoesTyped, KilledTyped, EntryUnchanged DEF Slays
<1>5. CASE Boots(o)
  <2>1. HostTyped' /\ EntryTyped'
    BY <1>5, TenantAssumption, EntryUnchanged DEF Boots, HostTyped
  <2>2. OpsTyped'
    BY <1>5, GoesTyped, EndsTyped DEF Boots
  <2> QED BY <2>1, <2>2
<1>6. CASE Greets(o)
  BY <1>6, GoesTyped, EndsTyped, HostUnchanged, EntryUnchanged DEF Greets
<1>7. CASE RepairSaves(o)
  BY <1>7, SavedType, EndsTyped, HostUnchanged DEF RepairSaves, EntryTyped, OpsTyped
<1> QED BY <1>1, <1>2, <1>3, <1>4, <1>5, <1>6, <1>7 DEF Repair

\* A step of an evict keeps the types.
LEMMA EvictTyped == ASSUME TypeInv, NEW o \in Ops, Evict(o) PROVE TypeInv'
<1> USE DEF TypeInv, At, Pc
<1>1. CASE EvictBegins(o)
  BY <1>1, BeginsTyped, HostUnchanged, EntryUnchanged DEF EvictBegins, Begins
<1>2. CASE EvictMarks(o)
  <2>1. HostTyped' /\ OpsTyped'
    BY <1>2, GoesTyped, HostUnchanged DEF EvictMarks
  <2>2. EntryTyped'
    BY <1>2 DEF EvictMarks, EntryTyped, OpsTyped, Entry, Clean
  <2> QED BY <2>1, <2>2
<1>3. CASE EvictDiscards(o)
  BY <1>3, GoesTyped, EntryUnchanged DEF EvictDiscards, HostTyped, AfterRm
<1>4. CASE EvictStops(o)
  BY <1>4, GoesTyped, KilledTyped, EntryUnchanged DEF EvictStops
<1>5. CASE EvictCleans(o)
  BY <1>5, CleansTyped DEF EvictCleans
<1>6. CASE EvictSaves(o)
  BY <1>6, NoEntryType, EndsTyped, HostUnchanged DEF EvictSaves, EntryTyped
<1> QED BY <1>1, <1>2, <1>3, <1>4, <1>5, <1>6 DEF Evict

\* Every step keeps the types.
LEMMA NextTyped == TypeInv /\ [Next]_vars => TypeInv'
<1> SUFFICES ASSUME TypeInv, [Next]_vars PROVE TypeInv'
  OBVIOUS
<1> USE DEF TypeInv
<1>1. CASE \E p \in Vms : Works(p)
  BY <1>1 DEF Works, HostTyped, OpsTyped, EntryTyped, Clean, opVars
<1>2. CASE \E p \in Vms : VmDies(p)
  <2>1. HostTyped'
    BY <1>2, KilledTyped DEF VmDies
  <2>2. OpsTyped' /\ EntryTyped'
    BY <1>2 DEF VmDies, OpsTyped, EntryTyped, Clean, opVars
  <2> QED BY <2>1, <2>2
<1>3. CASE \E o \in Ops : Suspend(o) \/ Resume(o) \/ Repair(o) \/ Evict(o)
  BY <1>3, SuspendTyped, ResumeTyped, RepairTyped, EvictTyped
<1>4. CASE \E o \in Ops : Fails(o)
  BY <1>4, EndsTyped, HostUnchanged, EntryUnchanged DEF Fails
<1>5. CASE UNCHANGED vars
  BY <1>5 DEF vars, hostVars, opVars, HostTyped, OpsTyped, EntryTyped, Clean
<1> QED BY <1>1, <1>2, <1>3, <1>4, <1>5 DEF Next

\* The types and the copies of entries, for any commands at a time.
THEOREM Typed == Spec => []TypeInv
BY InitTyped, NextTyped, PTL DEF Spec

\* The types, for any commands at a time: no entry that is saved, however old the copy it
\* was made from, is active and has suspendInfo.
THEOREM TenantTypeCorrect == Spec => []TenantTypeOK
<1>1. TypeInv => TenantTypeOK
  BY DEF TypeInv, EntryTyped, HostTyped, OpsTyped, TenantTypeOK, Clean
<1> QED BY <1>1, Typed, PTL

----
\* A process that ends takes nothing but itself from those that run.
LEMMA KilledRuns ==
    ASSUME TypeInv, NEW gone, Killed(gone)
    PROVE  /\ Running' = Running \ gone
           /\ Running \subseteq {sock} => Running' \subseteq {sock'}
BY DEF TypeInv, HostTyped, Killed, Running

\* The initial states.
LEMMA InitVm == Init => VmInv
BY DEF Init, VmInv, AtMostOne, ActiveByItsSocket, SuspendedIsDown, NothingLoaded, StepOfKind, SuspendKnows,
       ResumeKnows, RepairKnows, EvictKnows, Running, Restoring, NoEntry

\* A command that begins changes nothing yet.
LEMMA BeginsVm ==
    ASSUME TypeInv, VmInv, Contained, NEW o \in Ops,
           SuspendBegins(o) \/ ResumeBegins(o) \/ RepairBegins(o) \/ MoltBegins(o)
              \/ EvictBegins(o)
    PROVE  VmInv'
<1>1. Ops = {o}
  BY DEF Contained, Serial
<1>2. UNCHANGED <<entry, Running, sock, store>>
  BY DEF SuspendBegins, ResumeBegins, RepairBegins, MoltBegins, EvictBegins, Begins, hostVars,
         Running
<1>3. AtMostOne' /\ ActiveByItsSocket'
  BY <1>2 DEF VmInv, AtMostOne, ActiveByItsSocket
<1>4. pc[o] = "idle" /\ pc'[o] \in {"pause", "clean", "check", "mark"}
  BY DEF SuspendBegins, ResumeBegins, RepairBegins, MoltBegins, EvictBegins, Begins, Goto,
         TypeInv, OpsTyped
<1>5. SuspendedIsDown'
  BY <1>1, <1>2, <1>4 DEF VmInv, SuspendedIsDown, NothingLoaded
<1>6. StepOfKind(o)' /\ SuspendKnows(o)' /\ ResumeKnows(o)' /\ RepairKnows(o)' /\ EvictKnows(o)'
  <2> USE DEF TypeInv, OpsTyped, Begins, Goto, StepOfKind, SuspendKnows, ResumeKnows,
              RepairKnows, EvictKnows, Restoring
  <2>1. CASE SuspendBegins(o)
    BY <2>1 DEF SuspendBegins
  <2>2. CASE ResumeBegins(o)
    BY <2>2 DEF ResumeBegins
  <2>3. CASE RepairBegins(o)
    BY <2>3 DEF RepairBegins
  <2>4. CASE MoltBegins(o)
    BY <2>4 DEF MoltBegins, NoEntry
  <2>5. CASE EvictBegins(o)
    BY <2>5 DEF EvictBegins
  <2> QED BY <2>1, <2>2, <2>3, <2>4, <2>5
<1> QED BY <1>1, <1>3, <1>5, <1>6 DEF VmInv

\* Where a command fails, if the faults are contained: not while the snapshot it has loaded
\* is still there, and, where pkill may fail, not with a VM of its own.
LEMMA FailsWhere ==
    ASSUME Contained, NEW o \in Ops, Fails(o)
    PROVE  /\ pc[o] \notin {"idle", "drop"}
           /\ pc[o] = "save" => "rm" \notin MayFail
           /\ "pkill" \in MayFail => pc[o] \notin {"restore", "greet", "save"}
BY DEF Contained, Fails, EndsEarlyAt

\* A command that ends leaves the tenant as the next one may find it.
LEMMA EndsVm ==
    ASSUME TypeInv, VmInv, Contained, NEW o \in Ops, Ends(o),
           UNCHANGED <<entry, hostVars, kind>>,
           pc[o] # "drop", pc[o] = "save" => "rm" \notin MayFail
    PROVE  VmInv'
<1>1. Ops = {o} /\ pc'[o] = "idle"
  BY DEF Contained, Serial, Ends, Goto, TypeInv, OpsTyped
<1>2. UNCHANGED <<entry, Running, sock, store>>
  BY DEF hostVars, Running
<1>5. entry.status = "suspended" /\ pc[o] = "save" => store = Nothing
  BY DEF VmInv, StepOfKind, SuspendKnows, ResumeKnows, RepairKnows, EvictKnows, Restoring
<1>3. AtMostOne' /\ ActiveByItsSocket' /\ SuspendedIsDown'
  BY <1>1, <1>2, <1>5 DEF VmInv, AtMostOne, ActiveByItsSocket, SuspendedIsDown, NothingLoaded
<1>4. StepOfKind(o)' /\ SuspendKnows(o)' /\ ResumeKnows(o)' /\ RepairKnows(o)' /\ EvictKnows(o)'
  BY <1>1 DEF StepOfKind, SuspendKnows, ResumeKnows, RepairKnows, EvictKnows
<1> QED BY <1>1, <1>3, <1>4 DEF VmInv

\* A suspend on its way: with the entry active, the pause stops the VM that runs.
LEMMA SuspendVm ==
    ASSUME TypeInv, VmInv, Contained, NEW o \in Ops, Suspend(o)
    PROVE  VmInv'
<1>1. Ops = {o}
  BY DEF Contained, Serial
<1> USE <1>1 DEF VmInv, AtMostOne, ActiveByItsSocket, SuspendedIsDown, NothingLoaded, StepOfKind,
                 SuspendKnows, ResumeKnows, RepairKnows, EvictKnows, At, Goes, Goto,
                 Restoring, TypeInv, OpsTyped
<1>2. CASE SuspendBegins(o)
  BY <1>2, BeginsVm
<1>3. CASE Pauses(o)
  <2>1. Running' = {}
    BY <1>3 DEF Pauses, Running, Guests, HostTyped
  <2> QED BY <1>3, <2>1 DEF Pauses
<1>4. CASE Snapshots(o)
  <2>1. Running' = Running
    BY <1>4 DEF Snapshots, Running
  <2> QED BY <1>4, <2>1 DEF Snapshots
<1>5. CASE CopyStarts(o) \/ CopyEnds(o)
  <2>1. Running' = Running
    BY <1>5 DEF CopyStarts, CopyEnds, Running
  <2> QED BY <1>5, <2>1 DEF CopyStarts, CopyEnds
<1>6. CASE Kills(o)
  <2>1. Running' = {}
    BY <1>6, KilledRuns DEF Kills
  <2> QED BY <1>6, <2>1 DEF Kills
<1>7. CASE Tidies(o)
  <2>1. Running' = Running
    BY <1>7 DEF Tidies, CleansChroot, Running
  <2> QED BY <1>7, <2>1 DEF Tidies, CleansChroot
<1>8. CASE SuspendSaves(o)
  <2>1. Running' = {}
    BY <1>8 DEF SuspendSaves, Running, hostVars
  <2> QED BY <1>8, <2>1 DEF SuspendSaves, Ends
<1> QED BY <1>2, <1>3, <1>4, <1>5, <1>6, <1>7, <1>8 DEF Suspend

\* A resume on its way: the snapshot it loads says that no VM runs, and is gone before
\* the entry says that one does. The launch is a repair's, too.
LEMMA ResumeVm ==
    ASSUME TypeInv, VmInv, Contained, NEW o \in Ops, Resume(o)
    PROVE  VmInv'
<1>1. Ops = {o}
  BY DEF Contained, Serial
<1> USE <1>1 DEF VmInv, AtMostOne, ActiveByItsSocket, SuspendedIsDown, NothingLoaded, StepOfKind,
                 SuspendKnows, ResumeKnows, RepairKnows, EvictKnows, At, Goes, Goto,
                 Restoring, TypeInv, OpsTyped
<1>2. CASE ResumeBegins(o)
  BY <1>2, BeginsVm
<1>3. CASE Cleans(o)
  <2>1. Running' = Running
    BY <1>3 DEF Cleans, CleansChroot, Running
  <2> QED BY <1>3, <2>1 DEF Cleans, CleansChroot
<1>4. CASE Launches(o)
  <2>1. Running' = Running
    BY <1>4 DEF Launches, Running, Unused, Alive, HostTyped
  <2> QED BY <1>4, <2>1 DEF Launches
<1>5. CASE Restores(o)
  <2>1. CASE UNCHANGED <<proc, guest>> /\ Ends(o)
    <3>1. Running' = Running
      BY <2>1 DEF Running
    <3> QED BY <1>5, <2>1, <3>1 DEF Restores, Ends
  <2>2. CASE /\ proc' = [proc EXCEPT ![sock] = "running"] /\ Goes(o, "drop")
             /\ store \notin {Nothing, Torn}
    <3>1. pc[o] = "restore" /\ entry.status = "suspended" /\ UNCHANGED <<entry, sock, store>>
      BY <1>5 DEF Restores
    <3>2. Running = {}
      BY <2>2, <3>1
    <3>3. Running' \subseteq {sock}
      BY <2>2, <3>2 DEF Running, HostTyped
    <3> QED BY <1>5, <2>2, <3>1, <3>3 DEF Restores
  <2> QED BY <1>5, <2>1, <2>2 DEF Restores
<1>6. CASE Drops(o)
  <2>1. Running' = Running
    BY <1>6 DEF Drops, Running
  <2> QED BY <1>6, <2>1 DEF Drops, AfterRm
<1>7. CASE ResumeSaves(o)
  <2>1. Running' = Running /\ UNCHANGED <<sock, store>>
    BY <1>7 DEF ResumeSaves, Running, hostVars
  <2>2. pc[o] = "save" /\ Restoring(o) /\ (kind[o] = "molt" => store = Nothing)
    BY <1>7 DEF ResumeSaves, Contained
  <2> QED BY <1>7, <2>1, <2>2 DEF ResumeSaves, Ends
<1> QED BY <1>2, <1>3, <1>4, <1>5, <1>6, <1>7 DEF Resume

\* Whether pkill works or not, nothing of the tenant is alive when a repair has slain it.
LEMMA SlaysAll ==
    ASSUME TypeInv, VmInv, OrphanInv, Contained, NEW o \in Ops, Slays(o)
    PROVE  \A p : ~Alive(p)'
<1>1. CASE Killed(Vms)
  BY <1>1 DEF Killed, Alive, TypeInv, HostTyped
<1>2. CASE "pkill" \in MayFail /\ Killed({read[o].pid} \cap Vms)
  <2>1. Ops = {o} /\ "molt" \notin Kinds
    BY <1>2 DEF Contained, Serial
  <2>2. pc[o] = "slay" /\ kind[o] = "repair"
    BY <2>1 DEF Slays, At, VmInv, StepOfKind, TypeInv, OpsTyped
  <2>3. entry.status = "active" /\ read[o].pid = entry.pid /\ mine[o] = NoVm
    BY <1>2, <2>2
    DEF VmInv, RepairKnows, Restoring, OrphanInv, NoOrphans, OrphanKnows, HasNoVm
  <2>4. \A p : Alive(p) => p \in Vms /\ p = read[o].pid
    BY <1>2, <2>1, <2>3, TenantAssumption DEF OrphanInv, NoOrphans, Alive
  <2>5. \A p : Alive(p)' => Alive(p) /\ p \notin {read[o].pid} \cap Vms
    BY <1>2 DEF Killed, Alive, TypeInv, HostTyped
  <2> QED BY <2>4, <2>5
<1> QED BY <1>1, <1>2 DEF Slays

\* A repair on its way: everything of the VM is killed before one is booted.
LEMMA RepairVm ==
    ASSUME TypeInv, VmInv, OrphanInv, Contained, NEW o \in Ops, Repair(o)
    PROVE  VmInv'
<1>1. Ops = {o}
  BY DEF Contained, Serial
<1> USE <1>1 DEF VmInv, AtMostOne, ActiveByItsSocket, SuspendedIsDown, NothingLoaded, StepOfKind,
                 SuspendKnows, ResumeKnows, RepairKnows, EvictKnows, At, Goes, Goto,
                 Restoring, TypeInv, OpsTyped
<1>2. CASE RepairBegins(o) \/ MoltBegins(o)
  BY <1>2, BeginsVm
<1>3. CASE Checks(o)
  <2>1. Running' = Running /\ UNCHANGED <<sock, store>>
    BY <1>3 DEF Checks, Running, hostVars
  <2> QED BY <1>3, <2>1 DEF Checks, Ends
<1>4. CASE Slays(o)
  <2>1. Running' = {}
    BY <1>4, SlaysAll DEF Running, Alive
  <2> QED BY <1>4, <2>1 DEF Slays
<1>5. CASE Boots(o)
  <2>1. Running' \subseteq {sock}
    BY <1>5 DEF Boots, Running, HostTyped
  <2> QED BY <1>5, <2>1 DEF Boots, Ends
<1>6. CASE Greets(o)
  <2>1. Running' = Running /\ UNCHANGED <<sock, store>>
    BY <1>6 DEF Greets, Running, hostVars
  <2> QED BY <1>6, <2>1 DEF Greets, Ends
<1>7. CASE RepairSaves(o)
  <2>1. Running' = Running /\ UNCHANGED <<sock, store>>
    BY <1>7 DEF RepairSaves, Running, hostVars
  <2>2. entry'.status = read[o].status
    BY <1>7 DEF RepairSaves, Entry
  <2>3. Running \subseteq {sock}
    BY <1>7 DEF RepairSaves
  <2> QED BY <1>7, <2>1, <2>2, <2>3 DEF RepairSaves, Ends
<1> QED BY <1>2, <1>3, <1>4, <1>5, <1>6, <1>7 DEF Repair

\* An evict on its way: the entry is neither active nor suspended, and VMs only end.
LEMMA EvictVm ==
    ASSUME TypeInv, VmInv, Contained, NEW o \in Ops, Evict(o)
    PROVE  VmInv'
<1>1. Ops = {o}
  BY DEF Contained, Serial
<1> USE <1>1 DEF VmInv, AtMostOne, ActiveByItsSocket, SuspendedIsDown, NothingLoaded, StepOfKind,
                 SuspendKnows, ResumeKnows, RepairKnows, EvictKnows, At, Goes, Goto,
                 Restoring, TypeInv, OpsTyped
<1>2. CASE EvictBegins(o)
  BY <1>2, BeginsVm
<1>3. CASE EvictMarks(o)
  <2>1. Running' = Running
    BY <1>3 DEF EvictMarks, Running, hostVars
  <2>2. entry'.status = "removing"
    BY <1>3 DEF EvictMarks, Entry
  <2> QED BY <1>3, <2>1, <2>2 DEF EvictMarks
<1>4. CASE EvictDiscards(o)
  <2>1. Running' = Running
    BY <1>4 DEF EvictDiscards, Running
  <2> QED BY <1>4, <2>1 DEF EvictDiscards
<1>5. CASE EvictStops(o)
  <2>1. Running' \subseteq Running
    BY <1>5, KilledRuns DEF EvictStops
  <2> QED BY <1>5, <2>1 DEF EvictStops
<1>6. CASE EvictCleans(o)
  <2>1. Running' = Running
    BY <1>6 DEF EvictCleans, CleansChroot, Running
  <2> QED BY <1>6, <2>1 DEF EvictCleans, CleansChroot
<1>7. CASE EvictSaves(o)
  <2>1. Running' = Running
    BY <1>7 DEF EvictSaves, Running, hostVars
  <2> QED BY <1>7, <2>1 DEF EvictSaves, Ends, NoEntry
<1> QED BY <1>2, <1>3, <1>4, <1>5, <1>6, <1>7 DEF Evict

\* Every step keeps the invariant, if commands do not overlap.
LEMMA NextVm == TypeInv /\ VmInv /\ OrphanInv /\ Contained /\ [Next]_vars => VmInv'
<1> SUFFICES ASSUME TypeInv, VmInv, OrphanInv, Contained, [Next]_vars PROVE VmInv'
  OBVIOUS
<1> USE DEF VmInv, AtMostOne, ActiveByItsSocket, SuspendedIsDown, NothingLoaded, StepOfKind,
            SuspendKnows, ResumeKnows, RepairKnows, EvictKnows, Restoring, opVars
<1>1. CASE \E p \in Vms : Works(p)
  <2>1. Running' = Running
    BY <1>1 DEF Works, Running
  <2> QED BY <1>1, <2>1 DEF Works
<1>2. CASE \E p \in Vms : VmDies(p)
  <2>1. Running' \subseteq Running /\ (Running \subseteq {sock} => Running' \subseteq {sock'})
    BY <1>2, KilledRuns DEF VmDies
  <2>2. UNCHANGED <<entry, store, opVars>>
    BY <1>2 DEF VmDies
  <2> QED BY <2>1, <2>2
<1>3. CASE \E o \in Ops : Suspend(o) \/ Resume(o) \/ Repair(o) \/ Evict(o)
  BY <1>3, SuspendVm, ResumeVm, RepairVm, EvictVm
<1>4. CASE \E o \in Ops : Fails(o)
  BY <1>4, EndsVm, FailsWhere DEF Fails
<1>5. CASE UNCHANGED vars
  <2>1. Running' = Running /\ UNCHANGED <<entry, sock, store, opVars>>
    BY <1>5 DEF vars, hostVars, Running
  <2> QED BY <2>1
<1> QED BY <1>1, <1>2, <1>3, <1>4, <1>5 DEF Next

----
(* Where the memory is.                                                    *)

\* The guest behind the socket of an active tenant is the tenant, paused or not.
SocketIsCurrent ==
    entry.status = "active" /\ sock \in Guests => guest[sock] = current

\* What a suspended tenant has to load is its last state.
SnapshotIsCurrent ==
    entry.status = "suspended" /\ store # Nothing /\ NothingLoaded => store = current

\* If the recorded process lives, it is the one behind the socket, and has the guest.
RecordedIsReached ==
    entry.status = "active" /\ Alive(entry.pid) => sock = entry.pid /\ sock \in Guests

\* What a command that is alone knows of the memory and of the process it starts.
SuspendHolds(o) ==
    kind[o] = "suspend" /\ pc[o] # "idle" =>
        /\ read[o].pid = entry.pid
        /\ pc[o] \in {"copy", "copying"} => image = current
        /\ pc[o] \in {"kill", "tidy", "save"} => store = current
        /\ pc[o] = "tidy" => ~Alive(read[o].pid)

LaunchHolds(o) ==
    pc[o] = "restore" =>
        /\ mine[o] \in Vms
        /\ Alive(mine[o]) => sock = mine[o] /\ proc[sock] = "jailed"

ReachesMine(o) == Alive(mine[o]) => sock = mine[o] /\ sock \in Guests

ResumeHolds(o) ==
    Restoring(o) /\ pc[o] \in {"drop", "save"} =>
        /\ mine[o] \in Vms /\ ReachesMine(o)
        /\ sock \in Guests => guest[sock] = current

RepairHolds(o) ==
    kind[o] \in {"repair", "molt"} /\ ~Restoring(o) =>
        /\ pc[o] \in {"clean", "launch"} => \A p \in Vms : ~Alive(p)
        /\ pc[o] \in {"restore", "greet"} => \A p \in Vms : Alive(p) => p = mine[o]
        /\ pc[o] \in {"greet", "save"} => ReachesMine(o)

MemoryInv ==
    /\ RunningIsCurrent
    /\ SocketIsCurrent
    /\ SnapshotIsCurrent
    /\ RecordedIsReached
    /\ \A o \in Ops : SuspendHolds(o) /\ LaunchHolds(o) /\ ResumeHolds(o) /\ RepairHolds(o)

\* What is left of processes, guests and the socket when processes end.
LEMMA KilledLeaves ==
    ASSUME TypeInv, NEW gone, Killed(gone)
    PROVE  /\ Running' = Running \ gone
           /\ Guests' = Guests \ gone
           /\ \A p : Alive(p)' <=> Alive(p) /\ p \notin gone
           /\ \A p \in Vms \ gone : guest'[p] = guest[p] /\ proc'[p] = proc[p]
           /\ sock' = IF sock \in gone THEN NoVm ELSE sock
BY DEF TypeInv, HostTyped, Killed, Running, Guests, Alive

\* The initial states.
LEMMA InitMemory == Init => MemoryInv
BY DEF Init, MemoryInv, RunningIsCurrent, SocketIsCurrent, SnapshotIsCurrent, NothingLoaded,
       RecordedIsReached, SuspendHolds, LaunchHolds, ResumeHolds, RepairHolds, Running, Guests,
       Alive

\* A command that begins changes nothing of the host.
LEMMA BeginsMemory ==
    ASSUME TypeInv, VmInv, MemoryInv, Contained, NEW o \in Ops,
           SuspendBegins(o) \/ ResumeBegins(o) \/ RepairBegins(o) \/ MoltBegins(o)
              \/ EvictBegins(o)
    PROVE  MemoryInv'
<1>1. Ops = {o}
  BY DEF Contained, Serial
<1>2. UNCHANGED <<entry, hostVars, Running, Guests>> /\ \A p : Alive(p)' <=> Alive(p)
  BY DEF SuspendBegins, ResumeBegins, RepairBegins, MoltBegins, EvictBegins, Begins, hostVars,
         Running, Guests, Alive
<1>3. pc[o] = "idle" /\ pc'[o] \in {"pause", "clean", "check", "mark"}
  BY DEF SuspendBegins, ResumeBegins, RepairBegins, MoltBegins, EvictBegins, Begins, Goto,
         TypeInv, OpsTyped
<1>4. pc'[o] = "clean" => Restoring(o)'
  BY DEF SuspendBegins, ResumeBegins, RepairBegins, MoltBegins, EvictBegins, Begins, Goto,
         TypeInv, OpsTyped, Restoring, NoEntry
<1>5. read'[o].pid = entry.pid
  BY DEF SuspendBegins, ResumeBegins, RepairBegins, MoltBegins, EvictBegins, Begins,
         TypeInv, OpsTyped
<1> QED
  BY <1>1, <1>2, <1>3, <1>4, <1>5
  DEF MemoryInv, RunningIsCurrent, SocketIsCurrent, SnapshotIsCurrent, NothingLoaded, RecordedIsReached,
      SuspendHolds, LaunchHolds, ResumeHolds, RepairHolds, hostVars

\* A command that ends does so too, if it leaves no snapshot behind that it has loaded.
LEMMA EndsMemory ==
    ASSUME TypeInv, VmInv, MemoryInv, Contained, NEW o \in Ops, Ends(o),
           UNCHANGED <<entry, hostVars, kind>>,
           pc[o] # "drop", pc[o] = "save" => "rm" \notin MayFail
    PROVE  MemoryInv'
<1>1. Ops = {o} /\ pc'[o] = "idle"
  BY DEF Contained, Serial, Ends, Goto, TypeInv, OpsTyped
<1>2. UNCHANGED <<Running, Guests>> /\ \A p : Alive(p)' <=> Alive(p)
  BY DEF hostVars, Running, Guests, Alive
<1>3. entry.status = "suspended" /\ pc[o] = "save" => store = Nothing
  BY DEF VmInv, StepOfKind, SuspendKnows, ResumeKnows, RepairKnows, EvictKnows, Restoring
<1> QED
  BY <1>1, <1>2, <1>3
  DEF MemoryInv, RunningIsCurrent, SocketIsCurrent, SnapshotIsCurrent, NothingLoaded, RecordedIsReached,
      SuspendHolds, LaunchHolds, ResumeHolds, RepairHolds, hostVars

\* A suspend on its way.
LEMMA SuspendMemory ==
    ASSUME TypeInv, VmInv, MemoryInv, Contained, NEW o \in Ops, Suspend(o)
    PROVE  MemoryInv'
<1>1. Ops = {o}
  BY DEF Contained, Serial
<1> USE <1>1 DEF MemoryInv, RunningIsCurrent, SocketIsCurrent, SnapshotIsCurrent, NothingLoaded,
                 RecordedIsReached, SuspendHolds, LaunchHolds, ResumeHolds, RepairHolds, At,
                 Goes, Goto, Restoring, TypeInv, OpsTyped
<1>2. CASE SuspendBegins(o)
  BY <1>2, BeginsMemory
<1>3. ASSUME pc[o] # "idle", Suspend(o)
      PROVE  /\ kind[o] = "suspend" /\ entry.status = "active"
             /\ pc[o] # "pause" => Running = {}
  <2>1. kind[o] = "suspend"
    BY <1>3 DEF Suspend, VmInv, StepOfKind, SuspendBegins, Begins, Pauses, Snapshots,
                CopyStarts, CopyEnds, Kills, Tidies, SuspendSaves
  <2> QED BY <1>3, <2>1 DEF VmInv, SuspendKnows
<1>4. CASE Pauses(o)
  <2>1. Running' = {} /\ Guests' = Guests /\ \A p : Alive(p)' <=> Alive(p)
    BY <1>3, <1>4 DEF Pauses, Running, Guests, HostTyped, Alive, VmInv, ActiveByItsSocket
  <2> QED BY <1>3, <1>4, <2>1 DEF Pauses
<1>5. CASE Snapshots(o)
  <2>1. Running' = Running /\ Guests' = Guests /\ \A p : Alive(p)' <=> Alive(p)
    BY <1>5 DEF Snapshots, Running, Guests, Alive
  <2> QED BY <1>3, <1>5, <2>1 DEF Snapshots
<1>6. CASE CopyStarts(o) \/ CopyEnds(o)
  <2>1. Running' = Running /\ Guests' = Guests /\ \A p : Alive(p)' <=> Alive(p)
    BY <1>6 DEF CopyStarts, CopyEnds, Running, Guests, Alive
  <2> QED BY <1>3, <1>6, <2>1 DEF CopyStarts, CopyEnds
<1>7. CASE Kills(o)
  <2>1. Running = {} /\ UNCHANGED <<entry, image, store, current, kind, read>>
    BY <1>3, <1>7 DEF Kills
  <2>2. pc[o] = "kill" /\ pc'[o] = "tidy"
    BY <1>7 DEF Kills
  <2> DEFINE gone == {read[o].pid} \cap Vms
  <2>3. /\ Running' = {}
        /\ Guests' \subseteq Guests
        /\ \A p \in Guests' : guest'[p] = guest[p]
        /\ sock' \in {sock, NoVm}
        /\ ~Alive(entry.pid)'
        /\ ~Alive(read[o].pid)'
    <3>1. Killed(gone)
      BY <1>7 DEF Kills
    <3> HIDE DEF gone
    <3>2. Running' = {} /\ Guests' = Guests \ gone /\ sock' \in {sock, NoVm}
      BY <2>1, <3>1, KilledLeaves
    <3>3. \A p \in Guests' : guest'[p] = guest[p]
      BY <3>1, <3>2, KilledLeaves DEF Guests
    <3>4. \A p : Alive(p)' => p \in Vms \ gone
      BY <3>1, KilledLeaves DEF Alive
    <3>5. read[o].pid \notin Vms \ gone /\ read[o].pid = entry.pid
      BY <1>3, <2>2 DEF gone
    <3>6. ~Alive(read[o].pid)'
      BY <2>1, <3>4, <3>5 DEF Alive
    <3> QED BY <2>1, <3>2, <3>3, <3>5, <3>6
  <2>4. NoVm \notin Guests'
    BY TenantAssumption DEF Guests
  <2> QED BY <1>3, <2>1, <2>2, <2>3, <2>4
<1>8. CASE Tidies(o)
  <2>1. Running' = Running /\ Guests' = Guests /\ \A p : Alive(p)' <=> Alive(p)
    BY <1>8 DEF Tidies, CleansChroot, Running, Guests, Alive
  <2>2. ~Alive(entry.pid)
    BY <1>3, <1>8 DEF Tidies
  <2>3. NoVm \notin Guests'
    BY TenantAssumption DEF Guests
  <2>4. Running = {} /\ store = current /\ pc'[o] = "save" /\ sock' \in {sock, NoVm}
    BY <1>3, <1>8 DEF Tidies, CleansChroot
  <2> QED BY <1>3, <1>8, <2>1, <2>2, <2>3, <2>4 DEF Tidies, CleansChroot
<1>9. CASE SuspendSaves(o)
  <2>1. Running' = {} /\ entry'.status = "suspended" /\ pc'[o] = "idle"
    BY <1>3, <1>9 DEF SuspendSaves, Running, hostVars, Ends
  <2> QED BY <1>3, <1>9, <2>1 DEF SuspendSaves, Ends, hostVars
<1> QED BY <1>2, <1>4, <1>5, <1>6, <1>7, <1>8, <1>9 DEF Suspend

\* A resume on its way, and the launch of a repair.
LEMMA ResumeMemory ==
    ASSUME TypeInv, VmInv, MemoryInv, Contained, NEW o \in Ops, Resume(o)
    PROVE  MemoryInv'
<1>1. Ops = {o} /\ NoVm \notin Guests /\ NoVm \notin Guests' /\ ~Alive(NoVm) /\ ~Alive(NoVm)'
  BY TenantAssumption DEF Contained, Serial, Guests, Alive
<1> USE <1>1 DEF MemoryInv, RunningIsCurrent, SocketIsCurrent, SnapshotIsCurrent, NothingLoaded,
                 RecordedIsReached, SuspendHolds, LaunchHolds, ResumeHolds, RepairHolds, At,
                 Goes, Goto, Restoring, ReachesMine, TypeInv, OpsTyped
<1>2. CASE ResumeBegins(o)
  BY <1>2, BeginsMemory
<1>3. CASE Cleans(o)
  <2>1. Running' = Running /\ Guests' = Guests /\ \A p : Alive(p)' <=> Alive(p)
    BY <1>3 DEF Cleans, CleansChroot, Running, Guests, Alive
  <2>2. entry.status = "active" => ~Alive(entry.pid)
    BY <1>3 DEF Cleans, VmInv, StepOfKind, ResumeKnows, Alive
  <2> QED BY <1>3, <2>1, <2>2 DEF Cleans, CleansChroot, VmInv, StepOfKind
<1>4. CASE Launches(o)
  <2>1. PICK p \in Vms :
          /\ Unused(p)
          /\ mine' = [mine EXCEPT ![o] = p]
          /\ \/ proc' = [proc EXCEPT ![p] = "jailed"] /\ sock' = p
             \/ UNCHANGED <<proc, sock>>
    BY <1>4 DEF Launches
  <2>2. /\ pc[o] = "launch" /\ pc'[o] = "restore" /\ mine'[o] = p
        /\ UNCHANGED <<entry, guest, image, store, current, read, held, kind>>
    BY <1>4, <2>1 DEF Launches
  <2>3. Running' = Running /\ Guests' = Guests /\ p \notin Guests
    BY <2>1 DEF Unused, Alive, Running, Guests, HostTyped
  <2>4. entry.pid # p /\ (\A q : q # p => (Alive(q)' <=> Alive(q)))
    BY <2>1 DEF Unused, Alive, HostTyped
  <2>5. Alive(p)' => sock' = p /\ proc'[p] = "jailed"
    BY <2>1, <2>2 DEF Unused, Alive, HostTyped
  <2>6. entry.status = "active" => ~Alive(entry.pid)
    BY <2>2 DEF VmInv, StepOfKind, ResumeKnows, Alive
  <2>7. \A q : Alive(q) => q \in Vms
    BY DEF Alive
  <2>8. \A q : Alive(q)' => q \in Vms
    BY DEF Alive
  <2>9. sock' \in {sock, p}
    BY <2>1
  <2>10. RunningIsCurrent' /\ SocketIsCurrent' /\ SnapshotIsCurrent' /\ RecordedIsReached'
    BY <2>2, <2>3, <2>4, <2>6, <2>9
  <2>11. LaunchHolds(o)' /\ SuspendHolds(o)' /\ ResumeHolds(o)'
    BY <2>2, <2>5 DEF VmInv, StepOfKind
  <2>12. RepairHolds(o)'
    BY <2>2, <2>4, <2>7, <2>8
  <2> QED BY <2>10, <2>11, <2>12
<1>5. CASE Restores(o)
  <2>1. /\ pc[o] = "restore" /\ Restoring(o) /\ entry.status = "suspended"
        /\ UNCHANGED <<entry, sock, store, current, kind>>
    BY <1>5 DEF Restores, VmInv, ResumeKnows
  <2>2. CASE UNCHANGED <<proc, guest>> /\ Ends(o)
    <3>1. Running' = Running /\ Guests' = Guests /\ pc'[o] = "idle"
      BY <2>1, <2>2 DEF Running, Guests, Ends
    <3> QED BY <2>1, <2>2, <3>1
  <2>3. CASE /\ Configurable /\ store \notin {Nothing, Torn}
             /\ proc' = [proc EXCEPT ![sock] = "running"]
             /\ guest' = [guest EXCEPT ![sock] = store]
             /\ Goes(o, "drop")
    <3>0. Running = {} /\ store = current
      BY <2>1, <2>3 DEF VmInv, SuspendedIsDown
    <3>1. Running' \subseteq {sock} /\ sock \in Guests' /\ guest'[sock] = current
      BY <2>1, <2>3, <3>0 DEF Running, Guests, HostTyped, Configurable
    <3>2. pc'[o] = "drop" /\ Restoring(o)' /\ kind[o] # "suspend" /\ UNCHANGED mine
      BY <2>1, <2>3
    <3>3. mine[o] \in Vms /\ (Alive(mine[o])' => sock = mine[o])
      BY <2>1, <2>3 DEF Configurable, Alive, HostTyped
    <3> QED BY <2>1, <3>1, <3>2, <3>3
  <2> QED BY <1>5, <2>2, <2>3 DEF Restores
<1>6. CASE Drops(o)
  <2>1. Running' = Running /\ Guests' = Guests /\ \A p : Alive(p)' <=> Alive(p)
    BY <1>6 DEF Drops, Running, Guests, Alive
  <2> QED BY <1>6, <2>1 DEF Drops, VmInv, StepOfKind, ResumeKnows
<1>7. CASE ResumeSaves(o)
  <2>1. Running' = Running /\ Guests' = Guests /\ (\A p : Alive(p)' <=> Alive(p))
        /\ UNCHANGED <<sock, store, guest, current>>
    BY <1>7 DEF ResumeSaves, Running, Guests, Alive, hostVars
  <2>2. /\ entry'.status = "active" /\ entry'.pid = mine[o]
        /\ pc'[o] \in {"idle", "check"} /\ kind[o] # "suspend"
    BY <1>7 DEF ResumeSaves, Ends
  <2>3. kind'[o] # "suspend"
    BY <1>7, <2>2 DEF ResumeSaves
  <2> QED BY <1>7, <2>1, <2>2, <2>3 DEF ResumeSaves
<1> QED BY <1>2, <1>3, <1>4, <1>5, <1>6, <1>7 DEF Resume

\* A repair on its way.
LEMMA RepairMemory ==
    ASSUME TypeInv, VmInv, OrphanInv, MemoryInv, Contained, NEW o \in Ops, Repair(o)
    PROVE  MemoryInv'
<1>1. Ops = {o} /\ NoVm \notin Guests /\ NoVm \notin Guests' /\ ~Alive(NoVm) /\ ~Alive(NoVm)'
  BY TenantAssumption DEF Contained, Serial, Guests, Alive
<1> USE <1>1 DEF MemoryInv, RunningIsCurrent, SocketIsCurrent, SnapshotIsCurrent, NothingLoaded,
                 RecordedIsReached, SuspendHolds, LaunchHolds, ResumeHolds, RepairHolds, At,
                 Goes, Goto, Restoring, ReachesMine, TypeInv, OpsTyped
<1>2. CASE RepairBegins(o) \/ MoltBegins(o)
  BY <1>2, BeginsMemory
<1>3. CASE Checks(o)
  <2>1. Running' = Running /\ Guests' = Guests /\ (\A p : Alive(p)' <=> Alive(p))
        /\ UNCHANGED <<entry, proc, guest, sock, image, store, current, kind>>
        /\ pc'[o] \in {"idle", "slay"}
    BY <1>3 DEF Checks, Running, Guests, Alive, hostVars, Ends
  <2>2. kind[o] # "suspend"
    BY <1>3 DEF Checks, VmInv, StepOfKind
  <2>3. RunningIsCurrent' /\ SocketIsCurrent' /\ RecordedIsReached'
    BY <2>1
  <2>4. pc[o] = "check"
    BY <1>3 DEF Checks
  <2>5. SnapshotIsCurrent'
    BY <2>1, <2>4
  <2> QED BY <2>1, <2>2, <2>3, <2>5
<1>4. CASE Slays(o)
  <2>1. Running' = {} /\ Guests' = {} /\ (\A p : ~Alive(p)') /\ pc'[o] = "clean"
    BY <1>4, SlaysAll DEF Slays, Running, Guests, Alive
  <2>2. UNCHANGED <<entry, image, store, current, kind, held>>
    BY <1>4 DEF Slays
  <2>3. kind[o] \in {"repair", "molt"} /\ ~Restoring(o) /\ entry.status = "active"
    BY <1>4 DEF Slays, VmInv, StepOfKind, RepairKnows
  <2>4. sock' \notin Guests'
    BY <2>1
  <2> QED BY <2>1, <2>2, <2>3, <2>4
<1>5. CASE Boots(o) /\ ~Configurable
  <2>1. Running' = Running /\ Guests' = Guests /\ (\A p : Alive(p)' <=> Alive(p))
        /\ UNCHANGED <<entry, hostVars, kind>> /\ Ends(o)
    BY <1>5 DEF Boots, Running, Guests, Alive, hostVars
  <2> QED BY <1>5, <2>1, EndsMemory DEF Boots
<1>8. CASE Boots(o) /\ Configurable
  <2>1. /\ Running' \subseteq {sock} /\ sock \in Guests' /\ guest'[sock] = Fresh
        /\ current' = Fresh /\ \A p : Alive(p)' <=> Alive(p)
    BY <1>8 DEF Configurable, Boots, VmInv, StepOfKind, RepairKnows, Running, Guests, Alive, HostTyped
  <2>2. /\ pc[o] = "restore" /\ pc'[o] = "greet" /\ sock = mine[o] /\ Alive(sock)
        /\ entry.status = "active" /\ kind[o] # "suspend"
        /\ UNCHANGED <<entry, sock, image, store, kind, held, mine>>
    <3>1. Alive(sock) /\ pc[o] = "restore" /\ kind[o] \in {"repair", "molt"}
      BY <1>8 DEF Configurable, Boots, VmInv, StepOfKind, Alive, HostTyped
    <3>2. sock = mine[o]
      BY <1>8, <3>1 DEF Boots, Alive
    <3> QED BY <1>8, <3>1, <3>2 DEF Boots, VmInv, RepairKnows
  <2> QED BY <2>1, <2>2
<1>6. CASE Greets(o)
  <2>1. Running' = Running /\ Guests' = Guests /\ (\A p : Alive(p)' <=> Alive(p))
        /\ UNCHANGED <<entry, hostVars, kind>> /\ pc'[o] \in {"save", "idle"}
    BY <1>6 DEF Greets, Running, Guests, Alive, hostVars, Ends
  <2>2. /\ pc[o] = "greet" /\ kind[o] \in {"repair", "molt"} /\ ~Restoring(o)
        /\ entry.status = "active"
    BY <1>6 DEF Greets, VmInv, StepOfKind, RepairKnows
  <2>3. CASE Goes(o, "save")
    BY <2>1, <2>2, <2>3 DEF hostVars
  <2>4. CASE Ends(o)
    BY <2>1, <2>2, <2>4, EndsMemory
  <2> QED BY <1>6, <2>3, <2>4 DEF Greets
<1>7. CASE RepairSaves(o)
  <2>1. Running' = Running /\ Guests' = Guests /\ (\A p : Alive(p)' <=> Alive(p))
        /\ UNCHANGED hostVars
    BY <1>7 DEF RepairSaves, Running, Guests, Alive, hostVars
  <2>2. entry'.status = read[o].status /\ entry'.pid = mine[o]
    BY <1>7 DEF RepairSaves, Entry
  <2>3. /\ ReachesMine(o) /\ pc'[o] = "idle" /\ entry.status = "active"
        /\ read[o].status = "suspended" => store = Nothing
    BY <1>7 DEF RepairSaves, Ends, VmInv, RepairKnows
  <2> QED BY <2>1, <2>2, <2>3 DEF hostVars
<1> QED BY <1>2, <1>3, <1>4, <1>5, <1>6, <1>7, <1>8 DEF Repair

\* An evict on its way.
LEMMA EvictMemory ==
    ASSUME TypeInv, VmInv, MemoryInv, Contained, NEW o \in Ops, Evict(o)
    PROVE  MemoryInv'
<1>1. Ops = {o} /\ NoVm \notin Guests /\ NoVm \notin Guests' /\ ~Alive(NoVm) /\ ~Alive(NoVm)'
  BY TenantAssumption DEF Contained, Serial, Guests, Alive
<1> USE <1>1 DEF MemoryInv, RunningIsCurrent, SocketIsCurrent, SnapshotIsCurrent, NothingLoaded,
                 RecordedIsReached, SuspendHolds, LaunchHolds, ResumeHolds, RepairHolds, At,
                 Goes, Goto, Restoring, ReachesMine, TypeInv, OpsTyped
<1>2. CASE EvictBegins(o)
  BY <1>2, BeginsMemory
<1>3. ASSUME pc[o] # "idle", Evict(o) PROVE kind[o] = "evict"
  BY <1>3 DEF Evict, EvictBegins, Begins, EvictMarks, EvictDiscards, EvictStops, EvictCleans,
              EvictSaves, VmInv, StepOfKind
<1>4. ASSUME pc[o] \notin {"idle", "mark"}, Evict(o) PROVE entry.status = "removing"
  BY <1>3, <1>4 DEF VmInv, EvictKnows
<1>5. CASE EvictMarks(o)
  <2>1. Running' = Running /\ Guests' = Guests /\ (\A p : Alive(p)' <=> Alive(p))
        /\ UNCHANGED hostVars /\ entry'.status = "removing" /\ pc'[o] = "discard"
    BY <1>5 DEF EvictMarks, Running, Guests, Alive, hostVars, Entry
  <2> QED BY <1>3, <1>5, <2>1 DEF EvictMarks, hostVars
<1>6. CASE EvictDiscards(o)
  <2>1. Running' = Running /\ Guests' = Guests /\ (\A p : Alive(p)' <=> Alive(p))
    BY <1>6 DEF EvictDiscards, Running, Guests, Alive
  <2> QED BY <1>3, <1>4, <1>6, <2>1 DEF EvictDiscards
<1>7. CASE EvictStops(o)
  <2>1. Running' \subseteq Running /\ \A p \in Running' : guest'[p] = guest[p]
    <3>1. PICK gone : Killed(gone)
      BY <1>7 DEF EvictStops
    <3>2. Running' = Running \ gone /\ \A p \in Vms \ gone : guest'[p] = guest[p]
      BY <3>1, KilledLeaves
    <3> QED BY <3>2 DEF Running
  <2>2. entry.status = "removing" /\ kind[o] = "evict" /\ pc'[o] = "network"
        /\ UNCHANGED <<entry, image, store, current, kind, held>>
    BY <1>3, <1>4, <1>7 DEF EvictStops
  <2> QED BY <2>1, <2>2
<1>8. CASE EvictCleans(o)
  <2>1. Running' = Running /\ pc'[o] = "save"
    BY <1>8 DEF EvictCleans, CleansChroot, Running
  <2> QED BY <1>3, <1>4, <1>8, <2>1 DEF EvictCleans, CleansChroot
<1>9. CASE EvictSaves(o)
  <2>1. Running' = Running /\ pc'[o] = "idle" /\ entry'.status = "absent"
    BY <1>9 DEF EvictSaves, Running, hostVars, Ends, NoEntry
  <2> QED BY <1>9, <2>1 DEF EvictSaves, hostVars
<1> QED BY <1>2, <1>5, <1>6, <1>7, <1>8, <1>9 DEF Evict

\* Every step keeps the invariant, if commands do not overlap.
LEMMA NextMemory ==
    TypeInv /\ VmInv /\ OrphanInv /\ MemoryInv /\ Contained /\ [Next]_vars => MemoryInv'
<1> SUFFICES ASSUME TypeInv, VmInv, OrphanInv, MemoryInv, Contained, [Next]_vars
             PROVE  MemoryInv'
  OBVIOUS
<1>1. NoVm \notin Guests /\ NoVm \notin Guests' /\ ~Alive(NoVm) /\ ~Alive(NoVm)'
  BY TenantAssumption DEF Guests, Alive
<1>2. CASE \E o \in Ops : Suspend(o) \/ Resume(o) \/ Repair(o) \/ Evict(o)
  BY <1>2, SuspendMemory, ResumeMemory, RepairMemory, EvictMemory
<1>3. CASE \E o \in Ops : Fails(o)
  BY <1>3, EndsMemory, FailsWhere DEF Fails
<1> USE <1>1 DEF MemoryInv, RunningIsCurrent, SocketIsCurrent, SnapshotIsCurrent, NothingLoaded,
                 RecordedIsReached, SuspendHolds, LaunchHolds, ResumeHolds, RepairHolds,
                 Restoring, ReachesMine, opVars
<1>4. CASE \E p \in Vms : Works(p)
  <2>1. PICK p \in Vms : Works(p)
    BY <1>4
  <2>2. Running' = Running /\ Guests' = Guests /\ p \in Running
        /\ (\A q : Alive(q)' <=> Alive(q)) /\ UNCHANGED <<entry, proc, sock, image, store, opVars>>
    BY <2>1 DEF Works, Running, Guests, Alive
  <2>3. guest'[p] = current' /\ Running = {p}
    BY <2>1, <2>2 DEF Works, VmInv, AtMostOne, TypeInv, HostTyped
  <2>4. SuspendedIsDown /\ ActiveByItsSocket
    BY DEF VmInv
  <2>5. \A o \in Ops : kind[o] = "suspend" /\ pc[o] # "idle" => pc[o] = "pause"
    BY <2>3 DEF VmInv, SuspendKnows
  <2>6. \A o \in Ops : Restoring(o) /\ pc[o] \in {"drop", "save"} => sock = p
    BY <2>3 DEF VmInv, ResumeKnows
  <2> QED BY <2>2, <2>3, <2>4, <2>5, <2>6 DEF SuspendedIsDown, ActiveByItsSocket
<1>5. CASE \E p \in Vms : VmDies(p)
  <2>1. PICK p \in Vms : VmDies(p)
    BY <1>5
  <2>2. /\ Running' = Running \ {p} /\ Guests' = Guests \ {p}
        /\ \A q : Alive(q)' <=> Alive(q) /\ q # p
        /\ \A q \in Vms \ {p} : guest'[q] = guest[q] /\ proc'[q] = proc[q]
        /\ sock' = IF sock = p THEN NoVm ELSE sock
        /\ UNCHANGED <<entry, image, store, current, opVars>>
    BY <2>1, KilledLeaves DEF VmDies
  <2>3. Guests \subseteq Vms /\ Running \subseteq Vms /\ \A q : Alive(q) => q \in Vms
    BY DEF Guests, Running, Alive
  <2> QED BY <2>2, <2>3
<1>6. CASE UNCHANGED vars
  <2>1. Running' = Running /\ Guests' = Guests /\ (\A q : Alive(q)' <=> Alive(q))
        /\ UNCHANGED <<entry, hostVars, opVars>>
    BY <1>6 DEF vars, hostVars, Running, Guests, Alive
  <2> QED BY <2>1 DEF hostVars
<1> QED BY <1>2, <1>3, <1>4, <1>5, <1>6 DEF Next

----
\* No molt, and every save works: a save that fails after the snapshot is removed leaves
\* a suspended tenant with nothing to load.
Orderly == Contained /\ "molt" \notin Kinds /\ "save" \notin MayFail

\* The snapshot of a suspended tenant is its last state until a resume has loaded it, and
\* a repair saves the entry of a tenant it found active.
ResumableInv ==
    /\ entry.status = "suspended" =>
          \/ store = current
          \/ \E o \in Ops : kind[o] = "resume" /\ pc[o] \in {"drop", "save"}
    /\ \A o \in Ops : kind[o] = "repair" /\ pc[o] # "idle" => read[o].status = "active"

\* The step of a command under way is one of its own.
LEMMA StepIsItsOwn ==
    ASSUME Orderly, TypeInv, VmInv, NEW o \in Ops, pc[o] # "idle",
           Suspend(o) \/ Resume(o) \/ Repair(o) \/ Evict(o)
    PROVE  /\ kind[o] \in {"suspend", "resume", "repair", "evict"} /\ kind'[o] = kind[o]
           /\ kind[o] = "suspend" => Suspend(o)
           /\ kind[o] = "resume" => Resume(o)
           /\ kind[o] = "repair" => Cleans(o) \/ Launches(o) \/ Repair(o)
           /\ kind[o] = "evict" => Evict(o)
<1> USE DEF At, Begins
<1>1. StepOfKind(o) /\ pc[o] \in Pc /\ kind[o] # "molt"
  BY DEF VmInv, TypeInv, OpsTyped, Orderly
<1>2. kind[o] \in {"suspend", "resume", "repair", "evict"}
  BY <1>1 DEF StepOfKind, Restoring, Pc
<1>3. CASE Suspend(o)
  BY <1>1, <1>3 DEF StepOfKind, Suspend, SuspendBegins, Pauses, Snapshots, CopyStarts,
                    CopyEnds, Kills, Tidies, SuspendSaves
<1>4. CASE Resume(o)
  BY <1>1, <1>4 DEF StepOfKind, Restoring, Resume, ResumeBegins, Cleans, Launches, Restores,
                    Drops, ResumeSaves
<1>5. CASE Repair(o)
  BY <1>1, <1>5 DEF StepOfKind, Restoring, Repair, RepairBegins, MoltBegins, Checks, Slays,
                    Boots, Greets, RepairSaves
<1>6. CASE Evict(o)
  BY <1>1, <1>6 DEF StepOfKind, Evict, EvictBegins, EvictMarks, EvictDiscards, EvictStops,
                    EvictCleans, EvictSaves
<1> QED BY <1>2, <1>3, <1>4, <1>5, <1>6

\* The steps of a command.
LEMMA CommandResumable ==
    ASSUME Orderly, TypeInv, VmInv, MemoryInv, ResumableInv, NEW o \in Ops,
           Suspend(o) \/ Resume(o) \/ Repair(o) \/ Evict(o)
    PROVE  ResumableInv'
<1>1. /\ Ops = {o} /\ kind'[o] # "molt"
      /\ pc \in [Ops -> Pc] /\ read \in [Ops -> Entry] /\ kind \in [Ops -> Kinds]
  BY NextTyped DEF Orderly, Contained, Serial, TypeInv, OpsTyped, Next
<1> USE <1>1 DEF Goes, Goto, At, Ends
<1>2. CASE pc[o] = "idle"
  <2>1. PICK k \in Kinds, label \in Pc \ {"idle", "drop", "save"} :
           /\ Begins(o, k, label)
           /\ k = "repair" => entry.status = "active"
    BY <1>2 DEF Suspend, SuspendBegins, Pauses, Snapshots, CopyStarts, CopyEnds, Kills,
                Tidies, SuspendSaves, Resume, ResumeBegins, Cleans, Launches, Restores, Drops,
                ResumeSaves, Repair, RepairBegins, MoltBegins, Checks, Slays, Boots, Greets,
                RepairSaves, Evict, EvictBegins, EvictMarks, EvictDiscards, EvictStops,
                EvictCleans, EvictSaves, Begins, Pc
  <2>2. /\ UNCHANGED <<entry, store, current>>
        /\ read'[o] = entry /\ kind'[o] = k
    BY <2>1 DEF Begins, hostVars
  <2> QED BY <1>2, <2>1, <2>2 DEF ResumableInv
<1>3. CASE pc[o] # "idle" /\ kind[o] = "suspend"
  <2>1. entry.status = "active" /\ Suspend(o) /\ kind'[o] = "suspend"
    BY <1>3, StepIsItsOwn DEF VmInv, SuspendKnows
  <2>2. CASE SuspendSaves(o)
    BY <2>1, <2>2 DEF SuspendSaves, hostVars, ResumableInv, MemoryInv, SuspendHolds
  <2>3. CASE ~SuspendSaves(o)
    <3>1. UNCHANGED entry
      BY <2>1, <2>3 DEF Suspend, SuspendBegins, Begins, Pauses, Snapshots, CopyStarts,
                        CopyEnds, Kills, Tidies, CleansChroot
    <3> QED BY <2>1, <3>1 DEF ResumableInv
  <2> QED BY <2>2, <2>3
<1>4. CASE pc[o] # "idle" /\ kind[o] = "resume"
  <2>1. Resume(o) /\ kind'[o] = "resume"
    BY <1>4, StepIsItsOwn
  <2>2. CASE Cleans(o) \/ Launches(o) \/ Restores(o)
    <3>1. UNCHANGED <<store, current, entry>> /\ pc[o] \notin {"drop", "save"}
      BY <2>2 DEF Cleans, CleansChroot, Launches, Restores
    <3> QED BY <2>1, <3>1 DEF ResumableInv
  <2>3. CASE Drops(o)
    BY <2>1, <2>3 DEF Drops, ResumableInv
  <2>4. CASE ResumeSaves(o)
    BY <2>1, <2>4 DEF ResumeSaves, ResumableInv
  <2> QED BY <1>4, <2>1, <2>2, <2>3, <2>4 DEF Resume, ResumeBegins, Begins
<1>5. CASE pc[o] # "idle" /\ kind[o] = "repair"
  <2>1. entry.status = "active" /\ read[o].status = "active"
    BY <1>5 DEF VmInv, RepairKnows, Restoring, ResumableInv
  <2>2. (Cleans(o) \/ Launches(o) \/ Repair(o)) /\ kind'[o] = "repair"
    BY <1>5, StepIsItsOwn
  <2>3. pc'[o] # "idle" => read'[o] = read[o]
    BY <1>5, <2>2 DEF Cleans, CleansChroot, Launches, Repair, RepairBegins, MoltBegins,
                      Begins, Checks, Slays, Boots, Greets, RepairSaves
  <2>4. CASE RepairSaves(o)
    <3>1. [read[o] EXCEPT !.pid = mine[o]].status = "active"
      BY <2>1 DEF Entry
    <3> QED BY <2>4, <3>1 DEF RepairSaves, ResumableInv
  <2>5. CASE ~RepairSaves(o)
    <3>1. UNCHANGED entry
      BY <1>5, <2>2, <2>5 DEF Cleans, CleansChroot, Launches, Repair, RepairBegins,
                              MoltBegins, Begins, Checks, Slays, Boots, Greets
    <3> QED BY <2>1, <2>2, <2>3, <3>1 DEF ResumableInv
  <2> QED BY <2>4, <2>5
<1>6. CASE pc[o] # "idle" /\ kind[o] = "evict"
  <2>1. Evict(o) /\ kind'[o] = "evict"
    BY <1>6, StepIsItsOwn
  <2>2. CASE EvictMarks(o)
    <3>1. [read[o] EXCEPT !.status = "removing"].status = "removing"
      BY DEF Entry
    <3> QED BY <2>1, <2>2, <3>1 DEF EvictMarks, ResumableInv
  <2>3. CASE EvictSaves(o)
    BY <2>1, <2>3 DEF EvictSaves, NoEntry, ResumableInv
  <2>4. CASE EvictDiscards(o) \/ EvictStops(o) \/ EvictCleans(o)
    <3>1. entry.status = "removing" /\ UNCHANGED entry
      BY <1>6, <2>4 DEF VmInv, EvictKnows, EvictDiscards, EvictStops, EvictCleans,
                        CleansChroot
    <3> QED BY <2>1, <3>1 DEF ResumableInv
  <2> QED BY <1>6, <2>1, <2>2, <2>3, <2>4 DEF Evict, EvictBegins, Begins
<1> QED BY <1>2, <1>3, <1>4, <1>5, <1>6, StepIsItsOwn

\* Every step keeps it.
LEMMA NextResumable ==
    ASSUME Orderly, TypeInv, VmInv, MemoryInv, ResumableInv, [Next]_vars
    PROVE  ResumableInv'
<1>1. CASE \E o \in Ops : Suspend(o) \/ Resume(o) \/ Repair(o) \/ Evict(o)
  BY <1>1, CommandResumable
<1>2. ASSUME NEW o \in Ops, Fails(o) PROVE ResumableInv'
  <2>1. Ops = {o} /\ pc[o] \notin {"drop", "save"} /\ pc'[o] = "idle"
    BY <1>2, FailsWhere
    DEF Fails, EndsEarlyAt, Orderly, Contained, Serial, Ends, Goto, TypeInv, OpsTyped
  <2> QED BY <1>2, <2>1 DEF Fails, hostVars, ResumableInv
<1>4. ASSUME NEW p \in Vms, Works(p) PROVE ResumableInv'
  <2>1. Running # {} /\ current # Nothing
    BY <1>4, TenantAssumption DEF Works, Running, TypeInv, HostTyped
  <2>2. entry.status = "suspended" =>
           \E o \in Ops : kind[o] = "resume" /\ pc[o] \in {"drop", "save"}
    <3>1. SUFFICES ASSUME entry.status = "suspended", store = current
                   PROVE  \E o \in Ops : pc[o] \in {"drop", "save"} /\ kind[o] = "resume"
      BY DEF ResumableInv
    <3>2. PICK o \in Ops : pc[o] \in {"drop", "save"}
      BY <2>1, <3>1 DEF VmInv, SuspendedIsDown, NothingLoaded
    <3>3. kind[o] = "resume"
      BY <3>1, <3>2 DEF VmInv, StepOfKind, SuspendKnows, RepairKnows, EvictKnows,
                        Restoring, Orderly, TypeInv, OpsTyped
    <3> QED BY <3>2, <3>3
  <2> QED BY <1>4, <2>2 DEF Works, opVars, ResumableInv
<1>5. ASSUME NEW p \in Vms, VmDies(p) PROVE ResumableInv'
  BY <1>5 DEF VmDies, opVars, ResumableInv
<1>6. CASE UNCHANGED vars
  BY <1>6 DEF vars, hostVars, opVars, ResumableInv
<1> QED BY <1>1, <1>2, <1>4, <1>5, <1>6 DEF Next

----
\* A command that ends leaves no process of its own, where pkill may fail.
LEMMA EndsOrphan ==
    ASSUME TypeInv, NoOrphans, Contained, NEW o \in Ops, Ends(o),
           UNCHANGED <<entry, hostVars, kind>>, ~Alive(mine[o])
    PROVE  NoOrphans'
<1>1. Ops = {o} /\ pc'[o] = "idle" /\ mine'[o] = NoVm
  BY DEF Contained, Serial, Ends, Goto, TypeInv, OpsTyped
<1>2. \A p : Alive(p)' <=> Alive(p)
  BY DEF hostVars, Alive
<1>3. ~Alive(NoVm)
  BY TenantAssumption DEF Alive
<1> QED BY <1>1, <1>2, <1>3 DEF NoOrphans, OrphanKnows, HasNoVm

\* Processes that end leave the others known.
LEMMA FewerOrphans ==
    ASSUME TypeInv, NoOrphans, Contained, NEW o \in Ops, UNCHANGED <<entry, mine, kind>>,
           \A p : Alive(p)' => Alive(p),
           OrphanKnows(o)'
    PROVE  NoOrphans'
<1>1. Ops = {o}
  BY DEF Contained, Serial
<1> QED BY <1>1 DEF NoOrphans

\* The steps of a command.
LEMMA CommandOrphan ==
    ASSUME Orderly, "pkill" \in MayFail, TypeInv, VmInv, MemoryInv, ResumableInv, NoOrphans,
           NEW o \in Ops, Suspend(o) \/ Resume(o) \/ Repair(o) \/ Evict(o)
    PROVE  NoOrphans'
<1>1. /\ Ops = {o} /\ kind[o] # "molt" /\ ~Alive(NoVm) /\ ~Alive(NoVm)' /\ OrphanKnows(o)
      /\ Contained /\ OrphanInv
  BY TenantAssumption
  DEF Orderly, Contained, Serial, TypeInv, OpsTyped, Alive, NoOrphans, OrphanInv
<1> USE <1>1 DEF At, Goes, Goto, TypeInv, OpsTyped, OrphanKnows, HasNoVm
<1>2. CASE SuspendBegins(o) \/ ResumeBegins(o) \/ RepairBegins(o) \/ MoltBegins(o)
           \/ EvictBegins(o)
  <2>1. pc[o] = "idle" /\ pc'[o] \in {"pause", "clean", "check", "mark"} /\ ~MoltBegins(o)
    BY <1>2 DEF SuspendBegins, ResumeBegins, RepairBegins, MoltBegins, EvictBegins, Begins,
                Orderly
  <2>2. /\ UNCHANGED <<entry, hostVars, mine>> /\ read'[o] = entry
        /\ kind'[o] = "repair" => pc'[o] = "check"
    BY <1>2, <2>1 DEF SuspendBegins, ResumeBegins, RepairBegins, EvictBegins, Begins
  <2>3. \A p : Alive(p)' <=> Alive(p)
    BY <2>2 DEF hostVars, Alive
  <2>4. OrphanKnows(o)'
    BY <2>1, <2>2, <2>3
  <2> QED BY <2>2, <2>3, <2>4 DEF NoOrphans
<1>3. CASE Pauses(o) \/ Snapshots(o) \/ CopyStarts(o) \/ CopyEnds(o)
  <2>1. \A p : Alive(p)' <=> Alive(p)
    BY <1>3 DEF Pauses, Snapshots, CopyStarts, CopyEnds, Alive, Guests, HostTyped
  <2>2. OrphanKnows(o)'
    BY <1>3, <2>1 DEF Pauses, Snapshots, CopyStarts, CopyEnds, VmInv, StepOfKind
  <2> QED
    BY <1>3, <2>1, <2>2, FewerOrphans DEF Pauses, Snapshots, CopyStarts, CopyEnds
<1>4. CASE Kills(o)
  <2>1. \A p : Alive(p)' => Alive(p)
    BY <1>4, KilledLeaves DEF Kills
  <2>2. OrphanKnows(o)'
    BY <1>4 DEF Kills, VmInv, StepOfKind
  <2> QED BY <1>4, <2>1, <2>2, FewerOrphans DEF Kills
<1>5. CASE Tidies(o)
  <2>1. \A p : Alive(p)' <=> Alive(p)
    BY <1>5 DEF Tidies, CleansChroot, Alive
  <2>2. ~Alive(entry.pid) /\ kind[o] = "suspend"
    BY <1>5 DEF Tidies, VmInv, StepOfKind, MemoryInv, SuspendHolds
  <2>3. OrphanKnows(o)'
    BY <1>5, <2>1, <2>2 DEF Tidies, CleansChroot
  <2> QED BY <1>5, <2>1, <2>3, FewerOrphans DEF Tidies, CleansChroot
<1>6. CASE SuspendSaves(o)
  <2>1. /\ \A p : Alive(p)' <=> Alive(p)
        /\ ~Alive(entry.pid) /\ ~Alive(mine[o]) /\ entry.status = "active"
    BY <1>6 DEF SuspendSaves, hostVars, Alive, VmInv, SuspendKnows
  <2>2. /\ entry'.status = "suspended" /\ entry'.pid = NoVm
        /\ pc'[o] = "idle" /\ mine'[o] = NoVm
    BY <1>6 DEF SuspendSaves, Ends
  <2> QED BY <2>1, <2>2 DEF NoOrphans
<1>7. CASE Cleans(o)
  <2>1. \A p : Alive(p)' <=> Alive(p)
    BY <1>7 DEF Cleans, CleansChroot, Alive
  <2>2. OrphanKnows(o)'
    BY <1>7, <2>1 DEF Cleans, CleansChroot
  <2> QED BY <1>7, <2>1, <2>2, FewerOrphans DEF Cleans, CleansChroot
<1>8. CASE Launches(o)
  <2>1. PICK p \in Vms :
          /\ Unused(p)
          /\ mine' = [mine EXCEPT ![o] = p]
          /\ \/ proc' = [proc EXCEPT ![p] = "jailed"]
             \/ UNCHANGED proc
    BY <1>8 DEF Launches
  <2>2. /\ \A q : Alive(q)' => Alive(q) \/ q = p
        /\ entry.pid # p /\ mine[o] = NoVm /\ mine'[o] = p
        /\ pc[o] = "launch" /\ pc'[o] = "restore" /\ UNCHANGED <<entry, kind, read>>
        /\ kind[o] \in {"resume", "repair"}
    BY <1>8, <2>1 DEF Launches, Unused, Alive, HostTyped, VmInv, StepOfKind
  <2>3. OrphanKnows(o)'
    BY <2>2
  <2> QED BY <2>2, <2>3 DEF NoOrphans
<1>9. CASE Restores(o)
  <2>1. store = current /\ pc[o] = "restore"
    <3>1. entry.status = "suspended" /\ pc[o] = "restore"
      BY <1>9 DEF Restores, VmInv, ResumeKnows
    <3> QED BY <3>1 DEF ResumableInv
  <2>2. store \notin {Nothing, Torn}
    BY <2>1, TenantAssumption DEF HostTyped
  <2>3. \A p : Alive(p)' <=> Alive(p)
    BY <1>9 DEF Restores, Configurable, Alive, HostTyped
  <2>4. CASE Configurable
    <3>1. OrphanKnows(o)'
      BY <1>9, <2>2, <2>3, <2>4 DEF Restores, VmInv, StepOfKind, Restoring
    <3> QED BY <1>9, <2>2, <2>3, <2>4, <3>1, FewerOrphans DEF Restores
  <2>5. CASE ~Configurable
    <3>1. ~Alive(mine[o])
      BY <2>1, <2>5, TenantAssumption DEF Configurable, MemoryInv, LaunchHolds, Alive
    <3>2. Ends(o) /\ UNCHANGED <<entry, proc, kind>>
      BY <1>9, <2>5 DEF Restores
    <3>3. pc'[o] = "idle" /\ mine'[o] = NoVm
      BY <3>2 DEF Ends
    <3>4. OrphanKnows(o)'
      BY <3>2, <3>3
    <3> QED BY <2>3, <3>1, <3>2, <3>3, <3>4 DEF NoOrphans
  <2> QED BY <2>4, <2>5
<1>10. CASE Drops(o)
  <2>1. \A p : Alive(p)' <=> Alive(p)
    BY <1>10 DEF Drops, Alive
  <2>2. OrphanKnows(o)'
    BY <1>10, <2>1 DEF Drops, VmInv, StepOfKind, Restoring
  <2> QED BY <1>10, <2>1, <2>2, FewerOrphans DEF Drops
<1>11. CASE ResumeSaves(o)
  <2>1. /\ \A p : Alive(p)' <=> Alive(p)
        /\ entry.status = "suspended" /\ entry.pid = NoVm /\ kind[o] = "resume"
    BY <1>11 DEF ResumeSaves, Restoring, hostVars, Alive, VmInv, ResumeKnows, NoOrphans
  <2>2. /\ entry'.status = "active" /\ entry'.pid = mine[o]
        /\ pc'[o] = "idle" /\ mine'[o] = NoVm
    BY <1>11, <2>1 DEF ResumeSaves, Ends
  <2> QED BY <2>1, <2>2 DEF NoOrphans
<1>12. CASE Checks(o)
  <2>1. (\A p : Alive(p)' <=> Alive(p)) /\ UNCHANGED <<entry, hostVars, kind>>
        /\ pc[o] = "check"
    BY <1>12 DEF Checks, hostVars, Alive
  <2>2. CASE Ends(o)
    BY <2>1, <2>2, EndsOrphan
  <2>3. CASE Goes(o, "slay")
    <3>1. OrphanKnows(o)'
      BY <2>1, <2>3
    <3> QED BY <2>1, <2>3, <3>1, FewerOrphans
  <2> QED BY <1>12, <2>2, <2>3 DEF Checks
<1>13. CASE Slays(o)
  <2>1. \A p : ~Alive(p)'
    BY <1>13, SlaysAll
  <2>2. OrphanKnows(o)'
    BY <1>13, <2>1 DEF Slays
  <2> QED BY <1>13, <2>1, <2>2, FewerOrphans DEF Slays
<1>14. CASE Boots(o)
  <2>1. /\ pc[o] = "restore" /\ entry.status = "active" /\ kind[o] = "repair"
        /\ \A p : Alive(p)' <=> Alive(p)
    BY <1>14 DEF Boots, Configurable, Alive, HostTyped, VmInv, StepOfKind, RepairKnows,
                 Restoring
  <2>2. CASE Configurable
    <3>1. Alive(mine[o]) => mine[o] \in Running'
      BY <1>14, <2>1, <2>2
      DEF Boots, MemoryInv, LaunchHolds, Running, HostTyped
    <3>2. OrphanKnows(o)'
      BY <1>14, <2>1, <2>2, <3>1 DEF Boots
    <3> QED BY <1>14, <2>1, <2>2, <3>2, FewerOrphans DEF Boots
  <2>3. CASE ~Configurable
    <3>1. ~Alive(mine[o])
      BY <2>1, <2>3, TenantAssumption DEF Configurable, MemoryInv, LaunchHolds, Alive
    <3> QED BY <1>14, <2>3, <3>1, EndsOrphan DEF Boots, hostVars
  <2> QED BY <2>2, <2>3
<1>15. CASE Greets(o)
  <2>1. (\A p : Alive(p)' <=> Alive(p)) /\ UNCHANGED <<entry, hostVars, kind>>
        /\ pc[o] = "greet"
    BY <1>15 DEF Greets, hostVars, Alive
  <2>2. CASE Running = {}
    <3>1. ~Alive(mine[o])
      BY <2>1, <2>2
    <3> QED BY <1>15, <2>1, <2>2, <3>1, EndsOrphan DEF Greets
  <2>3. CASE Running # {}
    <3>1. kind[o] = "repair"
      BY <2>1 DEF VmInv, StepOfKind
    <3>2. OrphanKnows(o)'
      BY <1>15, <2>1, <2>3, <3>1 DEF Greets
    <3> QED BY <1>15, <2>1, <2>3, <3>2, FewerOrphans DEF Greets
  <2> QED BY <2>2, <2>3
<1>16. CASE RepairSaves(o)
  <2>1. /\ \A p : Alive(p)' <=> Alive(p)
        /\ kind[o] = "repair" /\ ~Alive(entry.pid) /\ entry.status = "active"
        /\ read[o].status = "active"
    BY <1>16 DEF RepairSaves, hostVars, Alive, VmInv, RepairKnows
  <2>2. /\ entry'.status = "active" /\ entry'.pid = mine[o]
        /\ pc'[o] = "idle" /\ mine'[o] = NoVm
    BY <1>16, <2>1 DEF RepairSaves, Ends, Entry
  <2> QED BY <2>1, <2>2 DEF NoOrphans
<1>17. CASE EvictMarks(o) \/ EvictDiscards(o) \/ EvictStops(o) \/ EvictCleans(o)
            \/ EvictSaves(o)
  <2>1. entry'.status \in {"removing", "absent"} /\ kind[o] = "evict" /\ UNCHANGED kind
    BY <1>17 DEF EvictMarks, EvictDiscards, EvictStops, EvictCleans, CleansChroot,
                 EvictSaves, NoEntry, VmInv, StepOfKind, EvictKnows, Entry
  <2>2. mine'[o] = NoVm /\ pc'[o] # "greet"
    BY <1>17, <2>1 DEF EvictMarks, EvictDiscards, EvictStops, EvictCleans, CleansChroot,
                 EvictSaves, Ends
  <2> QED BY <2>1, <2>2 DEF NoOrphans
<1> QED
  BY <1>2, <1>3, <1>4, <1>5, <1>6, <1>7, <1>8, <1>9, <1>10, <1>11, <1>12, <1>13, <1>14,
     <1>15, <1>16, <1>17
  DEF Suspend, Resume, Repair, Evict

\* Where pkill may fail, every step leaves every process known.
LEMMA NextOrphan ==
    ASSUME Contained, TypeInv, VmInv, MemoryInv, Orderly => ResumableInv, OrphanInv,
           [Next]_vars
    PROVE  OrphanInv'
<1> SUFFICES ASSUME "pkill" \in MayFail PROVE NoOrphans'
  BY DEF OrphanInv
<1>1. Orderly /\ ResumableInv /\ NoOrphans
  BY DEF Contained, Orderly, OrphanInv
<1>2. ASSUME NEW o \in Ops, Suspend(o) \/ Resume(o) \/ Repair(o) \/ Evict(o)
      PROVE  NoOrphans'
  BY <1>1, <1>2, CommandOrphan
<1>3. ASSUME NEW o \in Ops, Fails(o) PROVE NoOrphans'
  <2>1. pc[o] \notin {"drop", "restore", "greet", "save"}
    BY <1>3, FailsWhere
  <2>2. ~Alive(mine[o])
    BY <1>1, <2>1, TenantAssumption DEF NoOrphans, OrphanKnows, HasNoVm, Alive
  <2> QED BY <1>1, <1>3, <2>2, EndsOrphan DEF Fails
<1>4. ASSUME NEW p \in Vms, Works(p) PROVE NoOrphans'
  <2>1. UNCHANGED <<entry, proc, opVars, Running>> /\ \A q : Alive(q)' <=> Alive(q)
    BY <1>4 DEF Works, Running, Alive
  <2> QED BY <1>1, <2>1 DEF NoOrphans, OrphanKnows, HasNoVm, opVars
<1>5. ASSUME NEW p \in Vms, VmDies(p) PROVE NoOrphans'
  <2>1. /\ UNCHANGED <<entry, opVars>> /\ Running' = Running \ {p}
        /\ \A q : Alive(q)' <=> Alive(q) /\ q # p
    BY <1>5, KilledLeaves DEF VmDies
  <2> QED BY <1>1, <2>1 DEF NoOrphans, OrphanKnows, HasNoVm, opVars
<1>6. CASE UNCHANGED vars
  <2>1. UNCHANGED <<entry, opVars, Running>> /\ \A q : Alive(q)' <=> Alive(q)
    BY <1>6 DEF vars, hostVars, Running, Alive
  <2> QED BY <1>1, <2>1 DEF NoOrphans, OrphanKnows, HasNoVm, opVars
<1> QED BY <1>2, <1>3, <1>4, <1>5, <1>6 DEF Next

\* The initial states.
LEMMA InitOrphan == Init => OrphanInv /\ ResumableInv
BY DEF Init, OrphanInv, NoOrphans, OrphanKnows, HasNoVm, Alive, ResumableInv

----
\* All of the invariant holds if suspends, resumes, repairs, molts and evicts do not overlap
\* and faults are contained: whatever else fails at whichever step, wherever the process of
\* a command dies, and, without molt and failing saves, also if no pkill and no removal of a
\* directory works.
THEOREM CommandsInTurn ==
    ASSUME Contained
    PROVE  Spec => [](TypeInv /\ VmInv /\ MemoryInv /\ (Orderly => ResumableInv))
<1> DEFINE Inv == VmInv /\ MemoryInv /\ (Orderly => ResumableInv) /\ OrphanInv
<1>1. TypeInv /\ Inv /\ [Next]_vars => Inv'
  <2> SUFFICES ASSUME TypeInv, Inv, [Next]_vars PROVE Inv'
    OBVIOUS
  <2>1. VmInv'
    BY NextVm
  <2>2. MemoryInv'
    BY NextMemory
  <2>3. (Orderly => ResumableInv)'
    BY NextResumable DEF Orderly, Contained, Serial
  <2>4. OrphanInv'
    BY NextOrphan
  <2> QED BY <2>1, <2>2, <2>3, <2>4
<1>2. Init => Inv
  BY InitVm, InitMemory, InitOrphan
<1>3. Inv => VmInv /\ MemoryInv /\ (Orderly => ResumableInv)
  OBVIOUS
<1> HIDE DEF Inv
<1> QED BY <1>1, <1>2, <1>3, Typed, PTL DEF Spec

\* If commands follow each other and faults are contained, at most one VM of the tenant
\* runs, whatever failed suspends, resumes, repairs and evicts have left behind.
THEOREM OneVmRuns == ASSUME Contained PROVE Spec => []OneRunning
<1>1. VmInv => OneRunning
  <2> SUFFICES ASSUME VmInv PROVE Cardinality(Running) <= 1
    BY DEF OneRunning
  <2>1. CASE Running = {}
    BY <2>1, FS_EmptySet
  <2>2. CASE Running # {}
    <3>1. PICK p \in Running : Running = {p}
      BY <2>2 DEF VmInv, AtMostOne
    <3> QED BY <3>1, FS_Singleton
  <2> QED BY <2>1, <2>2
<1> QED BY <1>1, CommandsInTurn, PTL

\* If commands follow each other and faults are contained, a guest that runs is where the
\* tenant last was: no resume loads an older snapshot that a failed suspend, an evict or a
\* removal that did not work has left behind.
THEOREM NoOlderSnapshotRuns == ASSUME Contained PROVE Spec => []RunningIsCurrent
<1>1. MemoryInv => RunningIsCurrent
  BY DEF MemoryInv
<1> QED BY <1>1, CommandsInTurn, PTL

\* If commands follow each other and faults are contained, a VM restart that waits for its
\* agent has left no other process of the tenant alive, whether its pkill worked or not.
THEOREM RepairIsAlone == ASSUME Contained PROVE Spec => []RepairedIsAlone
<1>1. VmInv /\ MemoryInv => RepairedIsAlone
  BY DEF VmInv, StepOfKind, MemoryInv, RepairHolds, RepairedIsAlone
<1> QED BY <1>1, CommandsInTurn, PTL

\* If commands follow each other and faults are contained, a live process that an active
\* entry names has the guest and answers on the socket: what checkVmProcess tests is what it
\* is taken for.
THEOREM HealthCheckIsSound == ASSUME Contained PROVE Spec => []RecordedVmIsTheVm
<1>1. MemoryInv => RecordedVmIsTheVm
  BY DEF MemoryInv, RecordedIsReached, RecordedVmIsTheVm
<1> QED BY <1>1, CommandsInTurn, PTL

----
\* The steps of a suspend, while its VM is up: the guest has the memory until the copy in
\* the snapshot directory is whole.
LEMMA SuspendKeeps ==
    ASSUME TypeInv, VmInv, MemoryInv, NEW o \in Ops, Suspend(o), kind[o] = "suspend",
           pc[o] # "idle", VmIsUp(o), Kept
    PROVE  Kept'
<1>1. entry.status = "active" /\ read[o].pid = entry.pid
  BY DEF VmInv, SuspendKnows, MemoryInv, SuspendHolds
<1>2. ASSUME pc[o] \notin {"tidy", "save"} PROVE sock \in Guests /\ guest[sock] = current
  BY <1>1, <1>2 DEF VmIsUp, MemoryInv, RecordedIsReached, SocketIsCurrent, Guests, Alive
<1>3. CASE Pauses(o)
  BY <1>3 DEF Pauses, At, Kept, Guests, TypeInv, HostTyped
<1>4. CASE Snapshots(o)
  BY <1>4 DEF Snapshots, Kept, Guests
<1>5. CASE CopyStarts(o)
  BY <1>2, <1>5 DEF CopyStarts, At, Kept, Guests
<1>6. CASE CopyEnds(o)
  BY <1>6 DEF CopyEnds, At, Kept, MemoryInv, SuspendHolds
<1>7. CASE Kills(o)
  BY <1>7 DEF Kills, At, Kept, MemoryInv, SuspendHolds
<1>8. CASE Tidies(o)
  BY <1>8 DEF Tidies, CleansChroot, Kept, Guests
<1>9. CASE SuspendSaves(o)
  BY <1>9 DEF SuspendSaves, hostVars, Kept, Guests
<1> QED
  BY <1>3, <1>4, <1>5, <1>6, <1>7, <1>8, <1>9 DEF Suspend, SuspendBegins, Begins

\* The steps of a resume, while its VM is up: the snapshot is removed when the guest has it.
LEMMA ResumeKeeps ==
    ASSUME TypeInv, VmInv, MemoryInv, NEW o \in Ops, Resume(o), kind[o] = "resume",
           pc[o] # "idle", VmIsUp(o), Kept
    PROVE  Kept'
<1>1. CASE Cleans(o)
  BY <1>1 DEF Cleans, CleansChroot, Kept, Guests
<1>2. CASE Launches(o)
  <2>1. Guests \subseteq Guests'
    BY <1>2 DEF Launches, Unused, Alive, Guests, TypeInv, HostTyped
  <2> QED BY <1>2, <2>1 DEF Launches, Kept
<1>3. CASE Restores(o)
  <2>1. \A p \in Guests : p \in Guests' /\ guest'[p] = guest[p]
    BY <1>3 DEF Restores, Configurable, Guests, TypeInv, HostTyped
  <2> QED BY <1>3, <2>1 DEF Restores, Kept
<1>4. CASE Drops(o)
  <2>1. sock \in Guests /\ guest[sock] = current
    <3>1. Restoring(o) /\ pc[o] = "drop"
      BY <1>4 DEF Drops, At, Restoring
    <3>2. Alive(mine[o])
      BY <3>1, TenantAssumption DEF VmIsUp, MemoryInv, ResumeHolds
    <3>3. sock \in Guests
      BY <3>1, <3>2 DEF MemoryInv, ResumeHolds, ReachesMine
    <3> QED BY <3>1, <3>3 DEF MemoryInv, ResumeHolds
  <2> QED BY <1>4, <2>1 DEF Drops, Kept, Guests
<1>5. CASE ResumeSaves(o)
  BY <1>5 DEF ResumeSaves, hostVars, Kept, Guests
<1> QED BY <1>1, <1>2, <1>3, <1>4, <1>5 DEF Resume, ResumeBegins, Begins

\* If commands follow each other and faults are contained, no step of a suspend or of a
\* resume, failed ones included, loses the memory of a tenant whose VM does not die by itself
\* meanwhile.
THEOREM MemoryIsKept == ASSUME Contained PROVE Spec => MemoryKept
<1> DEFINE Keeps(o) ==
      /\ kind[o] \in {"suspend", "resume"} /\ pc[o] # "idle" /\ pc'[o] # pc[o]
      /\ VmIsUp(o) /\ Kept
      => Kept'
<1>1. TypeInv /\ VmInv /\ MemoryInv /\ [Next]_vars => [\A o \in Ops : Keeps(o)]_vars
  <2> SUFFICES ASSUME TypeInv, VmInv, MemoryInv, Next, NEW o \in Ops,
                      kind[o] \in {"suspend", "resume"}, pc[o] # "idle", pc'[o] # pc[o],
                      VmIsUp(o), Kept
               PROVE  Kept'
    OBVIOUS
  <2>1. \E u \in Ops : \/ Suspend(u) \/ Resume(u) \/ Repair(u) \/ Evict(u)
                       \/ Fails(u)
    BY DEF Next, Works, VmDies, opVars
  <2>2. \/ Suspend(o) \/ Resume(o) \/ Repair(o) \/ Evict(o) \/ Fails(o)
    BY <2>1 DEF Contained, Serial
  <2>3. ~Repair(o) /\ ~Evict(o)
    BY DEF VmInv, StepOfKind, Repair, Evict, RepairBegins, MoltBegins, Begins, Checks, Slays,
           Boots, Greets, RepairSaves, EvictBegins, EvictMarks, EvictDiscards, EvictStops,
           EvictCleans, EvictSaves, At, Restoring
  <2>4. CASE Suspend(o)
    <3>1. kind[o] = "suspend"
      BY <2>4 DEF VmInv, StepOfKind, Suspend, SuspendBegins, Begins, Pauses, Snapshots,
                  CopyStarts, CopyEnds, Kills, Tidies, SuspendSaves, At
    <3> QED BY <2>4, <3>1, SuspendKeeps
  <2>5. CASE Resume(o)
    <3>1. kind[o] = "resume"
      BY <2>5 DEF VmInv, StepOfKind, Resume, ResumeBegins, Begins, Cleans, Launches, Restores,
                  Drops, ResumeSaves, At, Restoring
    <3> QED BY <2>5, <3>1, ResumeKeeps
  <2>6. CASE Fails(o)
    BY <2>6 DEF Fails, hostVars, Kept, Guests
  <2> QED BY <2>2, <2>3, <2>4, <2>5, <2>6
<1> QED BY <1>1, CommandsInTurn, PTL DEF Spec, MemoryKept

\* If commands follow each other, no save fails and no molt interferes, a suspended
\* tenant can always be resumed to where it last was: whatever host operation of a
\* suspend, resume, repair or evict fails and wherever one dies, but for a resume between
\* the loading of the snapshot and its removal; whether removals work or not; and pkill may
\* fail as long as no command ends with a VM that no entry names.
THEOREM SuspendedCanResume == ASSUME Orderly PROVE Spec => []SuspendedIsResumable
<1>1. ResumableInv => SuspendedIsResumable
  BY DEF ResumableInv, SuspendedIsResumable, AtRest
<1> QED BY <1>1, CommandsInTurn, PTL DEF Orderly
====
