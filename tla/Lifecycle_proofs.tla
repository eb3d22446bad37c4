---- MODULE Lifecycle_proofs ----
(***************************************************************************)
(* TenantOps implements Lifecycle, for any number of processes and any     *)
(* memory, if commands do not overlap and faults are contained: the        *)
(* invariants of TenantOps_proofs say that the guest that runs has the     *)
(* memory the tenant last had, and at which status of the entry each       *)
(* command works.                                                          *)
(***************************************************************************)
EXTENDS TenantOps_proofs

\* A command that is under way had read an entry that was there.
ReadsWereThere ==
    \A o \in Ops :
        /\ pc[o] = "mark" => entry.status # "absent"
        /\ held[o] # NoEntry => held[o].status # "absent"
        /\ kind[o] \in {"repair", "molt"} /\ pc[o] # "idle" => read[o].status # "absent"

\* The initial states.
LEMMA InitReads == Init => ReadsWereThere
BY DEF Init, ReadsWereThere

\* A command that ends has read nothing any more.
LEMMA EndsReads ==
    ASSUME TypeInv, ReadsWereThere, Serial, NEW o \in Ops, Ends(o)
    PROVE  ReadsWereThere'
<1>1. Ops = {o} /\ pc'[o] = "idle" /\ held'[o] = NoEntry
  BY DEF Serial, Ends, Goto, TypeInv, OpsTyped
<1> QED BY <1>1 DEF ReadsWereThere

\* One that goes on has read what it had.
LEMMA GoesReads ==
    ASSUME TypeInv, ReadsWereThere, Serial, NEW o \in Ops, NEW label, label # "mark",
           Goes(o, label), UNCHANGED kind, pc[o] # "idle"
    PROVE  ReadsWereThere'
<1>1. Ops = {o} /\ pc'[o] = label
  BY DEF Serial, Goes, Goto, TypeInv, OpsTyped
<1> QED BY <1>1 DEF ReadsWereThere, Goes

\* Every step keeps the invariant, if commands do not overlap.
LEMMA NextReads ==
    TypeInv /\ VmInv /\ ReadsWereThere /\ Serial /\ [Next]_vars => ReadsWereThere'
<1> SUFFICES ASSUME TypeInv, VmInv, ReadsWereThere, Serial, [Next]_vars
             PROVE  ReadsWereThere'
  OBVIOUS
<1>1. CASE \E p \in Vms : Works(p) \/ VmDies(p)
  BY <1>1 DEF Works, VmDies, opVars, ReadsWereThere
<1>2. CASE UNCHANGED vars
  BY <1>2 DEF vars, opVars, ReadsWereThere
<1>3. ASSUME NEW o \in Ops,
             Suspend(o) \/ Resume(o) \/ Repair(o) \/ Evict(o) \/ Fails(o)
      PROVE  ReadsWereThere'
  <2>1. Ops = {o}
    BY DEF Serial
  <2>2. CASE SuspendBegins(o) \/ ResumeBegins(o) \/ RepairBegins(o) \/ MoltBegins(o)
             \/ EvictBegins(o)
    BY <2>1, <2>2
    DEF SuspendBegins, ResumeBegins, RepairBegins, MoltBegins, EvictBegins, Begins, Goto,
        ReadsWereThere, TypeInv, OpsTyped, VmInv
  <2>3. CASE Pauses(o) \/ Snapshots(o) \/ CopyStarts(o) \/ CopyEnds(o) \/ Kills(o)
             \/ Tidies(o) \/ Cleans(o) \/ Drops(o) \/ Slays(o) \/ EvictDiscards(o)
             \/ EvictStops(o) \/ EvictCleans(o)
    BY <2>3, GoesReads
    DEF Pauses, Snapshots, CopyStarts, CopyEnds, Kills, Tidies, Cleans, Drops, Slays,
        EvictDiscards, EvictStops, EvictCleans, CleansChroot, At
  <2>4. CASE SuspendSaves(o) \/ RepairSaves(o) \/ EvictSaves(o) \/ Fails(o)
    BY <2>4, EndsReads DEF SuspendSaves, RepairSaves, EvictSaves, Fails
  <2>5. CASE Launches(o)
    BY <2>1, <2>5 DEF Launches, At, Goto, ReadsWereThere, TypeInv, OpsTyped
  <2>6. CASE Restores(o) \/ Checks(o) \/ Boots(o) \/ Greets(o)
    BY <2>6, EndsReads, GoesReads DEF Restores, Checks, Boots, Greets, At
  <2>7. CASE ResumeSaves(o)
    <3>1. CASE kind[o] = "resume"
      BY <2>7, <3>1, EndsReads DEF ResumeSaves
    <3>2. CASE kind[o] # "resume"
      BY <2>1, <2>7, <3>2
      DEF ResumeSaves, At, Goto, Restoring, ReadsWereThere, TypeInv, OpsTyped, NoEntry
    <3> QED BY <3>1, <3>2
  <2>8. CASE EvictMarks(o)
    BY <2>1, <2>8 DEF EvictMarks, At, Goes, Goto, ReadsWereThere, TypeInv, OpsTyped, VmInv,
                      StepOfKind
  <2> QED
    BY <1>3, <2>2, <2>3, <2>4, <2>5, <2>6, <2>7, <2>8 DEF Suspend, Resume, Repair, Evict
<1> QED BY <1>1, <1>2, <1>3 DEF Next

----
\* The memory that Lifecycle sees is the tenant's.
LEMMA SeenMemory == MemoryInv => RunningMemory = current
BY DEF MemoryInv, RunningIsCurrent, RunningMemory

\* Also after a step.
LEMMA SeenMemoryNext == MemoryInv' => RunningMemory' = current'
BY DEF MemoryInv, RunningIsCurrent, RunningMemory

\* Steps that leave the entry and the memory alone and start nothing are stops, or nothing.
LEMMA StopImplements ==
    ASSUME MemoryInv, MemoryInv', entry'.status = entry.status, current' = current,
           Running' \subseteq Running
    PROVE  [Promise!Next]_(Promise!vars)
<1>1. RunningMemory = current /\ RunningMemory' = current'
  BY SeenMemory, SeenMemoryNext
<1> QED BY <1>1 DEF Promise!Next, Promise!Stops, Promise!vars

\* Steps that change the entry, as Lifecycle has it, and nothing of the guest.
LEMMA FollowImplements ==
    ASSUME MemoryInv, MemoryInv', current' = current, Running' = Running,
           \/ entry'.status = entry.status
           \/ entry.status = "active" /\ entry'.status = "suspended"
           \/ entry.status = "suspended" /\ entry'.status = "active"
           \/ entry.status \in {"active", "suspended"} /\ entry'.status = "removing"
           \/ entry.status = "removing" /\ entry'.status = "absent"
    PROVE  [Promise!Next]_(Promise!vars)
<1>1. RunningMemory = current /\ RunningMemory' = current'
  BY SeenMemory, SeenMemoryNext
<1> QED BY <1>1 DEF Promise!Next, Promise!Follows, Promise!vars

\* The guest starts from a snapshot.
LEMMA RestoreImplements ==
    ASSUME TypeInv, VmInv, MemoryInv, MemoryInv', NEW o \in Ops, Restores(o)
    PROVE  [Promise!Next]_(Promise!vars)
<1>1. RunningMemory = current /\ RunningMemory' = current'
  BY SeenMemory, SeenMemoryNext
<1>2. entry.status = "suspended" /\ UNCHANGED <<entry, current>>
  BY DEF Restores, At, VmInv, ResumeKnows
<1>3. CASE Running' = Running
  BY <1>1, <1>2, <1>3 DEF Promise!vars
<1>4. CASE Running' # Running
  <2>1. Running' = Running \cup {sock}
    BY <1>4 DEF Restores, Configurable, Running, TypeInv, HostTyped
  <2> QED BY <1>1, <1>2, <2>1 DEF Promise!Next, Promise!Continues, Promise!vars
<1> QED BY <1>3, <1>4

\* It is booted.
LEMMA BootImplements ==
    ASSUME TypeInv, VmInv, MemoryInv, MemoryInv', NEW o \in Ops, Boots(o)
    PROVE  [Promise!Next]_(Promise!vars)
<1>1. RunningMemory = current /\ RunningMemory' = current'
  BY SeenMemory, SeenMemoryNext
<1>2. kind[o] \in {"repair", "molt"} /\ pc[o] = "restore"
  BY DEF Boots, At, VmInv, StepOfKind, Restoring
<1>3. entry.status = "active" /\ Running = {} /\ UNCHANGED entry
  BY <1>2 DEF Boots, VmInv, RepairKnows
<1>4. CASE Configurable
  <2>1. Running' # {} /\ current' = Fresh
    BY <1>4 DEF Boots, Configurable, Running, TypeInv, HostTyped
  <2> QED BY <1>1, <1>3, <2>1 DEF Promise!Next, Promise!Boots
<1>5. CASE ~Configurable
  <2>1. Running' = Running /\ current' = current
    BY <1>5 DEF Boots, Running
  <2> QED BY <1>3, <2>1, StopImplements
<1> QED BY <1>4, <1>5

\* The commands' saves.
LEMMA SavesImplement ==
    ASSUME TypeInv, VmInv, ReadsWereThere, MemoryInv, MemoryInv', NEW o \in Ops,
           SuspendSaves(o) \/ ResumeSaves(o) \/ RepairSaves(o) \/ EvictMarks(o)
              \/ EvictSaves(o)
    PROVE  [Promise!Next]_(Promise!vars)
<1>1. current' = current /\ Running' = Running
  BY DEF SuspendSaves, ResumeSaves, RepairSaves, EvictMarks, EvictSaves, hostVars, Running
<1>2. CASE SuspendSaves(o)
  <2>1. entry.status = "active" /\ entry'.status = "suspended"
    BY <1>2 DEF SuspendSaves, At, VmInv, SuspendKnows
  <2> QED BY <1>1, <2>1, FollowImplements
<1>3. CASE ResumeSaves(o)
  <2>1. entry.status = "suspended" /\ entry'.status = "active"
    BY <1>3 DEF ResumeSaves, At, VmInv, ResumeKnows
  <2> QED BY <1>1, <2>1, FollowImplements
<1>4. CASE RepairSaves(o)
  <2>1. entry.status = "active" /\ entry'.status = read[o].status
    BY <1>4 DEF RepairSaves, At, VmInv, RepairKnows, TypeInv, OpsTyped, Entry
  <2>2. read[o].status \in {"active", "suspended", "removing"}
    BY <1>4 DEF RepairSaves, At, ReadsWereThere, TypeInv, OpsTyped, Entry
  <2> QED BY <1>1, <2>1, <2>2, FollowImplements
<1>5. CASE EvictMarks(o)
  <2>1. entry.status \in {"active", "suspended", "removing"} /\ entry'.status = "removing"
    BY <1>5 DEF EvictMarks, At, ReadsWereThere, TypeInv, EntryTyped, OpsTyped, Entry
  <2> QED BY <1>1, <2>1, FollowImplements
<1>6. CASE EvictSaves(o)
  <2>1. entry.status = "removing" /\ entry'.status = "absent"
    BY <1>6 DEF EvictSaves, At, VmInv, EvictKnows, NoEntry
  <2> QED BY <1>1, <2>1, FollowImplements
<1> QED BY <1>2, <1>3, <1>4, <1>5, <1>6

\* Every step is one of Lifecycle's, or none.
LEMMA StepImplements ==
    TypeInv /\ VmInv /\ MemoryInv /\ MemoryInv' /\ ReadsWereThere /\ [Next]_vars
        => [Promise!Next]_(Promise!vars)
<1> SUFFICES ASSUME TypeInv, VmInv, MemoryInv, MemoryInv', ReadsWereThere, [Next]_vars
             PROVE  [Promise!Next]_(Promise!vars)
  OBVIOUS
<1>1. CASE \E p \in Vms : Works(p)
  <2>1. PICK p \in Vms : Works(p)
    BY <1>1
  <2>2. Running' = Running /\ p \in Running /\ entry' = entry /\ current' \in Memory
    BY <2>1 DEF Works, Running
  <2>3. RunningMemory = current /\ RunningMemory' = current'
    BY SeenMemory, SeenMemoryNext
  <2> QED BY <2>2, <2>3 DEF Promise!Next, Promise!Works
<1>2. CASE \E p \in Vms : VmDies(p)
  <2>1. PICK p \in Vms : VmDies(p)
    BY <1>2
  <2>2. Running' \subseteq Running
    BY <2>1, KilledLeaves DEF VmDies
  <2> QED BY <2>1, <2>2, StopImplements DEF VmDies
<1>3. CASE UNCHANGED vars
  <2>1. Running' = Running /\ UNCHANGED <<entry, current>>
    BY <1>3 DEF vars, hostVars, Running
  <2> QED BY <2>1, StopImplements
<1>4. ASSUME NEW o \in Ops,
             Suspend(o) \/ Resume(o) \/ Repair(o) \/ Evict(o) \/ Fails(o)
      PROVE  [Promise!Next]_(Promise!vars)
  <2>1. CASE SuspendBegins(o) \/ ResumeBegins(o) \/ RepairBegins(o) \/ MoltBegins(o)
             \/ EvictBegins(o) \/ Fails(o) \/ Checks(o) \/ Greets(o)
    <3>1. UNCHANGED <<entry, hostVars>>
      BY <2>1 DEF SuspendBegins, ResumeBegins, RepairBegins, MoltBegins, EvictBegins, Begins,
                  Fails, Checks, Greets
    <3>2. Running' = Running
      BY <3>1 DEF hostVars, Running
    <3> QED BY <3>1, <3>2, StopImplements DEF hostVars
  <2>2. CASE Pauses(o)
    <3>1. Running' \subseteq Running
      BY <2>2 DEF Pauses, Running, TypeInv, HostTyped
    <3> QED BY <2>2, <3>1, StopImplements DEF Pauses
  <2>3. CASE Snapshots(o) \/ CopyStarts(o) \/ CopyEnds(o) \/ Tidies(o) \/ Cleans(o)
             \/ Drops(o) \/ EvictDiscards(o) \/ EvictCleans(o)
    <3>1. UNCHANGED <<entry, proc, current>>
      BY <2>3 DEF Snapshots, CopyStarts, CopyEnds, Tidies, Cleans, Drops, EvictDiscards,
                  EvictCleans, CleansChroot
    <3>2. Running' = Running
      BY <3>1 DEF Running
    <3> QED BY <3>1, <3>2, StopImplements
  <2>4. CASE Kills(o) \/ Slays(o) \/ EvictStops(o)
    <3>1. UNCHANGED <<entry, current>> /\ \E gone : Killed(gone)
      BY <2>4 DEF Kills, Slays, EvictStops
    <3>2. Running' \subseteq Running
      BY <3>1 DEF Killed, Running
    <3> QED BY <3>1, <3>2, StopImplements
  <2>5. CASE Launches(o)
    <3>1. Running' \subseteq Running
      BY <2>5 DEF Launches, Running, TypeInv, HostTyped
    <3> QED BY <2>5, <3>1, StopImplements DEF Launches
  <2>6. CASE Restores(o)
    BY <2>6, RestoreImplements
  <2>7. CASE Boots(o)
    BY <2>7, BootImplements
  <2>8. CASE SuspendSaves(o) \/ ResumeSaves(o) \/ RepairSaves(o) \/ EvictMarks(o)
             \/ EvictSaves(o)
    BY <2>8, SavesImplement
  <2> QED
    BY <1>4, <2>1, <2>2, <2>3, <2>4, <2>5, <2>6, <2>7, <2>8
    DEF Suspend, Resume, Repair, Evict
<1> QED BY <1>1, <1>2, <1>3, <1>4 DEF Next

\* It starts as Lifecycle does.
LEMMA InitImplements == Init => Promise!Init
<1> SUFFICES ASSUME Init PROVE Promise!Init
  OBVIOUS
<1>1. RunningMemory = current
  BY InitMemory, SeenMemory
<1>2. Running # {}
  BY DEF Init, Running
<1> QED BY <1>1, <1>2 DEF Init, Promise!Init

\* If suspends, resumes, repairs, molts and evicts follow each other and faults are
\* contained, the tenant they work on behaves as Lifecycle says, whichever other steps fail
\* and whenever the VM dies.
THEOREM CommandsImplementLifecycle == ASSUME Contained PROVE Spec => ImplementsLifecycle
<1>1. TypeInv /\ VmInv /\ ReadsWereThere /\ [Next]_vars => ReadsWereThere'
  BY NextReads DEF Contained
<1>2. TypeInv /\ VmInv /\ MemoryInv /\ MemoryInv' /\ ReadsWereThere /\ [Next]_vars
        => [Promise!Next]_(Promise!vars)
  BY StepImplements
<1> QED
  BY <1>1, <1>2, InitReads, InitImplements, CommandsInTurn, PTL
  DEF Spec, ImplementsLifecycle, Promise!Spec
====
