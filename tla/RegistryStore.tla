---- MODULE RegistryStore ----
(***************************************************************************)
(* The registry file and the lock file that guards its replacement:        *)
(* src/config/loader.ts. A task is one asynchronous call chain that loads  *)
(* the registry, changes its in-memory copy and saves it; several tasks    *)
(* may run in one operating-system process (the watchdog's two loops, the  *)
(* REST server's requests), and each CLI command is a process of its own.  *)
(*                                                                         *)
(* The content of a registry is abstracted to the set of tasks whose       *)
(* change it holds, plus whether the JSON text is whole or half written.   *)
(***************************************************************************)
EXTENDS Naturals, FiniteSets

CONSTANTS
    Tasks,       \* the load-change-save chains
    Pids,        \* the operating-system processes
    Pid,         \* Pid[t]: the process task t runs in
    NoFile,      \* the file does not exist
    NoPid,       \* the lock file is empty: created, process id not yet written
    MaxDeaths    \* bound: how many processes exit or crash in a behaviour

ASSUME PidAssumption == Pid \in [Tasks -> Pids]
ASSUME DeathsAssumption == MaxDeaths \in Nat

VARIABLES
    registry,    \* registry.json
    tmp,         \* tmp[i]: registry.json.tmp.<i>, the scratch file of process i
    lock,        \* registry.lock: who created the file now at that path, and its text
    pc,          \* where each task is
    snap,        \* the registry each task loaded, as its changes
    seen,        \* the process id each task last read from the lock file
    wrote,       \* whether the task's rename replaced the registry
    dead         \* processes that have exited or crashed

vars == <<registry, tmp, lock, pc, snap, seen, wrote, dead>>

File == [changes : SUBSET Tasks, whole : BOOLEAN]
Lock == [owner : Tasks, pid : Pids \cup {NoPid}]

ASSUME FileAssumption == NoPid \notin Pids /\ NoFile \notin File \cup Lock

\* Between a successful acquireLock and the end of releaseLock.
Holding == {"created", "locked", "writing", "written", "renamed"}
\* In the loop of acquireLock.
Waiting == {"try", "exists", "judge", "retry"}
\* "thrown": acquireLock threw between the creation of the file and its return.
Finished == {"done", "failed", "crashed", "thrown"}

Live(t) == Pid[t] \notin dead

Init ==
    /\ registry = [changes |-> {}, whole |-> TRUE]
    /\ tmp = [i \in Pids |-> NoFile]
    /\ lock = NoFile
    /\ pc = [t \in Tasks |-> "idle"]
    /\ snap = [t \in Tasks |-> {}]
    /\ seen = [t \in Tasks |-> NoPid]
    /\ wrote = [t \in Tasks |-> FALSE]
    /\ dead = {}

Goto(t, label) == pc' = [pc EXCEPT ![t] = label]

----
(* loadRegistry, and the change the caller makes to its copy. A half       *)
(* written file does not parse and fails the caller.                       *)
LoadRegistry(t) ==
    /\ Live(t) /\ pc[t] = "idle"
    /\ Goto(t, IF registry.whole THEN "try" ELSE "failed")
    /\ snap' = [snap EXCEPT ![t] = registry.changes]
    /\ UNCHANGED <<registry, tmp, lock, seen, wrote, dead>>

(* openSync(lockPath, "wx") creates the file.                              *)
CreateLock(t) ==
    /\ Live(t) /\ pc[t] \in {"try", "retry"}
    /\ lock = NoFile
    /\ lock' = [owner |-> t, pid |-> NoPid]
    /\ Goto(t, "created")
    /\ UNCHANGED <<registry, tmp, snap, seen, wrote, dead>>

\* Slip: the identifier of the call chain is stored instead of the process id.
WriteTaskId(t) ==
    /\ Live(t) /\ pc[t] = "created"
    /\ lock' = IF lock # NoFile /\ lock.owner = t
               THEN [lock EXCEPT !.pid = t] ELSE lock
    /\ Goto(t, "locked")
    /\ UNCHANGED <<registry, tmp, snap, seen, wrote, dead>>

(* The process id goes to the open descriptor: when the path has been      *)
(* unlinked meanwhile, to a file nobody can see.                           *)
WritePid(t) ==
    /\ Live(t) /\ pc[t] = "created"
    /\ lock' = IF lock # NoFile /\ lock.owner = t
               THEN [lock EXCEPT !.pid = Pid[t]] ELSE lock
    /\ Goto(t, "locked")
    /\ UNCHANGED <<registry, tmp, snap, seen, wrote, dead>>

(* writeFileSync or closeSync throws: acquireLock rethrows before          *)
(* saveRegistry has entered its try block, so that nothing removes the     *)
(* file, empty or with the process id in it.                               *)
WritePidFails(t) ==
    /\ Live(t) /\ pc[t] = "created"
    /\ lock' \in IF lock # NoFile /\ lock.owner = t
                THEN {lock, [lock EXCEPT !.pid = Pid[t]]} ELSE {lock}
    /\ Goto(t, "thrown")
    /\ UNCHANGED <<registry, tmp, snap, seen, wrote, dead>>

(* The creation itself fails: no file, and an error that is not EEXIST.    *)
CreateLockFails(t) ==
    /\ Live(t) /\ pc[t] \in {"try", "retry"}
    /\ lock = NoFile
    /\ Goto(t, "failed")
    /\ UNCHANGED <<registry, tmp, lock, snap, seen, wrote, dead>>

(* openSync fails with EEXIST.                                             *)
FindLock(t) ==
    /\ Live(t) /\ pc[t] \in {"try", "retry"}
    /\ lock # NoFile
    /\ Goto(t, "exists")
    /\ UNCHANGED <<registry, tmp, lock, snap, seen, wrote, dead>>

(* await Bun.file(lockPath).text(): a vanished file or one without a       *)
(* process id sends the task to the sleep and back to the loop.            *)
ReadLock(t) ==
    /\ Live(t) /\ pc[t] = "exists"
    /\ IF lock = NoFile \/ (lock # NoFile /\ lock.pid = NoPid)
       THEN Goto(t, "retry") /\ UNCHANGED seen
       ELSE Goto(t, "judge") /\ seen' = [seen EXCEPT ![t] = lock.pid]
    /\ UNCHANGED <<registry, tmp, lock, snap, wrote, dead>>

\* Slip: a stale lock is recognised but left in place.
JudgeLockLeavesStale(t) ==
    /\ Live(t) /\ pc[t] = "judge"
    /\ Goto(t, "retry")
    /\ seen' = [seen EXCEPT ![t] = NoPid]
    /\ UNCHANGED <<registry, tmp, lock, snap, wrote, dead>>

\* Slip: the liveness test is dropped and every lock found is taken for stale.
JudgeLockTrustsNobody(t) ==
    /\ Live(t) /\ pc[t] = "judge"
    /\ lock' = NoFile
    /\ seen' = [seen EXCEPT ![t] = NoPid]
    /\ Goto(t, "retry")
    /\ UNCHANGED <<registry, tmp, snap, wrote, dead>>

(* isPidAlive of the id read before, and unlinkSync of whatever file is at *)
(* the path now (an unlink that finds none throws and is caught).          *)
JudgeLock(t) ==
    /\ Live(t) /\ pc[t] = "judge"
    /\ lock' = IF seen[t] \in dead THEN NoFile ELSE lock
    /\ seen' = [seen EXCEPT ![t] = NoPid]
    /\ Goto(t, "retry")
    /\ UNCHANGED <<registry, tmp, snap, wrote, dead>>

(* The loop condition after LOCK_TIMEOUT_MS: saveRegistry fails.           *)
LockTimeout(t) ==
    /\ Live(t) /\ pc[t] = "retry"
    /\ Goto(t, "failed")
    /\ UNCHANGED <<registry, tmp, lock, snap, seen, wrote, dead>>

----
\* Slip: one scratch file for every process.
BeginWriteSharedTmp(t) ==
    /\ Live(t) /\ pc[t] = "locked"
    /\ tmp' = [i \in Pids |-> [changes |-> snap[t] \cup {t}, whole |-> FALSE]]
    /\ Goto(t, "writing")
    /\ UNCHANGED <<registry, lock, snap, seen, wrote, dead>>

(* Bun.write opens and truncates the scratch file of this process ...      *)
BeginWriteTmp(t) ==
    /\ Live(t) /\ pc[t] = "locked"
    /\ tmp' = [tmp EXCEPT ![Pid[t]] =
                  [changes |-> snap[t] \cup {t}, whole |-> FALSE]]
    /\ Goto(t, "writing")
    /\ UNCHANGED <<registry, lock, snap, seen, wrote, dead>>

(* ... and completes it. Another task of the same process may have renamed *)
(* the file in between: the text then lands in the registry itself.        *)
EndWriteTmp(t) ==
    LET text == [changes |-> snap[t] \cup {t}, whole |-> TRUE] IN
    /\ Live(t) /\ pc[t] = "writing"
    /\ IF tmp[Pid[t]] # NoFile
       THEN tmp' = [tmp EXCEPT ![Pid[t]] = text] /\ UNCHANGED registry
       ELSE /\ registry' = IF registry.whole THEN registry ELSE text
            /\ UNCHANGED tmp
    /\ Goto(t, "written")
    /\ UNCHANGED <<lock, snap, seen, wrote, dead>>

\* Slip: a failed write returns without passing through the finally block.
WriteTmpFailsUnreleased(t) ==
    /\ Live(t) /\ pc[t] = "writing"
    /\ Goto(t, "failed")
    /\ UNCHANGED <<registry, tmp, lock, snap, seen, wrote, dead>>

(* The write or the chmod throws: the finally block still runs.            *)
WriteTmpFails(t) ==
    /\ Live(t) /\ pc[t] = "writing"
    /\ Goto(t, "renamed")
    /\ UNCHANGED <<registry, tmp, lock, snap, seen, wrote, dead>>

(* mv tmpPath REGISTRY_PATH.                                               *)
Rename(t) ==
    /\ Live(t) /\ pc[t] = "written"
    /\ tmp[Pid[t]] # NoFile
    /\ registry' = tmp[Pid[t]]
    /\ tmp' = [tmp EXCEPT ![Pid[t]] = NoFile]
    /\ wrote' = [wrote EXCEPT ![t] = TRUE]
    /\ Goto(t, "renamed")
    /\ UNCHANGED <<lock, snap, seen, dead>>

(* mv exits with an error, as it does when the scratch file is gone.       *)
RenameFails(t) ==
    /\ Live(t) /\ pc[t] = "written"
    /\ Goto(t, "renamed")
    /\ UNCHANGED <<registry, tmp, lock, snap, seen, wrote, dead>>

(* releaseLock unlinks the path, whoever created the file there.           *)
ReleaseLock(t) ==
    /\ Live(t) /\ pc[t] = "renamed"
    /\ lock' = NoFile
    /\ Goto(t, IF wrote[t] THEN "done" ELSE "failed")
    /\ UNCHANGED <<registry, tmp, snap, seen, wrote, dead>>

----
(* A CLI process returns once its tasks have settled, and any process may  *)
(* be killed wherever it is. What it wrote to disk stays.                  *)
Die(i) ==
    /\ i \notin dead
    /\ Cardinality(dead) < MaxDeaths
    /\ dead' = dead \cup {i}
    /\ pc' = [t \in Tasks |->
                 IF Pid[t] = i /\ pc[t] \notin Finished THEN "crashed" ELSE pc[t]]
    /\ UNCHANGED <<registry, tmp, lock, snap, seen, wrote>>

AcquireLock(t) ==
    \/ CreateLock(t) \/ CreateLockFails(t) \/ WritePid(t) \/ WritePidFails(t)
    \/ FindLock(t) \/ ReadLock(t) \/ JudgeLock(t) \/ LockTimeout(t)

SaveRegistry(t) ==
    \/ BeginWriteTmp(t) \/ EndWriteTmp(t) \/ WriteTmpFails(t)
    \/ Rename(t) \/ RenameFails(t) \/ ReleaseLock(t)

Step(t) == LoadRegistry(t) \/ AcquireLock(t) \/ SaveRegistry(t)

Next == (\E t \in Tasks : Step(t)) \/ (\E i \in Pids : Die(i))

Spec == Init /\ [][Next]_vars

\* A task whose next statement can run runs it: each await of the chain is on a
\* file operation, a child process or a timer that answers.
FairSpec == Spec /\ \A t \in Tasks : WF_vars(Step(t))

----
RegistryTypeOK ==
    /\ registry \in File
    /\ tmp \in [Pids -> File \cup {NoFile}]
    /\ lock \in Lock \cup {NoFile}
    /\ pc \in [Tasks -> {"idle"} \cup Waiting \cup Holding \cup Finished]
    /\ snap \in [Tasks -> SUBSET Tasks]
    /\ seen \in [Tasks -> Pids \cup {NoPid}]
    /\ wrote \in [Tasks -> BOOLEAN]
    /\ dead \in SUBSET Pids

\* Every saver is an operating-system process of its own.
Separate == \A t, u \in Tasks : Pid[t] = Pid[u] => t = u

\* Whatever crashes, races for the lock and failed writes happen, the registry a
\* reader finds parses, as long as each saver is a process of its own (the scratch file
\* carries the process id) or nobody has died yet (the lock then really excludes).
RegistryWholeIfSeparate == Separate \/ dead = {} => registry.whole

\* While every process is alive the lock file is the one the task between acquireLock and
\* releaseLock created, and there is one exactly while such a task exists: nobody enters
\* beside it, and no path through saveRegistry leaves the file behind but the one where
\* writing the process id threw. That task's file stays, and nobody is inside then.
LockMatchesHolderWhileAllAlive ==
    dead = {} =>
        /\ \A t \in Tasks : pc[t] \in Holding => lock # NoFile /\ lock.owner = t
        /\ lock # NoFile => pc[lock.owner] \in Holding \cup {"thrown"}

\* A saveRegistry call that returned, with or without an error, has left no lock file
\* of its own, even where processes crash and locks are taken for stale: only a task
\* still inside, a crashed one, or one whose write of the process id threw can own it.
ReturnedTaskOwnsNoLock ==
    lock # NoFile => pc[lock.owner] \in Holding \cup {"crashed", "thrown"}

\* Nobody but a crashed task leaves its lock file behind. False: acquireLock throws
\* between the creation of the file and the try block whose finally removes it.
OnlyCrashLeavesLock ==
    lock # NoFile => pc[lock.owner] \in Holding \cup {"crashed"}

\* Stale lock detection: a task that starts to wait on a lock file naming a process that
\* is gone sees the file removed, unless it is killed itself.
StaleLockReclaimed ==
    \A t \in Tasks :
        (pc[t] = "try" /\ lock # NoFile /\ lock.pid \in dead)
            ~> (lock = NoFile \/ lock.pid \notin dead \/ pc[t] = "crashed")

\* A lock file whose creator crashed is removed for a task that starts to wait on it.
\* A crash between the creation of the file and the write of the process id leaves an
\* empty file that stale lock detection never recognises.
CrashedHoldersLockReclaimed ==
    \A t \in Tasks :
        (pc[t] = "try" /\ lock # NoFile /\ pc[lock.owner] = "crashed")
            ~> (lock = NoFile \/ pc[lock.owner] # "crashed" \/ pc[t] = "crashed")
====
