---- MODULE RegistryStore_proofs ----
(***************************************************************************)
(* What RegistryStore guarantees for every set of tasks, every assignment  *)
(* of tasks to processes and any number of deaths.                         *)
(***************************************************************************)
EXTENDS RegistryStore, TLAPS

\* A task that is writing has its scratch file at the path, and one about to rename has
\* a finished one there.
ScratchFileReady ==
    \A t \in Tasks :
        /\ pc[t] = "writing" => tmp[Pid[t]] # NoFile
        /\ pc[t] = "written" => tmp[Pid[t]] # NoFile /\ tmp[Pid[t]].whole

IInv ==
    /\ RegistryTypeOK
    /\ ReturnedTaskOwnsNoLock
    /\ LockMatchesHolderWhileAllAlive
    /\ Separate \/ dead = {} => registry.whole /\ ScratchFileReady

\* The strengthened invariant holds of a fresh registry without a lock file.
LEMMA InitIInv == Init => IInv
  BY PidAssumption, FileAssumption
  DEF Init, IInv, RegistryTypeOK, ReturnedTaskOwnsNoLock, LockMatchesHolderWhileAllAlive,
      ScratchFileReady, File, Lock, Holding, Waiting, Finished

\* Nobody shares the scratch file of a task inside the lock: another task inside is in
\* another process.
LEMMA ScratchFileIsPrivate ==
  ASSUME IInv, Separate \/ dead = {}, NEW t \in Tasks, NEW u \in Tasks,
         pc[t] \in Holding, pc[u] \in Holding, t # u
  PROVE  Pid[t] # Pid[u]
  BY DEF IInv, LockMatchesHolderWhileAllAlive, Separate

\* loadRegistry and the steps of acquireLock preserve the invariant.
LEMMA AcquireStep ==
  ASSUME IInv, NEW t \in Tasks, LoadRegistry(t) \/ AcquireLock(t)
  PROVE  IInv'
<1> USE PidAssumption, FileAssumption
    DEF IInv, RegistryTypeOK, ReturnedTaskOwnsNoLock, LockMatchesHolderWhileAllAlive,
        ScratchFileReady, Goto, Live, Lock, Holding, Waiting, Finished
<1>1. CASE LoadRegistry(t)
  BY <1>1 DEF LoadRegistry, File
<1>2. CASE CreateLock(t)
  BY <1>2 DEF CreateLock
<1>3. CASE WritePid(t)
  BY <1>3 DEF WritePid
<1>4. CASE FindLock(t)
  BY <1>4 DEF FindLock
<1>9. CASE WritePidFails(t)
  BY <1>9 DEF WritePidFails
<1>10. CASE CreateLockFails(t)
  BY <1>10 DEF CreateLockFails
<1>5. CASE ReadLock(t)
  BY <1>5 DEF ReadLock
<1>6. CASE JudgeLock(t)
  BY <1>6 DEF JudgeLock
<1>7. CASE LockTimeout(t)
  BY <1>7 DEF LockTimeout
<1>8. QED
  BY <1>1, <1>2, <1>3, <1>4, <1>5, <1>6, <1>7, <1>9, <1>10 DEF AcquireLock

\* Writing, renaming and releasing preserve the invariant.
LEMMA SaveStep ==
  ASSUME IInv, NEW t \in Tasks, SaveRegistry(t)
  PROVE  IInv'
<1> USE PidAssumption, FileAssumption
    DEF RegistryTypeOK, ReturnedTaskOwnsNoLock, LockMatchesHolderWhileAllAlive,
        ScratchFileReady, Goto, Live, Holding, Waiting, Finished
<1>1. CASE BeginWriteTmp(t)
  <2>1. pc[t] = "locked"
    BY <1>1 DEF BeginWriteTmp
  <2>2. RegistryTypeOK' /\ ReturnedTaskOwnsNoLock' /\ LockMatchesHolderWhileAllAlive'
    BY <1>1 DEF BeginWriteTmp, IInv, File
  <2>3. ASSUME Separate \/ dead = {}, NEW u \in Tasks, u # t,
               pc[u] \in {"writing", "written"}
        PROVE  tmp'[Pid[u]] = tmp[Pid[u]]
    BY <1>1, <2>1, <2>3, ScratchFileIsPrivate DEF BeginWriteTmp, IInv
  <2>4. ASSUME Separate \/ dead = {} PROVE registry'.whole /\ ScratchFileReady'
    <3>1. ASSUME NEW u \in Tasks, u # t
          PROVE  ScratchFileReady!(u)'
      BY <1>1, <2>3, <2>4, <3>1 DEF BeginWriteTmp, IInv
    <3>2. ScratchFileReady!(t)'
      <4>1. tmp'[Pid[t]] = [changes |-> snap[t] \cup {t}, whole |-> FALSE]
        BY <1>1 DEF BeginWriteTmp, IInv
      <4>2. [changes |-> snap[t] \cup {t}, whole |-> FALSE] \in File
        BY DEF File, IInv
      <4>3. pc'[t] = "writing"
        BY <1>1 DEF BeginWriteTmp, IInv
      <4>4. QED
        BY <4>1, <4>2, <4>3
    <3>3. QED
      BY <1>1, <2>4, <3>1, <3>2 DEF BeginWriteTmp, IInv
  <2>5. QED
    BY <1>1, <2>2, <2>4 DEF IInv, BeginWriteTmp, Separate
<1>2. CASE EndWriteTmp(t)
  <2> DEFINE text == [changes |-> snap[t] \cup {t}, whole |-> TRUE]
  <2>1. /\ pc[t] = "writing"
        /\ IF tmp[Pid[t]] # NoFile
           THEN tmp' = [tmp EXCEPT ![Pid[t]] = text] /\ registry' = registry
           ELSE registry' \in {registry, text} /\ tmp' = tmp
    BY <1>2 DEF EndWriteTmp
  <2>6. text \in File /\ text # NoFile /\ text.whole
    <3>1. snap[t] \cup {t} \in SUBSET Tasks
      BY DEF IInv
    <3>2. text \in File
      BY <3>1 DEF File
    <3>3. QED
      BY <3>2
  <2> HIDE DEF text
  <2>2. RegistryTypeOK' /\ ReturnedTaskOwnsNoLock' /\ LockMatchesHolderWhileAllAlive'
    <3>1. registry' \in File /\ tmp' \in [Pids -> File \cup {NoFile}]
      BY <2>1, <2>6 DEF IInv
    <3>2. QED
      BY <1>2, <3>1 DEF EndWriteTmp, IInv
  <2>3. ASSUME Separate \/ dead = {}, NEW u \in Tasks, u # t,
               pc[u] \in {"writing", "written"}
        PROVE  tmp'[Pid[u]] = tmp[Pid[u]]
    BY <1>2, <2>1, <2>3, ScratchFileIsPrivate DEF EndWriteTmp, IInv
  <2>4. ASSUME Separate \/ dead = {} PROVE registry'.whole /\ ScratchFileReady'
    <3>1. tmp[Pid[t]] # NoFile
      BY <2>1, <2>4 DEF IInv
    <3>2. ASSUME NEW u \in Tasks, u # t
          PROVE  ScratchFileReady!(u)'
      BY <1>2, <2>3, <2>4, <3>2 DEF EndWriteTmp, IInv
    <3>3. ScratchFileReady!(t)'
      BY <1>2, <2>1, <2>6, <3>1 DEF EndWriteTmp, IInv
    <3>4. QED
      BY <2>1, <2>4, <3>1, <3>2, <3>3 DEF IInv
  <2>5. QED
    BY <1>2, <2>2, <2>4 DEF IInv, EndWriteTmp, Separate
<1>3. CASE WriteTmpFails(t)
  BY <1>3 DEF WriteTmpFails, IInv, Separate
<1>4. CASE Rename(t)
  <2>1. pc[t] = "written" /\ tmp[Pid[t]] # NoFile
    BY <1>4 DEF Rename
  <2>2. RegistryTypeOK' /\ ReturnedTaskOwnsNoLock' /\ LockMatchesHolderWhileAllAlive'
    BY <1>4 DEF Rename, IInv
  <2>3. ASSUME Separate \/ dead = {}, NEW u \in Tasks, u # t,
               pc[u] \in {"writing", "written"}
        PROVE  tmp'[Pid[u]] = tmp[Pid[u]]
    BY <1>4, <2>1, <2>3, ScratchFileIsPrivate DEF Rename, IInv
  <2>4. (Separate \/ dead = {} => registry.whole /\ ScratchFileReady)'
    BY <1>4, <2>1, <2>3 DEF Rename, IInv, Separate
  <2>5. QED
    BY <2>2, <2>4 DEF IInv
<1>5. CASE RenameFails(t)
  BY <1>5 DEF RenameFails, IInv, Separate
<1>6. CASE ReleaseLock(t)
  BY <1>6 DEF ReleaseLock, IInv, Separate
<1>7. QED
  BY <1>1, <1>2, <1>3, <1>4, <1>5, <1>6 DEF SaveRegistry

\* A process that exits or is killed preserves the invariant: its tasks stop where they
\* are and their files stay.
LEMMA DieStep ==
  ASSUME IInv, NEW i \in Pids, Die(i)
  PROVE  IInv'
<1> USE PidAssumption, FileAssumption
    DEF RegistryTypeOK, ReturnedTaskOwnsNoLock, LockMatchesHolderWhileAllAlive,
        ScratchFileReady, Holding, Waiting, Finished
<1>1. dead' # {}
  BY DEF Die
<1>2. \A t \in Tasks : pc'[t] = pc[t] \/ pc'[t] = "crashed"
  BY DEF Die, IInv
<1>3. RegistryTypeOK' /\ LockMatchesHolderWhileAllAlive'
  BY <1>1 DEF Die, IInv
<1>4. ReturnedTaskOwnsNoLock'
  BY <1>2 DEF Die, IInv, Lock
<1>5. (Separate \/ dead = {} => registry.whole /\ ScratchFileReady)'
  BY <1>1, <1>2 DEF Die, IInv, Separate
<1>6. QED
  BY <1>3, <1>4, <1>5 DEF IInv

\* The strengthened invariant holds throughout every behaviour of the registry store.
THEOREM Invariance == Spec => []IInv
<1>1. IInv /\ [Next]_vars => IInv'
  <2> SUFFICES ASSUME IInv, [Next]_vars PROVE IInv'
    OBVIOUS
  <2>1. CASE UNCHANGED vars
    BY <2>1 DEF vars, IInv, RegistryTypeOK, ReturnedTaskOwnsNoLock,
       LockMatchesHolderWhileAllAlive, ScratchFileReady, Separate
  <2>2. CASE Next
    BY <2>2, AcquireStep, SaveStep, DieStep DEF Next, Step
  <2>3. QED
    BY <2>1, <2>2
<1>2. QED
  BY InitIInv, <1>1, PTL DEF Spec

\* Every reachable state is well typed.
THEOREM TypeCorrect == Spec => []RegistryTypeOK
<1>1. IInv => RegistryTypeOK
  BY DEF IInv
<1>2. QED
  BY Invariance, <1>1, PTL

\* While no process has died the lock file is a lock, and no path through saveRegistry
\* leaves it behind but the throwing write of the process id.
THEOREM LockIsALock == Spec => []LockMatchesHolderWhileAllAlive
<1>1. IInv => LockMatchesHolderWhileAllAlive
  BY DEF IInv
<1>2. QED
  BY Invariance, <1>1, PTL

\* A saveRegistry call that returned owns no lock file, whatever died around it, unless its
\* own write of the process id threw.
THEOREM ReturnReleases == Spec => []ReturnedTaskOwnsNoLock
<1>1. IInv => ReturnedTaskOwnsNoLock
  BY DEF IInv
<1>2. QED
  BY Invariance, <1>1, PTL

\* The registry file is never half written when savers do not share a process, even where
\* the stale-lock race lets several of them in at once.
THEOREM RegistryIsWhole == Spec => []RegistryWholeIfSeparate
<1>1. IInv => RegistryWholeIfSeparate
  BY DEF IInv, RegistryWholeIfSeparate
<1>2. QED
  BY Invariance, <1>1, PTL
====
