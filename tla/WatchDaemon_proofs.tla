---- MODULE WatchDaemon_proofs ----
(***************************************************************************)
(* Theorems about WatchDaemon, for any set of tenants and of overlapping   *)
(* polls, any bounds and any faults and commands, unless a theorem says    *)
(* otherwise: the operations under way, the sentinels, types, the places   *)
(* of tenants in the list, repairs, marks, what activates a tenant, and    *)
(* what waits for one that sleeps.                                         *)
(***************************************************************************)
EXTENDS WatchDaemon, FiniteSetTheorems, SequenceTheorems, WellFoundedInduction, TLAPS

\* The part of DaemonTypeOK the two invariants need.
OpTypeOK ==
    /\ susPc \in [Names -> SuspendPc]
    /\ resPc \in [Names -> ResumePc]

OpInv == OpTypeOK /\ OneOperationAtATime

opVars == <<inFlight, susPc, resPc>>

----
\* A step that starts, ends and moves no operation keeps the invariant.
LEMMA OpsUnchanged == OpInv /\ UNCHANGED opVars => OpInv'
BY DEF OpInv, OpTypeOK, OneOperationAtATime, Suspending, Resuming, opVars

\* A resume under way moves to another step.
LEMMA ResumeMoves ==
    ASSUME OpInv, NEW n \in Names, NEW pc \in ResumePc, Resuming(n), pc # "idle",
           resPc' = [resPc EXCEPT ![n] = pc],
           UNCHANGED <<susPc, inFlight>>
    PROVE  OpInv'
BY DEF OpInv, OpTypeOK, OneOperationAtATime, Suspending, Resuming

\* A resume under way ends and releases the tenant.
LEMMA ResumeEnds ==
    ASSUME OpInv, NEW n \in Names, Resuming(n), EndResume(n), UNCHANGED susPc
    PROVE  OpInv'
BY DEF OpInv, OpTypeOK, OneOperationAtATime, Suspending, Resuming, EndResume, ResumePc

\* triggerResume keeps the invariant, called for whatever name.
LEMMA ResumeStarts ==
    ASSUME OpInv, NEW n, NEW cron, NEW has, NEW heard,
           TriggerResume(n, cron, has, heard), UNCHANGED susVars
    PROVE  OpInv'
<1>1. CASE n \in inFlight
  BY <1>1, OpsUnchanged DEF TriggerResume, opVars, susVars, resVars
<1>2. CASE n \notin inFlight
  BY <1>2 DEF TriggerResume, OpInv, OpTypeOK, OneOperationAtATime, Suspending, Resuming,
              ResumePc, susVars
<1> QED BY <1>1, <1>2

\* A suspend under way moves to another step.
LEMMA SuspendMoves ==
    ASSUME OpInv, NEW n \in Names, NEW pc \in SuspendPc, Suspending(n), pc # "idle",
           susPc' = [susPc EXCEPT ![n] = pc],
           UNCHANGED <<resPc, inFlight>>
    PROVE  OpInv'
BY DEF OpInv, OpTypeOK, OneOperationAtATime, Suspending, Resuming

\* A suspend under way ends and releases the tenant.
LEMMA SuspendEnds ==
    ASSUME OpInv, NEW n \in Names, Suspending(n), EndSuspend(n), UNCHANGED resPc
    PROVE  OpInv'
BY DEF OpInv, OpTypeOK, OneOperationAtATime, Suspending, Resuming, EndSuspend, SuspendPc

\* triggerSuspend keeps the invariant, called for whatever name.
LEMMA SuspendStarts ==
    ASSUME OpInv, NEW n, TriggerSuspend(n), UNCHANGED resVars
    PROVE  OpInv'
<1>1. CASE n \in inFlight
  BY <1>1, OpsUnchanged DEF TriggerSuspend, opVars, susVars, resVars
<1>2. CASE n \notin inFlight
  BY <1>2 DEF TriggerSuspend, OpInv, OpTypeOK, OneOperationAtATime, Suspending, Resuming,
              SuspendPc, resVars
<1> QED BY <1>1, <1>2

----
\* Every step of a resume keeps the invariant.
LEMMA ResumeKeeps == ASSUME OpInv, NEW n \in Names, ResumeStep(n) PROVE OpInv'
<1> USE DEF ResumeStep, Rest, Resuming, ResumePc, susVars
<1>1. CASE ResumeStops(n)
  BY <1>1, ResumeMoves DEF ResumeStops, sharedVars
<1>2. CASE ResumeLoads(n)
  BY <1>2, ResumeMoves, ResumeEnds DEF ResumeLoads
<1>3. CASE ResumeFails(n)
  BY <1>3, ResumeEnds DEF ResumeFails
<1>4. CASE ResumeSaves(n)
  BY <1>4, ResumeMoves DEF ResumeSaves
<1>5. CASE ResumeSyncs(n)
  BY <1>5, ResumeMoves, ResumeEnds DEF ResumeSyncs
<1>6. CASE ResumePokes(n)
  BY <1>6, ResumeEnds DEF ResumePokes
<1> QED BY <1>1, <1>2, <1>3, <1>4, <1>5, <1>6 DEF Resume

\* A continuation that throws leaves the suspend, and the name in flight, for good.
LEMMA ThrowKeeps ==
    ASSUME OpInv, NEW n \in Names, Suspending(n), Throws(n), UNCHANGED resPc
    PROVE  OpInv'
BY SuspendMoves DEF Throws, SuspendPc

\* The error paths of a suspend keep the invariant, wherever its index points by then.
LEMMA RevertKeeps ==
    ASSUME OpInv, NEW n \in Names, Suspending(n), RevertMark(n), UNCHANGED resPc
    PROVE  OpInv'
BY ThrowKeeps, SuspendEnds DEF RevertMark

\* Every step of a suspend keeps the invariant.
LEMMA SuspendKeeps == ASSUME OpInv, NEW n \in Names, SuspendStep(n) PROVE OpInv'
<1> USE DEF SuspendStep, Rest, Suspending, SuspendPc, resVars
<1>1. CASE SuspendLoads(n)
  BY <1>1, RevertKeeps, SuspendMoves DEF SuspendLoads
<1>2. CASE SuspendFails(n)
  BY <1>2, RevertKeeps DEF SuspendFails
<1>3. CASE SuspendSaves(n)
  BY <1>3, SuspendMoves DEF SuspendSaves
<1>4. CASE SuspendSyncs(n)
  BY <1>4, ThrowKeeps, SuspendEnds, SuspendMoves DEF SuspendSyncs
<1>5. CASE SuspendListens(n)
  BY <1>5, ThrowKeeps, SuspendEnds DEF SuspendListens
<1> QED BY <1>1, <1>2, <1>3, <1>4, <1>5 DEF Suspend

\* A poll starts a suspend or leaves the operations alone.
LEMMA PollKeeps == ASSUME OpInv, NEW p \in Polls, PollStep(p) PROVE OpInv'
<1>1. CASE PollFindsIdle(p)
  <2>1. CASE TriggerSuspend(poll[p].name)
    BY <1>1, <2>1, SuspendStarts DEF PollFindsIdle
  <2>2. CASE UNCHANGED <<inFlight, susVars, mem>>
    BY <1>1, <2>2, OpsUnchanged DEF PollFindsIdle, opVars, susVars, resVars
  <2> QED BY <1>1, <2>1, <2>2 DEF PollFindsIdle
<1>2. CASE ~PollFindsIdle(p)
  BY <1>2, OpsUnchanged
  DEF PollStep, Poll, PollStarts, PollEnds, PollPasses, PollAsks, PollListens,
      PollFindsBusy, sharedVars, susVars, resVars, opVars
<1> QED BY <1>1, <1>2

\* scheduleWake starts a resume or leaves the operations alone.
LEMMA WakeKeeps ==
    ASSUME OpInv, NEW n, NEW heard, ScheduleWake(n, heard), UNCHANGED susVars
    PROVE  OpInv'
<1>1. CASE wake[n] = "due"
  BY <1>1, ResumeStarts DEF ScheduleWake
<1>2. CASE wake[n] # "due"
  BY <1>2, OpsUnchanged DEF ScheduleWake, opVars, susVars, resVars
<1> QED BY <1>1, <1>2

\* So does start-up.
LEMMA BootKeeps == ASSUME OpInv, BootStep PROVE OpInv'
<1> USE DEF opVars, susVars, resVars
<1>1. CASE UNCHANGED <<inFlight, resVars>>
  BY <1>1, OpsUnchanged
  DEF BootStep, Boot, BootPasses, BootVisits, BootListens, sharedVars
<1>2. CASE ~UNCHANGED <<inFlight, resVars>>
  BY <1>2, WakeKeeps
  DEF BootStep, Boot, BootPasses, BootVisits, BootListens, sharedVars
<1> QED BY <1>1, <1>2

----
\* When the watchdog starts nothing is under way.
LEMMA OpInit == Init => OpInv
BY DEF Init, StartWatch, SchedulerInit, OpInv, OpTypeOK, OneOperationAtATime, Suspending,
       Resuming, SuspendPc, ResumePc

\* Nor when it is started again: operations end with the process.
LEMMA OpRestart == Restart => OpInv'
BY DEF Restart, SchedulerRestarts, OpInv, OpTypeOK, OneOperationAtATime, Suspending,
       Resuming, SuspendPc, ResumePc

\* What the health loop, the passing of time and other processes do is no part of an
\* operation.
Elsewhere ==
    \/ LoopStep
    \/ \E n \in Names : Cooled(n) \/ IdleStep(n) \/ WakeStep(n) \/ Command(n)

\* Such steps leave operations, map and sockets alone.
LEMMA ElsewhereLeaves ==
    Elsewhere => UNCHANGED <<inFlight, susPc, resPc, mapped, listener>>
<1>1. LoopStep => UNCHANGED <<inFlight, susPc, resPc, mapped, listener>>
  BY DEF LoopStep, Tick, TickReads, TickSyncs, TickLoadFails, TickEnds, TickSkips,
         TickSeesSuspended, TickBeginsChecks, TickChecks, TickRechecks, TickRepairs,
         schedVars, sharedVars, susVars, resVars
<1>2. ASSUME NEW n \in Names, Cooled(n) \/ IdleStep(n) \/ WakeStep(n)
      PROVE  UNCHANGED <<inFlight, susPc, resPc, mapped, listener>>
  BY <1>2 DEF Cooled, CooldownEnds, IdleStep, IdleElapses, WakeStep, WakeDue, schedVars,
         sharedVars, susVars, resVars
<1>3. ASSUME NEW n \in Names, Command(n)
      PROVE  UNCHANGED <<inFlight, susPc, resPc, mapped, listener>>
  BY <1>3 DEF Command, OtherSpawns, OtherSuspends, OtherResumes, OtherEvicts, Others,
         schedVars, susVars, resVars
<1> QED BY <1>1, <1>2, <1>3 DEF Elsewhere

\* Every step of the watchdog, and of others, keeps the in-flight set in line.
LEMMA OpStep == OpInv /\ [Next]_vars => OpInv'
<1> SUFFICES ASSUME OpInv, [Next]_vars PROVE OpInv'
  OBVIOUS
<1>1. CASE Elsewhere
  BY <1>1, ElsewhereLeaves, OpsUnchanged DEF opVars
<1>2. CASE BootStep
  BY <1>2, BootKeeps
<1>3. CASE Restart
  BY <1>3, OpRestart
<1>4. CASE \E p \in Polls : PollStep(p)
  BY <1>4, PollKeeps
<1>5. CASE \E n \in Names : SuspendStep(n) \/ ResumeStep(n)
  BY <1>5, SuspendKeeps, ResumeKeeps
<1>6. ASSUME NEW n \in Names, TimerStep(n) PROVE OpInv'
  BY <1>6, ResumeStarts DEF TimerStep, TimerFires
<1>7. ASSUME NEW n \in Names, ClientStep(n) PROVE OpInv'
  BY <1>7, ResumeStarts DEF ClientStep, Connects
<1>8. CASE UNCHANGED vars
  BY <1>8, OpsUnchanged DEF vars, sharedVars, schedVars, susVars, resVars, opVars
<1> QED BY <1>1, <1>2, <1>3, <1>4, <1>5, <1>6, <1>7, <1>8 DEF Next, Elsewhere

\* At most one suspend or resume of a tenant is under way, and the in-flight set says so.
THEOREM OneOperation == Spec => []OneOperationAtATime
<1>1. OpInv => OneOperationAtATime
  BY DEF OpInv
<1> QED BY <1>1, OpInit, OpStep, PTL DEF Spec

----
\* What SentinelsListen needs to be inductive.
SentinelInv ==
    /\ OpInv
    /\ mapped \in [Names -> BOOLEAN]
    /\ listener \in [Names -> {"off", "armed", "fired"}]
    /\ SentinelsListen

sentinelVars == <<resPc, mapped, listener>>

\* A step that leaves sentinels, listeners and resumes alone keeps SentinelInv.
LEMMA SentinelsUnchanged == SentinelInv /\ OpInv' /\ UNCHANGED sentinelVars => SentinelInv'
BY DEF SentinelInv, SentinelsListen, sentinelVars

\* triggerResume keeps it, if its caller knows of the sentinel in the map and left the
\* socket open.
LEMMA TriggerKeepsSentinels ==
    ASSUME SentinelInv, OpInv', NEW n, NEW cron \in BOOLEAN, NEW has \in BOOLEAN,
           NEW heard, n \in Names => heard \in {"off", "armed", "fired"},
           TriggerResume(n, cron, has, heard),
           mapped' \in [Names -> BOOLEAN],
           \A m \in Names \ {n} : mapped'[m] = mapped[m],
           n \in Names /\ mapped'[n] => has /\ (heard # "off" \/ resPc[n] = "stopping")
    PROVE  SentinelInv'
<1>1. CASE n \in inFlight
  BY <1>1 DEF TriggerResume, SentinelInv, SentinelsListen, resVars
<1>2. CASE n \notin inFlight
  <2>1. /\ listener' = [listener EXCEPT ![n] = IF has THEN "off" ELSE heard]
        /\ resPc' = [resPc EXCEPT ![n] = IF has THEN "stopping" ELSE "loading"]
    BY <1>2 DEF TriggerResume
  <2>2. listener' \in [Names -> {"off", "armed", "fired"}]
    BY <2>1 DEF SentinelInv
  <2>3. ASSUME NEW m \in Names, mapped'[m]
        PROVE  listener'[m] # "off" \/ resPc'[m] = "stopping"
    <3>1. CASE m = n
      BY <2>1, <2>3, <3>1 DEF SentinelInv, OpInv, OpTypeOK
    <3>2. CASE m # n
      BY <2>1, <2>3, <3>2 DEF SentinelInv, SentinelsListen, OpInv, OpTypeOK
    <3> QED BY <3>1, <3>2
  <2> QED BY <2>2, <2>3 DEF SentinelInv, SentinelsListen
<1> QED BY <1>1, <1>2

\* Every step of a resume keeps it.
LEMMA ResumeKeepsSentinels ==
    ASSUME SentinelInv, OpInv', NEW n \in Names, ResumeStep(n)
    PROVE  SentinelInv'
<1>1. CASE ResumeStops(n)
  BY <1>1 DEF ResumeStops, SentinelInv, SentinelsListen, OpInv, OpTypeOK
<1>2. CASE ~ResumeStops(n)
  <2>1. resPc[n] # "stopping" /\ UNCHANGED <<mapped, listener>>
    BY <1>2 DEF ResumeStep, Resume, ResumeLoads, ResumeFails, ResumeSaves, ResumeSyncs,
                ResumePokes
  <2>2. \A m \in Names \ {n} : resPc'[m] = resPc[m]
    BY <1>2 DEF ResumeStep, Resume, ResumeLoads, ResumeFails, ResumeSaves, ResumeSyncs,
                ResumePokes, EndResume, SentinelInv, OpInv, OpTypeOK
  <2> QED BY <2>1, <2>2 DEF SentinelInv, SentinelsListen
<1> QED BY <1>1, <1>2

\* A socket that starts to listen, and its entry in the map, keep it.
LEMMA ListeningKeepsSentinels ==
    ASSUME SentinelInv, OpInv', NEW n, UNCHANGED resPc,
           listener' = [listener EXCEPT ![n] = "armed"],
           mapped' = [mapped EXCEPT ![n] = TRUE]
    PROVE  SentinelInv'
BY DEF SentinelInv, SentinelsListen

\* Every step of a suspend keeps it.
LEMMA SuspendKeepsSentinels ==
    ASSUME SentinelInv, OpInv', NEW n \in Names, SuspendStep(n)
    PROVE  SentinelInv'
<1>1. CASE UNCHANGED <<mapped, listener>>
  BY <1>1, SentinelsUnchanged
  DEF SuspendStep, Suspend, SuspendLoads, SuspendFails, SuspendSaves, SuspendSyncs,
      SuspendListens, resVars, sentinelVars
<1>2. CASE ~UNCHANGED <<mapped, listener>>
  BY <1>2, ListeningKeepsSentinels
  DEF SuspendStep, Suspend, SuspendLoads, SuspendFails, SuspendSaves, SuspendSyncs,
      SuspendListens, resVars
<1> QED BY <1>1, <1>2

\* Every step of a poll keeps it.
LEMMA PollKeepsSentinels ==
    ASSUME SentinelInv, OpInv', NEW p \in Polls, PollStep(p)
    PROVE  SentinelInv'
<1>1. UNCHANGED resPc
  BY DEF PollStep, Poll, PollStarts, PollEnds, PollPasses, PollAsks, PollListens,
         PollFindsIdle, PollFindsBusy, resVars
<1>2. CASE UNCHANGED <<mapped, listener>>
  BY <1>1, <1>2, SentinelsUnchanged DEF sentinelVars
<1>3. CASE ~UNCHANGED <<mapped, listener>>
  <2>1. PollListens(p)
    BY <1>3 DEF PollStep, Poll, PollStarts, PollEnds, PollPasses, PollAsks, PollFindsIdle,
                PollFindsBusy
  <2> QED BY <1>1, <1>3, <2>1, ListeningKeepsSentinels DEF PollListens
<1> QED BY <1>2, <1>3

\* scheduleWake keeps it, called for a tenant whose sentinel is in the map by then.
LEMMA WakeKeepsSentinels ==
    ASSUME SentinelInv, OpInv', NEW n, NEW heard,
           n \in Names => heard \in {"off", "armed", "fired"},
           ScheduleWake(n, heard),
           mapped' \in [Names -> BOOLEAN],
           \A m \in Names \ {n} : mapped'[m] = mapped[m],
           n \in Names /\ mapped'[n] => heard # "off" \/ resPc[n] = "stopping"
    PROVE  SentinelInv'
<1>1. CASE wake[n] = "due"
  BY <1>1, TriggerKeepsSentinels DEF ScheduleWake
<1>2. CASE wake[n] # "due"
  BY <1>2 DEF ScheduleWake, SentinelInv, SentinelsListen, resVars
<1> QED BY <1>1, <1>2

\* Start-up keeps it.
LEMMA BootKeepsSentinels == ASSUME SentinelInv, OpInv', BootStep PROVE SentinelInv'
<1>1. CASE BootPasses
  BY <1>1, SentinelsUnchanged DEF BootPasses, sentinelVars, resVars
<1>2. CASE BootVisits
  <2>1. CASE mapped[mem[boot.i].name]
    BY <1>2, <2>1, WakeKeepsSentinels DEF BootVisits, SentinelInv, SentinelsListen
  <2>2. CASE ~mapped[mem[boot.i].name]
    BY <1>2, <2>2, SentinelsUnchanged DEF BootVisits, sentinelVars, resVars
  <2> QED BY <2>1, <2>2
<1>3. CASE BootListens
  <2>1. CASE listener[boot.name] # "off"
    BY <1>3, <2>1, SentinelsUnchanged DEF BootListens, sentinelVars, resVars
  <2>2. CASE listener[boot.name] = "off"
    BY <1>3, <2>2, WakeKeepsSentinels DEF BootListens, SentinelInv
  <2> QED BY <2>1, <2>2
<1> QED BY <1>1, <1>2, <1>3 DEF BootStep, Boot

----
\* When the watchdog starts the sentinels map is empty.
LEMMA SentinelInit == Init => SentinelInv
BY OpInit DEF Init, StartWatch, SchedulerInit, SentinelInv, SentinelsListen

\* Every step keeps the sentinels map in line with the sockets.
LEMMA SentinelStep == SentinelInv /\ [Next]_vars => SentinelInv'
<1> SUFFICES ASSUME SentinelInv, [Next]_vars PROVE SentinelInv'
  OBVIOUS
<1>0. OpInv'
  BY OpStep DEF SentinelInv
<1>1. CASE Elsewhere
  BY <1>0, <1>1, ElsewhereLeaves, SentinelsUnchanged DEF sentinelVars
<1>2. CASE BootStep
  BY <1>0, <1>2, BootKeepsSentinels
<1>3. CASE Restart
  BY <1>0, <1>3 DEF Restart, SchedulerRestarts, SentinelInv, SentinelsListen
<1>4. CASE \E p \in Polls : PollStep(p)
  BY <1>0, <1>4, PollKeepsSentinels
<1>5. CASE \E n \in Names : SuspendStep(n) \/ ResumeStep(n)
  BY <1>0, <1>5, SuspendKeepsSentinels, ResumeKeepsSentinels
<1>6. ASSUME NEW n \in Names, TimerStep(n) PROVE SentinelInv'
  BY <1>0, <1>6, TriggerKeepsSentinels
  DEF TimerStep, TimerFires, SentinelInv, SentinelsListen
<1>7. ASSUME NEW n \in Names, ClientStep(n) PROVE SentinelInv'
  BY <1>0, <1>7, TriggerKeepsSentinels DEF ClientStep, Connects, SentinelInv
<1>8. CASE UNCHANGED vars
  BY <1>0, <1>8, SentinelsUnchanged DEF vars, schedVars, resVars, sentinelVars
<1> QED BY <1>1, <1>2, <1>3, <1>4, <1>5, <1>6, <1>7, <1>8 DEF Next, Elsewhere

\* The sentinels map never holds a tenant without a socket, but while its resume tears
\* that down.
THEOREM MappedSentinelsListen == Spec => []SentinelsListen
<1>1. SentinelInv => SentinelsListen
  BY DEF SentinelInv
<1> QED BY <1>1, SentinelInit, SentinelStep, PTL DEF Spec

----
(* Lists and registries.                                                   *)

\* A nonempty set of natural numbers has a least one.
LEMMA LeastNumber ==
    ASSUME NEW S, S \subseteq Nat, S # {}
    PROVE  \E x \in S : \A y \in S : x <= y
<1>1. PICK x \in S : \A y \in S : ~(<<y, x>> \in OpToRel(<, Nat))
  BY NatLessThanWellFounded, WFMin
<1>2. \A y \in S : ~(y < x)
  BY <1>1 DEF OpToRel
<1> QED BY <1>2

\* findIndex by name.
LEMMA IndexFacts ==
    ASSUME mem \in Seq(Tenant), NEW n
    PROVE  /\ IndexOf(n) \in 0..Len(mem)
           /\ IndexOf(n) # 0 => mem[IndexOf(n)].name = n
           /\ IndexOf(n) = 0 => \A j \in DOMAIN mem : mem[j].name # n
<1> DEFINE I == {i \in 1..Len(mem) : mem[i].name = n}
<1>1. IndexOf(n) = IF I # {} THEN Min(I) ELSE 0
  BY DEF IndexOf, SelectInSeq
<1>2. Len(mem) \in Nat /\ DOMAIN mem = 1..Len(mem)
  OBVIOUS
<1>3. CASE I = {}
  BY <1>1, <1>2, <1>3
<1>4. CASE I # {}
  <2>0. I \subseteq Nat
    BY <1>2
  <2>1. \E x \in I : \A y \in I : x <= y
    BY <1>4, <2>0, LeastNumber
  <2>2. Min(I) \in I
    BY <2>1 DEF Min
  <2> QED BY <1>1, <1>2, <1>4, <2>2
<1> QED BY <1>3, <1>4

\* The orders of a finite set are sequences without repetition.
LEMMA OrderFacts ==
    ASSUME NEW S, IsFiniteSet(S), NEW s \in SetToSeqs(S)
    PROVE  /\ s \in Seq(S) /\ Len(s) = Cardinality(S) /\ Len(s) \in Nat
           /\ DOMAIN s = 1..Len(s)
           /\ \A i, j \in DOMAIN s : i # j => s[i] # s[j]
BY FS_CardinalityType DEF SetToSeqs

\* Assigning to an element of the list.
LEMMA ListUpdate ==
    ASSUME mem \in Seq(Tenant), NEW i \in DOMAIN mem, NEW t \in Tenant,
           mem' = [mem EXCEPT ![i] = t]
    PROVE  /\ mem' \in Seq(Tenant) /\ Len(mem') = Len(mem) /\ DOMAIN mem' = DOMAIN mem
           /\ mem'[i] = t
           /\ \A j \in DOMAIN mem : j # i => mem'[j] = mem[j]
BY ExceptSeq

LEMMA EntryTypes ==
    /\ Absent \in Entry /\ Active \in Entry /\ Suspended \in Entry
    /\ NoTenants \in Registry
    /\ InitialWatchState \in TenantWatchState
    /\ \A n \in Names, e \in Entry : AsTenant(n, e) \in Tenant
BY DEF Absent, Active, Suspended, Entry, NoTenants, Registry, InitialWatchState, Status,
       TenantWatchState, HealthState, AsTenant, Tenant

\* A registry read into memory.
LEMMA ListingFacts ==
    ASSUME NEW reg \in Registry, NEW list \in Listings(reg)
    PROVE  /\ list \in Seq(Tenant)
           /\ \A j, k \in DOMAIN list : j # k => list[j].name # list[k].name
           /\ \A j \in DOMAIN list : reg[list[j].name].status # "absent"
<1> DEFINE P == {n \in Names : reg[n].status # "absent"}
<1>1. PICK order \in SetToSeqs(P) : list = [i \in DOMAIN order |-> AsTenant(order[i],
                                                                         reg[order[i]])]
  BY DEF Listings
<1>2. IsFiniteSet(P)
  BY NamesAssumption, FS_Subset
<1>3. order \in Seq(P) /\ DOMAIN order = 1..Len(order) /\ Len(order) \in Nat
  BY <1>2, OrderFacts
<1>4. \A i \in DOMAIN order : list[i] \in Tenant /\ list[i].name = order[i]
  BY <1>1, <1>3, EntryTypes DEF Registry, AsTenant
<1>5. \A i, j \in DOMAIN order : i # j => order[i] # order[j]
  BY <1>2, OrderFacts
<1> QED BY <1>1, <1>3, <1>4, <1>5

----
(* Types.                                                                  *)

Visiting == {"checking", "rechecking", "repairing"}

SharedTypeOK ==
    /\ disk \in Registry
    /\ wake \in [Names -> WakeTime]
    /\ mem \in Seq(Tenant)
    /\ inFlight \subseteq Names
    /\ watch \in [Names -> TenantWatchState]

LoopTypeOK ==
    /\ tick \in [pc : TickPc, i : Nat, fresh : Registry, current : TenantWatchState]
    /\ spree \in [Names -> Nat]
    /\ tick.pc \in {"loop"} \cup Visiting => tick.i > 0
    /\ tick.pc \in Visiting => tick.i <= Len(mem)

SuspendTypeOK ==
    /\ susPc \in [Names -> SuspendPc]
    /\ susIdx \in [Names -> Nat]
    /\ susSnap \in [Names -> Registry]

ResumeTypeOK ==
    /\ resPc \in [Names -> ResumePc]
    /\ resCron \in [Names -> BOOLEAN]
    /\ resSnap \in [Names -> Registry]

MapTypeOK ==
    /\ listener \in [Names -> {"off", "armed", "fired"}]
    /\ mapped \in [Names -> BOOLEAN]
    /\ timer \in [Names -> BOOLEAN]
    /\ idle \in [Names -> {"none", "counting", "elapsed"}]

\* While a poll or start-up waits it has a tenant.
VisitTypeOK ==
    /\ poll \in [Polls -> [pc : PollPc, i : Nat, name : Names \cup {NoName}]]
    /\ boot \in [pc : BootPc, i : Nat, name : Names \cup {NoName}]
    /\ \A p \in Polls :
          /\ poll[p].pc = "loop" => poll[p].i > 0
          /\ poll[p].pc \in {"asking", "listening"} => poll[p].name \in Names
    /\ boot.pc = "loop" => boot.i > 0
    /\ boot.pc = "listening" => boot.name \in Names

TypeInv ==
    /\ SharedTypeOK /\ LoopTypeOK /\ SuspendTypeOK /\ ResumeTypeOK /\ MapTypeOK
    /\ VisitTypeOK
    /\ restarts \in 0..MaxRestarts

\* The elements of the list.
LEMMA ListedTypes ==
    ASSUME mem \in Seq(Tenant), NEW j \in DOMAIN mem
    PROVE  mem[j] \in Tenant /\ mem[j].name \in Names /\ mem[j].status \in Status
<1>1. mem[j] \in Tenant
  OBVIOUS
<1> QED BY <1>1 DEF Tenant

\* What a step leaves alone keeps its type.
LEMMA TypesUnchanged ==
    ASSUME TypeInv
    PROVE  /\ UNCHANGED sharedVars => SharedTypeOK'
           /\ UNCHANGED loopVars /\ Len(mem') = Len(mem) => LoopTypeOK'
           /\ UNCHANGED susVars => SuspendTypeOK'
           /\ UNCHANGED resVars => ResumeTypeOK'
           /\ UNCHANGED <<listener, mapped, timer, idle>> => MapTypeOK'
           /\ UNCHANGED <<poll, boot>> => VisitTypeOK'
BY DEF TypeInv, SharedTypeOK, LoopTypeOK, SuspendTypeOK, ResumeTypeOK, MapTypeOK,
       VisitTypeOK, sharedVars, loopVars, susVars, resVars

\* triggerResume keeps the types, for whatever name.
LEMMA TriggerResumeTypes ==
    ASSUME TypeInv, NEW n \in Names, NEW cron \in BOOLEAN, NEW has \in BOOLEAN,
           NEW heard \in {"off", "armed", "fired"}, TriggerResume(n, cron, has, heard)
    PROVE  /\ inFlight' \subseteq Names
           /\ ResumeTypeOK'
           /\ listener' \in [Names -> {"off", "armed", "fired"}]
<1>1. CASE n \in inFlight
  BY <1>1 DEF TriggerResume, TypeInv, SharedTypeOK, ResumeTypeOK, MapTypeOK, resVars
<1>2. CASE n \notin inFlight
  <2>1. inFlight' \subseteq Names /\ listener' \in [Names -> {"off", "armed", "fired"}]
    BY <1>2 DEF TriggerResume, TypeInv, SharedTypeOK, MapTypeOK
  <2>2. (IF has THEN "stopping" ELSE "loading") \in ResumePc
    BY DEF ResumePc
  <2>3. ResumeTypeOK'
    BY <1>2, <2>2 DEF TriggerResume, TypeInv, ResumeTypeOK
  <2> QED BY <2>1, <2>3
<1> QED BY <1>1, <1>2

LEMMA ScheduleWakeTypes ==
    ASSUME TypeInv, NEW n \in Names, NEW heard \in {"off", "armed", "fired"},
           ScheduleWake(n, heard)
    PROVE  /\ inFlight' \subseteq Names
           /\ ResumeTypeOK'
           /\ listener' \in [Names -> {"off", "armed", "fired"}]
           /\ timer' \in [Names -> BOOLEAN]
<1>1. timer' \in [Names -> BOOLEAN]
  BY DEF ScheduleWake, TimerAfter, TypeInv, MapTypeOK
<1>2. CASE wake[n] = "due"
  BY <1>1, <1>2, TriggerResumeTypes DEF ScheduleWake
<1>3. CASE wake[n] # "due"
  BY <1>1, <1>3
  DEF ScheduleWake, TypeInv, SharedTypeOK, ResumeTypeOK, MapTypeOK, resVars
<1> QED BY <1>2, <1>3

\* Every step of a resume keeps the types.
LEMMA ResumeTypes ==
    ASSUME TypeInv, NEW n \in Names, ResumeStep(n)
    PROVE  TypeInv'
<1> USE DEF ResumeStep, Rest
<1>0. mem' \in Seq(Tenant) /\ Len(mem') = Len(mem)
  <2>1. CASE ResumeSyncs(n) /\ IndexOf(n) # 0
    <3>1. IndexOf(n) \in DOMAIN mem /\ AsTenant(n, Active) \in Tenant
      BY <2>1, IndexFacts, EntryTypes DEF TypeInv, SharedTypeOK
    <3> QED BY <2>1, <3>1, ListUpdate DEF ResumeSyncs, TypeInv, SharedTypeOK
  <2>2. CASE ~(ResumeSyncs(n) /\ IndexOf(n) # 0)
    BY <2>2 DEF Resume, ResumeStops, ResumeLoads, ResumeFails, ResumeSaves, ResumeSyncs,
                ResumePokes, TypeInv, SharedTypeOK, sharedVars
  <2> QED BY <2>1, <2>2
<1>1. SharedTypeOK'
  <2>1. disk' \in Registry /\ wake' \in [Names -> WakeTime]
    <3>1. CASE ResumeSaves(n)
      BY <3>1, EntryTypes
      DEF ResumeSaves, TypeInv, SharedTypeOK, ResumeTypeOK, Registry, WakeTime
    <3>2. CASE ~ResumeSaves(n)
      BY <3>2 DEF Resume, ResumeStops, ResumeLoads, ResumeFails, ResumeSyncs, ResumePokes,
                  TypeInv, SharedTypeOK, sharedVars
    <3> QED BY <3>1, <3>2
  <2>2. inFlight' \subseteq Names /\ watch' = watch
    BY DEF Resume, ResumeStops, ResumeLoads, ResumeFails, ResumeSaves, ResumeSyncs,
           ResumePokes, EndResume, TypeInv, SharedTypeOK, sharedVars
  <2> QED BY <1>0, <2>1, <2>2 DEF TypeInv, SharedTypeOK
<1>2. ResumeTypeOK'
  BY EntryTypes
  DEF Resume, ResumeStops, ResumeLoads, ResumeFails, ResumeSaves, ResumeSyncs, ResumePokes,
      EndResume, TypeInv, SharedTypeOK, ResumeTypeOK, ResumePc, sharedVars
<1>3. MapTypeOK'
  BY DEF Resume, ResumeStops, ResumeLoads, ResumeFails, ResumeSaves, ResumeSyncs,
      ResumePokes, EndResume, TypeInv, MapTypeOK
<1>4. UNCHANGED <<loopVars, susVars, poll, boot, restarts>>
  BY DEF Resume, ResumeStops, ResumeLoads, ResumeFails, ResumeSaves, ResumeSyncs,
      ResumePokes
<1> QED BY <1>0, <1>1, <1>2, <1>3, <1>4, TypesUnchanged DEF TypeInv

\* A tenant with another status.
LEMMA StatusTypes ==
    ASSUME mem \in Seq(Tenant), NEW i \in DOMAIN mem, NEW status \in Status,
           mem' = [mem EXCEPT ![i].status = status]
    PROVE  /\ mem' \in Seq(Tenant) /\ Len(mem') = Len(mem) /\ DOMAIN mem' = DOMAIN mem
           /\ mem'[i] = [mem[i] EXCEPT !.status = status]
           /\ \A j \in DOMAIN mem : j # i => mem'[j] = mem[j]
<1> DEFINE t == [mem[i] EXCEPT !.status = status]
<1>0. mem[i] \in Tenant
  OBVIOUS
<1>1. t \in Tenant
  BY <1>0 DEF Tenant
<1>2. mem' = [mem EXCEPT ![i] = t]
  OBVIOUS
<1> HIDE DEF t
<1>3. /\ mem' \in Seq(Tenant) /\ Len(mem') = Len(mem) /\ DOMAIN mem' = DOMAIN mem
      /\ mem'[i] = t
      /\ \A j \in DOMAIN mem : j # i => mem'[j] = mem[j]
  BY <1>1, <1>2, ListUpdate
<1> QED BY <1>3 DEF t

\* triggerSuspend keeps the types.
LEMMA TriggerSuspendTypes ==
    ASSUME TypeInv, NEW n \in Names, TriggerSuspend(n)
    PROVE  /\ inFlight' \subseteq Names
           /\ SuspendTypeOK'
           /\ mem' \in Seq(Tenant) /\ Len(mem') = Len(mem)
<1>1. mem \in Seq(Tenant) /\ IndexOf(n) \in Nat
  BY IndexFacts DEF TypeInv, SharedTypeOK
<1>2. mem' \in Seq(Tenant) /\ Len(mem') = Len(mem)
  <2>1. CASE n \notin inFlight /\ IndexOf(n) # 0
    <3>1. IndexOf(n) \in DOMAIN mem /\ "suspended" \in Status
      BY <1>1, <2>1, IndexFacts DEF Status
    <3> QED BY <1>1, <2>1, <3>1, StatusTypes DEF TriggerSuspend
  <2>2. CASE ~(n \notin inFlight /\ IndexOf(n) # 0)
    BY <1>1, <2>2 DEF TriggerSuspend
  <2> QED BY <2>1, <2>2
<1> QED BY <1>1, <1>2
        DEF TriggerSuspend, TypeInv, SharedTypeOK, SuspendTypeOK, SuspendPc, susVars

\* The status of the list's tenant at the index of a suspend is set back, if there is one.
LEMMA RevertTypes ==
    ASSUME TypeInv, NEW n \in Names, RevertMark(n)
    PROVE  mem' \in Seq(Tenant) /\ Len(mem') = Len(mem)
<1>1. mem \in Seq(Tenant) /\ susIdx[n] \in Nat
  BY DEF TypeInv, SharedTypeOK, SuspendTypeOK
<1>2. CASE susIdx[n] # 0 /\ ~(susIdx[n] > Len(mem))
  <2>1. susIdx[n] \in DOMAIN mem /\ "active" \in Status
    BY <1>1, <1>2 DEF Status
  <2> QED BY <1>1, <1>2, <2>1, StatusTypes DEF RevertMark
<1>3. CASE ~(susIdx[n] # 0 /\ ~(susIdx[n] > Len(mem)))
  BY <1>1, <1>3 DEF RevertMark, Throws
<1> QED BY <1>2, <1>3

\* Every step of a suspend keeps the types.
LEMMA SuspendTypes ==
    ASSUME TypeInv, NEW n \in Names, SuspendStep(n)
    PROVE  TypeInv'
<1> USE DEF SuspendStep, Rest
<1>0. mem' \in Seq(Tenant) /\ Len(mem') = Len(mem)
  <2>1. CASE SuspendSyncs(n) /\ susIdx[n] # 0 /\ ~(susIdx[n] > Len(mem))
    <3>1. susIdx[n] \in DOMAIN mem /\ AsTenant(n, Suspended) \in Tenant
      BY <2>1, EntryTypes DEF TypeInv, SharedTypeOK, SuspendTypeOK
    <3> QED BY <2>1, <3>1, ListUpdate DEF SuspendSyncs, TypeInv, SharedTypeOK
  <2>2. CASE RevertMark(n)
    BY <2>2, RevertTypes
  <2>3. CASE ~(SuspendSyncs(n) /\ susIdx[n] # 0 /\ ~(susIdx[n] > Len(mem))) /\ ~RevertMark(n)
    BY <2>3 DEF Suspend, SuspendLoads, SuspendFails, SuspendSaves, SuspendSyncs,
                SuspendListens, Throws, TypeInv, SharedTypeOK, sharedVars
  <2> QED BY <2>1, <2>2, <2>3
<1>1. SharedTypeOK'
  <2>1. disk' \in Registry /\ wake' \in [Names -> WakeTime]
    <3>1. CASE SuspendSaves(n)
      BY <3>1, EntryTypes
      DEF SuspendSaves, TypeInv, SharedTypeOK, SuspendTypeOK, Registry, WakeTime
    <3>2. CASE ~SuspendSaves(n)
      BY <3>2 DEF Suspend, SuspendLoads, SuspendFails, SuspendSyncs, SuspendListens,
                  TypeInv, SharedTypeOK
    <3> QED BY <3>1, <3>2
  <2>2. inFlight' \subseteq Names /\ watch' = watch
    BY DEF Suspend, SuspendLoads, SuspendFails, SuspendSaves, SuspendSyncs, SuspendListens,
           RevertMark, Throws, EndSuspend, TypeInv, SharedTypeOK
  <2> QED BY <1>0, <2>1, <2>2 DEF TypeInv, SharedTypeOK
<1>2. SuspendTypeOK'
  <2>1. CASE EndSuspend(n)
    BY <2>1, EntryTypes DEF EndSuspend, TypeInv, SuspendTypeOK, SuspendPc
  <2>2. CASE Throws(n)
    BY <2>2, EntryTypes DEF Throws, TypeInv, SuspendTypeOK, SuspendPc
  <2>3. CASE ~EndSuspend(n) /\ ~Throws(n)
    BY <2>3, EntryTypes
    DEF Suspend, SuspendLoads, SuspendFails, SuspendSaves, SuspendSyncs, SuspendListens,
        RevertMark, TypeInv, SharedTypeOK, SuspendTypeOK, SuspendPc
  <2> QED BY <2>1, <2>2, <2>3
<1>3. MapTypeOK'
  <2>0. ASSUME NEW m PROVE TimerAfter(m) \in [Names -> BOOLEAN]
    BY DEF TimerAfter, TypeInv, MapTypeOK
  <2>1. timer' \in [Names -> BOOLEAN]
    BY <2>0 DEF Suspend, SuspendLoads, SuspendFails, SuspendSaves, SuspendSyncs,
                SuspendListens, TypeInv, MapTypeOK
  <2> QED BY <2>1
          DEF Suspend, SuspendLoads, SuspendFails, SuspendSaves, SuspendSyncs,
              SuspendListens, RevertMark, Throws, EndSuspend, TypeInv, MapTypeOK
<1>4. UNCHANGED <<loopVars, resVars, poll, boot, restarts>>
  BY DEF Suspend, SuspendLoads, SuspendFails, SuspendSaves, SuspendSyncs, SuspendListens
<1> QED BY <1>0, <1>1, <1>2, <1>3, <1>4, TypesUnchanged DEF TypeInv

\* Every step of a poll keeps the types.
LEMMA PollTypes ==
    ASSUME TypeInv, NEW p \in Polls, PollStep(p)
    PROVE  TypeInv'
<1> USE DEF PollStep, Rest
<1>0. /\ inFlight' \subseteq Names /\ SuspendTypeOK'
      /\ mem' \in Seq(Tenant) /\ Len(mem') = Len(mem)
  <2>1. CASE PollFindsIdle(p) /\ TriggerSuspend(poll[p].name)
    BY <2>1, TriggerSuspendTypes DEF PollFindsIdle, TypeInv, VisitTypeOK
  <2>2. CASE UNCHANGED <<inFlight, susVars, mem>>
    BY <2>2, TypesUnchanged DEF TypeInv, SharedTypeOK
  <2> QED BY <2>1, <2>2
          DEF Poll, PollStarts, PollEnds, PollPasses, PollAsks, PollListens, PollFindsIdle,
              PollFindsBusy, sharedVars
<1>1. SharedTypeOK'
  BY <1>0 DEF Poll, PollStarts, PollEnds, PollPasses, PollAsks, PollListens,
              PollFindsIdle, PollFindsBusy, sharedVars, TypeInv, SharedTypeOK
<1>2. MapTypeOK'
  BY DEF Poll, PollStarts, PollEnds, PollPasses, PollAsks, PollListens,
         PollFindsIdle, PollFindsBusy, TypeInv, MapTypeOK
<1>3. VisitTypeOK'
  <2>1. CASE PollAsks(p)
    <3>1. Polled(p).name \in Names
      <4>1. poll[p].i \in DOMAIN mem
        BY <2>1 DEF PollAsks, TypeInv, VisitTypeOK, SharedTypeOK
      <4> QED BY <4>1, ListedTypes DEF Polled, TypeInv, SharedTypeOK
    <3> QED BY <2>1, <3>1 DEF PollAsks, TypeInv, VisitTypeOK, PollPc
  <2>2. CASE ~PollAsks(p)
    <3>1. \/ poll' = [poll EXCEPT ![p].pc = "loop", ![p].i = 1]
          \/ poll' = [poll EXCEPT ![p] = IdlePoll]
          \/ PollOn(p)
      BY <2>2 DEF Poll, PollStarts, PollEnds, PollPasses, PollListens, PollFindsIdle,
                  PollFindsBusy
    <3>2. UNCHANGED boot
      BY DEF Poll, PollStarts, PollEnds, PollPasses, PollAsks, PollListens, PollFindsIdle,
             PollFindsBusy
    <3>3. IdlePoll \in [pc : PollPc, i : Nat, name : Names \cup {NoName}]
      BY DEF IdlePoll, PollPc
    <3>4. CASE poll' = [poll EXCEPT ![p] = IdlePoll]
      BY <3>2, <3>3, <3>4 DEF TypeInv, VisitTypeOK, IdlePoll
    <3>5. CASE poll' = [poll EXCEPT ![p].pc = "loop", ![p].i = 1]
      <4> DEFINE first == [poll[p] EXCEPT !.pc = "loop", !.i = 1]
      <4>1. poll' = [poll EXCEPT ![p] = first]
        BY <3>5
      <4>2. /\ first \in [pc : PollPc, i : Nat, name : Names \cup {NoName}]
            /\ first.pc = "loop" /\ first.i > 0
        <5>1. poll[p] \in [pc : PollPc, i : Nat, name : Names \cup {NoName}]
          BY DEF TypeInv, VisitTypeOK
        <5>2. "loop" \in PollPc
          BY DEF PollPc
        <5>3. first \in [pc : PollPc, i : Nat, name : Names \cup {NoName}]
          BY <5>1, <5>2
        <5>4. first.pc = "loop" /\ first.i = 1
          BY <5>1
        <5> QED BY <5>3, <5>4
      <4> HIDE DEF first
      <4> QED BY <3>2, <4>1, <4>2 DEF TypeInv, VisitTypeOK
    <3>6. CASE PollOn(p)
      BY <3>2, <3>6 DEF TypeInv, VisitTypeOK, PollOn, PollPc
    <3> QED BY <3>1, <3>4, <3>5, <3>6
  <2> QED BY <2>1, <2>2
<1>4. UNCHANGED <<loopVars, resVars, restarts>>
  BY DEF Poll, PollStarts, PollEnds, PollPasses, PollAsks, PollListens,
         PollFindsIdle, PollFindsBusy
<1> QED BY <1>0, <1>1, <1>2, <1>3, <1>4, TypesUnchanged DEF TypeInv

\* Start-up keeps the types.
LEMMA BootTypes == ASSUME TypeInv, BootStep PROVE TypeInv'
<1> USE DEF BootStep, Rest
<1>1. UNCHANGED <<disk, wake, mem, watch, loopVars, susVars, poll, idle, restarts>>
  BY DEF Boot, BootPasses, BootVisits, BootListens, sharedVars
<1>2. CASE boot.pc = "loop" /\ boot.i <= Len(mem)
  <2>1. mem[boot.i].name \in Names
    <3>1. boot.i \in DOMAIN mem
      BY <1>2 DEF TypeInv, VisitTypeOK, SharedTypeOK
    <3> QED BY <3>1, ListedTypes DEF TypeInv, SharedTypeOK
  <2>2. VisitTypeOK'
    <3>1. BootOn \/ boot' = [boot EXCEPT !.pc = "listening", !.name = mem[boot.i].name]
      <4>1. ~(boot.i > Len(mem)) /\ boot.pc # "listening"
        BY <1>2 DEF TypeInv, VisitTypeOK, SharedTypeOK
      <4> QED BY <4>1 DEF Boot, BootPasses, BootVisits, BootListens
    <3>0. boot \in [pc : BootPc, i : Nat, name : Names \cup {NoName}] /\ boot.i \in Nat
      BY DEF TypeInv, VisitTypeOK
    <3> DEFINE there == [boot EXCEPT !.pc = "listening", !.name = mem[boot.i].name]
               on == [pc |-> "loop", i |-> boot.i + 1, name |-> NoName]
    <3>4. on \in [pc : BootPc, i : Nat, name : Names \cup {NoName}] /\ on.i > 0
      BY <3>0 DEF BootPc
    <3>5. there \in [pc : BootPc, i : Nat, name : Names \cup {NoName}]
      BY <2>1, <3>0 DEF BootPc
    <3>2. boot' \in [pc : BootPc, i : Nat, name : Names \cup {NoName}]
      BY <3>1, <3>4, <3>5 DEF BootOn
    <3>3. /\ boot'.pc = "loop" => boot'.i > 0
          /\ boot'.pc = "listening" => boot'.name \in Names
      <4>1. CASE BootOn
        BY <3>0, <4>1 DEF BootOn
      <4>2. CASE boot' = there
        BY <2>1, <3>0, <4>2
      <4> QED BY <3>1, <4>1, <4>2
    <3> QED BY <1>1, <3>2, <3>3 DEF TypeInv, VisitTypeOK
  <2>3. /\ inFlight' \subseteq Names /\ ResumeTypeOK'
        /\ listener' \in [Names -> {"off", "armed", "fired"}]
        /\ timer' \in [Names -> BOOLEAN] /\ mapped' = mapped
    <3>1. CASE UNCHANGED <<inFlight, resVars, listener, timer, mapped>>
      BY <3>1, TypesUnchanged DEF TypeInv, SharedTypeOK, MapTypeOK
    <3>2. CASE ScheduleWake(mem[boot.i].name, listener[mem[boot.i].name])
      BY <1>2, <2>1, <3>2, ScheduleWakeTypes
      DEF Boot, BootPasses, BootVisits, BootListens, TypeInv, MapTypeOK
    <3> QED BY <1>2, <3>1, <3>2 DEF Boot, BootPasses, BootVisits, BootListens, sharedVars
  <2> QED BY <1>1, <2>2, <2>3, TypesUnchanged DEF TypeInv, SharedTypeOK, MapTypeOK
<1>3. CASE ~(boot.pc = "loop" /\ boot.i <= Len(mem))
  <2>1. VisitTypeOK'
    BY <1>1, <1>3 DEF Boot, BootPasses, BootVisits, BootListens, BootOn, TypeInv,
                      VisitTypeOK, BootPc
  <2>2. /\ inFlight' \subseteq Names /\ ResumeTypeOK'
        /\ listener' \in [Names -> {"off", "armed", "fired"}]
        /\ timer' \in [Names -> BOOLEAN] /\ mapped' \in [Names -> BOOLEAN]
    <3>1. CASE UNCHANGED <<inFlight, resVars, listener, timer, mapped>>
      BY <3>1, TypesUnchanged DEF TypeInv, SharedTypeOK, MapTypeOK
    <3>2. CASE BootListens /\ ScheduleWake(boot.name, "armed")
      BY <3>2, ScheduleWakeTypes DEF BootListens, TypeInv, MapTypeOK, VisitTypeOK
    <3> QED BY <1>3, <3>1, <3>2 DEF Boot, BootPasses, BootVisits, BootListens, sharedVars
  <2> QED BY <1>1, <2>1, <2>2, TypesUnchanged DEF TypeInv, SharedTypeOK, MapTypeOK
<1> QED BY <1>2, <1>3

\* The list as a tick brings it up to date, before the evicted tenants go.
LEMMA UpdatedFacts ==
    ASSUME mem \in Seq(Tenant), NEW fresh \in Registry, NEW j \in DOMAIN mem
    PROVE  /\ Updated(fresh)[j] \in Tenant
           /\ Updated(fresh)[j].name = mem[j].name
           /\ \/ Updated(fresh)[j] = mem[j]
              \/ /\ mem[j].name \notin inFlight
                 /\ fresh[mem[j].name].status # "absent"
                 /\ Updated(fresh)[j] = AsTenant(mem[j].name, fresh[mem[j].name])
<1>1. mem[j] \in Tenant /\ mem[j].name \in Names
  BY ListedTypes
<1>2. /\ AsTenant(mem[j].name, fresh[mem[j].name]) \in Tenant
      /\ AsTenant(mem[j].name, fresh[mem[j].name]).name = mem[j].name
  BY <1>1, EntryTypes DEF Registry, AsTenant
<1>3. Updated(fresh)[j] = IF /\ j = IndexOf(mem[j].name) /\ mem[j].name \notin inFlight
                             /\ fresh[mem[j].name].status # "absent"
                          THEN AsTenant(mem[j].name, fresh[mem[j].name]) ELSE mem[j]
  BY DEF Updated
<1> QED BY <1>1, <1>2, <1>3

\* The list when a tick has brought it up to date.
LEMMA SyncFacts ==
    ASSUME mem \in Seq(Tenant), NEW fresh \in Registry,
           NEW left \in InOrder(Kept(fresh)), NEW new \in SetToSeqs(Added(fresh)),
           mem' = [k \in DOMAIN left |-> Updated(fresh)[left[k]]]
                  \o [k \in DOMAIN new |-> AsTenant(new[k], fresh[new[k]])]
    PROVE  /\ mem' \in Seq(Tenant)
           /\ left \in Seq(Kept(fresh)) /\ new \in Seq(Added(fresh))
           /\ Len(mem') = Len(left) + Len(new)
           /\ \A k \in 1..Len(left) :
                 left[k] \in Kept(fresh) /\ mem'[k] = Updated(fresh)[left[k]]
           /\ \A k \in 1..Len(mem') \ 1..Len(left) :
                 /\ k - Len(left) \in DOMAIN new /\ new[k - Len(left)] \in Added(fresh)
                 /\ mem'[k] = AsTenant(new[k - Len(left)], fresh[new[k - Len(left)]])
<1> DEFINE A == [k \in DOMAIN left |-> Updated(fresh)[left[k]]]
           B == [k \in DOMAIN new |-> AsTenant(new[k], fresh[new[k]])]
<1>1. IsFiniteSet(Kept(fresh))
  <2>1. Kept(fresh) \in SUBSET (1..Len(mem)) /\ 1 \in Int /\ Len(mem) \in Int
    BY DEF Kept
  <2> QED BY <2>1, FS_Interval, FS_Subset
<1>2. IsFiniteSet(Added(fresh)) /\ Added(fresh) \subseteq Names
  BY NamesAssumption, FS_Subset DEF Added
<1>3. left \in SetToSeqs(Kept(fresh))
  BY DEF InOrder
<1>4. left \in Seq(Kept(fresh)) /\ DOMAIN left = 1..Len(left) /\ Len(left) \in Nat
  BY <1>1, <1>3, OrderFacts
<1>5. new \in Seq(Added(fresh)) /\ DOMAIN new = 1..Len(new) /\ Len(new) \in Nat
  BY <1>2, OrderFacts
<1>6. \A k \in 1..Len(left) : left[k] \in Kept(fresh) /\ left[k] \in DOMAIN mem
  BY <1>4 DEF Kept
<1>7. A \in Seq(Tenant) /\ Len(A) = Len(left)
  BY <1>4, <1>6, UpdatedFacts
<1>8. \A k \in 1..Len(new) : new[k] \in Names /\ AsTenant(new[k], fresh[new[k]]) \in Tenant
  BY <1>2, <1>5, EntryTypes DEF Registry
<1>9. B \in Seq(Tenant) /\ Len(B) = Len(new)
  BY <1>5, <1>8
<1> HIDE DEF A, B
<1>10. /\ A \o B \in Seq(Tenant) /\ Len(A \o B) = Len(left) + Len(new)
       /\ \A k \in 1..(Len(left) + Len(new)) :
             (A \o B)[k] = IF k <= Len(left) THEN A[k] ELSE B[k - Len(left)]
  <2>1. /\ A \o B \in Seq(Tenant) /\ Len(A \o B) = Len(A) + Len(B)
        /\ \A k \in 1..(Len(A) + Len(B)) :
              (A \o B)[k] = IF k <= Len(A) THEN A[k] ELSE B[k - Len(A)]
    BY <1>7, <1>9, ConcatProperties
  <2> QED BY <1>7, <1>9, <2>1
<1>11. mem' = A \o B
  BY DEF A, B
<1>12. \A k \in 1..Len(left) : mem'[k] = Updated(fresh)[left[k]]
  BY <1>4, <1>5, <1>10, <1>11 DEF A
<1>13. ASSUME NEW k \in 1..Len(mem') \ 1..Len(left)
       PROVE  /\ k - Len(left) \in 1..Len(new)
              /\ mem'[k] = AsTenant(new[k - Len(left)], fresh[new[k - Len(left)]])
  <2>1. k - Len(left) \in 1..Len(new) /\ ~(k <= Len(left)) /\ k \in 1..(Len(left) + Len(new))
    BY <1>4, <1>5, <1>10, <1>11, <1>13
  <2> QED BY <1>5, <1>10, <1>11, <2>1 DEF B
<1>14. mem' \in Seq(Tenant) /\ Len(mem') = Len(left) + Len(new)
  BY <1>10, <1>11
<1>15. \A k \in 1..Len(new) : new[k] \in Added(fresh)
  BY <1>5
<1>16. \A k \in 1..Len(left) : left[k] \in Kept(fresh)
  BY <1>6
<1> QED BY <1>4, <1>5, <1>12, <1>13, <1>14, <1>15, <1>16

\* Every step of the tick keeps the types.
LEMMA TickTypes ==
    ASSUME TypeInv, LoopStep
    PROVE  TypeInv'
<1> USE DEF LoopStep
<1>0. UNCHANGED <<schedVars, restarts, wake, inFlight>>
  BY DEF Tick, TickReads, TickSyncs, TickLoadFails, TickEnds, TickSkips, TickSeesSuspended,
         TickBeginsChecks, TickChecks, TickRechecks, TickRepairs, sharedVars
<1>1. SuspendTypeOK' /\ ResumeTypeOK' /\ MapTypeOK' /\ VisitTypeOK'
  BY <1>0, TypesUnchanged DEF schedVars, susVars, resVars
<1> DEFINE TickType == [pc : TickPc, i : Nat, fresh : Registry, current : TenantWatchState]
<1>2. /\ tick \in TickType /\ mem \in Seq(Tenant) /\ disk \in Registry
      /\ watch \in [Names -> TenantWatchState] /\ spree \in [Names -> Nat]
      /\ tick.i \in Nat /\ tick.fresh \in Registry /\ tick.current \in TenantWatchState
  BY DEF TypeInv, SharedTypeOK, LoopTypeOK
<1>3. ASSUME NEW at \in TickPc, NEW i \in Nat PROVE TickAt(at, i) \in TickType
  BY EntryTypes DEF TickAt
<1>4. ASSUME tick.pc \in {"loop"} \cup Visiting, tick.i <= Len(mem)
      PROVE  tick.i \in DOMAIN mem /\ Visited \in Tenant /\ Visited.name \in Names
  <2>1. tick.i \in DOMAIN mem
    BY <1>2, <1>4 DEF TypeInv, LoopTypeOK
  <2> QED BY <1>2, <2>1, ListedTypes DEF Visited
<1>5. ASSUME NextTenant PROVE tick' \in TickType /\ tick'.pc = "loop" /\ tick'.i > 0
  <2>1. "loop" \in TickPc /\ tick.i + 1 \in Nat /\ tick.i + 1 > 0
    BY <1>2 DEF TickPc
  <2> QED BY <1>3, <1>5, <2>1 DEF NextTenant, TickAt
<1>6. "loop" \notin Visiting /\ "read" \notin Visiting /\ "idle" \notin Visiting
  BY DEF Visiting
<1>7. CASE TickReads
  <2>1. tick' \in TickType /\ tick'.pc = "read"
    BY <1>2, <1>7 DEF TickReads, TickPc
  <2> QED BY <1>0, <1>1, <1>2, <1>6, <1>7, <2>1
          DEF TickReads, TypeInv, SharedTypeOK, LoopTypeOK, sharedVars
<1>8. CASE TickSyncs
  <2> DEFINE fresh == IF FreshReads THEN disk ELSE tick.fresh
  <2>1. fresh \in Registry
    BY <1>2
  <2>2. PICK left \in InOrder(Kept(fresh)), new \in SetToSeqs(Added(fresh)) :
             mem' = [k \in DOMAIN left |-> Updated(fresh)[left[k]]]
                    \o [k \in DOMAIN new |-> AsTenant(new[k], fresh[new[k]])]
    BY <1>8 DEF TickSyncs
  <2>3. mem' \in Seq(Tenant)
    BY <1>2, <2>1, <2>2, SyncFacts
  <2>4. /\ watch' \in [Names -> TenantWatchState] /\ spree' \in [Names -> Nat]
        /\ UNCHANGED disk
    BY <1>2, <1>8, EntryTypes DEF TickSyncs
  <2>5. tick' \in TickType /\ tick'.pc = "loop" /\ tick'.i > 0
    <3>1. tick' = TickAt("loop", 1) /\ "loop" \in TickPc
      BY <1>8 DEF TickSyncs, TickPc
    <3> QED BY <1>3, <3>1 DEF TickAt
  <2> QED BY <1>0, <1>1, <1>6, <2>3, <2>4, <2>5 DEF TypeInv, SharedTypeOK, LoopTypeOK
<1>9. CASE TickLoadFails \/ TickEnds \/ TickSkips \/ TickSeesSuspended
  <2>1. tick' \in TickType /\ tick'.pc \notin Visiting /\ (tick'.pc = "loop" => tick'.i > 0)
    <3>1. NextTenant \/ tick' = IdleTick \/ tick' = TickAt("loop", 1)
      BY <1>9 DEF TickLoadFails, TickEnds, TickSkips, TickSeesSuspended
    <3>2. IdleTick \in TickType /\ IdleTick.pc = "idle"
      BY <1>3 DEF IdleTick, TickAt, TickPc
    <3>3. TickAt("loop", 1) \in TickType /\ TickAt("loop", 1).pc = "loop"
          /\ TickAt("loop", 1).i = 1
      BY <1>3 DEF TickAt, TickPc
    <3> QED BY <1>5, <1>6, <3>1, <3>2, <3>3
  <2>2. watch' \in [Names -> TenantWatchState] /\ spree' \in [Names -> Nat]
    <3>1. CASE TickSeesSuspended
      <4>1. [InitialWatchState EXCEPT !.state = "SUSPENDED"] \in TenantWatchState
        BY DEF InitialWatchState, TenantWatchState, HealthState
      <4> QED BY <1>2, <3>1, <4>1 DEF TickSeesSuspended
    <3>2. CASE ~TickSeesSuspended
      BY <1>2, <1>9, <3>2 DEF TickLoadFails, TickEnds, TickSkips, sharedVars
    <3> QED BY <3>1, <3>2
  <2>3. UNCHANGED <<disk, mem>>
    BY <1>9 DEF TickLoadFails, TickEnds, TickSkips, TickSeesSuspended, sharedVars
  <2> QED BY <1>0, <1>1, <2>1, <2>2, <2>3 DEF TypeInv, SharedTypeOK, LoopTypeOK
<1>10. CASE TickBeginsChecks
  <2>1. watch[Visited.name] \in TenantWatchState
    BY <1>2, <1>4, <1>10 DEF TickBeginsChecks
  <2>2. tick' \in TickType /\ tick'.pc = "checking" /\ tick'.i = tick.i
    BY <1>2, <1>10, <2>1 DEF TickBeginsChecks, TickPc
  <2>3. tick.i > 0 /\ tick.i <= Len(mem) /\ "checking" \in Visiting
    BY <1>2, <1>10 DEF TickBeginsChecks, TypeInv, LoopTypeOK, Visiting
  <2> QED BY <1>0, <1>1, <1>2, <1>10, <2>2, <2>3
          DEF TickBeginsChecks, sharedVars, TypeInv, SharedTypeOK, LoopTypeOK
<1>11. ASSUME tick.pc \in Visiting, NextTenant \/ tick' = TickAt("rechecking", tick.i)
                                    \/ tick' = TickAt("repairing", tick.i),
              mem' \in Seq(Tenant), Len(mem') = Len(mem), disk' \in Registry,
              watch' \in [Names -> TenantWatchState], spree' \in [Names -> Nat]
       PROVE  TypeInv'
  <2>1. tick.i > 0 /\ tick.i <= Len(mem)
    BY <1>11 DEF TypeInv, LoopTypeOK
  <2>2. CASE NextTenant
    BY <1>0, <1>1, <1>5, <1>6, <1>11, <2>2 DEF TypeInv, SharedTypeOK, LoopTypeOK
  <2>3. CASE ~NextTenant
    <3>1. tick' \in TickType /\ tick'.i = tick.i
      BY <1>2, <1>3, <1>11, <2>3 DEF TickAt, TickPc
    <3> QED BY <1>0, <1>1, <1>11, <2>1, <3>1 DEF TypeInv, SharedTypeOK, LoopTypeOK
  <2> QED BY <2>2, <2>3
<1>12. CASE tick.pc \in Visiting
  <2>1. tick.i <= Len(mem)
    BY <1>12 DEF TypeInv, LoopTypeOK
  <2>2. tick.i \in DOMAIN mem /\ Visited.name \in Names
    BY <1>4, <1>12, <2>1
  <2>3. mem' \in Seq(Tenant) /\ Len(mem') = Len(mem)
    <3>1. CASE UNCHANGED mem
      BY <1>2, <3>1
    <3>2. CASE mem' = [mem EXCEPT ![tick.i] = AsTenant(Visited.name, disk[Visited.name])]
      <4>1. AsTenant(Visited.name, disk[Visited.name]) \in Tenant
        BY <1>2, <2>2, EntryTypes DEF Registry
      <4> QED BY <1>2, <2>2, <3>2, <4>1, ListUpdate
    <3> QED BY <1>6, <1>12, <3>1, <3>2
            DEF Tick, TickReads, TickSyncs, TickLoadFails, TickEnds, TickSkips,
                TickSeesSuspended, TickBeginsChecks, TickChecks, TickRechecks, TickRepairs
  <2>4. disk' \in Registry
    <3>1. MemAsRegistry \in Registry
      <4>1. ASSUME NEW n \in Names, IndexOf(n) # 0
            PROVE  [status |-> mem[IndexOf(n)].status, info |-> mem[IndexOf(n)].info] \in Entry
        <5>1. mem[IndexOf(n)] \in Tenant
          BY <1>2, <4>1, IndexFacts, ListedTypes
        <5> QED BY <5>1 DEF Tenant, Entry
      <4> QED BY <4>1, EntryTypes DEF MemAsRegistry, Registry
    <3> QED BY <1>2, <1>6, <1>12, <3>1
            DEF Tick, TickReads, TickSyncs, TickLoadFails, TickEnds, TickSkips,
                TickSeesSuspended, TickBeginsChecks, TickChecks, TickRechecks, TickRepairs
  <2>5. watch' \in [Names -> TenantWatchState] /\ spree' \in [Names -> Nat]
    <3>1. ASSUME NEW allOk \in BOOLEAN, TickChecks(allOk)
          PROVE  watch' \in [Names -> TenantWatchState] /\ spree' \in [Names -> Nat]
      <4>1. Transition(tick.current, allOk) \in TenantWatchState
        BY <1>2 DEF Transition, Passed, Missed, TenantWatchState, HealthState
      <4> QED BY <1>2, <2>2, <3>1, <4>1 DEF TickChecks
    <3>2. ASSUME NEW saved \in BOOLEAN, TickRepairs(saved)
          PROVE  watch' \in [Names -> TenantWatchState] /\ spree' \in [Names -> Nat]
      <4> DEFINE w == watch[Visited.name]
                 after == [w EXCEPT !.repairAttempts = @ + 1, !.cooling = TRUE]
      <4>1. w \in TenantWatchState
        BY <1>2, <2>2
      <4>2. after \in TenantWatchState
        <5>1. ASSUME NEW r \in TenantWatchState, NEW k \in Nat
              PROVE  [r EXCEPT !.repairAttempts = k, !.cooling = TRUE] \in TenantWatchState
          BY <5>1 DEF TenantWatchState
        <5>2. w.repairAttempts + 1 \in Nat
          BY <4>1 DEF TenantWatchState
        <5> QED BY <4>1, <5>1, <5>2
      <4>3. watch' = [watch EXCEPT ![Visited.name] = after]
        BY <3>2 DEF TickRepairs
      <4>4. spree' \in [Names -> Nat]
        BY <1>2, <2>2, <3>2 DEF TickRepairs
      <4> HIDE DEF after
      <4> QED BY <1>2, <4>2, <4>3, <4>4
    <3> QED BY <1>2, <1>6, <1>12, <3>1, <3>2
            DEF Tick, TickReads, TickSyncs, TickLoadFails, TickEnds, TickSkips,
                TickSeesSuspended, TickBeginsChecks, TickRechecks
  <2>6. NextTenant \/ tick' = TickAt("rechecking", tick.i) \/ tick' = TickAt("repairing", tick.i)
    BY <1>6, <1>12
    DEF Tick, TickReads, TickSyncs, TickLoadFails, TickEnds, TickSkips, TickSeesSuspended,
        TickBeginsChecks, TickChecks, TickRechecks, TickRepairs
  <2> QED BY <1>11, <1>12, <2>3, <2>4, <2>5, <2>6
<1> QED BY <1>7, <1>8, <1>9, <1>10, <1>12
        DEF Tick, TickChecks, TickRechecks, TickRepairs, Visiting

\* Timers, clients and the passing of time keep the types.
LEMMA EventTypes ==
    ASSUME TypeInv, NEW n \in Names,
           Cooled(n) \/ TimerStep(n) \/ IdleStep(n) \/ WakeStep(n) \/ ClientStep(n)
    PROVE  TypeInv'
<1>1. CASE Cooled(n)
  <2>1. [watch[n] EXCEPT !.cooling = FALSE] \in TenantWatchState
    BY DEF TypeInv, SharedTypeOK, TenantWatchState
  <2> QED BY <1>1, <2>1, TypesUnchanged
          DEF Cooled, CooldownEnds, schedVars, TypeInv, SharedTypeOK, LoopTypeOK
<1>2. CASE IdleStep(n)
  BY <1>2, TypesUnchanged
  DEF IdleStep, IdleElapses, Rest, TypeInv, MapTypeOK, sharedVars
<1>3. CASE WakeStep(n)
  BY <1>3, TypesUnchanged
  DEF WakeStep, WakeDue, Rest, schedVars, TypeInv, SharedTypeOK, WakeTime
<1>4. CASE TimerStep(n)
  <2>1. mapped[n] \in BOOLEAN /\ listener[n] \in {"off", "armed", "fired"}
    BY DEF TypeInv, MapTypeOK
  <2>2. /\ inFlight' \subseteq Names /\ ResumeTypeOK'
        /\ listener' \in [Names -> {"off", "armed", "fired"}]
    BY <1>4, <2>1, TriggerResumeTypes DEF TimerStep, TimerFires
  <2> QED BY <1>4, <2>2, TypesUnchanged
          DEF TimerStep, TimerFires, Rest, TypeInv, SharedTypeOK, MapTypeOK
<1>5. CASE ClientStep(n)
  <2>1. mapped[n] \in BOOLEAN
    BY DEF TypeInv, MapTypeOK
  <2>2. /\ inFlight' \subseteq Names /\ ResumeTypeOK'
        /\ listener' \in [Names -> {"off", "armed", "fired"}]
    BY <1>5, <2>1, TriggerResumeTypes DEF ClientStep, Connects
  <2> QED BY <1>5, <2>2, TypesUnchanged
          DEF ClientStep, Connects, Rest, TypeInv, SharedTypeOK, MapTypeOK
<1> QED BY <1>1, <1>2, <1>3, <1>4, <1>5

\* So do the commands of other processes.
LEMMA CommandTypes ==
    ASSUME TypeInv, NEW n \in Names, Command(n)
    PROVE  TypeInv'
<1>1. disk[n] \in Entry
  BY DEF TypeInv, SharedTypeOK, Registry
<1>2. [disk[n] EXCEPT !.status = "removing"] \in Entry
  BY <1>1 DEF Entry, Status
<1>3. disk' \in Registry /\ wake' \in [Names -> WakeTime]
  BY <1>2, EntryTypes
  DEF Command, OtherSpawns, OtherSuspends, OtherResumes, OtherEvicts, TypeInv, SharedTypeOK,
      Registry, WakeTime
<1>4. UNCHANGED <<mem, inFlight, watch, loopVars, schedVars, restarts>>
  BY DEF Command, OtherSpawns, OtherSuspends, OtherResumes, OtherEvicts, Others
<1> QED BY <1>3, <1>4, TypesUnchanged DEF schedVars, TypeInv, SharedTypeOK

\* When the watchdog starts, or starts again, all is well typed.
LEMMA StartTypes ==
    ASSUME disk' \in Registry, wake' \in [Names -> WakeTime], mem' \in Listings(disk'),
           inFlight' = {}, watch' = [n \in Names |-> InitialWatchState],
           tick' = IdleTick, spree' = [n \in Names |-> 0], SchedulerRestarts,
           restarts' \in 0..MaxRestarts
    PROVE  TypeInv'
<1>1. SharedTypeOK'
  BY ListingFacts, EntryTypes DEF SharedTypeOK
<1>2. LoopTypeOK'
  BY EntryTypes DEF LoopTypeOK, IdleTick, TickAt, TickPc, Visiting
<1>3. SuspendTypeOK' /\ ResumeTypeOK' /\ MapTypeOK' /\ VisitTypeOK'
  BY EntryTypes
  DEF SchedulerRestarts, SuspendTypeOK, ResumeTypeOK, MapTypeOK, VisitTypeOK, SuspendPc,
      ResumePc, PollPc, BootPc, IdlePoll
<1> QED BY <1>1, <1>2, <1>3 DEF TypeInv

LEMMA InitTypes == Init => TypeInv
<1> SUFFICES ASSUME Init PROVE TypeInv
  OBVIOUS
<1> USE DEF Init, StartWatch
<1>1. disk \in Registry
  BY EntryTypes DEF Registry
<1>2. SharedTypeOK
  BY <1>1, ListingFacts, EntryTypes DEF SharedTypeOK
<1>3. LoopTypeOK
  BY EntryTypes DEF LoopInit, LoopTypeOK, IdleTick, TickAt, TickPc, Visiting
<1>4. SuspendTypeOK /\ ResumeTypeOK /\ MapTypeOK /\ VisitTypeOK
  BY EntryTypes
  DEF SchedulerInit, SuspendTypeOK, ResumeTypeOK, MapTypeOK, VisitTypeOK, SuspendPc,
      ResumePc, PollPc, BootPc, IdlePoll
<1> QED BY <1>2, <1>3, <1>4, RestartsAssumption DEF TypeInv

LEMMA NextTypes == TypeInv /\ [Next]_vars => TypeInv'
<1> SUFFICES ASSUME TypeInv, [Next]_vars PROVE TypeInv'
  OBVIOUS
<1>1. CASE Restart
  <2>1. restarts' \in 0..MaxRestarts
    BY <1>1, RestartsAssumption DEF Restart, TypeInv
  <2> QED BY <1>1, <2>1, StartTypes DEF Restart, TypeInv, SharedTypeOK
<1>2. CASE UNCHANGED vars
  BY <1>2, TypesUnchanged DEF vars, schedVars, sharedVars, TypeInv
<1>3. CASE LoopStep \/ BootStep
  BY <1>3, TickTypes, BootTypes
<1>4. CASE \E p \in Polls : PollStep(p)
  BY <1>4, PollTypes
<1>5. ASSUME NEW n \in Names,
             \/ Cooled(n) \/ SuspendStep(n) \/ ResumeStep(n) \/ TimerStep(n)
             \/ IdleStep(n) \/ WakeStep(n) \/ ClientStep(n) \/ Command(n)
      PROVE  TypeInv'
  BY <1>5, EventTypes, SuspendTypes, ResumeTypes, CommandTypes
<1> QED BY <1>1, <1>2, <1>3, <1>4, <1>5 DEF Next

LEMMA AlwaysTyped == Spec => []TypeInv
BY InitTypes, NextTypes, PTL DEF Spec

\* The daemon keeps its types for any finite set of tenants, whatever fails and whatever
\* commands save meanwhile; in particular a tick never visits a place beyond the end of
\* the list.
THEOREM DaemonTypeCorrect == Spec => []DaemonTypeOK
<1>1. TypeInv => DaemonTypeOK
  BY DEF TypeInv, SharedTypeOK, LoopTypeOK, SuspendTypeOK, ResumeTypeOK, MapTypeOK,
         VisitTypeOK, DaemonTypeOK
<1> QED BY <1>1, AlwaysTyped, PTL

----
(* The places of tenants in the list. The code keeps an index across an    *)
(* await; that it still points at the tenant needs a list that does not    *)
(* move: one tenant, or no command that adds or removes any.               *)

Sole == \A m, n \in Names : m = n
Settled == Cli \cap {"spawn", "evict"} = {}
Steady == Sole \/ Settled

\* The registry has the tenants of the list.
Lists(reg) == \A n \in Names : reg[n].status # "absent" <=> n \in Listed

Distinct == \A j, k \in DOMAIN mem : mem[j].name = mem[k].name => j = k
Present == \A j \in DOMAIN mem : mem[j].status # "absent"
Aligned ==
    \A n \in Names :
        susPc[n] \notin {"idle", "thrown"} /\ susIdx[n] # 0 =>
            susIdx[n] \in DOMAIN mem /\ mem[susIdx[n]].name = n
Fixed ==
    /\ Lists(disk)
    /\ tick.pc = "read" /\ ~FreshReads => Lists(tick.fresh)
    /\ \A n \in Names : susPc[n] = "working" => Lists(susSnap[n]) /\ n \in Listed
    /\ \A n \in Names : resPc[n] = "working" => Lists(resSnap[n]) /\ n \in Listed

PlaceInv ==
    /\ TypeInv /\ OpInv
    /\ Distinct /\ Present /\ Aligned
    /\ Settled => Fixed

\* An ascending enumeration of the first numbers is the identity.
LEMMA Identity ==
    ASSUME NEW N \in Nat, NEW s \in InOrder(1..N)
    PROVE  Len(s) = N /\ \A k \in 1..N : s[k] = k
<1>1. IsFiniteSet(1..N) /\ Cardinality(1..N) = N
  BY FS_Interval
<1>2. s \in Seq(1..N) /\ Len(s) = N /\ DOMAIN s = 1..N
  BY <1>1, OrderFacts DEF InOrder
<1>3. \A j, k \in 1..N : j < k => s[j] < s[k]
  BY <1>2 DEF InOrder
<1>4. \A k \in 1..N : s[k] \in 1..N
  BY <1>2
<1>5. \A k \in 1..N : s[k] >= k
  <2> DEFINE Low == {k \in 1..N : s[k] < k}
  <2>1. SUFFICES ASSUME Low # {} PROVE FALSE
    BY <1>4
  <2>2. Low \subseteq Nat
    OBVIOUS
  <2>3. PICK m \in Low : \A k \in Low : m <= k
    BY <2>1, <2>2, LeastNumber
  <2>4. m - 1 \in 1..N
    BY <1>4, <2>3
  <2>5. s[m - 1] >= m - 1
    BY <1>4, <2>3, <2>4
  <2>6. s[m - 1] < s[m]
    BY <1>3, <2>3, <2>4
  <2> QED BY <1>4, <2>3, <2>4, <2>5, <2>6
<1>6. \A k \in 1..N : s[k] <= k
  <2> DEFINE High == {d \in 0..N : N - d \in 1..N /\ s[N - d] > N - d}
  <2>1. SUFFICES ASSUME NEW k \in 1..N, s[k] > k PROVE FALSE
    BY <1>4
  <2>2. N - k \in 0..N /\ N - (N - k) = k
    OBVIOUS
  <2>3. High \subseteq Nat /\ N - k \in High
    BY <2>1, <2>2
  <2>4. PICK d \in High : \A e \in High : d <= e
    BY <2>3, LeastNumber
  <2>5. N - d + 1 \in 1..N /\ d - 1 \in 0..N /\ N - (d - 1) = N - d + 1
    BY <1>4, <2>4
  <2>8. d - 1 \notin High
    BY <2>3, <2>4, <2>5
  <2>6. s[N - d + 1] <= N - d + 1
    BY <1>4, <2>5, <2>8
  <2>7. s[N - d] < s[N - d + 1]
    BY <1>3, <2>4, <2>5
  <2> QED BY <1>4, <2>4, <2>5, <2>6, <2>7
<1> QED BY <1>2, <1>4, <1>5, <1>6

\* A registry read into memory is listed completely.
LEMMA ListingComplete ==
    ASSUME NEW reg \in Registry, NEW list \in Listings(reg),
           NEW n \in Names, reg[n].status # "absent"
    PROVE  \E j \in DOMAIN list : list[j].name = n
<1> DEFINE P == {m \in Names : reg[m].status # "absent"}
<1>1. PICK order \in SetToSeqs(P) : list = [i \in DOMAIN order |-> AsTenant(order[i],
                                                                         reg[order[i]])]
  BY DEF Listings
<1> DEFINE D == 1..Cardinality(P)
           R == {order[i] : i \in D}
<1>2. IsFiniteSet(P) /\ Cardinality(P) \in Nat
  BY NamesAssumption, FS_Subset, FS_CardinalityType
<1>3. /\ order \in [D -> P] /\ DOMAIN order = D
      /\ \A i, j \in D : i # j => order[i] # order[j]
  BY <1>2 DEF SetToSeqs
<1>4. IsFiniteSet(D) /\ Cardinality(D) = Cardinality(P)
  BY <1>2, FS_Interval
<1>5. ExistsBijection(D, R)
  <2>1. order \in Bijection(D, R)
    BY <1>3 DEF Bijection, Injection, Surjection, IsInjective
  <2> QED BY <2>1 DEF ExistsBijection
<1>6. Cardinality(R) = Cardinality(P)
  BY <1>4, <1>5, FS_Bijection
<1>7. R \in SUBSET P
  BY <1>3
<1>8. R = P
  BY <1>2, <1>6, <1>7, FS_Subset
<1>9. PICK i \in D : order[i] = n
  BY <1>8
<1> QED BY <1>1, <1>3, <1>9 DEF AsTenant

SameNames ==
    /\ Len(mem') = Len(mem) /\ DOMAIN mem' = DOMAIN mem
    /\ \A j \in DOMAIN mem : mem'[j].name = mem[j].name
    /\ Listed' = Listed
    /\ Distinct' /\ Present'

\* Assigning to a tenant leaves it the name.
LEMMA AssignKeeps ==
    ASSUME PlaceInv, NEW j \in DOMAIN mem, NEW t \in Tenant, t.name = mem[j].name,
           t.status # "absent", mem' = [mem EXCEPT ![j] = t]
    PROVE  SameNames
<1>1. mem \in Seq(Tenant) /\ Distinct /\ Present
  BY DEF PlaceInv, TypeInv, SharedTypeOK
<1>2. /\ Len(mem') = Len(mem) /\ DOMAIN mem' = DOMAIN mem /\ mem'[j] = t
      /\ \A k \in DOMAIN mem : k # j => mem'[k] = mem[k]
  BY <1>1, ListUpdate
<1>3. \A k \in DOMAIN mem : mem'[k].name = mem[k].name
  BY <1>2
<1> QED BY <1>1, <1>2, <1>3 DEF SameNames, Listed, Distinct, Present

\* So does giving it another status.
LEMMA StatusKeeps ==
    ASSUME PlaceInv, NEW j \in DOMAIN mem, NEW status \in Status \ {"absent"},
           mem' = [mem EXCEPT ![j].status = status]
    PROVE  SameNames
<1> DEFINE t == [mem[j] EXCEPT !.status = status]
<1>1. mem[j] \in Tenant
  BY ListedTypes DEF PlaceInv, TypeInv, SharedTypeOK
<1>2. t \in Tenant /\ t.name = mem[j].name /\ t.status # "absent"
  BY <1>1 DEF Tenant
<1>3. mem' = [mem EXCEPT ![j] = t]
  OBVIOUS
<1> HIDE DEF t
<1> QED BY <1>2, <1>3, AssignKeeps

LEMMA MemSame == PlaceInv /\ UNCHANGED mem => SameNames
BY DEF PlaceInv, SameNames, Listed, Distinct, Present

\* The steps of the scheduler leave the tenants in place.
LEMMA SuspendNames == ASSUME PlaceInv, NEW n \in Names, SuspendStep(n) PROVE SameNames
<1> USE DEF SuspendStep
<1>1. susPc[n] # "idle" /\ (susPc[n] = "thrown" => UNCHANGED mem)
  BY DEF Suspend, SuspendLoads, SuspendFails, SuspendSaves, SuspendSyncs, SuspendListens
<1>2. CASE UNCHANGED mem
  BY <1>2, MemSame
<1>3. CASE ~UNCHANGED mem
  <2>1. susIdx[n] # 0 /\ ~(susIdx[n] > Len(mem))
    BY <1>3 DEF Suspend, SuspendLoads, SuspendFails, SuspendSaves, SuspendSyncs,
                SuspendListens, RevertMark, Throws
  <2>2. susIdx[n] \in DOMAIN mem /\ mem[susIdx[n]].name = n
    BY <1>1, <1>3, <2>1 DEF PlaceInv, Aligned
  <2>3. \/ mem' = [mem EXCEPT ![susIdx[n]].status = "active"]
        \/ mem' = [mem EXCEPT ![susIdx[n]] = AsTenant(n, Suspended)]
    BY <1>3, <2>1 DEF Suspend, SuspendLoads, SuspendFails, SuspendSaves, SuspendSyncs,
                      SuspendListens, RevertMark, Throws
  <2>4. "active" \in Status \ {"absent"}
    BY DEF Status
  <2>5. /\ AsTenant(n, Suspended) \in Tenant /\ AsTenant(n, Suspended).name = n
        /\ AsTenant(n, Suspended).status # "absent"
    BY EntryTypes DEF AsTenant, Suspended
  <2> QED BY <2>2, <2>3, <2>4, <2>5, StatusKeeps, AssignKeeps
<1> QED BY <1>2, <1>3

LEMMA ResumeNames == ASSUME PlaceInv, NEW n \in Names, ResumeStep(n) PROVE SameNames
<1> USE DEF ResumeStep
<1>1. CASE UNCHANGED mem
  BY <1>1, MemSame
<1>2. CASE ~UNCHANGED mem
  <2>1. IndexOf(n) # 0 /\ mem' = [mem EXCEPT ![IndexOf(n)] = AsTenant(n, Active)]
    BY <1>2 DEF Resume, ResumeStops, ResumeLoads, ResumeFails, ResumeSaves, ResumeSyncs,
                ResumePokes, sharedVars
  <2>2. mem \in Seq(Tenant)
    BY DEF PlaceInv, TypeInv, SharedTypeOK
  <2>3. IndexOf(n) \in DOMAIN mem /\ mem[IndexOf(n)].name = n
    BY <2>1, <2>2, IndexFacts
  <2>4. /\ AsTenant(n, Active) \in Tenant /\ AsTenant(n, Active).name = n
        /\ AsTenant(n, Active).status # "absent"
    BY EntryTypes DEF AsTenant, Active
  <2> QED BY <2>1, <2>3, <2>4, AssignKeeps
<1> QED BY <1>1, <1>2

LEMMA PollNames == ASSUME PlaceInv, NEW p \in Polls, PollStep(p) PROVE SameNames
<1> USE DEF PollStep
<1>1. CASE UNCHANGED mem
  BY <1>1, MemSame
<1>2. CASE ~UNCHANGED mem
  <2> DEFINE n == poll[p].name
  <2>1. IndexOf(n) # 0 /\ mem' = [mem EXCEPT ![IndexOf(n)].status = "suspended"]
    BY <1>2 DEF Poll, PollStarts, PollEnds, PollPasses, PollAsks, PollListens,
                PollFindsIdle, PollFindsBusy, TriggerSuspend, sharedVars
  <2>2. mem \in Seq(Tenant)
    BY DEF PlaceInv, TypeInv, SharedTypeOK
  <2>3. IndexOf(n) \in DOMAIN mem /\ "suspended" \in Status \ {"absent"}
    BY <2>1, <2>2, IndexFacts DEF Status
  <2> QED BY <2>1, <2>3, StatusKeeps
<1> QED BY <1>1, <1>2

\* So do the steps of a tick after it has brought the list up to date.
LEMMA TickNames == ASSUME PlaceInv, LoopStep, ~TickSyncs PROVE SameNames
<1> USE DEF LoopStep
<1>1. CASE UNCHANGED mem
  BY <1>1, MemSame
<1>2. CASE ~UNCHANGED mem
  <2> DEFINE n == Visited.name
  <2>1. /\ tick.pc = "rechecking" /\ disk[n].status \notin {"active", "absent"}
        /\ mem' = [mem EXCEPT ![tick.i] = AsTenant(n, disk[n])]
    BY <1>2 DEF Tick, TickReads, TickSyncs, TickLoadFails, TickEnds, TickSkips,
                TickSeesSuspended, TickBeginsChecks, TickChecks, TickRechecks, TickRepairs,
                sharedVars
  <2>2. tick.i \in DOMAIN mem /\ mem \in Seq(Tenant)
    BY <2>1 DEF PlaceInv, TypeInv, LoopTypeOK, SharedTypeOK, Visiting
  <2>3. n \in Names /\ n = mem[tick.i].name
    BY <2>2, ListedTypes DEF Visited
  <2>4. /\ AsTenant(n, disk[n]) \in Tenant /\ AsTenant(n, disk[n]).name = n
        /\ AsTenant(n, disk[n]).status # "absent"
    BY <2>1, <2>3, EntryTypes DEF PlaceInv, TypeInv, SharedTypeOK, Registry, AsTenant
  <2> QED BY <2>1, <2>2, <2>3, <2>4, AssignKeeps
<1> QED BY <1>1, <1>2

\* Indices stay right when the list does not move and none is taken but from findIndex.
LEMMA AlignedKeeps ==
    ASSUME PlaceInv, SameNames,
           \A n \in Names : susPc'[n] \notin {"idle", "thrown"} =>
               \/ susPc[n] \notin {"idle", "thrown"} /\ susIdx'[n] = susIdx[n]
               \/ susIdx'[n] = IndexOf(n)
    PROVE  Aligned'
<1> SUFFICES ASSUME NEW n \in Names, susPc'[n] \notin {"idle", "thrown"}, susIdx'[n] # 0
             PROVE  susIdx'[n] \in DOMAIN mem' /\ mem'[susIdx'[n]].name = n
  BY DEF Aligned
<1>1. DOMAIN mem' = DOMAIN mem /\ \A j \in DOMAIN mem : mem'[j].name = mem[j].name
  BY DEF SameNames
<1>2. CASE susPc[n] \notin {"idle", "thrown"} /\ susIdx'[n] = susIdx[n]
  BY <1>1, <1>2 DEF PlaceInv, Aligned
<1>3. CASE susIdx'[n] = IndexOf(n)
  <2>1. mem \in Seq(Tenant)
    BY DEF PlaceInv, TypeInv, SharedTypeOK
  <2>2. IndexOf(n) \in DOMAIN mem /\ mem[IndexOf(n)].name = n
    BY <1>3, <2>1, IndexFacts
  <2> QED BY <1>1, <1>3, <2>2
<1> QED BY <1>2, <1>3

\* Every step of a suspend keeps the places.
LEMMA SuspendPlaces == ASSUME PlaceInv, NEW n \in Names, SuspendStep(n) PROVE PlaceInv'
<1>1. TypeInv' /\ OpInv' /\ SameNames
  BY SuspendTypes, SuspendKeeps, SuspendNames DEF PlaceInv
<1>2. Aligned'
  <2>1. \A m \in Names : susPc'[m] \notin {"idle", "thrown"} =>
            susPc[m] \notin {"idle", "thrown"} /\ susIdx'[m] = susIdx[m]
    BY DEF SuspendStep, Suspend, SuspendLoads, SuspendFails, SuspendSaves, SuspendSyncs,
           SuspendListens, RevertMark, Throws, EndSuspend, PlaceInv, TypeInv, SuspendTypeOK
  <2> QED BY <1>1, <2>1, AlignedKeeps
<1>3. ASSUME Settled PROVE Fixed'
  <2>0. Fixed /\ Listed' = Listed
    BY <1>1, <1>3 DEF PlaceInv, SameNames
  <2>1. Lists(disk)'
    <3>1. CASE SuspendSaves(n)
      <4>1. disk' = [susSnap[n] EXCEPT ![n] = Suspended] /\ susPc[n] = "working"
        BY <3>1 DEF SuspendSaves
      <4>2. Lists(susSnap[n]) /\ n \in Listed /\ susSnap[n] \in [Names -> Entry]
        BY <2>0, <4>1 DEF Fixed, PlaceInv, TypeInv, SuspendTypeOK, Registry
      <4> QED BY <2>0, <4>1, <4>2 DEF Lists, Suspended
    <3>2. CASE ~SuspendSaves(n)
      <4>1. UNCHANGED disk
        BY <3>2 DEF SuspendStep, Suspend, SuspendLoads, SuspendFails, SuspendSyncs,
                    SuspendListens
      <4> QED BY <2>0, <4>1 DEF Lists, Fixed
    <3> QED BY <3>1, <3>2
  <2>2. UNCHANGED <<tick, resPc, resSnap>>
    BY DEF SuspendStep, Rest, Suspend, SuspendLoads, SuspendFails, SuspendSaves,
           SuspendSyncs, SuspendListens, resVars, loopVars
  <2>3. ASSUME NEW m \in Names, susPc'[m] = "working"
        PROVE  Lists(susSnap[m])' /\ m \in Listed'
    <3>1. \/ susPc[m] = "working" /\ susSnap'[m] = susSnap[m]
          \/ disk[m].status = "active" /\ susSnap'[m] = disk
      BY <2>3
      DEF SuspendStep, Suspend, SuspendLoads, SuspendFails, SuspendSaves, SuspendSyncs,
          SuspendListens, RevertMark, Throws, EndSuspend, PlaceInv, TypeInv, SuspendTypeOK
    <3> QED BY <2>0, <3>1 DEF Fixed, Lists
  <2> QED BY <2>0, <2>1, <2>2, <2>3 DEF Fixed, Lists
<1> QED BY <1>1, <1>2, <1>3 DEF PlaceInv, SameNames, Settled

\* Every step of a resume keeps the places.
LEMMA ResumePlaces == ASSUME PlaceInv, NEW n \in Names, ResumeStep(n) PROVE PlaceInv'
<1>1. TypeInv' /\ OpInv' /\ SameNames
  BY ResumeTypes, ResumeKeeps, ResumeNames DEF PlaceInv
<1>2. UNCHANGED <<tick, susPc, susIdx, susSnap>>
  BY DEF ResumeStep, Rest, Resume, ResumeStops, ResumeLoads, ResumeFails, ResumeSaves,
         ResumeSyncs, ResumePokes, susVars, loopVars
<1>3. Aligned'
  BY <1>1, <1>2, AlignedKeeps
<1>4. ASSUME Settled PROVE Fixed'
  <2>0. Fixed /\ Listed' = Listed
    BY <1>1, <1>4 DEF PlaceInv, SameNames
  <2>1. Lists(disk)'
    <3>1. CASE ResumeSaves(n)
      <4>1. disk' = [resSnap[n] EXCEPT ![n] = Active] /\ resPc[n] = "working"
        BY <3>1 DEF ResumeSaves
      <4>2. Lists(resSnap[n]) /\ n \in Listed /\ resSnap[n] \in [Names -> Entry]
        BY <2>0, <4>1 DEF Fixed, PlaceInv, TypeInv, ResumeTypeOK, Registry
      <4> QED BY <2>0, <4>1, <4>2 DEF Lists, Active
    <3>2. CASE ~ResumeSaves(n)
      <4>1. UNCHANGED disk
        BY <3>2 DEF ResumeStep, Resume, ResumeStops, ResumeLoads, ResumeFails, ResumeSyncs,
                    ResumePokes, sharedVars
      <4> QED BY <2>0, <4>1 DEF Lists, Fixed
    <3> QED BY <3>1, <3>2
  <2>2. ASSUME NEW m \in Names, resPc'[m] = "working"
        PROVE  Lists(resSnap[m])' /\ m \in Listed'
    <3>1. \/ resPc[m] = "working" /\ resSnap'[m] = resSnap[m]
          \/ disk[m].status = "suspended" /\ resSnap'[m] = disk
      BY <2>2
      DEF ResumeStep, Resume, ResumeStops, ResumeLoads, ResumeFails, ResumeSaves,
          ResumeSyncs, ResumePokes, EndResume, Suspended, PlaceInv, TypeInv, ResumeTypeOK
    <3> QED BY <2>0, <3>1 DEF Fixed, Lists
  <2> QED BY <1>2, <2>0, <2>1, <2>2 DEF Fixed, Lists
<1> QED BY <1>1, <1>3, <1>4 DEF PlaceInv, SameNames, Settled

\* So does every step of a poll.
LEMMA PollPlaces == ASSUME PlaceInv, NEW p \in Polls, PollStep(p) PROVE PlaceInv'
<1>1. TypeInv' /\ OpInv' /\ SameNames
  BY PollTypes, PollKeeps, PollNames DEF PlaceInv
<1>2. UNCHANGED <<disk, tick, resPc, resSnap, susSnap>>
  BY DEF PollStep, Rest, Poll, PollStarts, PollEnds, PollPasses, PollAsks, PollListens,
         PollFindsIdle, PollFindsBusy, TriggerSuspend, susVars, resVars, loopVars,
         sharedVars
<1>3. ASSUME NEW m \in Names
      PROVE  \/ UNCHANGED <<susPc[m], susIdx[m]>>
             \/ susPc'[m] = "loading" /\ susIdx'[m] = IndexOf(m)
  <2>1. CASE UNCHANGED susVars
    BY <2>1 DEF susVars
  <2>2. CASE ~UNCHANGED susVars
    BY <2>2 DEF PollStep, Poll, PollStarts, PollEnds, PollPasses, PollAsks, PollListens,
                PollFindsIdle, PollFindsBusy, TriggerSuspend, sharedVars, PlaceInv,
                TypeInv, SuspendTypeOK
  <2> QED BY <2>1, <2>2
<1>4. Aligned'
  BY <1>1, <1>3, AlignedKeeps
<1>5. ASSUME Settled PROVE Fixed'
  BY <1>1, <1>2, <1>3, <1>5 DEF PlaceInv, SameNames, Fixed, Lists
<1> QED BY <1>1, <1>4, <1>5 DEF PlaceInv, SameNames, Settled

\* Steps that leave the list, the suspends and the tick alone.
Quiet ==
    \/ BootStep \/ UNCHANGED vars
    \/ \E n \in Names :
          \/ Cooled(n) \/ TimerStep(n) \/ IdleStep(n) \/ WakeStep(n) \/ ClientStep(n)
          \/ Command(n)

LEMMA QuietLeaves == Quiet => UNCHANGED <<mem, susVars, tick>>
<1> USE DEF loopVars, schedVars, sharedVars, Rest
<1>1. BootStep => UNCHANGED <<mem, susVars, tick>>
  BY DEF BootStep, Boot, BootPasses, BootVisits, BootListens
<1>2. UNCHANGED vars => UNCHANGED <<mem, susVars, tick>>
  BY DEF vars
<1>3. ASSUME NEW n \in Names,
             Cooled(n) \/ TimerStep(n) \/ IdleStep(n) \/ WakeStep(n) \/ ClientStep(n)
      PROVE  UNCHANGED <<mem, susVars, tick>>
  BY <1>3 DEF Cooled, CooldownEnds, TimerStep, TimerFires, IdleStep, IdleElapses,
              WakeStep, WakeDue, ClientStep, Connects
<1>4. ASSUME NEW n \in Names, Command(n) PROVE UNCHANGED <<mem, susVars, tick>>
  BY <1>4 DEF Command, OtherSpawns, OtherSuspends, OtherResumes, OtherEvicts, Others
<1> QED BY <1>1, <1>2, <1>3, <1>4 DEF Quiet

\* What starts resumes starts none in the middle.
LEMMA QuietResumes ==
    ASSUME PlaceInv, Quiet, NEW m \in Names, resPc'[m] \notin {"idle", "stopping", "loading"}
    PROVE  UNCHANGED <<resPc[m], resSnap[m]>>
<1>1. ASSUME NEW n, NEW cron, NEW has, NEW heard, TriggerResume(n, cron, has, heard)
      PROVE  UNCHANGED <<resPc[m], resSnap[m]>>
  BY <1>1 DEF TriggerResume, PlaceInv, TypeInv, ResumeTypeOK, resVars
<1>2. BootStep => UNCHANGED <<resPc[m], resSnap[m]>>
  BY <1>1 DEF BootStep, Boot, BootPasses, BootVisits, BootListens, ScheduleWake, resVars
<1>3. UNCHANGED vars => UNCHANGED <<resPc[m], resSnap[m]>>
  BY DEF vars, schedVars, resVars
<1>4. ASSUME NEW n \in Names,
             Cooled(n) \/ TimerStep(n) \/ IdleStep(n) \/ WakeStep(n) \/ ClientStep(n)
      PROVE  UNCHANGED <<resPc[m], resSnap[m]>>
  BY <1>1, <1>4 DEF Cooled, CooldownEnds, TimerStep, TimerFires, IdleStep, IdleElapses,
              WakeStep, WakeDue, ClientStep, Connects, schedVars, resVars
<1>5. ASSUME NEW n \in Names, Command(n) PROVE UNCHANGED <<resPc[m], resSnap[m]>>
  BY <1>5 DEF Command, OtherSpawns, OtherSuspends, OtherResumes, OtherEvicts, Others,
              schedVars, resVars
<1> QED BY <1>2, <1>3, <1>4, <1>5 DEF Quiet

LEMMA QuietPlaces == ASSUME PlaceInv, Quiet PROVE PlaceInv'
<1>1. UNCHANGED <<mem, susVars, tick>> /\ SameNames
  BY QuietLeaves, MemSame
<1>2. TypeInv' /\ OpInv'
  <2>1. [Next]_vars
    BY DEF Quiet, Next
  <2> QED BY <2>1, NextTypes, OpStep DEF PlaceInv
<1>3. Aligned'
  BY <1>1, AlignedKeeps DEF susVars
<1>4. ASSUME Settled PROVE Fixed'
  <2>0. Fixed /\ Listed' = Listed
    BY <1>1, <1>4 DEF PlaceInv, SameNames
  <2>1. Lists(disk)'
    <3>1. CASE UNCHANGED disk
      BY <2>0, <3>1 DEF Fixed, Lists
    <3>2. CASE ~UNCHANGED disk
      <4>1. PICK n \in Names : OtherSuspends(n) \/ OtherResumes(n)
        <5>1. ~BootStep /\ ~UNCHANGED vars
          BY <3>2 DEF BootStep, Boot, BootPasses, BootVisits, BootListens, vars, sharedVars
        <5>2. PICK n \in Names : Command(n)
          BY <3>2, <5>1
          DEF Quiet, Cooled, CooldownEnds, TimerStep, TimerFires, IdleStep, IdleElapses,
              WakeStep, WakeDue, ClientStep, Connects, sharedVars
        <5> QED BY <1>4, <5>2 DEF Command, Settled, OtherSpawns, OtherEvicts
      <4>2. disk \in [Names -> Entry] /\ disk[n].status # "absent"
        BY <4>1 DEF OtherSuspends, OtherResumes, Suspended, PlaceInv, TypeInv, SharedTypeOK,
                    Registry
      <4>3. disk' = [disk EXCEPT ![n] = Suspended] \/ disk' = [disk EXCEPT ![n] = Active]
        BY <4>1 DEF OtherSuspends, OtherResumes
      <4> QED BY <2>0, <4>2, <4>3 DEF Fixed, Lists, Active, Suspended
    <3> QED BY <3>1, <3>2
  <2>2. ASSUME NEW m \in Names, resPc'[m] = "working"
        PROVE  Lists(resSnap[m])' /\ m \in Listed'
    BY <2>0, <2>2, QuietResumes DEF Fixed, Lists
  <2> QED BY <1>1, <2>0, <2>1, <2>2 DEF Fixed, Lists, susVars
<1> QED BY <1>1, <1>2, <1>3, <1>4 DEF PlaceInv, SameNames, Settled

\* Bringing the list up to date makes no name occur twice.
LEMMA SyncDistinct ==
    ASSUME PlaceInv, NEW fresh \in Registry,
           NEW left \in InOrder(Kept(fresh)), NEW new \in SetToSeqs(Added(fresh)),
           mem' = [k \in DOMAIN left |-> Updated(fresh)[left[k]]]
                  \o [k \in DOMAIN new |-> AsTenant(new[k], fresh[new[k]])]
    PROVE  Distinct' /\ Present'
<1>1. mem \in Seq(Tenant) /\ Distinct /\ Present
  BY DEF PlaceInv, TypeInv, SharedTypeOK
<1>2. IsFiniteSet(Kept(fresh)) /\ IsFiniteSet(Added(fresh))
  <2>1. Kept(fresh) \in SUBSET (1..Len(mem)) /\ 1 \in Int /\ Len(mem) \in Int
    BY <1>1 DEF Kept
  <2> QED BY <2>1, FS_Interval, FS_Subset, NamesAssumption DEF Added
<1>3. /\ \A i, j \in DOMAIN left : i # j => left[i] # left[j]
      /\ DOMAIN left = 1..Len(left) /\ Len(left) \in Nat
  BY <1>2, OrderFacts DEF InOrder
<1>4. /\ \A i, j \in DOMAIN new : i # j => new[i] # new[j]
      /\ DOMAIN new = 1..Len(new) /\ Len(new) \in Nat
  BY <1>2, OrderFacts
<1>5. /\ mem' \in Seq(Tenant) /\ Len(mem') = Len(left) + Len(new)
      /\ \A k \in 1..Len(left) :
            left[k] \in Kept(fresh) /\ mem'[k] = Updated(fresh)[left[k]]
      /\ \A k \in 1..Len(mem') \ 1..Len(left) :
            /\ k - Len(left) \in DOMAIN new /\ new[k - Len(left)] \in Added(fresh)
            /\ mem'[k] = AsTenant(new[k - Len(left)], fresh[new[k - Len(left)]])
  BY <1>1, SyncFacts
<1>6. ASSUME NEW k \in 1..Len(left)
      PROVE  /\ left[k] \in DOMAIN mem /\ mem'[k].name = mem[left[k]].name
             /\ mem'[k].name \in Listed /\ mem'[k].status # "absent"
  <2>1. left[k] \in DOMAIN mem
    BY <1>5 DEF Kept
  <2>2. mem'[k].name = mem[left[k]].name
    BY <1>1, <1>5, <2>1, UpdatedFacts
  <2>3. mem'[k].status # "absent"
    <3>1. mem'[k] = Updated(fresh)[left[k]] /\ mem[left[k]].status # "absent"
      BY <1>1, <1>5, <2>1 DEF Present
    <3>2. \/ Updated(fresh)[left[k]] = mem[left[k]]
          \/ /\ fresh[mem[left[k]].name].status # "absent"
             /\ Updated(fresh)[left[k]] = AsTenant(mem[left[k]].name,
                                                    fresh[mem[left[k]].name])
      BY <1>1, <2>1, UpdatedFacts
    <3> DEFINE m == mem[left[k]].name
    <3>3. AsTenant(m, fresh[m]).status = fresh[m].status
      BY DEF AsTenant
    <3> HIDE DEF m
    <3> QED BY <3>1, <3>2, <3>3 DEF m
  <2> QED BY <2>1, <2>2, <2>3 DEF Listed
<1>7. ASSUME NEW k \in 1..Len(mem') \ 1..Len(left)
      PROVE  /\ mem'[k].name = new[k - Len(left)] /\ k - Len(left) \in DOMAIN new
             /\ mem'[k].name \notin Listed /\ mem'[k].status # "absent"
  <2> DEFINE m == new[k - Len(left)]
  <2>1. /\ k - Len(left) \in DOMAIN new /\ m \in Added(fresh)
        /\ mem'[k] = AsTenant(m, fresh[m])
    BY <1>5, <1>7
  <2>2. m \notin Listed /\ fresh[m].status # "absent"
    BY <2>1 DEF Added
  <2> HIDE DEF m
  <2>3. mem'[k].name = m /\ mem'[k].status # "absent"
    BY <2>1, <2>2 DEF AsTenant
  <2> QED BY <2>1, <2>2, <2>3 DEF m
<1>8. DOMAIN mem' = 1..Len(mem')
  BY <1>5
<1>9. ASSUME NEW j \in DOMAIN mem', NEW k \in DOMAIN mem', mem'[j].name = mem'[k].name
      PROVE  j = k
  <2>1. CASE j \in 1..Len(left) /\ k \in 1..Len(left)
    <3>1. /\ left[j] \in DOMAIN mem /\ left[k] \in DOMAIN mem
          /\ mem[left[j]].name = mem[left[k]].name
      BY <1>6, <1>9, <2>1
    <3>2. left[j] = left[k]
      BY <1>1, <3>1 DEF Distinct
    <3> QED BY <1>3, <2>1, <3>2
  <2>2. CASE j \notin 1..Len(left) /\ k \notin 1..Len(left)
    <3>1. new[j - Len(left)] = new[k - Len(left)]
      BY <1>7, <1>8, <1>9, <2>2
    <3>2. j - Len(left) \in DOMAIN new /\ k - Len(left) \in DOMAIN new
      BY <1>7, <1>8, <2>2
    <3>3. j - Len(left) = k - Len(left)
      BY <1>4, <3>1, <3>2
    <3> QED BY <1>3, <1>8, <3>3
  <2>3. CASE ~(j \in 1..Len(left) <=> k \in 1..Len(left))
    BY <1>6, <1>7, <1>8, <1>9, <2>3
  <2> QED BY <2>1, <2>2, <2>3
<1>10. \A j \in DOMAIN mem' : mem'[j].status # "absent"
  BY <1>6, <1>7, <1>8
<1> QED BY <1>9, <1>10 DEF Distinct, Present

\* When all stay and none is new, bringing the list up to date moves no tenant.
LEMMA SyncStays ==
    ASSUME PlaceInv, NEW fresh \in Registry,
           Kept(fresh) = DOMAIN mem, Added(fresh) = {},
           NEW left \in InOrder(Kept(fresh)), NEW new \in SetToSeqs(Added(fresh)),
           mem' = [k \in DOMAIN left |-> Updated(fresh)[left[k]]]
                  \o [k \in DOMAIN new |-> AsTenant(new[k], fresh[new[k]])]
    PROVE  SameNames /\ \A j \in DOMAIN mem : mem'[j] = Updated(fresh)[j]
<1>1. mem \in Seq(Tenant)
  BY DEF PlaceInv, TypeInv, SharedTypeOK
<1>2. Len(mem) \in Nat /\ DOMAIN mem = 1..Len(mem)
  BY <1>1
<1>3. Len(left) = Len(mem) /\ \A k \in 1..Len(mem) : left[k] = k
  BY <1>2, Identity
<1>4. Len(new) = 0
  <2>1. IsFiniteSet({}) /\ Cardinality({}) = 0
    BY FS_EmptySet
  <2> QED BY <2>1, OrderFacts
<1>5. /\ mem' \in Seq(Tenant) /\ Len(mem') = Len(left) + Len(new)
      /\ \A k \in 1..Len(left) : mem'[k] = Updated(fresh)[left[k]]
  BY <1>1, SyncFacts
<1>6. Len(mem') = Len(mem) /\ DOMAIN mem' = DOMAIN mem
  BY <1>2, <1>3, <1>4, <1>5
<1>7. \A j \in DOMAIN mem : mem'[j] = Updated(fresh)[j]
  BY <1>2, <1>3, <1>5
<1>8. \A j \in DOMAIN mem : mem'[j].name = mem[j].name
  BY <1>1, <1>7, UpdatedFacts
<1>9. Listed' = Listed
  BY <1>6, <1>8 DEF Listed
<1>10. Distinct' /\ Present'
  BY SyncDistinct
<1> QED BY <1>6, <1>7, <1>8, <1>9, <1>10 DEF SameNames

\* Which is so for a registry with the tenants of the list.
LEMMA AllStay ==
    ASSUME PlaceInv, NEW fresh \in Registry, Lists(fresh)
    PROVE  Kept(fresh) = DOMAIN mem /\ Added(fresh) = {}
<1>1. \A j \in DOMAIN mem : mem[j].name \in Names /\ mem[j].name \in Listed
  BY ListedTypes DEF PlaceInv, TypeInv, SharedTypeOK, Listed
<1> QED BY <1>1 DEF Lists, Kept, Added

\* And for the only tenant while it is in flight.
LEMMA SoleStays ==
    ASSUME PlaceInv, Sole, NEW fresh \in Registry, NEW n \in Names, n \in inFlight,
           n \in Listed
    PROVE  Kept(fresh) = DOMAIN mem /\ Added(fresh) = {}
<1>1. \A j \in DOMAIN mem : mem[j].name = n
  BY ListedTypes DEF PlaceInv, TypeInv, SharedTypeOK, Sole
<1> QED BY <1>1 DEF Sole, Kept, Added

\* What a tick leaves alone.
LEMMA TickLeaves == LoopStep => UNCHANGED <<schedVars, wake, inFlight>>
BY DEF LoopStep, Tick, TickReads, TickSyncs, TickLoadFails, TickEnds, TickSkips,
       TickSeesSuspended, TickBeginsChecks, TickChecks, TickRechecks, TickRepairs,
       sharedVars

\* Bringing the list up to date keeps the places, if the list is steady.
LEMMA SyncPlaces == ASSUME Steady, PlaceInv, LoopStep, TickSyncs PROVE PlaceInv'
<1> DEFINE fresh == IF FreshReads THEN disk ELSE tick.fresh
<1>1. TypeInv' /\ OpInv'
  <2>1. Next
    BY DEF Next
  <2> QED BY <2>1, NextTypes, OpStep DEF PlaceInv
<1>2. fresh \in Registry
  BY DEF PlaceInv, TypeInv, SharedTypeOK, LoopTypeOK
<1>3. PICK left \in InOrder(Kept(fresh)), new \in SetToSeqs(Added(fresh)) :
           mem' = [k \in DOMAIN left |-> Updated(fresh)[left[k]]]
                  \o [k \in DOMAIN new |-> AsTenant(new[k], fresh[new[k]])]
  BY DEF TickSyncs
<1>4. Settled => Lists(fresh)
  BY DEF PlaceInv, Fixed, TickSyncs
<1>5. UNCHANGED <<disk, susPc, susIdx, susSnap, resPc, resSnap>> /\ tick'.pc = "loop"
  BY TickLeaves DEF TickSyncs, TickAt, schedVars, susVars, resVars
<1> HIDE DEF fresh
<1>6. Distinct' /\ Present'
  BY <1>2, <1>3, SyncDistinct
<1>7. CASE Settled
  <2>1. SameNames
    BY <1>2, <1>3, <1>4, <1>7, AllStay, SyncStays
  <2>2. Aligned'
    BY <1>5, <2>1, AlignedKeeps
  <2>3. Fixed'
    BY <1>5, <1>7, <2>1 DEF PlaceInv, SameNames, Fixed, Lists
  <2> QED BY <1>1, <1>6, <2>2, <2>3 DEF PlaceInv
<1>8. CASE Sole /\ ~Settled
  <2>1. ASSUME NEW n \in Names, susPc'[n] \notin {"idle", "thrown"}, susIdx'[n] # 0
        PROVE  susIdx'[n] \in DOMAIN mem' /\ mem'[susIdx'[n]].name = n
    <3>1. /\ susPc[n] \notin {"idle", "thrown"} /\ susIdx[n] # 0
          /\ susIdx[n] \in DOMAIN mem /\ mem[susIdx[n]].name = n
      BY <1>5, <2>1 DEF PlaceInv, Aligned
    <3>2. n \in inFlight /\ n \in Listed
      BY <3>1 DEF PlaceInv, OpInv, OneOperationAtATime, Suspending, Listed
    <3>3. SameNames
      BY <1>2, <1>3, <1>8, <3>2, SoleStays, SyncStays
    <3> QED BY <1>5, <3>1, <3>3 DEF SameNames
  <2> QED BY <1>1, <1>6, <1>8, <2>1 DEF PlaceInv, Aligned, Settled
<1> QED BY <1>7, <1>8 DEF Steady

\* The registry the list is saved as has the tenants of the list.
LEMMA SavedLists ==
    ASSUME mem \in Seq(Tenant), Present
    PROVE  Lists(MemAsRegistry)
<1> SUFFICES ASSUME NEW n \in Names
             PROVE  MemAsRegistry[n].status # "absent" <=> n \in Listed
  BY DEF Lists
<1>1. CASE IndexOf(n) = 0
  BY <1>1, IndexFacts DEF MemAsRegistry, Absent, Listed
<1>2. CASE IndexOf(n) # 0
  <2>1. IndexOf(n) \in DOMAIN mem /\ mem[IndexOf(n)].name = n
    BY <1>2, IndexFacts
  <2> QED BY <1>2, <2>1 DEF MemAsRegistry, Listed, Present
<1> QED BY <1>1, <1>2

\* Every step of a tick keeps the places.
LEMMA TickPlaces == ASSUME Steady, PlaceInv, LoopStep PROVE PlaceInv'
<1>1. CASE TickSyncs
  BY <1>1, SyncPlaces
<1>2. CASE ~TickSyncs
  <2>1. SameNames
    BY <1>2, TickNames
  <2>2. UNCHANGED <<susPc, susIdx, susSnap, resPc, resSnap>>
    BY TickLeaves DEF schedVars, susVars, resVars
  <2>3. TypeInv' /\ OpInv'
    <3>1. Next
      BY DEF Next
    <3> QED BY <3>1, NextTypes, OpStep DEF PlaceInv
  <2>4. Aligned'
    BY <2>1, <2>2, AlignedKeeps
  <2>5. ASSUME Settled PROVE Fixed'
    <3>0. Fixed /\ Listed' = Listed
      BY <2>1, <2>5 DEF PlaceInv, SameNames
    <3>1. Lists(disk)'
      <4>1. disk' = disk \/ disk' = MemAsRegistry
        BY <1>2
        DEF LoopStep, Tick, TickReads, TickLoadFails, TickEnds, TickSkips,
            TickSeesSuspended, TickBeginsChecks, TickChecks, TickRechecks, TickRepairs,
            sharedVars
      <4>2. Lists(MemAsRegistry)
        BY SavedLists DEF PlaceInv, TypeInv, SharedTypeOK
      <4> QED BY <3>0, <4>1, <4>2 DEF Fixed, Lists
    <3>2. tick'.pc = "read" /\ ~FreshReads => Lists(tick.fresh)'
      <4>1. CASE TickReads
        <5>1. ~FreshReads => tick'.fresh = disk
          BY <4>1 DEF TickReads, PlaceInv, TypeInv, LoopTypeOK
        <5> QED BY <3>0, <5>1 DEF Fixed, Lists
      <4>2. CASE TickBeginsChecks
        BY <4>2 DEF TickBeginsChecks, PlaceInv, TypeInv, LoopTypeOK
      <4>3. CASE ~TickReads /\ ~TickBeginsChecks
        <5>1. \E at \in {"idle", "loop", "rechecking", "repairing"} :
                 \E i : tick' = TickAt(at, i)
          BY <1>2, <4>3
          DEF LoopStep, Tick, TickLoadFails, TickEnds, TickSkips, TickSeesSuspended,
              TickChecks, TickRechecks, TickRepairs, NextTenant, IdleTick
        <5> QED BY <5>1 DEF TickAt
      <4> QED BY <4>1, <4>2, <4>3
    <3> QED BY <2>2, <3>0, <3>1, <3>2 DEF Fixed, Lists
  <2> QED BY <2>1, <2>3, <2>4, <2>5 DEF PlaceInv, SameNames, Settled
<1> QED BY <1>1, <1>2

\* When the watchdog starts the list is what it read.
LEMMA StartPlaces ==
    ASSUME NEW list \in Listings(disk), disk \in Registry
    PROVE  /\ \A j, k \in DOMAIN list : list[j].name = list[k].name => j = k
           /\ \A j \in DOMAIN list : list[j].status # "absent"
           /\ \A n \in Names :
                 disk[n].status # "absent" <=> n \in {list[j].name : j \in DOMAIN list}
<1>1. \A j \in DOMAIN list : list[j].status = disk[list[j].name].status
  <2>1. PICK order : list = [i \in DOMAIN order |-> AsTenant(order[i], disk[order[i]])]
    BY DEF Listings
  <2> QED BY <2>1 DEF AsTenant
<1>2. /\ \A j, k \in DOMAIN list : j # k => list[j].name # list[k].name
      /\ \A j \in DOMAIN list : disk[list[j].name].status # "absent"
  BY ListingFacts
<1>3. \A n \in Names : disk[n].status # "absent" => \E j \in DOMAIN list : list[j].name = n
  BY ListingComplete
<1> QED BY <1>1, <1>2, <1>3

LEMMA InitPlaces == Init => PlaceInv
<1> SUFFICES ASSUME Init PROVE PlaceInv
  OBVIOUS
<1>1. TypeInv /\ OpInv
  BY InitTypes, OpInit
<1>2. mem \in Listings(disk) /\ disk \in Registry
  BY <1>1 DEF Init, StartWatch, TypeInv, SharedTypeOK
<1>3. Distinct /\ Present /\ Lists(disk)
  BY <1>2, StartPlaces DEF Distinct, Present, Lists, Listed
<1>4. Aligned /\ (Lists(disk) => Fixed)
  BY DEF Init, StartWatch, LoopInit, IdleTick, TickAt, SchedulerInit, Aligned, Fixed
<1> QED BY <1>1, <1>3, <1>4 DEF PlaceInv

LEMMA RestartPlaces == ASSUME PlaceInv, Restart PROVE PlaceInv'
<1>1. TypeInv' /\ OpInv'
  <2>1. Next
    BY DEF Next
  <2> QED BY <2>1, NextTypes, OpRestart DEF PlaceInv
<1>2. mem' \in Listings(disk) /\ disk \in Registry /\ disk' = disk
  BY DEF Restart, PlaceInv, TypeInv, SharedTypeOK
<1>3. Distinct' /\ Present' /\ Lists(disk)'
  BY <1>2, StartPlaces DEF Distinct, Present, Lists, Listed
<1>4. Aligned' /\ (Lists(disk)' => Fixed')
  BY DEF Restart, IdleTick, TickAt, SchedulerRestarts, Aligned, Fixed, Lists
<1> QED BY <1>1, <1>3, <1>4 DEF PlaceInv, Settled

\* The places are kept by every step.
LEMMA NextPlaces == Steady /\ PlaceInv /\ [Next]_vars => PlaceInv'
<1> SUFFICES ASSUME Steady, PlaceInv, [Next]_vars PROVE PlaceInv'
  OBVIOUS
<1>1. CASE Restart
  BY <1>1, RestartPlaces
<1>2. CASE LoopStep
  BY <1>2, TickPlaces
<1>3. CASE Quiet
  BY <1>3, QuietPlaces
<1>4. CASE \E p \in Polls : PollStep(p)
  BY <1>4, PollPlaces
<1>5. CASE \E n \in Names : SuspendStep(n) \/ ResumeStep(n)
  BY <1>5, SuspendPlaces, ResumePlaces
<1> QED BY <1>1, <1>2, <1>3, <1>4, <1>5 DEF Next, Quiet

LEMMA AlwaysPlaced == ASSUME Steady PROVE Spec => []PlaceInv
BY InitPlaces, NextPlaces, PTL DEF Spec

\* The index a suspend keeps across its awaits points at its tenant, and each tenant is
\* listed once, as long as the list holds one tenant or no command adds or removes any.
THEOREM IndicesStayRight == ASSUME Steady PROVE Spec => [](Aligned /\ Distinct)
<1>1. PlaceInv => Aligned /\ Distinct
  BY DEF PlaceInv
<1> QED BY <1>1, AlwaysPlaced, PTL

----
(* Repairs.                                                                *)

Bound == IF MaxRepairAttempts = 0 THEN 1 ELSE MaxRepairAttempts

\* Repairs are counted only while a tenant is degraded, by repairAttempts at least.
Counted ==
    \A n \in Names :
        /\ watch[n].state \notin {"DEGRADED", "FAILED"} => spree[n] = 0
        /\ watch[n].state = "DEGRADED" => spree[n] <= watch[n].repairAttempts
        /\ spree[n] <= Bound

\* The health state a tick took is still the tenant's when the checks answer; a repair that
\* is under way is within the bound.
Judged ==
    /\ tick.pc = "checking" =>
          tick.current = watch[Visited.name] /\ ~watch[Visited.name].cooling
    /\ tick.pc \in {"rechecking", "repairing"} =>
          watch[Visited.name].state = "DEGRADED" /\ spree[Visited.name] < Bound

BudgetInv == PlaceInv /\ Counted /\ Judged

LEMMA VisitedFacts ==
    ASSUME PlaceInv, tick.pc \in Visiting \/ (tick.pc = "loop" /\ tick.i <= Len(mem))
    PROVE  tick.i \in DOMAIN mem /\ Visited \in Tenant /\ Visited.name \in Names
<1>1. tick.i \in DOMAIN mem /\ mem \in Seq(Tenant)
  BY DEF PlaceInv, TypeInv, SharedTypeOK, LoopTypeOK
<1> QED BY <1>1, ListedTypes DEF Visited

\* A step that leaves the health states alone and moves no tenant keeps the budget.
LEMMA BudgetSame ==
    ASSUME BudgetInv, PlaceInv', SameNames, UNCHANGED <<tick, watch, spree>>
    PROVE  BudgetInv'
<1>1. ASSUME tick.pc \in Visiting PROVE Visited'.name = Visited.name
  <2>1. tick.i \in DOMAIN mem
    BY <1>1, VisitedFacts DEF BudgetInv
  <2> QED BY <2>1 DEF Visited, SameNames
<1>2. Judged'
  BY <1>1 DEF BudgetInv, Judged, Visiting
<1> QED BY <1>2 DEF BudgetInv, Counted

\* The transition of a health state, with the repairs counted so far.
LEMMA TransitionFacts ==
    ASSUME NEW current \in TenantWatchState, NEW allOk \in BOOLEAN, NEW count \in Nat,
           current.state \notin {"DEGRADED", "FAILED"} => count = 0,
           current.state = "DEGRADED" => count <= current.repairAttempts,
           count <= Bound
    PROVE  /\ Transition(current, allOk) \in TenantWatchState
           /\ allOk => Transition(current, allOk).state \notin {"DEGRADED", "FAILED"}
           /\ ~allOk =>
                 /\ Transition(current, allOk).state \in {"DEGRADED", "FAILED"}
                 /\ Transition(current, allOk).state = "DEGRADED" =>
                       count <= Transition(current, allOk).repairAttempts
           /\ NeedsRepair(current, allOk) =>
                 Transition(current, allOk).state = "DEGRADED" /\ count < Bound
<1> USE MaxRepairAssumption DEF Bound, TenantWatchState, HealthState
<1>1. CASE allOk
  BY <1>1 DEF Transition, Passed, NeedsRepair
<1>2. CASE ~allOk /\ current.state \in {"HEALTHY", "RECOVERING"}
  <2>1. Transition(current, allOk) \in TenantWatchState
    BY <1>2 DEF Transition, Missed
  <2>2. Missed(current).state = "DEGRADED"
    BY <1>2 DEF Missed
  <2>3. Transition(current, allOk) = Missed(current)
    BY <1>2 DEF Transition
  <2>4. count = 0 /\ count < Bound
    BY <1>2
  <2> QED BY <1>2, <2>1, <2>2, <2>3, <2>4
<1>3. CASE ~allOk /\ current.state = "FAILED"
  BY <1>3 DEF Transition, Missed, NeedsRepair
<1>4. CASE ~allOk /\ current.state = "DEGRADED"
  <2>1. CASE current.repairAttempts >= MaxRepairAttempts
    <3>1. Missed(current) = [current EXCEPT !.state = "FAILED"]
      BY <1>4, <2>1 DEF Missed
    <3> QED BY <1>4, <2>1, <3>1 DEF Transition, NeedsRepair
  <2>2. CASE ~(current.repairAttempts >= MaxRepairAttempts)
    <3>1. Missed(current) = [current EXCEPT !.state = "DEGRADED"]
      BY <1>4, <2>2 DEF Missed
    <3> QED BY <1>4, <2>2, <3>1 DEF Transition, NeedsRepair
  <2> QED BY <2>1, <2>2
<1>5. CASE ~allOk /\ current.state \in {"UNKNOWN", "SUSPENDED"}
  <2>1. Missed(current) = [current EXCEPT !.state = "DEGRADED"]
    BY <1>5 DEF Missed
  <2> QED BY <1>5, <2>1 DEF Transition, NeedsRepair
<1> QED BY <1>1, <1>2, <1>3, <1>4, <1>5

\* Every step of a tick keeps the budget.
LEMMA BudgetTick == ASSUME Steady, BudgetInv, LoopStep PROVE BudgetInv'
<1> DEFINE n == Visited.name
<1>1. PlaceInv'
  BY TickPlaces DEF BudgetInv
<1>2. /\ watch \in [Names -> TenantWatchState] /\ spree \in [Names -> Nat]
      /\ tick \in [pc : TickPc, i : Nat, fresh : Registry, current : TenantWatchState]
      /\ tick.current \in TenantWatchState /\ mem \in Seq(Tenant)
  BY DEF BudgetInv, PlaceInv, TypeInv, SharedTypeOK, LoopTypeOK
<1>3. Bound \in Nat
  BY MaxRepairAssumption DEF Bound
<1>4. tick.pc \in Visiting => n \in Names /\ tick.i \in DOMAIN mem
  BY VisitedFacts DEF BudgetInv
<1>5. NextTenant => tick'.pc = "loop"
  BY DEF NextTenant, TickAt
<1>6. CASE TickReads \/ TickLoadFails \/ TickEnds \/ TickSkips
  <2>1. UNCHANGED <<watch, spree>> /\ tick'.pc \in {"read", "loop", "idle"}
    <3>1. CASE TickReads
      BY <1>2, <3>1 DEF TickReads, sharedVars
    <3>2. CASE TickLoadFails \/ TickEnds \/ TickSkips
      BY <1>5, <3>2 DEF TickLoadFails, TickEnds, TickSkips, IdleTick, TickAt, sharedVars
    <3> QED BY <1>6, <3>1, <3>2
  <2> QED BY <1>1, <2>1 DEF BudgetInv, Counted, Judged
<1>7. CASE TickSyncs
  <2>1. tick'.pc = "loop"
    BY <1>7 DEF TickSyncs, TickAt
  <2>2. ASSUME NEW m \in Names
        PROVE  \/ watch'[m] = watch[m] /\ spree'[m] = spree[m]
               \/ watch'[m] = InitialWatchState /\ spree'[m] = 0
    BY <1>7 DEF TickSyncs
  <2>3. InitialWatchState.state = "UNKNOWN"
    BY DEF InitialWatchState
  <2> QED BY <1>1, <1>3, <2>1, <2>2, <2>3 DEF BudgetInv, Counted, Judged
<1>8. CASE TickSeesSuspended
  <2>1. n \in Names
    BY <1>8, VisitedFacts DEF BudgetInv, TickSeesSuspended
  <2>2. watch'[n].state = "SUSPENDED" /\ spree'[n] = 0
    BY <1>2, <1>8, <2>1 DEF TickSeesSuspended, InitialWatchState
  <2>3. \A m \in Names \ {n} : watch'[m] = watch[m] /\ spree'[m] = spree[m]
    BY <1>2, <1>8, <2>1 DEF TickSeesSuspended
  <2>4. tick'.pc = "loop"
    BY <1>5, <1>8 DEF TickSeesSuspended
  <2> QED BY <1>1, <1>3, <2>1, <2>2, <2>3, <2>4 DEF BudgetInv, Counted, Judged
<1>9. CASE TickBeginsChecks
  <2>1. UNCHANGED <<watch, spree, mem>> /\ ~watch[n].cooling
    BY <1>9 DEF TickBeginsChecks, sharedVars
  <2>2. tick'.pc = "checking" /\ tick'.current = watch[n] /\ tick'.i = tick.i
    BY <1>2, <1>9 DEF TickBeginsChecks
  <2>3. Visited' = Visited
    BY <2>1, <2>2 DEF Visited
  <2> QED BY <1>1, <2>1, <2>2, <2>3 DEF BudgetInv, Counted, Judged
<1>10. ASSUME NEW allOk \in BOOLEAN, TickChecks(allOk) PROVE BudgetInv'
  <2>1. n \in Names /\ tick.current = watch[n]
    BY <1>4, <1>10 DEF TickChecks, BudgetInv, Judged, Visiting
  <2> DEFINE next == Transition(tick.current, allOk)
  <2>2. watch' = [watch EXCEPT ![n] = next] /\ UNCHANGED mem
    BY <1>10 DEF TickChecks
  <2>3. spree' = IF allOk THEN [spree EXCEPT ![n] = 0] ELSE spree
    BY <1>10 DEF TickChecks
  <2>4. /\ next \in TenantWatchState
        /\ allOk => next.state \notin {"DEGRADED", "FAILED"}
        /\ ~allOk => /\ next.state \in {"DEGRADED", "FAILED"}
                     /\ next.state = "DEGRADED" => spree[n] <= next.repairAttempts
        /\ NeedsRepair(tick.current, allOk) => next.state = "DEGRADED" /\ spree[n] < Bound
    BY <1>2, <2>1, TransitionFacts DEF BudgetInv, Counted
  <2>5. NeedsRepair(tick.current, allOk) => ~allOk
    BY DEF NeedsRepair
  <2>6. \/ tick'.pc = "loop"
        \/ /\ tick'.pc = "rechecking" /\ tick'.i = tick.i
           /\ NeedsRepair(tick.current, allOk)
    BY <1>5, <1>10 DEF TickChecks, TickAt
  <2> HIDE DEF next
  <2>7. Counted'
    BY <1>2, <1>3, <2>1, <2>2, <2>3, <2>4 DEF BudgetInv, Counted
  <2>8. Judged'
    <3>1. CASE tick'.pc = "loop"
      BY <3>1 DEF Judged
    <3>2. CASE tick'.pc = "rechecking" /\ tick'.i = tick.i /\ NeedsRepair(tick.current, allOk)
      <4>1. Visited' = Visited
        BY <2>2, <3>2 DEF Visited
      <4>2. watch'[n].state = "DEGRADED" /\ spree'[n] < Bound
        BY <1>2, <2>1, <2>2, <2>3, <2>4, <2>5, <3>2
      <4> QED BY <3>2, <4>1, <4>2 DEF Judged
    <3> QED BY <2>6, <3>1, <3>2
  <2> QED BY <1>1, <2>7, <2>8 DEF BudgetInv
<1>11. CASE TickRechecks
  <2>1. UNCHANGED <<watch, spree>> /\ SameNames
    BY <1>11, TickNames DEF TickRechecks, TickSyncs, BudgetInv
  <2>2. tick'.pc = "loop" \/ (tick'.pc = "repairing" /\ tick'.i = tick.i)
    BY <1>5, <1>11 DEF TickRechecks, TickAt
  <2>3. tick.pc = "rechecking" /\ tick.i \in DOMAIN mem
    BY <1>4, <1>11 DEF TickRechecks, Visiting
  <2>4. CASE tick'.pc = "repairing" /\ tick'.i = tick.i
    <3>1. Visited'.name = n
      BY <2>1, <2>3, <2>4 DEF Visited, SameNames
    <3> QED BY <1>1, <2>1, <2>3, <2>4, <3>1 DEF BudgetInv, Counted, Judged
  <2>5. CASE tick'.pc = "loop"
    BY <1>1, <2>1, <2>5 DEF BudgetInv, Counted, Judged
  <2> QED BY <2>2, <2>4, <2>5
<1>12. ASSUME NEW saved \in BOOLEAN, TickRepairs(saved) PROVE BudgetInv'
  <2>1. n \in Names /\ watch[n].state = "DEGRADED" /\ spree[n] < Bound
    BY <1>4, <1>12 DEF TickRepairs, BudgetInv, Judged, Visiting
  <2>2. /\ watch'[n].state = watch[n].state
        /\ watch'[n].repairAttempts = watch[n].repairAttempts + 1
    <3>1. watch[n] \in TenantWatchState
      BY <1>2, <2>1
    <3> QED BY <1>2, <1>12, <2>1, <3>1 DEF TickRepairs, TenantWatchState
  <2>3. \A m \in Names \ {n} : watch'[m] = watch[m] /\ spree'[m] = spree[m]
    BY <1>2, <1>12, <2>1 DEF TickRepairs
  <2>4. spree'[n] = spree[n] + 1 /\ tick'.pc = "loop"
    BY <1>2, <1>5, <1>12, <2>1 DEF TickRepairs
  <2>5. spree[n] \in Nat /\ watch[n].repairAttempts \in Nat
    BY <1>2, <2>1 DEF TenantWatchState
  <2>6. Counted'
    BY <1>3, <2>1, <2>2, <2>3, <2>4, <2>5 DEF BudgetInv, Counted
  <2> QED BY <1>1, <2>4, <2>6 DEF BudgetInv, Judged
<1> QED BY <1>6, <1>7, <1>8, <1>9, <1>10, <1>11, <1>12 DEF LoopStep, Tick

\* The rest of the daemon has no part in it.
LEMMA RestLeaves ==
    ASSUME BootStep \/ (\E p \in Polls : PollStep(p)) \/ UNCHANGED vars
              \/ (\E n \in Names :
                     \/ SuspendStep(n) \/ ResumeStep(n) \/ TimerStep(n) \/ IdleStep(n)
                     \/ WakeStep(n) \/ ClientStep(n) \/ Command(n))
    PROVE  UNCHANGED <<tick, watch, spree>>
<1> USE DEF loopVars, sharedVars, Rest
<1>1. BootStep \/ UNCHANGED vars => UNCHANGED <<tick, watch, spree>>
  BY DEF BootStep, Boot, BootPasses, BootVisits, BootListens, vars
<1>2. (\E p \in Polls : PollStep(p)) => UNCHANGED <<tick, watch, spree>>
  BY DEF PollStep, Poll, PollStarts, PollEnds, PollPasses, PollAsks, PollListens,
         PollFindsIdle, PollFindsBusy
<1>3. ASSUME NEW n \in Names, SuspendStep(n) PROVE UNCHANGED <<tick, watch, spree>>
  BY <1>3 DEF SuspendStep, Suspend, SuspendLoads, SuspendFails, SuspendSaves, SuspendSyncs,
              SuspendListens
<1>4. ASSUME NEW n \in Names, ResumeStep(n) PROVE UNCHANGED <<tick, watch, spree>>
  BY <1>4 DEF ResumeStep, Resume, ResumeStops, ResumeLoads, ResumeFails, ResumeSaves,
              ResumeSyncs, ResumePokes
<1>5. ASSUME NEW n \in Names,
             TimerStep(n) \/ IdleStep(n) \/ WakeStep(n) \/ ClientStep(n) \/ Command(n)
      PROVE  UNCHANGED <<tick, watch, spree>>
  BY <1>5 DEF TimerStep, TimerFires, IdleStep, IdleElapses, WakeStep, WakeDue, ClientStep,
              Connects, Command, OtherSpawns, OtherSuspends, OtherResumes, OtherEvicts,
              Others
<1> QED BY <1>1, <1>2, <1>3, <1>4, <1>5

LEMMA InitBudget == Init => BudgetInv
<1> SUFFICES ASSUME Init PROVE BudgetInv
  OBVIOUS
<1>1. Counted
  BY MaxRepairAssumption
  DEF Init, StartWatch, LoopInit, Counted, InitialWatchState, Bound
<1>2. Judged
  BY DEF Init, StartWatch, LoopInit, IdleTick, TickAt, Judged
<1> QED BY <1>1, <1>2, InitPlaces DEF BudgetInv

LEMMA NextBudget == Steady /\ BudgetInv /\ [Next]_vars => BudgetInv'
<1> SUFFICES ASSUME Steady, BudgetInv, [Next]_vars PROVE BudgetInv'
  OBVIOUS
<1>1. PlaceInv'
  BY NextPlaces DEF BudgetInv
<1>2. CASE Restart
  <2>1. Counted'
    BY <1>2, MaxRepairAssumption DEF Restart, Counted, InitialWatchState, Bound
  <2>2. Judged'
    BY <1>2 DEF Restart, IdleTick, TickAt, Judged
  <2> QED BY <1>1, <2>1, <2>2 DEF BudgetInv
<1>3. CASE LoopStep
  BY <1>3, BudgetTick
<1>4. ASSUME NEW n \in Names, Cooled(n) PROVE BudgetInv'
  <2>1. watch \in [Names -> TenantWatchState] /\ watch[n] \in TenantWatchState
    BY DEF BudgetInv, PlaceInv, TypeInv, SharedTypeOK
  <2>2. /\ watch[n].cooling /\ watch' = [watch EXCEPT ![n].cooling = FALSE]
        /\ UNCHANGED <<mem, tick, spree>>
    BY <1>4 DEF Cooled, CooldownEnds
  <2>3. /\ watch'[n].state = watch[n].state
        /\ watch'[n].repairAttempts = watch[n].repairAttempts
        /\ \A m \in Names \ {n} : watch'[m] = watch[m]
    BY <2>1, <2>2 DEF TenantWatchState
  <2>4. Counted'
    BY <2>2, <2>3 DEF BudgetInv, Counted
  <2>5. tick.pc \in Visiting => Visited.name \in Names
    BY VisitedFacts DEF BudgetInv
  <2>6. Visited' = Visited
    BY <2>2 DEF Visited
  <2>7. Judged'
    BY <2>2, <2>3, <2>5, <2>6 DEF BudgetInv, Judged, Visiting
  <2> QED BY <1>1, <2>4, <2>7 DEF BudgetInv
<1>5. CASE ~LoopStep /\ ~Restart /\ ~\E n \in Names : Cooled(n)
  <2>1. UNCHANGED <<tick, watch, spree>>
    BY <1>5, RestLeaves DEF Next
  <2>2. SameNames
    BY <1>5, QuietLeaves, MemSame, PollNames, SuspendNames, ResumeNames
    DEF Next, Quiet, BudgetInv
  <2> QED BY <1>1, <2>1, <2>2, BudgetSame
<1> QED BY <1>2, <1>3, <1>4, <1>5

\* A tenant that keeps failing its checks is repaired maxRepairAttempts times, or once, and
\* not more before it passes them, is suspended or is added anew: whatever is skipped,
\* reloaded or rechecked in between.
THEOREM RepairsWithinBudget == ASSUME Steady PROVE Spec => []RepairBudget
<1>1. BudgetInv => RepairBudget
  BY DEF BudgetInv, Counted, RepairBudget, Bound
<1> QED BY <1>1, InitBudget, NextBudget, PTL DEF Spec

----
(* The mark of a suspend.                                                  *)

Reliable == "check" \notin MayFail

\* An entry that can be resumed if it says suspended.
Whole(e) == e.status = "suspended" => e.info
AllWhole(reg) == \A n \in Names : Whole(reg[n])

\* Every registry that is or may be saved or copied into memory.
Registers ==
    /\ AllWhole(disk) /\ AllWhole(tick.fresh)
    /\ \A n \in Names : AllWhole(susSnap[n]) /\ AllWhole(resSnap[n])

\* The suspend that has put a mark at place j of the list has not taken it back.
MarkedBy(n, j) == susPc[n] \in {"loading", "working", "saved"} /\ susIdx[n] = j

Marked == \A j \in DOMAIN mem : Whole(mem[j]) \/ MarkedBy(mem[j].name, j)

MarkInv ==
    /\ PlaceInv
    /\ tick.pc \notin {"rechecking", "repairing"}
    /\ Registers
    /\ Marked

LEMMA WholeEntries == Whole(Absent) /\ Whole(Active) /\ Whole(Suspended) /\ AllWhole(NoTenants)
BY DEF Whole, AllWhole, Absent, Active, Suspended, NoTenants

LEMMA WholeUpdate ==
    ASSUME NEW reg \in Registry, AllWhole(reg), NEW n, NEW e, Whole(e)
    PROVE  AllWhole([reg EXCEPT ![n] = e])
BY DEF AllWhole, Registry

LEMMA WholeTenant == ASSUME NEW n, NEW e PROVE Whole(AsTenant(n, e)) <=> Whole(e)
BY DEF Whole, AsTenant

\* A step that leaves the list and the suspends alone keeps the marks.
LEMMA MarkedSame == Marked /\ UNCHANGED <<mem, susVars>> => Marked'
BY DEF Marked, MarkedBy, susVars

\* Every step of a resume keeps the marks.
LEMMA ResumeMarks == ASSUME Steady, MarkInv, NEW n \in Names, ResumeStep(n) PROVE MarkInv'
<1>1. PlaceInv'
  BY ResumePlaces DEF MarkInv
<1>2. UNCHANGED <<tick, susPc, susIdx, susSnap>>
  BY DEF ResumeStep, Rest, Resume, ResumeStops, ResumeLoads, ResumeFails, ResumeSaves,
         ResumeSyncs, ResumePokes, susVars, loopVars
<1>3. Registers'
  <2>1. AllWhole(disk) /\ AllWhole(tick.fresh) /\ resSnap \in [Names -> Registry]
        /\ \A m \in Names : AllWhole(susSnap[m]) /\ AllWhole(resSnap[m])
    BY DEF MarkInv, Registers, PlaceInv, TypeInv, ResumeTypeOK
  <2>2. disk' = disk \/ disk' = [resSnap[n] EXCEPT ![n] = Active]
    BY DEF ResumeStep, Resume, ResumeStops, ResumeLoads, ResumeFails, ResumeSaves,
           ResumeSyncs, ResumePokes, sharedVars
  <2>3. AllWhole(disk')
    BY <2>1, <2>2, WholeEntries, WholeUpdate
  <2>4. \A m \in Names : resSnap'[m] \in {resSnap[m], disk, NoTenants}
    BY <2>1 DEF ResumeStep, Resume, ResumeStops, ResumeLoads, ResumeFails, ResumeSaves,
                ResumeSyncs, ResumePokes, EndResume
  <2>5. \A m \in Names : AllWhole(resSnap'[m])
    BY <2>1, <2>4, WholeEntries
  <2> QED BY <1>2, <2>1, <2>3, <2>5 DEF Registers
<1>4. Marked'
  <2>1. CASE UNCHANGED mem
    BY <1>2, <2>1, MarkedSame DEF MarkInv, susVars
  <2>2. CASE ~UNCHANGED mem
    <3>1. IndexOf(n) # 0 /\ mem' = [mem EXCEPT ![IndexOf(n)] = AsTenant(n, Active)]
      BY <2>2 DEF ResumeStep, Resume, ResumeStops, ResumeLoads, ResumeFails, ResumeSaves,
                  ResumeSyncs, ResumePokes, sharedVars
    <3>2. mem \in Seq(Tenant)
      BY DEF MarkInv, PlaceInv, TypeInv, SharedTypeOK
    <3>3. IndexOf(n) \in DOMAIN mem /\ AsTenant(n, Active) \in Tenant
      BY <3>1, <3>2, IndexFacts, EntryTypes
    <3>4. /\ DOMAIN mem' = DOMAIN mem /\ mem'[IndexOf(n)] = AsTenant(n, Active)
          /\ \A j \in DOMAIN mem : j # IndexOf(n) => mem'[j] = mem[j]
      BY <3>1, <3>2, <3>3, ListUpdate
    <3> QED BY <1>2, <3>4, WholeTenant, WholeEntries DEF MarkInv, Marked, MarkedBy
  <2> QED BY <2>1, <2>2
<1> QED BY <1>1, <1>2, <1>3, <1>4 DEF MarkInv

\* Every step of a suspend keeps the marks: the one it ends is its own.
LEMMA SuspendMarks == ASSUME Steady, MarkInv, NEW n \in Names, SuspendStep(n) PROVE MarkInv'
<1>1. PlaceInv'
  BY SuspendPlaces DEF MarkInv
<1>2. UNCHANGED <<tick, resPc, resSnap>>
  BY DEF SuspendStep, Rest, Suspend, SuspendLoads, SuspendFails, SuspendSaves,
         SuspendSyncs, SuspendListens, resVars, loopVars
<1>3. Registers'
  <2>1. AllWhole(disk) /\ AllWhole(tick.fresh) /\ susSnap \in [Names -> Registry]
        /\ \A m \in Names : AllWhole(susSnap[m]) /\ AllWhole(resSnap[m])
    BY DEF MarkInv, Registers, PlaceInv, TypeInv, SuspendTypeOK
  <2>2. disk' = disk \/ disk' = [susSnap[n] EXCEPT ![n] = Suspended]
    BY DEF SuspendStep, Suspend, SuspendLoads, SuspendFails, SuspendSaves, SuspendSyncs,
           SuspendListens
  <2>3. AllWhole(disk')
    BY <2>1, <2>2, WholeEntries, WholeUpdate
  <2>4. \A m \in Names : susSnap'[m] \in {susSnap[m], disk, NoTenants}
    BY <2>1 DEF SuspendStep, Suspend, SuspendLoads, SuspendFails, SuspendSaves,
                SuspendSyncs, SuspendListens, RevertMark, Throws, EndSuspend
  <2>5. \A m \in Names : AllWhole(susSnap'[m])
    BY <2>1, <2>4, WholeEntries
  <2> QED BY <1>2, <2>1, <2>3, <2>5 DEF Registers
<1>4. Marked'
  <2>0. /\ susPc \in [Names -> SuspendPc] /\ susIdx \in [Names -> Nat]
        /\ mem \in Seq(Tenant) /\ Distinct
        /\ \A j \in DOMAIN mem : mem[j].name \in Names
    BY ListedTypes DEF MarkInv, PlaceInv, TypeInv, SuspendTypeOK, SharedTypeOK
  <2>1. susPc[n] \notin {"idle", "thrown"} /\ (susIdx[n] # 0 => susIdx[n] \in DOMAIN mem)
    BY DEF SuspendStep, Suspend, SuspendLoads, SuspendFails, SuspendSaves, SuspendSyncs,
           SuspendListens, MarkInv, PlaceInv, Aligned
  <2>2. ~(susIdx[n] > Len(mem))
    BY <2>0, <2>1
  <2>3. \A m \in Names \ {n} : UNCHANGED <<susPc[m], susIdx[m]>>
    BY <2>0 DEF SuspendStep, Suspend, SuspendLoads, SuspendFails, SuspendSaves,
                SuspendSyncs, SuspendListens, RevertMark, Throws, EndSuspend
  <2>4. \/ UNCHANGED mem /\ susIdx'[n] = susIdx[n] /\ susPc'[n] \in {"working", "saved"}
        \/ UNCHANGED mem /\ (susIdx[n] = 0 \/ susPc[n] = "listening")
        \/ susIdx[n] # 0 /\ mem' = [mem EXCEPT ![susIdx[n]].status = "active"]
        \/ susIdx[n] # 0 /\ mem' = [mem EXCEPT ![susIdx[n]] = AsTenant(n, Suspended)]
    <3>1. RevertMark(n) =>
             \/ UNCHANGED mem /\ susIdx[n] = 0
             \/ susIdx[n] # 0 /\ mem' = [mem EXCEPT ![susIdx[n]].status = "active"]
      BY <2>2 DEF RevertMark
    <3>2. CASE SuspendLoads(n)
      BY <2>0, <3>1, <3>2 DEF SuspendLoads
    <3>3. CASE SuspendFails(n)
      BY <3>1, <3>3 DEF SuspendFails
    <3>4. CASE SuspendSaves(n)
      BY <2>0, <3>4 DEF SuspendSaves
    <3>5. CASE SuspendSyncs(n)
      BY <2>2, <3>5 DEF SuspendSyncs
    <3>6. CASE SuspendListens(n)
      BY <3>6 DEF SuspendListens, Throws
    <3> QED BY <3>2, <3>3, <3>4, <3>5, <3>6 DEF SuspendStep, Suspend
  <2>5. CASE UNCHANGED mem /\ susIdx'[n] = susIdx[n] /\ susPc'[n] \in {"working", "saved"}
    BY <2>0, <2>3, <2>5 DEF MarkInv, Marked, MarkedBy
  <2>6. CASE UNCHANGED mem /\ (susIdx[n] = 0 \/ susPc[n] = "listening")
    BY <2>0, <2>3, <2>6 DEF MarkInv, Marked, MarkedBy
  <2>7. ASSUME susIdx[n] # 0,
               \/ mem' = [mem EXCEPT ![susIdx[n]].status = "active"]
               \/ mem' = [mem EXCEPT ![susIdx[n]] = AsTenant(n, Suspended)]
        PROVE  Marked'
    <3>1. susIdx[n] \in DOMAIN mem /\ "active" \in Status /\ AsTenant(n, Suspended) \in Tenant
      BY <2>1, <2>7, EntryTypes DEF Status
    <3>2. /\ DOMAIN mem' = DOMAIN mem
          /\ \A j \in DOMAIN mem : j # susIdx[n] => mem'[j] = mem[j]
          /\ Whole(mem'[susIdx[n]])
      <4>1. CASE mem' = [mem EXCEPT ![susIdx[n]].status = "active"]
        <5>1. mem[susIdx[n]] \in Tenant
          BY <2>0, <3>1
        <5>2. [mem[susIdx[n]] EXCEPT !.status = "active"].status = "active"
          BY <5>1 DEF Tenant
        <5> QED BY <2>0, <3>1, <4>1, <5>2, StatusTypes DEF Whole
      <4>2. CASE mem' = [mem EXCEPT ![susIdx[n]] = AsTenant(n, Suspended)]
        BY <2>0, <3>1, <4>2, ListUpdate, WholeTenant, WholeEntries
      <4> QED BY <2>7, <4>1, <4>2
    <3> QED BY <2>0, <2>3, <3>2 DEF MarkInv, Marked, MarkedBy
  <2> QED BY <2>4, <2>5, <2>6, <2>7
<1> QED BY <1>1, <1>2, <1>3, <1>4 DEF MarkInv

\* A poll puts a mark where the suspend it starts will find it.
LEMMA PollMarks == ASSUME Steady, MarkInv, NEW p \in Polls, PollStep(p) PROVE MarkInv'
<1>1. PlaceInv'
  BY PollPlaces DEF MarkInv
<1>2. UNCHANGED <<disk, tick, resPc, resSnap, susSnap>>
  BY DEF PollStep, Rest, Poll, PollStarts, PollEnds, PollPasses, PollAsks, PollListens,
         PollFindsIdle, PollFindsBusy, TriggerSuspend, susVars, resVars, loopVars,
         sharedVars
<1>3. Registers'
  BY <1>2 DEF MarkInv, Registers
<1>4. Marked'
  <2>1. CASE UNCHANGED <<mem, susVars>>
    BY <2>1, MarkedSame DEF MarkInv
  <2>2. CASE ~UNCHANGED <<mem, susVars>>
    <3> DEFINE n == poll[p].name
    <3>1. PollFindsIdle(p) /\ TriggerSuspend(n) /\ n \notin inFlight
      BY <2>2 DEF PollStep, Poll, PollStarts, PollEnds, PollPasses, PollAsks, PollListens,
                  PollFindsIdle, PollFindsBusy, TriggerSuspend, sharedVars, susVars
    <3>2. n \in Names
      BY <3>1 DEF PollFindsIdle, MarkInv, PlaceInv, TypeInv, VisitTypeOK
    <3>3. /\ susPc' = [susPc EXCEPT ![n] = "loading"]
          /\ susIdx' = [susIdx EXCEPT ![n] = IndexOf(n)]
          /\ mem' = IF IndexOf(n) = 0 THEN mem
                    ELSE [mem EXCEPT ![IndexOf(n)].status = "suspended"]
      BY <3>1 DEF TriggerSuspend
    <3>4. /\ susPc \in [Names -> SuspendPc] /\ susIdx \in [Names -> Nat]
          /\ mem \in Seq(Tenant)
          /\ \A j \in DOMAIN mem : mem[j].name \in Names
      BY ListedTypes DEF MarkInv, PlaceInv, TypeInv, SuspendTypeOK, SharedTypeOK
    <3>5. susPc[n] = "idle"
      BY <3>1, <3>2 DEF MarkInv, PlaceInv, OpInv, OneOperationAtATime, Suspending
    <3>6. ASSUME NEW j \in DOMAIN mem, j # IndexOf(n)
          PROVE  Whole(mem[j]) \/ MarkedBy(mem[j].name, j)'
      BY <3>2, <3>3, <3>4, <3>5 DEF MarkInv, Marked, MarkedBy
    <3>7. CASE IndexOf(n) = 0
      <4>1. mem' = mem
        BY <3>3, <3>7
      <4>2. 0 \notin DOMAIN mem
        BY <3>4
      <4> QED BY <3>6, <3>7, <4>1, <4>2 DEF Marked, MarkedBy
    <3>8. CASE IndexOf(n) # 0
      <4>1. /\ IndexOf(n) \in DOMAIN mem /\ mem[IndexOf(n)].name = n
            /\ "suspended" \in Status
        BY <3>4, <3>8, IndexFacts DEF Status
      <4>2. /\ DOMAIN mem' = DOMAIN mem
            /\ mem'[IndexOf(n)] = [mem[IndexOf(n)] EXCEPT !.status = "suspended"]
            /\ \A j \in DOMAIN mem : j # IndexOf(n) => mem'[j] = mem[j]
        BY <3>3, <3>4, <3>8, <4>1, StatusTypes
      <4>3. mem[IndexOf(n)] \in Tenant
        BY <3>4, <4>1
      <4>4. mem'[IndexOf(n)].name = n
        BY <4>1, <4>2, <4>3 DEF Tenant
      <4>5. susPc'[n] = "loading" /\ susIdx'[n] = IndexOf(n)
        BY <3>2, <3>3, <3>4
      <4> QED BY <3>6, <4>2, <4>4, <4>5 DEF Marked, MarkedBy
    <3> QED BY <3>7, <3>8
  <2> QED BY <2>1, <2>2
<1> QED BY <1>1, <1>2, <1>3, <1>4 DEF MarkInv

\* A registry a command saves is whole.
LEMMA QuietMarks == ASSUME Steady, MarkInv, Quiet PROVE MarkInv'
<1>1. PlaceInv' /\ UNCHANGED <<mem, susVars, tick>>
  BY QuietPlaces, QuietLeaves DEF MarkInv
<1>2. AllWhole(disk) /\ disk \in Registry
  BY DEF MarkInv, Registers, PlaceInv, TypeInv, SharedTypeOK
<1>3. AllWhole(disk')
  <2>1. ASSUME NEW n \in Names, Command(n) PROVE AllWhole(disk')
    <3>1. Whole([disk[n] EXCEPT !.status = "removing"])
      BY <1>2 DEF Registry, Entry, Whole
    <3>2. PICK e : Whole(e) /\ disk' = [disk EXCEPT ![n] = e]
      BY <2>1, <3>1, WholeEntries
      DEF Command, OtherSpawns, OtherSuspends, OtherResumes, OtherEvicts
    <3> QED BY <1>2, <3>2, WholeUpdate
  <2>2. ASSUME ~\E n \in Names : Command(n) PROVE disk' = disk
    <3>1. (BootStep \/ UNCHANGED vars) => disk' = disk
      BY DEF BootStep, Boot, BootPasses, BootVisits, BootListens, vars, sharedVars
    <3>2. ASSUME NEW n \in Names,
                 Cooled(n) \/ TimerStep(n) \/ IdleStep(n) \/ WakeStep(n) \/ ClientStep(n)
          PROVE  disk' = disk
      BY <3>2 DEF Cooled, CooldownEnds, TimerStep, TimerFires, IdleStep, IdleElapses,
                  WakeStep, WakeDue, ClientStep, Connects, sharedVars
    <3> QED BY <2>2, <3>1, <3>2 DEF Quiet
  <2> QED BY <1>2, <2>1, <2>2
<1>4. resSnap' = resSnap
  <2>1. ASSUME NEW n, NEW cron, NEW has, NEW heard, TriggerResume(n, cron, has, heard)
        PROVE  resSnap' = resSnap
    BY <2>1 DEF TriggerResume, resVars
  <2>2. (BootStep \/ UNCHANGED vars) => resSnap' = resSnap
    BY <2>1 DEF BootStep, Boot, BootPasses, BootVisits, BootListens, ScheduleWake, vars,
                schedVars, resVars
  <2>3. ASSUME NEW n \in Names,
               \/ Cooled(n) \/ TimerStep(n) \/ IdleStep(n) \/ WakeStep(n) \/ ClientStep(n)
               \/ Command(n)
        PROVE  resSnap' = resSnap
    BY <2>1, <2>3
    DEF Cooled, CooldownEnds, TimerStep, TimerFires, IdleStep, IdleElapses, WakeStep,
        WakeDue, ClientStep, Connects, Command, OtherSpawns, OtherSuspends, OtherResumes,
        OtherEvicts, Others, schedVars, resVars
  <2> QED BY <2>2, <2>3 DEF Quiet
<1>5. Marked'
  BY <1>1, MarkedSame DEF MarkInv
<1> QED BY <1>1, <1>3, <1>4, <1>5 DEF MarkInv, Registers, susVars

\* Bringing the list up to date keeps the marks: what it assigns is whole, and a tenant
\* that carries a mark is in flight, so that nothing is assigned to it or moves it.
LEMMA SyncMarks == ASSUME Steady, MarkInv, LoopStep, TickSyncs PROVE Marked'
<1> DEFINE fresh == IF FreshReads THEN disk ELSE tick.fresh
<1>1. fresh \in Registry /\ AllWhole(fresh)
  BY DEF MarkInv, Registers, PlaceInv, TypeInv, SharedTypeOK, LoopTypeOK
<1>2. PICK left \in InOrder(Kept(fresh)), new \in SetToSeqs(Added(fresh)) :
           mem' = [k \in DOMAIN left |-> Updated(fresh)[left[k]]]
                  \o [k \in DOMAIN new |-> AsTenant(new[k], fresh[new[k]])]
  BY DEF TickSyncs
<1>3. UNCHANGED susVars
  BY TickLeaves DEF schedVars
<1>4. Settled => Lists(fresh)
  BY DEF MarkInv, PlaceInv, Fixed, TickSyncs
<1>5. mem \in Seq(Tenant) /\ \A j \in DOMAIN mem : mem[j].name \in Names
  BY ListedTypes DEF MarkInv, PlaceInv, TypeInv, SharedTypeOK
<1> HIDE DEF fresh
<1>6. ASSUME NEW j \in DOMAIN mem, ~Whole(Updated(fresh)[j])
      PROVE  Updated(fresh)[j] = mem[j] /\ ~Whole(mem[j])
  <2>1. \/ Updated(fresh)[j] = mem[j]
        \/ Updated(fresh)[j] = AsTenant(mem[j].name, fresh[mem[j].name])
    BY <1>1, <1>5, UpdatedFacts
  <2>2. Whole(AsTenant(mem[j].name, fresh[mem[j].name]))
    BY <1>1, <1>5, WholeTenant DEF AllWhole
  <2> QED BY <1>6, <2>1, <2>2
<1>7. CASE \E j \in DOMAIN mem : ~Whole(mem[j])
  <2>1. PICK i \in DOMAIN mem : ~Whole(mem[i])
    BY <1>7
  <2>2. susPc[mem[i].name] # "idle" /\ mem[i].name \in Names /\ mem[i].name \in Listed
    BY <1>5, <2>1 DEF MarkInv, Marked, MarkedBy, Listed
  <2>3. mem[i].name \in inFlight
    BY <2>2 DEF MarkInv, PlaceInv, OpInv, OneOperationAtATime, Suspending
  <2>4. Kept(fresh) = DOMAIN mem /\ Added(fresh) = {}
    BY <1>1, <1>4, <2>2, <2>3, AllStay, SoleStays DEF MarkInv, Steady
  <2>5. SameNames /\ \A j \in DOMAIN mem : mem'[j] = Updated(fresh)[j]
    BY <1>1, <1>2, <2>4, SyncStays DEF MarkInv
  <2>6. ASSUME NEW j \in DOMAIN mem, ~Whole(mem'[j]) PROVE MarkedBy(mem[j].name, j)'
    BY <1>3, <1>6, <2>5, <2>6 DEF MarkInv, Marked, MarkedBy, susVars
  <2> QED BY <2>5, <2>6 DEF Marked, SameNames
<1>8. CASE \A j \in DOMAIN mem : Whole(mem[j])
  <2>1. /\ mem' \in Seq(Tenant)
        /\ \A k \in 1..Len(left) :
              left[k] \in Kept(fresh) /\ mem'[k] = Updated(fresh)[left[k]]
        /\ \A k \in 1..Len(mem') \ 1..Len(left) :
              /\ k - Len(left) \in DOMAIN new /\ new[k - Len(left)] \in Added(fresh)
              /\ mem'[k] = AsTenant(new[k - Len(left)], fresh[new[k - Len(left)]])
    BY <1>1, <1>2, <1>5, SyncFacts
  <2>2. \A k \in 1..Len(left) : Whole(mem'[k])
    BY <1>6, <1>8, <2>1 DEF Kept
  <2>3. ASSUME NEW k \in 1..Len(mem') \ 1..Len(left) PROVE Whole(mem'[k])
    <3>1. PICK m \in Added(fresh) : mem'[k] = AsTenant(m, fresh[m])
      BY <2>1
    <3>2. Whole(fresh[m])
      BY <1>1 DEF Added, AllWhole
    <3> QED BY <3>1, <3>2, WholeTenant
  <2>4. DOMAIN mem' = 1..Len(mem')
    BY <2>1
  <2> QED BY <2>2, <2>3, <2>4 DEF Marked
<1> QED BY <1>7, <1>8

\* Every step of a tick keeps the marks, when no check fails.
LEMMA TickMarks == ASSUME Steady, Reliable, MarkInv, LoopStep PROVE MarkInv'
<1>1. PlaceInv'
  BY TickPlaces DEF MarkInv
<1>2. UNCHANGED <<susVars, resSnap>>
  BY TickLeaves DEF schedVars, resVars
<1>3. tick.pc \notin {"rechecking", "repairing"}
  BY DEF MarkInv
<1>4. ASSUME NEW allOk \in BOOLEAN, TickChecks(allOk) PROVE NextTenant
  BY <1>4 DEF TickChecks, Reliable, NeedsRepair
<1>5. UNCHANGED disk
  BY <1>3 DEF LoopStep, Tick, TickReads, TickSyncs, TickLoadFails, TickEnds, TickSkips,
              TickSeesSuspended, TickBeginsChecks, TickChecks, TickRechecks, TickRepairs,
              sharedVars
<1>6. tick \in [pc : TickPc, i : Nat, fresh : Registry, current : TenantWatchState]
  BY DEF MarkInv, PlaceInv, TypeInv, LoopTypeOK
<1>7. /\ tick'.pc \notin {"rechecking", "repairing"}
      /\ tick'.fresh \in {tick.fresh, disk, NoTenants}
  <2>1. CASE TickReads
    BY <1>6, <2>1 DEF TickReads
  <2>2. CASE TickBeginsChecks
    BY <1>6, <2>2 DEF TickBeginsChecks
  <2>3. CASE ~TickReads /\ ~TickBeginsChecks
    <3>1. \E at \in {"idle", "loop"} : \E i : tick' = TickAt(at, i)
      BY <1>3, <1>4, <2>3
      DEF LoopStep, Tick, TickSyncs, TickLoadFails, TickEnds, TickSkips,
          TickSeesSuspended, TickRechecks, TickRepairs, NextTenant, IdleTick
    <3> QED BY <3>1 DEF TickAt
  <2> QED BY <2>1, <2>2, <2>3
<1>8. Registers'
  BY <1>2, <1>5, <1>7, WholeEntries DEF MarkInv, Registers, susVars
<1>9. Marked'
  <2>1. CASE TickSyncs
    BY <2>1, SyncMarks
  <2>2. CASE ~TickSyncs
    <3>1. UNCHANGED mem
      BY <1>3, <2>2
      DEF LoopStep, Tick, TickReads, TickLoadFails, TickEnds, TickSkips, TickSeesSuspended,
          TickBeginsChecks, TickChecks, TickRechecks, TickRepairs, sharedVars
    <3> QED BY <1>2, <3>1, MarkedSame DEF MarkInv
  <2> QED BY <2>1, <2>2
<1> QED BY <1>1, <1>7, <1>8, <1>9 DEF MarkInv

\* A registry the watchdog starts from lists whole tenants.
LEMMA WholeListing ==
    ASSUME NEW reg \in Registry, AllWhole(reg), NEW list \in Listings(reg)
    PROVE  \A j \in DOMAIN list : Whole(list[j])
<1> DEFINE P == {n \in Names : reg[n].status # "absent"}
<1>1. PICK order \in SetToSeqs(P) : list = [i \in DOMAIN order |-> AsTenant(order[i],
                                                                         reg[order[i]])]
  BY DEF Listings
<1>2. IsFiniteSet(P)
  BY NamesAssumption, FS_Subset
<1>3. \A i \in DOMAIN order : order[i] \in Names
  BY <1>2, OrderFacts
<1> QED BY <1>1, <1>3, WholeTenant DEF AllWhole

LEMMA InitMarks == Init => MarkInv
<1> SUFFICES ASSUME Init PROVE MarkInv
  OBVIOUS
<1>1. disk \in Registry /\ mem \in Listings(disk)
  BY InitTypes DEF TypeInv, SharedTypeOK, Init, StartWatch
<1>2. AllWhole(disk)
  BY WholeEntries DEF Init, AllWhole
<1>3. Registers
  BY <1>2, WholeEntries
  DEF Init, StartWatch, LoopInit, IdleTick, TickAt, SchedulerInit, Registers
<1>4. Marked
  BY <1>1, <1>2, WholeListing DEF Marked
<1>5. tick.pc = "idle"
  BY DEF Init, StartWatch, LoopInit, IdleTick, TickAt
<1> QED BY <1>3, <1>4, <1>5, InitPlaces DEF MarkInv

LEMMA NextMarks == Steady /\ Reliable /\ MarkInv /\ [Next]_vars => MarkInv'
<1> SUFFICES ASSUME Steady, Reliable, MarkInv, [Next]_vars PROVE MarkInv'
  OBVIOUS
<1>1. CASE Restart
  <2>1. disk \in Registry /\ mem' \in Listings(disk) /\ AllWhole(disk) /\ disk' = disk
    BY <1>1 DEF Restart, MarkInv, Registers, PlaceInv, TypeInv, SharedTypeOK
  <2>2. Registers'
    BY <1>1, <2>1, WholeEntries DEF Restart, IdleTick, TickAt, SchedulerRestarts, Registers
  <2>3. Marked'
    BY <2>1, WholeListing DEF Marked
  <2>4. tick'.pc = "idle"
    BY <1>1 DEF Restart, IdleTick, TickAt
  <2> QED BY <1>1, <2>2, <2>3, <2>4, RestartPlaces DEF MarkInv
<1>2. CASE LoopStep
  BY <1>2, TickMarks
<1>3. CASE Quiet
  BY <1>3, QuietMarks
<1>4. CASE \E p \in Polls : PollStep(p)
  BY <1>4, PollMarks
<1>5. CASE \E n \in Names : SuspendStep(n) \/ ResumeStep(n)
  BY <1>5, SuspendMarks, ResumeMarks
<1> QED BY <1>1, <1>2, <1>3, <1>4, <1>5 DEF Next, Quiet

\* A mark does not outlive the suspend that put it, whatever commands save meanwhile and
\* wherever reads, suspends and resumes fail, as long as the list is steady. Checks must
\* not fail: a repair saves the list, marks included.
THEOREM MarksAreTemporary == ASSUME Steady, Reliable PROVE Spec => []MarkIsTemporary
<1>1. MarkInv => MarkIsTemporary
  <2> SUFFICES ASSUME MarkInv, NEW j \in DOMAIN mem, mem[j].status = "suspended",
                      mem[j].name \notin inFlight
               PROVE  mem[j].info
    BY DEF MarkIsTemporary
  <2>1. mem[j].name \in Names
    BY ListedTypes DEF MarkInv, PlaceInv, TypeInv, SharedTypeOK
  <2>2. susPc[mem[j].name] = "idle"
    BY <2>1 DEF MarkInv, PlaceInv, OpInv, OneOperationAtATime, Suspending
  <2> QED BY <2>2 DEF MarkInv, Marked, MarkedBy, Whole
<1> QED BY <1>1, InitMarks, NextMarks, PTL DEF Spec

----
(* What activates a suspended tenant.                                      *)

\* One tenant and no more than two polls at a time, no suspend or resume command beside the
\* daemon, and the registry can be read before a repair.
Alone ==
    /\ Sole
    /\ \A p, q, r \in Polls : p = q \/ q = r \/ p = r
    /\ "recheck" \notin MayFail
    /\ Cli \cap {"suspend", "resume"} = {}

\* Polls that wait for the agent's answer: at most one, or none unless the idle clock stands.
AsksAlone == \A p, q \in Polls : poll[p].pc = "asking" /\ poll[q].pc = "asking" => p = q
Calm(n) == idle[n] = "none" \/ \A p \in Polls : poll[p].pc # "asking"

\* Until a suspend is known to have worked or failed, the list does not call the tenant
\* active; one that is not listed is not visited.
Masked ==
    \A n \in Names : susPc[n] \in {"loading", "working", "saved"} =>
        IF susIdx[n] = 0 THEN tick.pc \notin Visiting ELSE mem[susIdx[n]].status # "active"

\* At most one poll asks the agent of a tenant that is being suspended.
AsksOne == \A n \in Names : susPc[n] # "idle" => AsksAlone

\* A repair that outlives the suspend of its tenant saves no active entry for it, and
\* nothing is under way that would make the entry active.
SavesMasked ==
    \A n \in Names : tick.pc = "repairing" /\ disk[n] = Suspended =>
        /\ Visited.status # "active"
        /\ susPc[n] \notin {"loading", "working"}
        /\ AsksAlone /\ (susPc[n] = "idle" => Calm(n))
        /\ resPc[n] \notin {"saved", "poking"}

ActInv == PlaceInv /\ Masked /\ AsksOne /\ SavesMasked

LEMMA SoleEntry ==
    ASSUME PlaceInv, Sole, NEW j \in DOMAIN mem, NEW k \in DOMAIN mem, NEW n \in Names
    PROVE  j = k /\ mem[j].name = n
<1>1. mem[j].name \in Names /\ mem[k].name \in Names
  BY ListedTypes DEF PlaceInv, TypeInv, SharedTypeOK
<1> QED BY <1>1 DEF PlaceInv, Distinct, Sole

\* A step that starts nothing and suspends nobody keeps the invariant.
LEMMA ActSame ==
    ASSUME ActInv, PlaceInv', UNCHANGED <<mem, susVars, tick>>,
           \A p \in Polls : poll'[p].pc = "asking" => poll[p].pc = "asking",
           AsksAlone => \A n \in Names : Calm(n) => Calm(n)',
           \A n \in Names : disk'[n] = Suspended => disk[n] = Suspended,
           \A n \in Names : resPc'[n] \in {"saved", "poking"} =>
                               resPc[n] \in {"saved", "poking"}
    PROVE  ActInv'
<1>1. Visited' = Visited
  BY DEF Visited
<1>2. Masked' /\ AsksOne'
  BY DEF ActInv, Masked, AsksOne, AsksAlone, susVars
<1>3. ASSUME NEW n \in Names, tick'.pc = "repairing", disk'[n] = Suspended
      PROVE  /\ Visited'.status # "active" /\ susPc'[n] \notin {"loading", "working"}
             /\ AsksAlone' /\ (susPc'[n] = "idle" => Calm(n)')
             /\ resPc'[n] \notin {"saved", "poking"}
  <2>1. tick.pc = "repairing" /\ disk[n] = Suspended
    BY <1>3
  <2>2. AsksAlone /\ (susPc[n] = "idle" => Calm(n))
    BY <2>1 DEF ActInv, SavesMasked
  <2>3. AsksAlone'
    BY <2>2 DEF AsksAlone
  <2> QED BY <1>1, <2>1, <2>2, <2>3 DEF ActInv, SavesMasked, susVars
<1> QED BY <1>2, <1>3 DEF ActInv, SavesMasked

\* Start-up, clients, timers and the commands that are left.
LEMMA QuietActs == ASSUME Alone, ActInv, Quiet PROVE ActInv'
<1>1. PlaceInv' /\ UNCHANGED <<mem, susVars, tick>>
  BY QuietPlaces, QuietLeaves DEF ActInv
<1>2. poll' = poll
  <2>1. (BootStep \/ UNCHANGED vars) => poll' = poll
    BY DEF BootStep, Boot, BootPasses, BootVisits, BootListens, vars, schedVars
  <2>2. ASSUME NEW n \in Names,
               \/ Cooled(n) \/ TimerStep(n) \/ IdleStep(n) \/ WakeStep(n) \/ ClientStep(n)
               \/ Command(n)
        PROVE  poll' = poll
    BY <2>2 DEF Cooled, CooldownEnds, TimerStep, TimerFires, IdleStep, IdleElapses,
                WakeStep, WakeDue, ClientStep, Connects, Command, OtherSpawns,
                OtherSuspends, OtherResumes, OtherEvicts, Others, schedVars
  <2> QED BY <2>1, <2>2 DEF Quiet
<1>3. ASSUME NEW n \in Names, disk'[n] = Suspended PROVE disk[n] = Suspended
  <2>1. ASSUME NEW m \in Names, Command(m) PROVE disk[n] = Suspended
    <3>1. disk \in [Names -> Entry]
      BY DEF ActInv, PlaceInv, TypeInv, SharedTypeOK, Registry
    <3>2. PICK e : disk' = [disk EXCEPT ![m] = e] /\ e.status # "suspended"
      <4>1. OtherSpawns(m) \/ OtherEvicts(m)
        BY <2>1 DEF Command, Alone, OtherSuspends, OtherResumes
      <4>2. [disk[m] EXCEPT !.status = "removing"].status = "removing"
        BY <3>1 DEF Entry
      <4> QED BY <4>1, <4>2 DEF OtherSpawns, OtherEvicts, Active, Absent
    <3> QED BY <1>3, <3>1, <3>2 DEF Suspended
  <2>2. (BootStep \/ UNCHANGED vars) => disk' = disk
    BY DEF BootStep, Boot, BootPasses, BootVisits, BootListens, vars, sharedVars
  <2>3. ASSUME NEW m \in Names,
               Cooled(m) \/ TimerStep(m) \/ IdleStep(m) \/ WakeStep(m) \/ ClientStep(m)
        PROVE  disk' = disk
    BY <2>3 DEF Cooled, CooldownEnds, TimerStep, TimerFires, IdleStep, IdleElapses,
                WakeStep, WakeDue, ClientStep, Connects, sharedVars
  <2> QED BY <1>3, <2>1, <2>2, <2>3 DEF Quiet
<1>4. \A n \in Names : resPc'[n] \in {"saved", "poking"} => resPc[n] \in {"saved", "poking"}
  BY QuietResumes DEF ActInv
<1>5. ASSUME NEW n \in Names, Calm(n) PROVE Calm(n)'
  <2>1. CASE UNCHANGED idle
    BY <1>2, <1>5, <2>1 DEF Calm
  <2>2. CASE \E m \in Names : IdleStep(m)
    BY <1>2, <1>5, <2>2 DEF Calm, IdleStep, IdleElapses
  <2>3. ASSUME NEW m \in Names,
               Cooled(m) \/ TimerStep(m) \/ WakeStep(m) \/ ClientStep(m) \/ Command(m)
        PROVE  UNCHANGED idle
    BY <2>3 DEF Cooled, CooldownEnds, TimerStep, TimerFires, WakeStep, WakeDue, ClientStep,
                Connects, Command, OtherSpawns, OtherSuspends, OtherResumes, OtherEvicts,
                Others, schedVars
  <2>4. BootStep \/ UNCHANGED vars => UNCHANGED idle
    BY DEF BootStep, Boot, BootPasses, BootVisits, BootListens, vars, schedVars
  <2> QED BY <2>1, <2>2, <2>3, <2>4 DEF Quiet
<1> QED BY <1>1, <1>2, <1>3, <1>4, <1>5, ActSame

\* A resume makes the entry active only when no repair could save it unseen.
LEMMA ResumeActs == ASSUME Alone, ActInv, NEW n \in Names, ResumeStep(n) PROVE ActInv'
<1>1. PlaceInv' /\ SameNames
  BY ResumePlaces, ResumeNames DEF ActInv
<1>2. UNCHANGED <<tick, poll, susPc, susIdx, susVars>>
  BY DEF ResumeStep, Rest, Resume, ResumeStops, ResumeLoads, ResumeFails, ResumeSaves,
         ResumeSyncs, ResumePokes, susVars, loopVars
<1>3. resPc[n] # "idle" /\ resPc \in [Names -> ResumePc]
  BY DEF ResumeStep, Resume, ResumeStops, ResumeLoads, ResumeFails, ResumeSaves,
         ResumeSyncs, ResumePokes, ActInv, PlaceInv, TypeInv, ResumeTypeOK
<1>4. \A m \in Names : m = n
  BY DEF Alone, Sole
<1>5. susPc[n] = "idle"
  BY <1>3 DEF ActInv, PlaceInv, OpInv, OneOperationAtATime, Suspending, Resuming
<1>6. Masked' /\ AsksOne'
  BY <1>2, <1>4, <1>5 DEF Masked, AsksOne
<1>7. CASE ResumeSaves(n)
  <2>1. resSnap[n] \in [Names -> Entry]
    BY DEF ActInv, PlaceInv, TypeInv, ResumeTypeOK, Registry
  <2>2. disk'[n] = Active
    BY <1>7, <2>1 DEF ResumeSaves
  <2>3. SavesMasked'
    BY <1>4, <2>2 DEF SavesMasked, Active, Suspended
  <2> QED BY <1>1, <1>6, <2>3 DEF ActInv
<1>8. CASE ResumeSyncs(n) \/ ResumePokes(n)
  <2>1. resPc[n] \in {"saved", "poking"} /\ disk' = disk
    BY <1>8 DEF ResumeSyncs, ResumePokes
  <2>2. SavesMasked'
    BY <1>2, <1>4, <2>1 DEF ActInv, SavesMasked
  <2> QED BY <1>1, <1>6, <2>2 DEF ActInv
<1>9. CASE ~ResumeSaves(n) /\ ~ResumeSyncs(n) /\ ~ResumePokes(n)
  <2>1. UNCHANGED <<disk, mem, idle>> /\ resPc'[n] \notin {"saved", "poking"}
    BY <1>3, <1>9 DEF ResumeStep, Resume, ResumeStops, ResumeLoads, ResumeFails,
                      EndResume, sharedVars
  <2> QED BY <1>1, <1>2, <1>4, <2>1, ActSame DEF Calm
<1> QED BY <1>7, <1>8, <1>9

\* A suspend takes its mark back only before the registry says suspended.
LEMMA SuspendActs == ASSUME Alone, ActInv, NEW n \in Names, SuspendStep(n) PROVE ActInv'
<1>1. PlaceInv'
  BY SuspendPlaces DEF ActInv
<1>2. UNCHANGED <<tick, poll, resPc>>
  BY DEF SuspendStep, Rest, Suspend, SuspendLoads, SuspendFails, SuspendSaves,
         SuspendSyncs, SuspendListens, resVars, loopVars
<1>3. /\ susPc[n] # "idle" /\ susPc \in [Names -> SuspendPc]
      /\ susPc[n] \notin {"idle", "thrown"}
  BY DEF SuspendStep, Suspend, SuspendLoads, SuspendFails, SuspendSaves, SuspendSyncs,
         SuspendListens, ActInv, PlaceInv, TypeInv, SuspendTypeOK
<1>4. \A m \in Names : m = n
  BY DEF Alone, Sole
<1>5. resPc[n] = "idle" /\ AsksAlone
  BY <1>3 DEF ActInv, PlaceInv, OpInv, OneOperationAtATime, Suspending, Resuming, AsksOne
<1>6. AsksOne' /\ AsksAlone'
  BY <1>2, <1>5 DEF AsksOne, AsksAlone
<1>7. susIdx[n] # 0 => susIdx[n] \in DOMAIN mem
  BY <1>3 DEF ActInv, PlaceInv, Aligned
<1>8. tick.pc = "repairing" => tick.i \in DOMAIN mem
  BY VisitedFacts DEF ActInv, Visiting
<1>9. CASE SuspendSaves(n)
  <2>1. /\ UNCHANGED <<mem, susIdx>> /\ susPc[n] = "working" /\ susPc'[n] = "saved"
    BY <1>3, <1>9 DEF SuspendSaves
  <2>2. Masked'
    BY <1>2, <1>4, <2>1 DEF ActInv, Masked
  <2>3. ASSUME tick.pc = "repairing" PROVE Visited.status # "active"
    <3>1. susIdx[n] # 0 /\ mem[susIdx[n]].status # "active"
      BY <2>1, <2>3 DEF ActInv, Masked, Visiting
    <3>2. tick.i = susIdx[n]
      BY <1>7, <1>8, <2>3, <3>1, SoleEntry DEF ActInv, Alone
    <3> QED BY <3>1, <3>2 DEF Visited
  <2>4. SavesMasked'
    BY <1>2, <1>4, <1>5, <1>6, <2>1, <2>3 DEF SavesMasked, Visited
  <2> QED BY <1>1, <1>6, <2>2, <2>4 DEF ActInv
<1>10. CASE SuspendLoads(n) /\ disk[n].status = "active"
  <2>1. /\ UNCHANGED <<mem, susIdx, disk>> /\ susPc[n] = "loading" /\ susPc'[n] = "working"
    BY <1>3, <1>10 DEF SuspendLoads
  <2>2. Masked'
    BY <1>2, <1>4, <2>1 DEF ActInv, Masked
  <2>3. SavesMasked'
    BY <1>4, <1>10, <2>1 DEF SavesMasked, Suspended
  <2> QED BY <1>1, <1>6, <2>2, <2>3 DEF ActInv
<1>11. ASSUME RevertMark(n), susPc[n] \in {"loading", "working"}, UNCHANGED disk
       PROVE  ActInv'
  <2>1. susPc'[n] \in {"idle", "thrown"}
    BY <1>3, <1>11 DEF RevertMark, Throws, EndSuspend
  <2>2. Masked'
    BY <1>4, <2>1 DEF Masked
  <2>3. SavesMasked'
    BY <1>2, <1>4, <1>11 DEF ActInv, SavesMasked
  <2> QED BY <1>1, <1>6, <2>2, <2>3 DEF ActInv
<1>12. ASSUME SuspendSyncs(n) \/ SuspendListens(n) PROVE ActInv'
  <2>1. susPc'[n] \in {"idle", "thrown", "listening"} /\ UNCHANGED disk
    BY <1>3, <1>12 DEF SuspendSyncs, SuspendListens, Throws, EndSuspend
  <2>6. susPc'[n] = "idle" => Calm(n)'
    <3>1. EndSuspend(n) => Calm(n)'
      BY DEF EndSuspend, Calm, ActInv, PlaceInv, TypeInv, MapTypeOK
    <3> QED BY <1>3, <1>12, <3>1 DEF SuspendSyncs, SuspendListens, Throws
  <2>2. Masked'
    BY <1>4, <2>1 DEF Masked
  <2>3. \/ UNCHANGED mem
        \/ susIdx[n] # 0 /\ mem' = [mem EXCEPT ![susIdx[n]] = AsTenant(n, Suspended)]
    BY <1>12 DEF SuspendSyncs, SuspendListens, Throws
  <2>4. ASSUME tick.pc = "repairing", Visited.status # "active"
        PROVE  Visited'.status # "active"
    <3>1. CASE UNCHANGED mem
      BY <1>2, <2>4, <3>1 DEF Visited
    <3>2. CASE susIdx[n] # 0 /\ mem' = [mem EXCEPT ![susIdx[n]] = AsTenant(n, Suspended)]
      <4>1. tick.i = susIdx[n] /\ mem \in Seq(Tenant)
        BY <1>7, <1>8, <2>4, <3>2, SoleEntry
        DEF ActInv, Alone, PlaceInv, TypeInv, SharedTypeOK
      <4>2. mem'[tick.i] = AsTenant(n, Suspended)
        BY <1>8, <2>4, <3>2, <4>1
      <4> QED BY <1>2, <4>2 DEF Visited, AsTenant, Suspended
    <3> QED BY <2>3, <3>1, <3>2
  <2>5. SavesMasked'
    BY <1>2, <1>4, <1>5, <1>6, <2>1, <2>4, <2>6 DEF ActInv, SavesMasked
  <2> QED BY <1>1, <1>6, <2>2, <2>5 DEF ActInv
<1> QED BY <1>9, <1>10, <1>11, <1>12 DEF SuspendStep, Suspend, SuspendLoads, SuspendFails

\* A poll that finds the tenant idle has asked while no repair could save it active; of two
\* that ask at once, the one that answers last finds the idle clock reset.
LEMMA PollActs == ASSUME Alone, ActInv, NEW p \in Polls, PollStep(p) PROVE ActInv'
<1>1. PlaceInv'
  BY PollPlaces DEF ActInv
<1>2. UNCHANGED <<disk, tick, resPc>>
  BY DEF PollStep, Rest, Poll, PollStarts, PollEnds, PollPasses, PollAsks, PollListens,
         PollFindsIdle, PollFindsBusy, resVars, loopVars, sharedVars
<1>3. /\ poll \in [Polls -> [pc : PollPc, i : Nat, name : Names \cup {NoName}]]
      /\ susPc \in [Names -> SuspendPc] /\ susIdx \in [Names -> Nat] /\ mem \in Seq(Tenant)
      /\ idle \in [Names -> {"none", "counting", "elapsed"}]
  BY DEF ActInv, PlaceInv, TypeInv, VisitTypeOK, SuspendTypeOK, SharedTypeOK, MapTypeOK
<1>4. \A q \in Polls \ {p} : poll'[q] = poll[q]
  BY <1>3 DEF PollStep, Poll, PollStarts, PollEnds, PollPasses, PollAsks, PollListens,
              PollFindsIdle, PollFindsBusy, PollOn
<1>5. CASE PollFindsIdle(p) /\ ~UNCHANGED <<mem, susVars>>
  <2> DEFINE n == poll[p].name
  <2>1. /\ poll[p].pc = "asking" /\ n \in Names /\ TriggerSuspend(n) /\ n \notin inFlight
        /\ idle[n] = "elapsed"
    BY <1>5 DEF PollFindsIdle, TriggerSuspend, ActInv, PlaceInv, TypeInv, VisitTypeOK
  <2>2. poll'[p].pc = "loop"
    BY <1>3, <1>5 DEF PollFindsIdle, PollOn
  <2>3. AsksAlone' /\ ~Calm(n) /\ \A m \in Names : m = n
    <3>1. AsksAlone'
      BY <2>2 DEF AsksAlone, Alone
    <3> QED BY <2>1, <3>1 DEF Calm, Alone, Sole
  <2>4. susPc[n] = "idle"
    BY <2>1 DEF ActInv, PlaceInv, OpInv, OneOperationAtATime, Suspending
  <2>5. SavesMasked'
    BY <1>2, <2>3, <2>4 DEF ActInv, SavesMasked
  <2>6. /\ susIdx'[n] = IndexOf(n)
        /\ mem' = IF IndexOf(n) = 0 THEN mem
                  ELSE [mem EXCEPT ![IndexOf(n)].status = "suspended"]
    BY <1>3, <2>1 DEF TriggerSuspend
  <2>7. CASE IndexOf(n) = 0
    <3>1. tick.pc \notin Visiting
      BY <1>3, <2>1, <2>3, <2>7, IndexFacts, VisitedFacts DEF ActInv, Visited
    <3> QED BY <1>1, <1>2, <2>3, <2>5, <2>6, <2>7, <3>1 DEF ActInv, Masked, AsksOne
  <2>8. CASE IndexOf(n) # 0
    <3>1. IndexOf(n) \in DOMAIN mem /\ "suspended" \in Status
      BY <1>3, <2>8, IndexFacts DEF Status
    <3>2. mem'[IndexOf(n)] = [mem[IndexOf(n)] EXCEPT !.status = "suspended"]
      BY <1>3, <2>6, <2>8, <3>1, StatusTypes
    <3>3. mem[IndexOf(n)] \in Tenant
      BY <1>3, <3>1
    <3>4. mem'[IndexOf(n)].status = "suspended"
      BY <3>2, <3>3 DEF Tenant
    <3> QED BY <1>1, <2>3, <2>5, <2>6, <2>8, <3>4 DEF ActInv, Masked, AsksOne
  <2> QED BY <2>7, <2>8
<1>6. CASE PollAsks(p) /\ Pollable(Polled(p))
  <2>1. UNCHANGED <<mem, susPc, susIdx>>
    BY <1>6 DEF PollAsks, sharedVars, susVars
  <2>2. poll[p].i \in DOMAIN mem
    BY <1>3, <1>6 DEF PollAsks, ActInv, PlaceInv, TypeInv, VisitTypeOK
  <2>3. /\ Polled(p).name \in Names /\ Polled(p).name \notin inFlight
        /\ Polled(p).status = "active"
    BY <1>3, <1>6, <2>2, ListedTypes DEF Pollable, Polled
  <2>4. \A n \in Names : susPc[n] = "idle"
    BY <2>3 DEF Alone, Sole, ActInv, PlaceInv, OpInv, OneOperationAtATime, Suspending
  <2>5. Masked' /\ AsksOne'
    BY <2>1, <2>4 DEF Masked, AsksOne
  <2>6. tick.pc = "repairing" => Visited.status = "active"
    BY <2>2, <2>3, SoleEntry, VisitedFacts DEF Alone, ActInv, Visiting, Visited, Polled
  <2>7. SavesMasked'
    BY <1>2, <2>1, <2>6 DEF ActInv, SavesMasked, Visited
  <2> QED BY <1>1, <2>5, <2>7 DEF ActInv
<1>7. CASE /\ ~(PollFindsIdle(p) /\ ~UNCHANGED <<mem, susVars>>)
           /\ ~(PollAsks(p) /\ Pollable(Polled(p)))
  <2>1. UNCHANGED <<mem, susVars>>
    BY <1>7 DEF PollStep, Poll, PollStarts, PollEnds, PollPasses, PollAsks, PollListens,
                PollFindsBusy, sharedVars
  <2>2. poll'[p].pc # "asking"
    BY <1>3, <1>7 DEF PollStep, Poll, PollStarts, PollEnds, PollPasses, PollAsks,
                      PollListens, PollFindsIdle, PollFindsBusy, PollOn, IdlePoll
  <2>3. ASSUME AsksAlone, NEW n \in Names, Calm(n) PROVE Calm(n)'
    <3>1. CASE idle[n] = "none" /\ PollFindsIdle(p)
      <4>1. poll[p].pc = "asking"
        BY <3>1 DEF PollFindsIdle
      <4>2. \A q \in Polls : poll'[q].pc # "asking"
        BY <1>4, <2>2, <2>3, <4>1 DEF AsksAlone
      <4> QED BY <4>2 DEF Calm
    <3>2. CASE idle[n] = "none" /\ ~PollFindsIdle(p)
      <4>1. idle'[n] = "none"
        BY <1>3, <3>2 DEF PollStep, Poll, PollStarts, PollEnds, PollPasses, PollAsks,
                          PollListens, PollFindsBusy
      <4> QED BY <4>1 DEF Calm
    <3>3. CASE \A q \in Polls : poll[q].pc # "asking"
      BY <1>4, <2>2, <3>3 DEF Calm
    <3> QED BY <2>3, <3>1, <3>2, <3>3 DEF Calm
  <2>4. \A q \in Polls : poll'[q].pc = "asking" => poll[q].pc = "asking"
    BY <1>4, <2>2
  <2> QED BY <1>1, <1>2, <2>1, <2>3, <2>4, ActSame
<1> QED BY <1>5, <1>6, <1>7

\* Bringing the list up to date leaves a tenant in flight its entry.
LEMMA SyncMasks ==
    ASSUME Alone, ActInv, LoopStep, TickSyncs,
           NEW n \in Names, n \in inFlight, NEW j \in DOMAIN mem, mem[j].name = n
    PROVE  mem'[j] = mem[j]
<1> DEFINE fresh == IF FreshReads THEN disk ELSE tick.fresh
<1>1. fresh \in Registry /\ n \in Listed
  BY DEF ActInv, PlaceInv, TypeInv, SharedTypeOK, LoopTypeOK, Listed
<1>2. PICK left \in InOrder(Kept(fresh)), new \in SetToSeqs(Added(fresh)) :
           mem' = [k \in DOMAIN left |-> Updated(fresh)[left[k]]]
                  \o [k \in DOMAIN new |-> AsTenant(new[k], fresh[new[k]])]
  BY DEF TickSyncs
<1> HIDE DEF fresh
<1>3. Kept(fresh) = DOMAIN mem /\ Added(fresh) = {}
  BY <1>1, SoleStays DEF ActInv, Alone
<1>4. mem'[j] = Updated(fresh)[j]
  BY <1>1, <1>2, <1>3, SyncStays DEF ActInv
<1>5. mem \in Seq(Tenant)
  BY DEF ActInv, PlaceInv, TypeInv, SharedTypeOK
<1> QED BY <1>1, <1>4, <1>5, UpdatedFacts

\* A tick visits no tenant in flight, and repairs none it has read as suspended.
LEMMA TickActs == ASSUME Alone, ActInv, LoopStep PROVE ActInv'
<1>1. PlaceInv'
  BY TickPlaces DEF ActInv, Alone, Steady
<1>2. UNCHANGED <<poll, susPc, susIdx, resPc, inFlight>>
  BY TickLeaves DEF schedVars, susVars, resVars
<1>3. AsksOne'
  BY <1>2 DEF ActInv, AsksOne, AsksAlone
<1>4. /\ tick \in [pc : TickPc, i : Nat, fresh : Registry, current : TenantWatchState]
      /\ mem \in Seq(Tenant) /\ disk \in Registry
  BY DEF ActInv, PlaceInv, TypeInv, LoopTypeOK, SharedTypeOK
<1>5. /\ tick'.pc = "repairing" => TickRechecks /\ tick' = TickAt("repairing", tick.i)
      /\ tick'.pc \in Visiting => tick.pc \in Visiting \/ TickBeginsChecks
  <2>1. CASE TickReads
    BY <1>4, <2>1 DEF TickReads, Visiting
  <2>2. CASE TickBeginsChecks
    BY <1>4, <2>2 DEF TickBeginsChecks
  <2>3. CASE TickRechecks
    BY <2>3 DEF TickRechecks, NextTenant, TickAt, Visiting
  <2>4. ASSUME NEW allOk \in BOOLEAN, TickChecks(allOk)
        PROVE  tick'.pc # "repairing" /\ tick.pc \in Visiting
    BY <2>4 DEF TickChecks, NextTenant, TickAt, Visiting
  <2>5. CASE TickSyncs \/ TickLoadFails \/ TickEnds \/ TickSkips \/ TickSeesSuspended
             \/ \E saved \in BOOLEAN : TickRepairs(saved)
    <3>1. \E at \in {"idle", "loop"} : \E i : tick' = TickAt(at, i)
      BY <2>5 DEF TickSyncs, TickLoadFails, TickEnds, TickSkips, TickSeesSuspended,
                  TickRepairs, NextTenant, IdleTick
    <3> QED BY <3>1 DEF TickAt, Visiting
  <2> QED BY <2>1, <2>2, <2>3, <2>4, <2>5 DEF LoopStep, Tick
<1>6. SavesMasked'
  <2>1. ASSUME TickRechecks, tick' = TickAt("repairing", tick.i), NEW n \in Names
        PROVE  disk'[n].status # "suspended"
    <3>1. TickAt("repairing", tick.i) # TickAt("loop", tick.i + 1)
      BY DEF TickAt
    <3>2. disk' = disk /\ disk[Visited.name].status \in {"active", "absent"}
      BY <2>1, <3>1 DEF TickRechecks, Alone, NextTenant
    <3>3. Visited.name \in Names
      BY <2>1, VisitedFacts DEF ActInv, TickRechecks, Visiting
    <3> QED BY <3>2, <3>3 DEF Alone, Sole
  <2> QED BY <1>5, <2>1 DEF SavesMasked, Suspended
<1>7. ASSUME NEW n \in Names, susPc[n] \in {"loading", "working", "saved"}
      PROVE  IF susIdx[n] = 0 THEN tick'.pc \notin Visiting
             ELSE mem'[susIdx[n]].status # "active"
  <2>1. n \in inFlight
    BY <1>7 DEF ActInv, PlaceInv, OpInv, OneOperationAtATime, Suspending
  <2>2. CASE susIdx[n] = 0
    <3>1. tick.pc \notin Visiting
      BY <1>7, <2>2 DEF ActInv, Masked
    <3>2. ~TickBeginsChecks
      <4>1. SUFFICES ASSUME TickBeginsChecks PROVE FALSE
        OBVIOUS
      <4>2. Visited.name \in Names /\ Visited.name \notin inFlight
        BY <4>1, VisitedFacts DEF ActInv, TickBeginsChecks, Skipped
      <4> QED BY <2>1, <4>2 DEF Alone, Sole
    <3> QED BY <1>5, <2>2, <3>1, <3>2
  <2>3. CASE susIdx[n] # 0
    <3>1. /\ susIdx[n] \in DOMAIN mem /\ mem[susIdx[n]].name = n
          /\ mem[susIdx[n]].status # "active"
      BY <1>7, <2>3 DEF ActInv, PlaceInv, Aligned, Masked
    <3>2. CASE TickSyncs
      BY <2>1, <2>3, <3>1, <3>2, SyncMasks
    <3>3. CASE UNCHANGED mem
      BY <2>3, <3>1, <3>3
    <3>4. CASE TickRechecks /\ ~UNCHANGED mem
      <4>1. /\ disk[Visited.name].status \notin {"active", "absent"}
            /\ mem' = [mem EXCEPT ![tick.i] = AsTenant(Visited.name, disk[Visited.name])]
        BY <3>4 DEF TickRechecks
      <4>2. tick.i \in DOMAIN mem
        BY <3>4, VisitedFacts DEF ActInv, TickRechecks, Visiting
      <4>3. tick.i = susIdx[n]
        BY <3>1, <4>2, SoleEntry DEF ActInv, Alone
      <4>4. mem'[tick.i] = AsTenant(Visited.name, disk[Visited.name])
        BY <1>4, <4>1, <4>2
      <4>5. mem'[tick.i].status # "active"
        BY <4>1, <4>4 DEF AsTenant
      <4> QED BY <2>3, <4>3, <4>5
    <3> QED BY <3>2, <3>3, <3>4
            DEF LoopStep, Tick, TickReads, TickLoadFails, TickEnds, TickSkips,
                TickSeesSuspended, TickBeginsChecks, TickChecks, TickRepairs, sharedVars
  <2> QED BY <2>2, <2>3
<1>8. Masked'
  BY <1>2, <1>7 DEF Masked
<1> QED BY <1>1, <1>3, <1>6, <1>8 DEF ActInv

LEMMA InitActs == Init => ActInv
BY InitPlaces DEF Init, StartWatch, LoopInit, SchedulerInit, IdleTick, TickAt, ActInv,
                  Masked, AsksOne, SavesMasked

LEMMA NextActs == Alone /\ ActInv /\ [Next]_vars => ActInv'
<1> SUFFICES ASSUME Alone, ActInv, [Next]_vars PROVE ActInv'
  OBVIOUS
<1>1. CASE Restart
  BY <1>1, RestartPlaces
  DEF Restart, SchedulerRestarts, IdleTick, TickAt, ActInv, Masked, AsksOne, SavesMasked
<1>2. CASE LoopStep
  BY <1>2, TickActs
<1>3. CASE Quiet
  BY <1>3, QuietActs
<1>4. CASE \E p \in Polls : PollStep(p)
  BY <1>4, PollActs
<1>5. CASE \E n \in Names : SuspendStep(n) \/ ResumeStep(n)
  BY <1>5, SuspendActs, ResumeActs
<1> QED BY <1>1, <1>2, <1>3, <1>4, <1>5 DEF Next, Quiet

\* What a step may do to a suspended tenant's registry entry.
LEMMA ActivatesOnlyOwn ==
    ASSUME Alone, ActInv, [Next]_vars, NEW n \in Names,
           disk[n] = Suspended, disk'[n].status = "active"
    PROVE  resPc[n] = "working"
<1>0. disk[n].status = "suspended" /\ \A m \in Names : m = n
  BY DEF Suspended, Alone, Sole
<1>1. CASE Restart
  BY <1>0, <1>1 DEF Restart
<1>2. CASE LoopStep
  <2>1. \E saved \in BOOLEAN : TickRepairs(saved) /\ disk' = MemAsRegistry
    BY <1>0, <1>2
    DEF LoopStep, Tick, TickReads, TickSyncs, TickLoadFails, TickEnds, TickSkips,
        TickSeesSuspended, TickBeginsChecks, TickChecks, TickRechecks, TickRepairs,
        sharedVars
  <2>2. tick.pc = "repairing" /\ mem \in Seq(Tenant)
    BY <2>1 DEF TickRepairs, ActInv, PlaceInv, TypeInv, SharedTypeOK
  <2>3. Visited.status # "active" /\ tick.i \in DOMAIN mem
    BY <2>2, VisitedFacts DEF ActInv, SavesMasked, Visiting
  <2>4. IndexOf(n) # 0
    BY <2>1 DEF MemAsRegistry, Absent
  <2>5. IndexOf(n) \in DOMAIN mem
    BY <2>2, <2>4, IndexFacts
  <2>6. IndexOf(n) = tick.i
    BY <2>3, <2>5, SoleEntry DEF ActInv, Alone
  <2>7. disk'[n].status = mem[tick.i].status
    BY <2>1, <2>4, <2>6 DEF MemAsRegistry
  <2> QED BY <2>3, <2>7 DEF Visited
<1>3. CASE Quiet
  <2>1. ~BootStep /\ ~UNCHANGED vars
    BY <1>0 DEF BootStep, Boot, BootPasses, BootVisits, BootListens, vars, sharedVars
  <2>2. PICK m \in Names : Command(m)
    BY <1>0, <1>3, <2>1
    DEF Quiet, Cooled, CooldownEnds, TimerStep, TimerFires, IdleStep, IdleElapses,
        WakeStep, WakeDue, ClientStep, Connects, sharedVars
  <2>3. disk \in [Names -> Entry] /\ m = n
    BY <1>0 DEF ActInv, PlaceInv, TypeInv, SharedTypeOK, Registry
  <2>4. [disk[n] EXCEPT !.status = "removing"].status = "removing"
    BY <2>3 DEF Entry
  <2>5. OtherEvicts(n)
    BY <1>0, <2>2, <2>3
    DEF Command, OtherSpawns, OtherSuspends, OtherResumes, Absent, Alone
  <2> QED BY <2>3, <2>4, <2>5 DEF OtherEvicts, Absent
<1>4. CASE \E p \in Polls : PollStep(p)
  BY <1>0, <1>4
  DEF PollStep, Poll, PollStarts, PollEnds, PollPasses, PollAsks, PollListens,
      PollFindsIdle, PollFindsBusy, sharedVars
<1>5. ASSUME NEW m \in Names, SuspendStep(m) PROVE resPc[n] = "working"
  <2>1. susSnap[n] \in [Names -> Entry]
    BY DEF ActInv, PlaceInv, TypeInv, SuspendTypeOK, Registry
  <2>2. ~SuspendSaves(m)
    BY <1>0, <2>1 DEF SuspendSaves, Suspended
  <2> QED BY <1>0, <1>5, <2>2
          DEF SuspendStep, Suspend, SuspendLoads, SuspendFails, SuspendSyncs,
              SuspendListens
<1>6. ASSUME NEW m \in Names, ResumeStep(m) PROVE resPc[n] = "working"
  BY <1>0, <1>6
  DEF ResumeStep, Resume, ResumeStops, ResumeLoads, ResumeFails, ResumeSaves, ResumeSyncs,
      ResumePokes, sharedVars
<1> QED BY <1>1, <1>2, <1>3, <1>4, <1>5, <1>6 DEF Next, Quiet

\* With one tenant, and no more than two polls at a time and no suspend or resume command beside it,
\* nothing the daemon does turns a suspended tenant active but its own resume: whatever
\* spawns, evictions, restarts and failing checks, loads and operations come in between.
THEOREM OnlyOwnResumeActivates == ASSUME Alone PROVE Spec => OnlyResumeActivates
<1>1. ActInv /\ [Next]_vars =>
         [\A n \in Names :
             disk[n] = Suspended /\ disk'[n].status = "active" => resPc[n] = "working"]_vars
  BY ActivatesOnlyOwn
<1> QED BY <1>1, InitActs, NextActs, PTL DEF Spec, OnlyResumeActivates

----
(* Sleeping tenants.                                                       *)

\* One tenant that no command suspends, resumes or evicts beside the daemon, start-up done
\* before the first poll, no more than two polls at a time, a registry that does not change
\* between a tick's read and its use, checks and resumes that do not fail, and a wake time
\* that does not pass while the suspend is under way.
Undisturbed ==
    /\ Sole /\ Reliable
    /\ Cli \cap {"suspend", "resume", "evict"} = {}
    /\ QuickStart /\ FreshReads /\ ~LateWake
    /\ \A p, q, r \in Polls : p = q \/ q = r \/ p = r
    /\ "resume" \notin MayFail

\* The entry of a tenant that triggerSuspend has marked.
Mark == [status |-> "suspended", info |-> FALSE]

\* Registry file and list have the tenant like this.
Has(n, saved, held) == disk[n] = saved /\ Len(mem) = 1 /\ mem[1] = AsTenant(n, held)

\* Nothing waits for the tenant.
Deaf(n) == ~mapped[n] /\ listener[n] = "off" /\ ~timer[n]

\* A socket waits for its requests, and a timer for its wake time.
Waits(n) == mapped[n] /\ listener[n] = "armed" /\ (wake[n] # "none" => timer[n])

\* Start-up has dealt with the tenant.
Booted == boot.pc = "done" \/ (boot.pc = "loop" /\ boot.i > 1)

AtRest(n) ==
    susPc[n] = "idle" /\ resPc[n] = "idle" =>
        \/ Has(n, Active, Active) /\ Deaf(n)
        \/ Has(n, Suspended, Suspended) /\ IF Booted THEN Waits(n) ELSE Deaf(n)

InSuspend(n) ==
    /\ susPc[n] # "thrown"
    /\ susPc[n] # "idle" => Deaf(n) /\ Booted /\ susIdx[n] = 1
    /\ susPc[n] \in {"loading", "working"} => Has(n, Active, Mark)
    /\ susPc[n] = "saved" => Has(n, Suspended, Mark) /\ wake[n] # "due"
    /\ susPc[n] = "listening" => Has(n, Suspended, Suspended) /\ wake[n] # "due"

InResume(n) ==
    /\ resPc[n] # "idle" => listener[n] = "off" /\ Booted
    /\ resPc[n] \notin {"idle", "stopping"} => ~mapped[n]
    /\ resPc[n] \in {"stopping", "loading", "working"} => Has(n, Suspended, Suspended)
    /\ resPc[n] = "saved" => Has(n, Active, Suspended)
    /\ resPc[n] = "poking" => Has(n, Active, Active) /\ ~timer[n]

Placed == \A n \in Names : AtRest(n) /\ InSuspend(n) /\ InResume(n)

\* No poll finds a sentinel missing, and none runs during start-up.
PollsCalm ==
    /\ \A p \in Polls : poll[p].pc # "listening"
    /\ boot.pc # "done" => \A p \in Polls : poll[p].pc = "idle"

Asks(p) == poll[p].pc = "asking"

\* A poll that still asks about a tenant the list calls suspended is the only one, and finds
\* no idle clock to go by once the suspend is over.
LastAsks ==
    mem[1].status = "suspended" =>
        /\ \A p, q \in Polls : Asks(p) /\ Asks(q) => p = q
        /\ \A n \in Names, p \in Polls : susPc[n] = "idle" /\ Asks(p) => idle[n] = "none"

BootCalm ==
    boot.pc = "listening" => boot.i = 1 /\ \A n \in Names : disk[n] = Suspended

SleepInv == Placed /\ PollsCalm /\ LastAsks /\ BootCalm

\* Entries in the list.
LEMMA HeldEntries ==
    ASSUME NEW n \in Names
    PROVE  /\ AsTenant(n, Active).status = "active"
           /\ AsTenant(n, Suspended).status = "suspended"
           /\ AsTenant(n, Mark).status = "suspended"
           /\ NeedsBoot(AsTenant(n, Suspended))
           /\ [AsTenant(n, Mark) EXCEPT !.status = "active"] = AsTenant(n, Active)
           /\ [AsTenant(n, Active) EXCEPT !.status = "suspended"] = AsTenant(n, Mark)
<1>1. ASSUME NEW t \in Tenant, NEW status \in Status, NEW u \in Tenant,
             u.name = t.name, u.info = t.info, u.status = status
      PROVE  [t EXCEPT !.status = status] = u
  <2>1. [t EXCEPT !.status = status] \in Tenant
    BY DEF Tenant
  <2> QED BY <1>1, <2>1 DEF Tenant
<1>2. AsTenant(n, Mark) \in Tenant /\ AsTenant(n, Active) \in Tenant
  BY DEF AsTenant, Mark, Active, Tenant, Status
<1> USE DEF AsTenant, Active, Suspended, Mark
<1>3. /\ AsTenant(n, Active).status = "active" /\ AsTenant(n, Active).info = FALSE
      /\ AsTenant(n, Suspended).status = "suspended" /\ AsTenant(n, Suspended).info = TRUE
      /\ AsTenant(n, Mark).status = "suspended" /\ AsTenant(n, Mark).info = FALSE
      /\ AsTenant(n, Mark).name = AsTenant(n, Active).name
  OBVIOUS
<1>4. NeedsBoot(AsTenant(n, Suspended))
  BY DEF NeedsBoot
<1> HIDE DEF AsTenant, Active, Suspended, Mark
<1> QED BY <1>1, <1>2, <1>3, <1>4 DEF Status

\* The tenant is in the registry and alone in the list.
LEMMA SleepFacts ==
    ASSUME Sole, MarkInv, SleepInv, NEW n \in Names
    PROVE  /\ \A m \in Names : m = n
           /\ disk[n] \in {Active, Suspended}
           /\ mem \in Seq(Tenant) /\ Len(mem) = 1 /\ 1 \in DOMAIN mem
           /\ mem[1] \in Tenant /\ mem[1].name = n
           /\ IndexOf(n) = 1
           /\ n \in inFlight <=> susPc[n] # "idle" \/ resPc[n] # "idle"
           /\ ~(susPc[n] # "idle" /\ resPc[n] # "idle")
<1>1. \A m \in Names : m = n
  BY DEF Sole
<1>2. mem \in Seq(Tenant) /\ susPc[n] \in SuspendPc /\ resPc[n] \in ResumePc
  BY DEF MarkInv, PlaceInv, TypeInv, SharedTypeOK, SuspendTypeOK, ResumeTypeOK
<1>3. \E d \in {Active, Suspended} : \E m : Has(n, d, m)
  BY <1>2 DEF SleepInv, Placed, AtRest, InSuspend, InResume, SuspendPc, ResumePc
<1>4. disk[n] \in {Active, Suspended} /\ Len(mem) = 1 /\ mem[1].name = n
  BY <1>3 DEF Has, AsTenant
<1>5. 1 \in DOMAIN mem /\ mem[1] \in Tenant
  <2>1. 1 \in DOMAIN mem
    BY <1>2, <1>4
  <2> QED BY <1>2, <2>1
<1>6. IndexOf(n) = 1
  BY <1>2, <1>4, <1>5, IndexFacts
<1>7. /\ n \in inFlight <=> susPc[n] # "idle" \/ resPc[n] # "idle"
      /\ ~(susPc[n] # "idle" /\ resPc[n] # "idle")
  BY DEF MarkInv, PlaceInv, OpInv, OneOperationAtATime, Suspending, Resuming
<1> QED BY <1>1, <1>2, <1>4, <1>5, <1>6, <1>7

\* The types the steps below rely on.
LEMMA SleepTypes ==
    ASSUME MarkInv
    PROVE  /\ disk \in [Names -> Entry] /\ wake \in [Names -> WakeTime]
           /\ susPc \in [Names -> SuspendPc] /\ susIdx \in [Names -> Nat]
           /\ susSnap \in [Names -> [Names -> Entry]]
           /\ resPc \in [Names -> ResumePc]
           /\ resSnap \in [Names -> [Names -> Entry]]
           /\ listener \in [Names -> {"off", "armed", "fired"}]
           /\ mapped \in [Names -> BOOLEAN] /\ timer \in [Names -> BOOLEAN]
           /\ idle \in [Names -> {"none", "counting", "elapsed"}]
           /\ poll \in [Polls -> [pc : PollPc, i : Nat, name : Names \cup {NoName}]]
           /\ boot \in [pc : BootPc, i : Nat, name : Names \cup {NoName}]
BY DEF MarkInv, PlaceInv, TypeInv, SharedTypeOK, SuspendTypeOK, ResumeTypeOK, MapTypeOK,
       VisitTypeOK, Registry

\* A step of the tick leaves registry and list as they are: without repairs it only brings
\* the list up to date, and that is done while nothing but the tenant's own operation, whose
\* entry is left alone, makes the two differ.
LEMMA TickSleeps ==
    ASSUME Undisturbed, MarkInv, SleepInv, NEW n \in Names, LoopStep
    PROVE  UNCHANGED disk /\ Len(mem') = Len(mem) /\ mem'[1] = mem[1]
<1>1. tick.pc \notin {"rechecking", "repairing"} /\ PlaceInv
  BY DEF MarkInv
<1>2. /\ \A m \in Names : m = n
      /\ disk[n] \in {Active, Suspended}
      /\ mem \in Seq(Tenant) /\ Len(mem) = 1 /\ 1 \in DOMAIN mem
      /\ mem[1] \in Tenant /\ mem[1].name = n
      /\ n \in inFlight <=> susPc[n] # "idle" \/ resPc[n] # "idle"
  BY SleepFacts DEF Undisturbed
<1>3. CASE TickSyncs
  <2>1. PICK left \in InOrder(Kept(disk)), new \in SetToSeqs(Added(disk)) :
             mem' = [k \in DOMAIN left |-> Updated(disk)[left[k]]]
                    \o [k \in DOMAIN new |-> AsTenant(new[k], disk[new[k]])]
    BY <1>3 DEF TickSyncs, Undisturbed
  <2>2. disk \in Registry /\ Lists(disk)
    <3>1. disk \in Registry
      BY <1>1 DEF PlaceInv, TypeInv, SharedTypeOK
    <3>2. n \in Listed
      BY <1>2 DEF Listed
    <3> QED BY <1>2, <3>1, <3>2 DEF Lists, Active, Suspended
  <2>3. SameNames /\ mem'[1] = Updated(disk)[1]
    BY <1>1, <1>2, <2>1, <2>2, AllStay, SyncStays
  <2>4. CASE Updated(disk)[1] = mem[1]
    BY <1>3, <2>3, <2>4 DEF SameNames, TickSyncs
  <2>5. CASE Updated(disk)[1] # mem[1]
    <3>1. n \notin inFlight /\ Updated(disk)[1] = AsTenant(n, disk[n])
      BY <1>2, <2>2, <2>5, UpdatedFacts
    <3>2. mem[1] = AsTenant(n, disk[n])
      BY <1>2, <3>1 DEF SleepInv, Placed, AtRest, Has
    <3> QED BY <2>5, <3>1, <3>2
  <2> QED BY <2>4, <2>5
<1>4. CASE ~TickSyncs
  BY <1>1, <1>4 DEF LoopStep, Tick, TickReads, TickLoadFails, TickEnds, TickSkips,
      TickSeesSuspended, TickBeginsChecks, TickChecks, TickRechecks, TickRepairs, sharedVars
<1> QED BY <1>3, <1>4

\* A step that touches nothing the invariant speaks of keeps it.
LEMMA SleepSame ==
    ASSUME SleepInv, Len(mem') = Len(mem), mem'[1] = mem[1],
           UNCHANGED <<disk, wake, schedVars>>
    PROVE  SleepInv'
<1>1. UNCHANGED <<susPc, susIdx, resPc, listener, mapped, timer, idle, boot, poll>>
  BY DEF schedVars, susVars, resVars
<1>2. Placed'
  BY <1>1 DEF SleepInv, Placed, AtRest, InSuspend, InResume, Has, Deaf, Waits, Booted
<1> QED BY <1>1, <1>2 DEF SleepInv, PollsCalm, LastAsks, Asks, BootCalm

\* Start-up: it passes an active tenant, and sees to it that a suspended one is waited for.
LEMMA BootSleeps ==
    ASSUME Undisturbed, MarkInv, SleepInv, NEW n \in Names, BootStep
    PROVE  SleepInv'
<1>1. /\ \A m \in Names : m = n
      /\ Len(mem) = 1 /\ mem[1].name = n
      /\ n \in inFlight <=> susPc[n] # "idle" \/ resPc[n] # "idle"
  BY SleepFacts DEF Undisturbed
<1>2. /\ boot.pc = "loop" => boot.i > 0
      /\ boot.pc = "listening" => boot.name = n
  BY <1>1 DEF MarkInv, PlaceInv, TypeInv, VisitTypeOK
<1>3. UNCHANGED <<disk, wake, mem, poll, susPc, susIdx, idle>>
  BY DEF BootStep, Boot, BootPasses, BootVisits, BootListens, sharedVars, susVars
<1>4. boot.pc \in {"loop", "listening"} /\ (\A p \in Polls : poll[p].pc = "idle")
  BY DEF BootStep, Boot, BootPasses, BootVisits, BootListens, SleepInv, PollsCalm
<1>5. PollsCalm' /\ LastAsks'
  BY <1>3, <1>4 DEF PollsCalm, LastAsks, Asks
<1>6. CASE BootPasses
  <2>1. UNCHANGED <<resPc, listener, mapped, timer>>
    BY <1>6 DEF BootPasses, resVars
  <2>2. Booted' /\ boot'.pc # "listening"
    BY <1>2, <1>6, SleepTypes DEF BootPasses, BootOn, Booted
  <2>3. ~Booted => boot.i = 1 /\ ~NeedsBoot(mem[1])
    BY <1>1, <1>2, <1>6, SleepTypes DEF BootPasses, Booted
  <2>4. ~Booted => mem[1] # AsTenant(n, Suspended)
    BY <2>3, HeldEntries
  <2>5. ~Booted => susPc[n] = "idle" /\ resPc[n] = "idle"
    BY DEF SleepInv, Placed, InSuspend, InResume
  <2>6. AtRest(n)' /\ InSuspend(n)' /\ InResume(n)'
    BY <1>3, <2>1, <2>2, <2>4, <2>5
    DEF SleepInv, Placed, AtRest, InSuspend, InResume, Has, Deaf, Waits
  <2> QED BY <1>1, <1>5, <2>2, <2>6 DEF SleepInv, Placed, BootCalm
<1>7. CASE BootVisits
  <2>1. boot.i = 1 /\ ~Booted
    BY <1>1, <1>2, <1>7, SleepTypes DEF BootVisits, Booted
  <2>2. mem[1].status = "suspended"
    BY <1>7, <2>1 DEF BootVisits, NeedsBoot, Suspended
  <2>3. susPc[n] = "idle" /\ resPc[n] = "idle" /\ Has(n, Suspended, Suspended) /\ Deaf(n)
    BY <2>1, <2>2, HeldEntries DEF SleepInv, Placed, InSuspend, InResume, AtRest, Has
  <2>4. /\ boot' = [boot EXCEPT !.pc = "listening", !.name = n]
        /\ UNCHANGED <<resPc, listener, mapped, timer>>
    BY <1>1, <1>7, <2>1, <2>3 DEF BootVisits, Deaf, resVars
  <2>5. boot'.pc = "listening" /\ boot'.i = 1
    BY <2>1, <2>4, SleepTypes
  <2>6. AtRest(n)' /\ InSuspend(n)' /\ InResume(n)'
    BY <1>3, <2>3, <2>4, <2>5 DEF AtRest, InSuspend, InResume, Has, Deaf, Booted
  <2>7. BootCalm'
    BY <1>1, <1>3, <2>3, <2>5 DEF BootCalm, Has
  <2> QED BY <1>1, <1>5, <2>6, <2>7 DEF SleepInv, Placed
<1>8. CASE BootListens
  <2>1. boot.pc = "listening" /\ boot.i = 1 /\ disk[n] = Suspended /\ ~Booted
    BY <1>8 DEF BootListens, SleepInv, BootCalm, Booted
  <2>2. susPc[n] = "idle" /\ resPc[n] = "idle" /\ Has(n, Suspended, Suspended) /\ Deaf(n)
    BY <2>1 DEF SleepInv, Placed, InSuspend, InResume, AtRest, Has, Active, Suspended
  <2>3. /\ BootOn /\ mapped' = [mapped EXCEPT ![n] = TRUE]
        /\ ScheduleWake(n, "armed")
    BY <1>2, <1>8, <2>1, <2>2 DEF BootListens, Deaf
  <2>4. Booted' /\ boot'.pc # "listening"
    BY <2>1, <2>3 DEF BootOn, Booted
  <2>5. timer' = TimerAfter(n) /\ mapped'[n]
    BY <2>3, SleepTypes DEF ScheduleWake
  <2>6. AtRest(n)' /\ InSuspend(n)' /\ InResume(n)'
    <3>1. CASE wake[n] = "due"
      <4>1. listener'[n] = "off" /\ resPc'[n] = "stopping"
        BY <1>1, <2>2, <2>3, <3>1, SleepTypes DEF ScheduleWake, TriggerResume
      <4> QED BY <1>3, <2>2, <2>4, <4>1 DEF AtRest, InSuspend, InResume, Has
    <3>2. CASE wake[n] # "due"
      <4>1. listener'[n] = "armed" /\ resPc' = resPc
        BY <2>3, <3>2, SleepTypes DEF ScheduleWake, resVars
      <4>2. timer'[n] = (wake[n] = "ahead")
        BY <2>2, <2>5, SleepTypes DEF TimerAfter, Deaf
      <4>3. wake[n] \in {"none", "ahead"}
        BY <3>2, SleepTypes DEF WakeTime
      <4>4. Waits(n)'
        BY <1>3, <2>5, <4>1, <4>2, <4>3 DEF Waits
      <4> QED BY <1>3, <2>2, <2>4, <4>1, <4>4 DEF AtRest, InSuspend, InResume, Has
    <3> QED BY <3>1, <3>2
  <2>7. BootCalm'
    BY <2>4 DEF BootCalm
  <2> QED BY <1>1, <1>5, <2>6, <2>7 DEF SleepInv, Placed
<1> QED BY <1>6, <1>7, <1>8 DEF BootStep, Boot

\* A suspend: until its sentinel listens nothing waits for the tenant, and no wake time
\* passes.
LEMMA SuspendSleeps ==
    ASSUME Undisturbed, MarkInv, SleepInv, NEW n \in Names, SuspendStep(n)
    PROVE  SleepInv'
<1>1. /\ \A m \in Names : m = n
      /\ mem \in Seq(Tenant) /\ Len(mem) = 1 /\ 1 \in DOMAIN mem
      /\ mem[1] \in Tenant /\ mem[1].name = n
      /\ ~(susPc[n] # "idle" /\ resPc[n] # "idle")
  BY SleepFacts DEF Undisturbed
<1>2. /\ susPc[n] \notin {"idle", "thrown"} /\ susIdx[n] = 1 /\ Deaf(n) /\ Booted
      /\ resPc[n] = "idle" /\ ~(1 > Len(mem))
  BY <1>1 DEF SuspendStep, Suspend, SuspendLoads, SuspendFails, SuspendSaves, SuspendSyncs,
      SuspendListens, SleepInv, Placed, InSuspend
<1>3. UNCHANGED <<poll, boot, resPc>>
  BY DEF SuspendStep, Suspend, SuspendLoads, SuspendFails, SuspendSaves, SuspendSyncs,
      SuspendListens, resVars
<1>4. PollsCalm' /\ InResume(n)' /\ Booted'
  BY <1>2, <1>3 DEF SleepInv, PollsCalm, InResume, Booted
<1>5. boot'.pc # "listening"
  BY <1>2, <1>3 DEF Booted
<1>6. SUFFICES AtRest(n)' /\ InSuspend(n)' /\ LastAsks'
  BY <1>1, <1>4, <1>5 DEF SleepInv, Placed, BootCalm
<1>7. ASSUME RevertMark(n), susPc[n] \in {"loading", "working"},
             UNCHANGED <<disk, wake, listener, mapped, timer>>
      PROVE  AtRest(n)' /\ InSuspend(n)' /\ LastAsks'
  <2>1. mem' = [mem EXCEPT ![1].status = "active"] /\ EndSuspend(n)
    BY <1>2, <1>7 DEF RevertMark
  <2>2. Has(n, Active, Mark)
    BY <1>7 DEF SleepInv, Placed, InSuspend
  <2>3. Len(mem') = 1 /\ mem'[1] = [mem[1] EXCEPT !.status = "active"]
    BY <1>1, <2>1, StatusTypes DEF Status
  <2>4. mem'[1] = AsTenant(n, Active)
    BY <2>2, <2>3, HeldEntries DEF Has
  <2>5. Has(n, Active, Active)'
    BY <1>7, <2>2, <2>3, <2>4 DEF Has
  <2>6. susPc'[n] = "idle"
    BY <2>1, SleepTypes DEF EndSuspend
  <2>7. Deaf(n)'
    BY <1>2, <1>7 DEF Deaf
  <2>8. LastAsks'
    BY <2>4 DEF LastAsks, AsTenant, Active
  <2> QED BY <2>5, <2>6, <2>7, <2>8 DEF AtRest, InSuspend
<1>8. CASE SuspendLoads(n)
  <2>1. Has(n, Active, Mark)
    BY <1>8 DEF SuspendLoads, SleepInv, Placed, InSuspend
  <2>2. susPc'[n] = "working" /\ UNCHANGED <<susIdx, mem, idle>>
    BY <1>8, <2>1, SleepTypes DEF SuspendLoads, Has, Active
  <2>3. UNCHANGED <<disk, wake, listener, mapped, timer>>
    BY <1>8 DEF SuspendLoads
  <2>4. InSuspend(n)' /\ AtRest(n)'
    BY <1>2, <1>4, <2>1, <2>2, <2>3 DEF InSuspend, AtRest, Has, Deaf
  <2>5. LastAsks'
    BY <1>1, <1>2, <1>3, <2>2 DEF SleepInv, LastAsks, Asks
  <2> QED BY <2>4, <2>5
<1>9. CASE SuspendFails(n)
  BY <1>7, <1>9 DEF SuspendFails
<1>10. CASE SuspendSaves(n)
  <2>1. Has(n, Active, Mark)
    BY <1>10 DEF SuspendSaves, SleepInv, Placed, InSuspend
  <2>2. /\ susPc'[n] = "saved" /\ disk'[n] = Suspended /\ wake'[n] # "due"
        /\ UNCHANGED <<susIdx, mem, idle, listener, mapped, timer>>
    BY <1>10, SleepTypes DEF SuspendSaves
  <2>3. InSuspend(n)' /\ AtRest(n)'
    BY <1>2, <1>4, <2>1, <2>2 DEF InSuspend, AtRest, Has, Deaf
  <2>4. LastAsks'
    BY <1>1, <1>2, <1>3, <2>2 DEF SleepInv, LastAsks, Asks
  <2> QED BY <2>3, <2>4
<1>11. CASE SuspendSyncs(n)
  <2>1. Has(n, Suspended, Mark) /\ wake[n] # "due"
    BY <1>11 DEF SuspendSyncs, SleepInv, Placed, InSuspend
  <2>2. /\ susPc'[n] = "listening" /\ mem' = [mem EXCEPT ![1] = AsTenant(n, Suspended)]
        /\ UNCHANGED <<disk, wake, susIdx, idle, listener, mapped, timer>>
    BY <1>2, <1>11, SleepTypes DEF SuspendSyncs, Deaf
  <2>3. Len(mem') = 1 /\ mem'[1] = AsTenant(n, Suspended)
    BY <1>1, <2>2, ListUpdate, EntryTypes
  <2>4. InSuspend(n)' /\ AtRest(n)'
    BY <1>2, <1>4, <2>1, <2>2, <2>3 DEF InSuspend, AtRest, Has, Deaf
  <2>5. mem[1].status = "suspended"
    BY <2>1 DEF Has, AsTenant, Mark
  <2>6. LastAsks'
    BY <1>1, <1>3, <2>2, <2>5 DEF SleepInv, LastAsks, Asks
  <2> QED BY <2>4, <2>6
<1>12. CASE SuspendListens(n)
  <2>1. Has(n, Suspended, Suspended) /\ wake[n] # "due"
    BY <1>12 DEF SuspendListens, SleepInv, Placed, InSuspend
  <2>2. /\ listener' = [listener EXCEPT ![n] = "armed"]
        /\ mapped' = [mapped EXCEPT ![n] = TRUE]
        /\ timer' = TimerAfter(n) /\ EndSuspend(n)
        /\ UNCHANGED <<disk, wake, mem>>
    BY <1>1, <1>2, <1>12 DEF SuspendListens, Deaf
  <2>3. listener'[n] = "armed" /\ mapped'[n] /\ susPc'[n] = "idle" /\ idle'[n] = "none"
    BY <2>2, SleepTypes DEF EndSuspend
  <2>4. timer'[n] = (wake[n] = "ahead") /\ wake[n] \in {"none", "ahead"}
    BY <1>2, <2>1, <2>2, SleepTypes DEF TimerAfter, Deaf, WakeTime
  <2>5. InSuspend(n)' /\ AtRest(n)'
    BY <1>4, <2>1, <2>2, <2>3, <2>4 DEF InSuspend, AtRest, Has, Waits
  <2>6. LastAsks'
    BY <1>1, <1>3, <2>2, <2>3 DEF SleepInv, LastAsks, Asks
  <2> QED BY <2>5, <2>6
<1> QED BY <1>7, <1>8, <1>9, <1>10, <1>11, <1>12 DEF SuspendStep, Suspend

\* A resume: it has taken the sentinel down before it begins, and leaves an active tenant.
LEMMA ResumeSleeps ==
    ASSUME Undisturbed, MarkInv, SleepInv, NEW n \in Names, ResumeStep(n)
    PROVE  SleepInv'
<1>1. /\ \A m \in Names : m = n
      /\ mem \in Seq(Tenant) /\ Len(mem) = 1 /\ 1 \in DOMAIN mem
      /\ mem[1] \in Tenant /\ mem[1].name = n
      /\ IndexOf(n) = 1
      /\ ~(susPc[n] # "idle" /\ resPc[n] # "idle")
  BY SleepFacts DEF Undisturbed
<1>2. susPc[n] = "idle" /\ resPc[n] # "idle" /\ listener[n] = "off" /\ Booted
  BY <1>1 DEF ResumeStep, Resume, ResumeStops, ResumeLoads, ResumeFails, ResumeSaves,
              ResumeSyncs, ResumePokes, SleepInv, Placed, InResume
<1>3. UNCHANGED <<poll, boot, susPc, susIdx, listener>>
  BY DEF ResumeStep, Resume, ResumeStops, ResumeLoads, ResumeFails, ResumeSaves,
         ResumeSyncs, ResumePokes, susVars
<1>4. PollsCalm' /\ InSuspend(n)' /\ Booted' /\ listener'[n] = "off"
  BY <1>2, <1>3 DEF SleepInv, PollsCalm, InSuspend, Booted
<1>5. boot'.pc # "listening"
  BY <1>2, <1>3 DEF Booted
<1>6. SUFFICES AtRest(n)' /\ InResume(n)' /\ LastAsks'
  BY <1>1, <1>4, <1>5 DEF SleepInv, Placed, BootCalm
<1>7. UNCHANGED <<mem, idle>> => LastAsks'
  BY <1>3 DEF SleepInv, LastAsks, Asks
<1>8. mem'[1] = AsTenant(n, Active) => LastAsks'
  BY DEF LastAsks, AsTenant, Active
<1>9. CASE ResumeStops(n)
  <2>1. /\ Has(n, Suspended, Suspended) /\ ~mapped'[n] /\ resPc'[n] = "loading"
        /\ UNCHANGED <<disk, mem, idle>>
    BY <1>9, SleepTypes DEF ResumeStops, SleepInv, Placed, InResume, sharedVars
  <2> QED BY <1>4, <1>7, <2>1 DEF AtRest, InResume, Has
<1>10. CASE ResumeLoads(n)
  <2>1. Has(n, Suspended, Suspended) /\ ~mapped[n]
    BY <1>10 DEF ResumeLoads, SleepInv, Placed, InResume
  <2>2. resPc'[n] = "working" /\ UNCHANGED <<disk, mem, idle, mapped>>
    BY <1>10, <2>1, SleepTypes DEF ResumeLoads, Has
  <2> QED BY <1>4, <1>7, <2>1, <2>2 DEF AtRest, InResume, Has
<1>11. CASE ResumeSaves(n)
  <2>1. Has(n, Suspended, Suspended) /\ ~mapped[n]
    BY <1>11 DEF ResumeSaves, SleepInv, Placed, InResume
  <2>2. disk'[n] = Active /\ resPc'[n] = "saved" /\ UNCHANGED <<mem, idle, mapped>>
    BY <1>11, SleepTypes DEF ResumeSaves
  <2> QED BY <1>4, <1>7, <2>1, <2>2 DEF AtRest, InResume, Has
<1>12. CASE ResumeSyncs(n)
  <2>1. Has(n, Active, Suspended) /\ ~mapped[n]
    BY <1>12 DEF ResumeSyncs, SleepInv, Placed, InResume
  <2>2. /\ mem' = [mem EXCEPT ![1] = AsTenant(n, Active)]
        /\ ~timer'[n] /\ UNCHANGED <<disk, mapped>>
        /\ resPc'[n] \in {"idle", "poking"}
    BY <1>1, <1>12, SleepTypes DEF ResumeSyncs, EndResume
  <2>3. Len(mem') = 1 /\ mem'[1] = AsTenant(n, Active)
    BY <1>1, <2>2, ListUpdate, EntryTypes
  <2>4. Has(n, Active, Active)' /\ Deaf(n)'
    BY <1>4, <2>1, <2>2, <2>3 DEF Has, Deaf
  <2> QED BY <1>4, <1>8, <2>2, <2>3, <2>4 DEF AtRest, InResume, Deaf
<1>13. CASE ResumePokes(n)
  <2>1. Has(n, Active, Active) /\ ~mapped[n] /\ ~timer[n]
    BY <1>13 DEF ResumePokes, SleepInv, Placed, InResume
  <2>2. resPc'[n] = "idle" /\ UNCHANGED <<disk, mem, mapped, timer>>
    BY <1>13, SleepTypes DEF ResumePokes, EndResume
  <2>3. Has(n, Active, Active)' /\ Deaf(n)' /\ mem'[1] = AsTenant(n, Active)
    BY <1>4, <2>1, <2>2 DEF Has, Deaf
  <2> QED BY <1>8, <2>2, <2>3 DEF AtRest, InResume
<1> QED BY <1>9, <1>10, <1>11, <1>12, <1>13
        DEF ResumeStep, Resume, ResumeFails, Undisturbed

\* A poll: it finds no sentinel missing, and of two that ask only one starts a suspend.
LEMMA PollSleeps ==
    ASSUME Undisturbed, MarkInv, SleepInv, NEW n \in Names, NEW p \in Polls, PollStep(p)
    PROVE  SleepInv'
<1>1. /\ \A m \in Names : m = n
      /\ mem \in Seq(Tenant) /\ Len(mem) = 1 /\ 1 \in DOMAIN mem
      /\ mem[1] \in Tenant /\ mem[1].name = n
      /\ IndexOf(n) = 1
      /\ n \in inFlight <=> susPc[n] # "idle" \/ resPc[n] # "idle"
      /\ ~(susPc[n] # "idle" /\ resPc[n] # "idle")
  BY SleepFacts DEF Undisturbed
<1>2. /\ poll[p].pc = "loop" => poll[p].i > 0
      /\ poll[p].pc = "asking" => poll[p].name = n
  BY <1>1 DEF MarkInv, PlaceInv, TypeInv, VisitTypeOK
<1>3. /\ UNCHANGED <<disk, wake, boot, resPc, timer>>
      /\ poll'[p].pc # "idle" \/ poll[p].pc # "idle" => boot.pc = "done"
      /\ \A q \in Polls \ {p} : poll'[q] = poll[q]
  <2>1. UNCHANGED <<disk, wake, boot, resPc, timer>>
    BY DEF PollStep, Poll, PollStarts, PollEnds, PollPasses, PollAsks, PollListens,
           PollFindsIdle, PollFindsBusy, sharedVars, resVars
  <2>2. poll[p].pc = "idle" => boot.pc = "done"
    BY DEF PollStep, Poll, PollStarts, PollEnds, PollPasses, PollAsks, PollListens,
           PollFindsIdle, PollFindsBusy, Undisturbed
  <2>3. poll[p].pc # "idle" => boot.pc = "done"
    BY DEF SleepInv, PollsCalm
  <2>4. \A q \in Polls \ {p} : poll'[q] = poll[q]
    BY SleepTypes
    DEF PollStep, Poll, PollStarts, PollEnds, PollPasses, PollAsks, PollListens,
        PollFindsIdle, PollFindsBusy, PollOn
  <2> QED BY <2>1, <2>2, <2>3, <2>4
<1>4. boot.pc = "done" /\ Booted /\ Booted' /\ BootCalm'
  <2>1. boot.pc = "done"
    BY <1>3 DEF PollStep, Poll, PollStarts, PollEnds, PollPasses, PollAsks, PollListens,
                PollFindsIdle, PollFindsBusy, Undisturbed
  <2> QED BY <1>3, <2>1 DEF Booted, BootCalm
<1>5. ~PollListens(p) /\ (PollAsks(p) => Pollable(mem[1]))
  <2>1. ~PollListens(p)
    BY DEF PollListens, SleepInv, PollsCalm
  <2>2. ASSUME PollAsks(p), ~Pollable(mem[1]) PROVE FALSE
    <3>1. poll[p].i = 1
      BY <1>1, <1>2, <2>2, SleepTypes DEF PollAsks
    <3>2. mem[1].status = "suspended" /\ ~mapped[n] /\ n \notin inFlight
      BY <1>1, <2>2, <3>1 DEF PollAsks, Polled, NeedsSentinel
    <3> QED BY <1>1, <1>4, <3>2, HeldEntries DEF SleepInv, Placed, AtRest, Has, Waits
  <2> QED BY <2>1, <2>2
<1>6. poll'[p].pc # "listening"
  <2>1. CASE PollAsks(p)
    <3>1. poll[p].i = 1
      BY <1>1, <1>2, <2>1, SleepTypes DEF PollAsks
    <3> QED BY <1>5, <2>1, <3>1, SleepTypes DEF PollAsks, Polled
  <2>2. CASE ~PollAsks(p)
    BY <1>5, <2>2, SleepTypes
    DEF PollStep, Poll, PollStarts, PollEnds, PollPasses, PollFindsIdle, PollFindsBusy,
        PollOn, IdlePoll
  <2> QED BY <2>1, <2>2
<1>7. PollsCalm'
  BY <1>3, <1>4, <1>6 DEF SleepInv, PollsCalm
<1>8. CASE ~UNCHANGED <<inFlight, susVars, mem>>
  <2>1. poll[p].pc = "asking" /\ idle[n] = "elapsed" /\ TriggerSuspend(n) /\ n \notin inFlight
    BY <1>2, <1>5, <1>8
    DEF PollStep, Poll, PollStarts, PollEnds, PollPasses, PollAsks, PollFindsIdle,
        PollFindsBusy, sharedVars, TriggerSuspend
  <2>2. UNCHANGED <<listener, mapped>> /\ poll'[p].pc = "loop"
    BY <1>5, <1>8, SleepTypes
    DEF PollStep, Poll, PollStarts, PollEnds, PollPasses, PollAsks, PollFindsIdle,
        PollFindsBusy, PollOn, sharedVars
  <2>3. mem[1].status # "suspended"
    BY <1>1, <2>1 DEF SleepInv, LastAsks, Asks
  <2>4. susPc[n] = "idle" /\ resPc[n] = "idle" /\ Has(n, Active, Active) /\ Deaf(n)
    BY <1>1, <2>1, <2>3, HeldEntries DEF SleepInv, Placed, AtRest, Has
  <2>5. /\ susPc'[n] = "loading" /\ susIdx'[n] = 1
        /\ mem' = [mem EXCEPT ![1].status = "suspended"]
    BY <1>1, <2>1, SleepTypes DEF TriggerSuspend
  <2>6. Len(mem') = 1 /\ mem'[1] = AsTenant(n, Mark)
    <3>1. Len(mem') = 1 /\ mem'[1] = [mem[1] EXCEPT !.status = "suspended"]
      BY <1>1, <2>5, StatusTypes DEF Status
    <3> QED BY <2>4, <3>1, HeldEntries DEF Has
  <2>7. AtRest(n)' /\ InSuspend(n)' /\ InResume(n)'
    BY <1>3, <1>4, <2>2, <2>4, <2>5, <2>6
    DEF AtRest, InSuspend, InResume, Has, Deaf
  <2>8. LastAsks'
    <3>1. ASSUME NEW q \in Polls, NEW r \in Polls, poll'[q].pc = "asking",
                 poll'[r].pc = "asking"
          PROVE  q = r
      BY <2>2, <3>1 DEF Undisturbed
    <3> QED BY <1>1, <2>5, <3>1 DEF LastAsks, Asks
  <2> QED BY <1>1, <1>4, <1>7, <2>7, <2>8 DEF SleepInv, Placed
<1>9. CASE UNCHANGED <<inFlight, susVars, mem>>
  <2>1. UNCHANGED <<susPc, susIdx, mem>>
    BY <1>9 DEF susVars
  <2>2. UNCHANGED <<listener, mapped>>
    BY <1>5 DEF PollStep, Poll, PollStarts, PollEnds, PollPasses, PollAsks, PollFindsIdle,
                PollFindsBusy, sharedVars
  <2>3. AtRest(n)' /\ InSuspend(n)' /\ InResume(n)'
    BY <1>3, <1>4, <2>1, <2>2
    DEF SleepInv, Placed, AtRest, InSuspend, InResume, Has, Deaf, Waits
  <2>4. LastAsks'
    <3>1. CASE mem[1].status # "suspended"
      BY <2>1, <3>1 DEF LastAsks
    <3>2. CASE mem[1].status = "suspended"
      <4>1. poll'[p].pc # "asking"
        <5>1. ~PollAsks(p)
          BY <1>5, <3>2 DEF Pollable
        <5> QED BY <1>5, <5>1, SleepTypes
                DEF PollStep, Poll, PollStarts, PollEnds, PollPasses, PollFindsIdle,
                    PollFindsBusy, PollOn, IdlePoll
      <4>2. poll[p].pc # "asking" => idle'[n] = idle[n] \/ idle'[n] = "none"
        <5>1. ASSUME PollPasses(p) PROVE idle'[n] = idle[n] \/ idle'[n] = "none"
          <6>1. Polled(p) = mem[1]
            BY <1>1, <1>2, <5>1, SleepTypes DEF PollPasses, Polled
          <6> QED BY <1>1, <5>1, <6>1, SleepTypes DEF PollPasses
        <5> QED BY <1>5, <5>1
                DEF PollStep, Poll, PollStarts, PollEnds, PollAsks, PollFindsIdle,
                    PollFindsBusy
      <4>3. \A q \in Polls : Asks(q)' => Asks(q) /\ q # p
        BY <1>3, <4>1 DEF Asks
      <4>4. poll[p].pc = "asking" => \A q \in Polls : ~Asks(q)'
        BY <3>2, <4>3 DEF SleepInv, LastAsks, Asks
      <4> QED BY <1>1, <2>1, <3>2, <4>2, <4>3, <4>4 DEF SleepInv, LastAsks
    <3> QED BY <3>1, <3>2
  <2> QED BY <1>1, <1>4, <1>7, <2>3, <2>4 DEF SleepInv, Placed
<1> QED BY <1>8, <1>9

\* A resume begins only of a tenant that is waited for.
LEMMA TriggerSleeps ==
    ASSUME Undisturbed, MarkInv, SleepInv, NEW n \in Names, NEW cron \in BOOLEAN, NEW heard,
           TriggerResume(n, cron, mapped[n], heard),
           n \in inFlight => listener[n] = heard,
           n \notin inFlight => Has(n, Suspended, Suspended) /\ Booted /\ mapped[n],
           susPc[n] # "idle" => timer'[n] = timer[n],
           timer'[n] => timer[n],
           UNCHANGED <<disk, wake, mem, poll, boot, susVars, mapped, idle>>
    PROVE  SleepInv'
<1>1. /\ \A m \in Names : m = n
      /\ n \in inFlight <=> susPc[n] # "idle" \/ resPc[n] # "idle"
  BY SleepFacts DEF Undisturbed
<1>2. UNCHANGED <<susPc, susIdx>>
  BY DEF susVars
<1>3. PollsCalm' /\ LastAsks' /\ BootCalm'
  BY <1>2 DEF SleepInv, PollsCalm, LastAsks, Asks, BootCalm
<1>4. CASE n \in inFlight
  <2>1. UNCHANGED resPc /\ listener'[n] = listener[n]
    BY <1>4, SleepTypes DEF TriggerResume, resVars
  <2>2. AtRest(n)' /\ InSuspend(n)' /\ InResume(n)'
    BY <1>1, <1>2, <1>4, <2>1
    DEF SleepInv, Placed, AtRest, InSuspend, InResume, Has, Deaf, Booted
  <2> QED BY <1>1, <1>3, <2>2 DEF SleepInv, Placed
<1>5. CASE n \notin inFlight
  <2>1. resPc'[n] = "stopping" /\ listener'[n] = "off"
    BY <1>5, SleepTypes DEF TriggerResume
  <2>2. AtRest(n)' /\ InSuspend(n)' /\ InResume(n)'
    BY <1>1, <1>2, <1>5, <2>1
    DEF SleepInv, Placed, AtRest, InSuspend, InResume, Has, Booted
  <2> QED BY <1>1, <1>3, <2>2 DEF SleepInv, Placed
<1> QED BY <1>4, <1>5

\* Start-up, timers, clients and the passing of time.
LEMMA QuietSleeps ==
    ASSUME Undisturbed, MarkInv, SleepInv, NEW n \in Names, Quiet
    PROVE  SleepInv'
<1>1. /\ \A m \in Names : m = n
      /\ disk[n] \in {Active, Suspended}
      /\ n \in inFlight <=> susPc[n] # "idle" \/ resPc[n] # "idle"
      /\ ~(susPc[n] # "idle" /\ resPc[n] # "idle")
  BY SleepFacts DEF Undisturbed
<1>2. CASE BootStep
  BY <1>2, BootSleeps
<1>3. CASE UNCHANGED vars \/ Cooled(n)
  BY <1>3, SleepSame DEF vars, Cooled, CooldownEnds, sharedVars
<1>4. CASE TimerStep(n)
  <2>1. timer[n] /\ timer'[n] = FALSE /\ TriggerResume(n, TRUE, mapped[n], listener[n])
    BY <1>4, SleepTypes DEF TimerStep, TimerFires
  <2>2. UNCHANGED <<disk, wake, mem, poll, boot, susVars, mapped, idle>>
    BY <1>4 DEF TimerStep, TimerFires
  <2>3. susPc[n] = "idle"
    BY <2>1 DEF SleepInv, Placed, InSuspend, Deaf
  <2>4. n \notin inFlight => Has(n, Suspended, Suspended) /\ Booted /\ mapped[n]
    BY <1>1, <2>1 DEF SleepInv, Placed, AtRest, Deaf, Waits
  <2> QED BY <2>1, <2>2, <2>3, <2>4, TriggerSleeps
<1>5. CASE ClientStep(n)
  <2>1. listener[n] = "armed" /\ TriggerResume(n, FALSE, mapped[n], "fired")
    BY <1>5 DEF ClientStep, Connects
  <2>2. UNCHANGED <<disk, wake, mem, poll, boot, susVars, mapped, timer, idle>>
    BY <1>5 DEF ClientStep, Connects
  <2>3. n \notin inFlight
    BY <1>1, <2>1 DEF SleepInv, Placed, InSuspend, InResume, Deaf
  <2>4. Has(n, Suspended, Suspended) /\ Booted /\ mapped[n]
    BY <1>1, <2>1, <2>3 DEF SleepInv, Placed, AtRest, Deaf, Waits
  <2> QED BY <2>1, <2>2, <2>3, <2>4, TriggerSleeps
<1>6. CASE IdleStep(n)
  <2>1. idle[n] = "counting"
    BY <1>6 DEF IdleStep, IdleElapses
  <2>2. UNCHANGED <<disk, wake, mem, poll, boot, susPc, susIdx, resPc, listener, mapped,
                    timer>>
    BY <1>6 DEF IdleStep, IdleElapses, sharedVars, susVars, resVars
  <2>3. Placed' /\ PollsCalm' /\ BootCalm'
    BY <2>2 DEF SleepInv, PollsCalm, BootCalm, Placed, AtRest, InSuspend, InResume, Has,
                Deaf, Waits, Booted
  <2>4. LastAsks'
    BY <1>1, <2>1, <2>2 DEF SleepInv, LastAsks, Asks
  <2> QED BY <2>3, <2>4 DEF SleepInv
<1>7. CASE WakeStep(n)
  <2>1. wake[n] = "ahead" /\ susPc[n] = "idle"
    BY <1>7 DEF WakeStep, WakeDue, Undisturbed
  <2>2. UNCHANGED <<disk, mem, poll, boot, susPc, susIdx, resPc, listener, mapped, timer,
                    idle>>
    BY <1>7 DEF WakeStep, WakeDue, schedVars, susVars, resVars
  <2>3. AtRest(n)' /\ InSuspend(n)' /\ InResume(n)'
    BY <2>1, <2>2
    DEF SleepInv, Placed, AtRest, InSuspend, InResume, Has, Deaf, Waits, Booted
  <2>4. PollsCalm' /\ LastAsks' /\ BootCalm'
    BY <2>2 DEF SleepInv, PollsCalm, LastAsks, Asks, BootCalm
  <2> QED BY <1>1, <2>3, <2>4 DEF SleepInv, Placed
<1>8. ~Command(n)
  BY <1>1 DEF Command, OtherSpawns, OtherSuspends, OtherResumes, OtherEvicts, Undisturbed,
              Active, Suspended, Absent
<1> QED BY <1>1, <1>2, <1>3, <1>4, <1>5, <1>6, <1>7, <1>8 DEF Quiet

\* The only tenant as it is read into memory.
LEMMA SoleListing ==
    ASSUME Sole, NEW n \in Names, disk \in Registry, NEW list \in Listings(disk),
           disk[n] \in {Active, Suspended}
    PROVE  Len(list) = 1 /\ list[1] = AsTenant(n, disk[n])
<1>1. /\ list \in Seq(Tenant)
      /\ \A j, k \in DOMAIN list : j # k => list[j].name # list[k].name
  BY ListingFacts
<1>2. \A j \in DOMAIN list : list[j].name = n
  <2>1. \A j \in DOMAIN list : list[j] \in Tenant
    BY <1>1
  <2> QED BY <2>1 DEF Tenant, Sole
<1>3. PICK k \in DOMAIN list : list[k].name = n
  BY ListingComplete DEF Active, Suspended
<1>4. 1 \in DOMAIN list /\ Len(list) = 1
  <2>1. 1 \in DOMAIN list /\ Len(list) \in DOMAIN list
    BY <1>1, <1>3
  <2>2. \A j, k2 \in DOMAIN list : j = k2
    BY <1>1, <1>2
  <2> QED BY <2>1, <2>2
<1>5. PICK order : list = [i \in DOMAIN order |-> AsTenant(order[i], disk[order[i]])]
  BY DEF Listings
<1>6. list[1] = AsTenant(order[1], disk[order[1]])
  BY <1>4, <1>5
<1> QED BY <1>2, <1>4, <1>6 DEF AsTenant

\* When the watchdog starts nothing waits for the tenant yet, and nothing is under way.
LEMMA InitSleeps == Sole /\ Init => SleepInv
<1> SUFFICES ASSUME Sole, Init PROVE SleepInv
  OBVIOUS
<1>1. ASSUME NEW n \in Names PROVE AtRest(n) /\ InSuspend(n) /\ InResume(n)
  <2>1. disk \in Registry /\ mem \in Listings(disk)
    BY InitTypes DEF Init, StartWatch, TypeInv, SharedTypeOK
  <2>2. disk[n] \in {Active, Suspended}
    <3>1. disk \in [Names -> {Absent, Active, Suspended}] /\ disk # NoTenants
      BY DEF Init
    <3> QED BY <3>1 DEF Sole, NoTenants
  <2>3. Has(n, Active, Active) \/ Has(n, Suspended, Suspended)
    BY <2>1, <2>2, SoleListing DEF Has
  <2>4. susPc[n] = "idle" /\ resPc[n] = "idle" /\ Deaf(n) /\ ~Booted
    BY DEF Init, StartWatch, SchedulerInit, Deaf, Booted
  <2> QED BY <2>3, <2>4 DEF AtRest, InSuspend, InResume
<1>2. PollsCalm /\ LastAsks /\ BootCalm
  BY DEF Init, StartWatch, SchedulerInit, PollsCalm, LastAsks, Asks, BootCalm, IdlePoll
<1> QED BY <1>1, <1>2 DEF SleepInv, Placed

LEMMA RestartSleeps == ASSUME Sole, MarkInv, SleepInv, Restart PROVE SleepInv'
<1>1. ASSUME NEW n \in Names PROVE AtRest(n)' /\ InSuspend(n)' /\ InResume(n)'
  <2>1. disk \in Registry /\ mem' \in Listings(disk) /\ disk' = disk
    BY DEF Restart, MarkInv, PlaceInv, TypeInv, SharedTypeOK
  <2>2. Has(n, Active, Active)' \/ Has(n, Suspended, Suspended)'
    BY <2>1, SleepFacts, SoleListing DEF Has
  <2>3. susPc'[n] = "idle" /\ resPc'[n] = "idle" /\ Deaf(n)' /\ ~Booted'
    BY DEF Restart, SchedulerRestarts, Deaf, Booted
  <2> QED BY <2>2, <2>3 DEF AtRest, InSuspend, InResume
<1>2. PollsCalm' /\ LastAsks' /\ BootCalm'
  BY DEF Restart, SchedulerRestarts, PollsCalm, LastAsks, Asks, BootCalm, IdlePoll
<1> QED BY <1>1, <1>2 DEF SleepInv, Placed

\* Without tenants nothing is asked for: the watchdog waits for one before it starts.
LEMMA SomeTenant == Init => \E n \in Names : TRUE
BY DEF Init, NoTenants

WakeInv == MarkInv /\ SleepInv /\ \E n \in Names : TRUE

LEMMA NextSleeps == Undisturbed /\ WakeInv /\ [Next]_vars => WakeInv'
<1> SUFFICES ASSUME Undisturbed, WakeInv, [Next]_vars PROVE WakeInv'
  OBVIOUS
<1>1. MarkInv' /\ Sole
  BY NextMarks DEF Undisturbed, Steady, WakeInv
<1>2. PICK n \in Names : TRUE
  BY DEF WakeInv
<1>3. \A m \in Names : m = n
  BY <1>1 DEF Sole
<1>4. CASE LoopStep
  <2>1. UNCHANGED <<schedVars, wake>>
    BY <1>4, TickLeaves
  <2> QED BY <1>1, <1>4, <2>1, TickSleeps, SleepSame DEF WakeInv
<1>5. CASE Restart
  BY <1>1, <1>5, RestartSleeps DEF WakeInv
<1>6. CASE Quiet
  BY <1>1, <1>6, QuietSleeps DEF WakeInv
<1>7. CASE \E p \in Polls : PollStep(p)
  BY <1>1, <1>2, <1>7, PollSleeps DEF WakeInv
<1>8. CASE \E m \in Names : SuspendStep(m) \/ ResumeStep(m)
  BY <1>1, <1>8, SuspendSleeps, ResumeSleeps DEF WakeInv
<1> QED BY <1>4, <1>5, <1>6, <1>7, <1>8 DEF Next, Quiet

LEMMA AlwaysSleeps == ASSUME Undisturbed PROVE Spec => []WakeInv
<1>1. Init => WakeInv
  BY InitMarks, InitSleeps, SomeTenant DEF Undisturbed, WakeInv
<1> QED BY <1>1, NextSleeps, PTL DEF Spec

\* A tenant that sleeps is waited for.
LEMMA SleepersWait ==
    ASSUME Undisturbed, WakeInv, NEW n \in Names, Sleeps(n)
    PROVE  Waits(n)
<1>1. susPc[n] = "idle" /\ resPc[n] = "idle" /\ disk[n] # Active /\ Booted
  BY SleepFacts DEF Undisturbed, WakeInv, Sleeps, Active, Suspended, Booted
<1> QED BY <1>1 DEF WakeInv, SleepInv, Placed, AtRest, Has

\* Wake-on-request: once start-up is done a tenant that is suspended and not in flight has a
\* listening sentinel, however idle clocks, two overlapping polls, requests, timers, failing
\* suspends and restarts come together.
THEOREM SleepersHeard == ASSUME Undisturbed PROVE Spec => []SentinelsKept
<1>1. WakeInv => SentinelsKept
  BY SleepersWait DEF SentinelsKept, Waits
<1> QED BY <1>1, AlwaysSleeps, PTL

\* Timed wake-up: likewise, if it has a wake time it has a timer.
THEOREM SleepersTimed == ASSUME Undisturbed PROVE Spec => []TimersKept
<1>1. WakeInv => TimersKept
  BY SleepersWait DEF TimersKept, Waits
<1> QED BY <1>1, AlwaysSleeps, PTL

\* No suspend ends in an exception that would leave the tenant in flight until the daemon is
\* restarted: the list still has the place it remembers, and the port is free.
THEOREM SuspendsReturn == ASSUME Undisturbed PROVE Spec => []NobodyStranded
<1>1. WakeInv => NobodyStranded
  BY DEF WakeInv, SleepInv, Placed, InSuspend, NobodyStranded
<1> QED BY <1>1, AlwaysSleeps, PTL
====
