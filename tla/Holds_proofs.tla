---- MODULE Holds_proofs ----
(***************************************************************************)
(* Theorems about Holds, for any number of commands and polls and times with*)
(* Ttl > 2 * Keepalive: the types, that a hold covers its command although *)
(* a renewal is lost, and that a suspend catches no user it had counted.   *)
(***************************************************************************)
EXTENDS Holds, TLAPS

Agents == [token : BOOLEAN, gateway : {"gone", "up", "deaf"}, holds : [Sessions -> 0..Ttl]]

\* The handlers return an agent.
LEMMA HandlersTyped ==
    ASSUME NEW a \in Agents, NEW s \in Sessions, NEW d \in 0..Ttl
    PROVE  /\ Launch(a) \in Agents /\ InjectSecrets(a) \in Agents
           /\ HoldAcquire(a, s) \in Agents /\ HoldRelease(a, s) \in Agents
           /\ Older(a) \in Agents /\ SetTime(a, d) \in Agents
           /\ \A g \in {"gone", "up", "deaf"} : [a EXCEPT !.gateway = g] \in Agents
<1>1. Ttl \in 0..Ttl /\ 0 \in 0..Ttl
  BY HoldsAssumption
<1>2. \A n \in 0..Ttl : (n > 0 => n - 1 \in 0..Ttl) /\ (n > d => n - d \in 0..Ttl)
  BY HoldsAssumption
<1>3. Older(a) \in Agents /\ SetTime(a, d) \in Agents
  BY <1>1, <1>2 DEF Agents, Older, SetTime
<1> QED BY <1>1, <1>3 DEF Agents, Launch, InjectSecrets, HoldAcquire, HoldRelease

\* So does a tick of the health loop, and the watch state it leaves is one.
LEMMA TickTyped ==
    ASSUME HoldsTypeOK, NEW ok \in BOOLEAN, NEW repaired \in SUBSET Agents, Ticked(ok, repaired)
    PROVE  agent' \in Agents /\ watch' \in TenantWatchState
<1>1. Transition(watch, ok) \in TenantWatchState
  BY DEF HoldsTypeOK, Transition, Passed, Missed, TenantWatchState, HealthState
<1>2. \A w \in TenantWatchState, r \in BOOLEAN : Attempted(w, r) \in TenantWatchState
  BY DEF Attempted, TenantWatchState
<1>3. agent \in Agents
  BY DEF HoldsTypeOK, Agents
<1> QED BY <1>1, <1>2, <1>3 DEF Ticked, Repairing

\* What passes of the users of a kind is noted: the history is of users that are there.
Users == Sessions \cup {"client", "job"}

LEMMA PollsTyped ==
    ASSUME PollsGoOn, HoldsTypeOK
    PROVE  /\ since' \in [Polls -> SUBSET Users] /\ poll' = poll /\ quiet' = quiet
<1>1. \A p \in Polls : since[p] \subseteq Users /\ Kinds(p) \subseteq Users
  BY DEF HoldsTypeOK, Kinds, Users
<1> QED BY <1>1 DEF PollsGoOn

\* The steps of the commands with a hold keep the types.
LEMMA SessionTyped ==
    ASSUME HoldsTypeOK, NEW s \in Sessions, Session(s)
    PROVE  HoldsTypeOK'
<1> USE DEF HoldsTypeOK, agentVars, pollVars
<1>1. agent \in Agents /\ Keepalive \in 0..Keepalive /\ 0 \in 0..Keepalive
  BY HoldsAssumption DEF Agents
<1>2. CASE Opens(s)
  BY <1>1, <1>2 DEF Opens
<1>3. CASE KeepsAlive(s)
  BY <1>1, <1>3 DEF KeepsAlive
<1>4. CASE Closes(s)
  BY <1>1, <1>4 DEF Closes
<1>5. CASE SessionDies(s)
  BY <1>1, <1>5 DEF SessionDies
<1>6. ASSUME Proceeds(s) PROVE /\ call' \in [Sessions -> {"none", "acquire", "release"}]
                               /\ session' \in [Sessions -> {"away", "placing", "working", "releasing"}]
  BY <1>6 DEF Proceeds
<1>7. CASE Acquires(s)
  <2>1. agent' \in Agents
    BY <1>1, <1>7, HandlersTyped, HoldsAssumption DEF Acquires
  <2> QED BY <1>6, <1>7, <2>1, PollsTyped DEF Acquires, Receives, Agents, Users
<1>8. CASE Releases(s)
  <2>1. agent' \in Agents
    BY <1>1, <1>8, HandlersTyped, HoldsAssumption DEF Releases
  <2> QED BY <1>6, <1>8, <2>1, PollsTyped DEF Releases, Receives, Agents, Users
<1>9. CASE CallFails(s)
  <2>1. misses' \in [Sessions -> 0..2]
    BY <1>9 DEF CallFails
  <2> QED BY <1>6, <1>9, <2>1 DEF CallFails
<1>10. CASE WireDrops(s)
  BY <1>10 DEF WireDrops
<1> QED
  BY <1>2, <1>3, <1>4, <1>5, <1>7, <1>8, <1>9, <1>10 DEF Session

\* So do those of the guest.
LEMMA GuestTyped == ASSUME HoldsTypeOK, Guest PROVE HoldsTypeOK'
<1> USE PollsTyped DEF HoldsTypeOK, agentVars, sessionVars, pollVars, Users
<1>1. agent \in Agents /\ 0 \in 0..Ttl
  BY HoldsAssumption DEF Agents
<1>2. CASE ClientConnects \/ ClientLeaves \/ JobStarts \/ JobEnds
  <2>1. /\ client' \in BOOLEAN /\ job' \in BOOLEAN /\ PollsGoOn
        /\ UNCHANGED <<agentVars, sessionVars, idle>>
    BY <1>2 DEF ClientConnects, ClientLeaves, JobStarts, JobEnds, Others
  <2> QED BY <2>1
<1>3. CASE GatewayExits
  BY <1>3 DEF GatewayExits
<1>4. CASE GatewayStalls
  BY <1>4 DEF GatewayStalls
<1>5. CASE Boots
  <2>1. agent' \in Agents
    BY <1>1, <1>5 DEF Boots, NoHolds, Agents
  <2>2. misses' \in [Sessions -> 0..2]
    BY <1>5 DEF Boots
  <2>3. watch' \in TenantWatchState
    <3>1. Missed(watch) \in TenantWatchState
      BY DEF Missed, TenantWatchState, HealthState
    <3> QED BY <1>5, <3>1 DEF Boots, Attempted, TenantWatchState
  <2>4. PollsGoOn
    BY <1>5 DEF Boots
  <2> QED BY <1>5, <2>1, <2>2, <2>3, <2>4 DEF Boots, Agents
<1>6. CASE Injects
  <2>1. InjectSecrets(agent) \in Agents
    BY <1>1 DEF InjectSecrets, Launch, Agents
  <2> QED BY <1>6, <2>1 DEF Injects, Agents
<1> QED BY <1>2, <1>3, <1>4, <1>5, <1>6 DEF Guest

\* A suspend that is over leaves the polls well typed.
LEMMA SuspendEndsTyped ==
    ASSUME HoldsTypeOK, SuspendEnds
    PROVE  /\ poll' \in [Polls -> {"idle", "asking", "answered", "suspends"}]
           /\ quiet' \in [Polls -> BOOLEAN]
           /\ since' \in [Polls -> SUBSET Users]
           /\ idle' \in {"none", "counting", "elapsed"}
<1>1. poll' \in [Polls -> {"idle", "asking", "answered", "suspends"}]
  BY DEF HoldsTypeOK, SuspendEnds
<1>2. quiet' \in [Polls -> BOOLEAN]
  BY DEF HoldsTypeOK, SuspendEnds
<1>3. since' \in [Polls -> SUBSET Users]
  BY DEF HoldsTypeOK, SuspendEnds, Users
<1> QED BY <1>1, <1>2, <1>3 DEF SuspendEnds

\* So do those of the health loop, the poll and the suspend, and time.
LEMMA OtherTyped ==
    ASSUME HoldsTypeOK, Watch \/ Poll \/ Suspend \/ Resumes \/ Ticks
    PROVE  HoldsTypeOK'
<1> USE PollsTyped DEF HoldsTypeOK, agentVars, sessionVars, pollVars, Users
<1>1. agent \in Agents /\ 0 \in 0..Ttl
  BY HoldsAssumption DEF Agents
<1>2. CASE Watch
  <2>1. Launch(agent) \in Agents
    BY <1>1 DEF Launch, Agents
  <2>2. CASE Checks \/ CheckFails
    <3>1. /\ agent' \in Agents /\ watch' \in TenantWatchState
          /\ UNCHANGED <<vm, booting, client, job, sessionVars, pollVars>>
      BY <1>1, <2>1, <2>2, TickTyped DEF Checks, CheckFails, Ticked
    <3> QED BY <3>1 DEF Agents
  <2>3. CASE TickSeesSuspended
    <3>1. watch' \in TenantWatchState
      BY <2>3 DEF TickSeesSuspended, InitialWatchState, TenantWatchState, HealthState
    <3> QED BY <2>3, <3>1 DEF TickSeesSuspended
  <2> QED BY <1>2, <2>2, <2>3 DEF Watch
<1>3. CASE Poll
  <2>1. CASE PollPasses \/ IdleElapses
    BY <2>1 DEF PollPasses, IdleElapses
  <2>2. ASSUME NEW p \in Polls, PollCounts(p) \/ PollAnswers(p) \/ PollTimesOut(p) \/ PollEnds(p)
        PROVE  HoldsTypeOK'
    <3>1. idle' \in {"none", "counting", "elapsed"}
      BY <2>2 DEF PollCounts, PollAnswers, PollCountsHolds, PollTimesOut, PollEnds
    <3>2. PICK label \in {"idle", "asking", "answered", "suspends"}, isQuiet \in BOOLEAN,
               who \in SUBSET Users : PollGoes(p, label, isQuiet, who)
      <4>1. \A heard \in BOOLEAN : NotCounted(p, heard) \subseteq Users
        BY <2>2 DEF NotCounted
      <4> QED BY <2>2, <4>1 DEF PollCounts, PollAnswers, PollCountsHolds, PollTimesOut, PollEnds
    <3> QED BY <3>1, <3>2 DEF PollGoes
  <2> QED BY <1>3, <2>1, <2>2 DEF Poll
<1>4. CASE Suspend
  <2>1. CASE Pauses
    <3>1. misses' \in [Sessions -> 0..2]
      BY <2>1 DEF Pauses
    <3> QED BY <2>1, <3>1 DEF Pauses
  <2>2. CASE SuspendFails \/ Sleeps
    <3>1. SuspendEnds
      BY <2>2 DEF SuspendFails, Sleeps
    <3>2. /\ poll' \in [Polls -> {"idle", "asking", "answered", "suspends"}]
          /\ quiet' \in [Polls -> BOOLEAN]
          /\ since' \in [Polls -> SUBSET Users]
          /\ idle' \in {"none", "counting", "elapsed"}
      BY ONLY HoldsTypeOK, <3>1, SuspendEndsTyped
    <3> QED BY <2>2, <3>2 DEF SuspendFails, Sleeps
  <2> QED BY <1>4, <2>1, <2>2 DEF Suspend
<1>5. CASE Resumes
  <2>1. PICK d \in 0..Ttl : agent' = SetTime(agent, d)
    BY <1>5 DEF Resumes
  <2>2. \A n \in 0..Ttl : n > d => n - d \in 0..Ttl
    BY HoldsAssumption
  <2>3. agent' \in Agents
    BY <1>1, <2>1, <2>2 DEF SetTime, Agents
  <2> QED BY <1>5, <2>3 DEF Resumes, Agents
<1>6. CASE Ticks
  <2>1. \A n \in 0..Ttl : n > 0 => n - 1 \in 0..Ttl
    BY HoldsAssumption
  <2>2. agent' \in Agents
    BY <1>1, <1>6, <2>1 DEF Ticks, Older, Agents
  <2>3. due' \in [Sessions -> 0..Keepalive]
    BY <1>6, HoldsAssumption DEF Ticks
  <2> QED BY <1>6, <2>2, <2>3 DEF Ticks, Agents
<1> QED BY <1>2, <1>3, <1>4, <1>5, <1>6

\* Every step keeps the types.
LEMMA NextTyped == HoldsTypeOK /\ [Next]_vars => HoldsTypeOK'
<1>1. HoldsTypeOK /\ UNCHANGED vars => HoldsTypeOK'
  BY DEF vars, agentVars, sessionVars, pollVars, HoldsTypeOK
<1> QED BY <1>1, SessionTyped, GuestTyped, OtherTyped DEF Next

\* The agent, the commands, the poll and the suspend are well typed.
THEOREM HoldsTypeCorrect == Spec => []HoldsTypeOK
<1>1. ASSUME Init PROVE HoldsTypeOK
  <2>1. 0 \in 0..Ttl /\ 0 \in 0..Keepalive
    BY HoldsAssumption
  <2>2. agent \in Agents
    BY <1>1, <2>1 DEF Init, NoHolds, Agents
  <2>3. due \in [Sessions -> 0..Keepalive] /\ misses \in [Sessions -> 0..2]
    BY <1>1, <2>1 DEF Init
  <2>4. /\ session \in [Sessions -> {"away", "placing", "working", "releasing"}]
        /\ call \in [Sessions -> {"none", "acquire", "release"}]
        /\ wire \in [Sessions -> SUBSET {"acquire", "release"}]
    BY <1>1 DEF Init
  <2>5. watch \in TenantWatchState
    BY <1>1 DEF Init, InitialWatchState, TenantWatchState, HealthState
  <2> QED BY <1>1, <2>1, <2>2, <2>3, <2>4, <2>5 DEF Init, HoldsTypeOK, Agents
<1> QED BY <1>1, NextTyped, PTL DEF Spec

----
(* How far a hold reaches. A hold that was placed lasts Ttl; until the     *)
(* next renewal is sent, due passes, and each lost one takes a Keepalive.  *)
Lost(s) == IF misses[s] = 0 THEN Keepalive ELSE Keepalive + Keepalive
Sent(s) == IF call[s] = "acquire" THEN Keepalive ELSE 0

Reaches(s) ==
    session[s] = "working" /\ misses[s] < 2 =>
        agent.holds[s] + Sent(s) >= Ttl - Lost(s) + due[s]

CallsInOrder(s) ==
    /\ call[s] = "acquire" => due[s] = Keepalive /\ session[s] \in {"placing", "working"}
    /\ session[s] \in {"placing", "working"} => "release" \notin wire[s] \cup {call[s]}
    /\ vm # "running" \/ session[s] = "placing" => misses[s] = 2

HoldInv == \A s \in Sessions : Reaches(s) /\ CallsInOrder(s)

\* The invariant implies that a hold covers its command.
LEMMA ReachesCovers == HoldsTypeOK /\ HoldInv => HoldCovers
BY HoldsAssumption DEF HoldsTypeOK, HoldInv, HoldCovers, Reaches, CallsInOrder, Lost, Sent

\* Steps that leave the commands alone and shorten no hold keep it.
LEMMA OthersReach ==
    ASSUME HoldsTypeOK, HoldInv, UNCHANGED <<session, due, call, wire>>,
           \/ UNCHANGED <<misses, vm>> /\ agent'.holds = agent.holds
           \/ misses' = [s \in Sessions |-> 2]
    PROVE  HoldInv'
BY DEF HoldsTypeOK, HoldInv, Reaches, CallsInOrder, Lost, Sent

\* The steps of a command keep it.
LEMMA SessionReaches ==
    ASSUME HoldsTypeOK, HoldInv, NEW s \in Sessions, Session(s)
    PROVE  HoldInv'
<1> USE HoldsAssumption
    DEF HoldsTypeOK, HoldInv, Reaches, CallsInOrder, Lost, Sent, agentVars, pollVars
<1>1. CASE Opens(s)
  BY <1>1 DEF Opens
<1>2. CASE KeepsAlive(s)
  BY <1>2 DEF KeepsAlive
<1>3. CASE Closes(s)
  BY <1>3 DEF Closes
<1>4. CASE SessionDies(s)
  BY <1>4 DEF SessionDies
<1>5. CASE Acquires(s)
  <2>1. /\ agent'.holds = [agent.holds EXCEPT ![s] = Ttl] /\ vm = "running" /\ vm' = vm
        /\ wire'[s] = wire[s] \ {"acquire"} /\ due' = due
        /\ \A u \in Sessions \ {s} : wire'[u] = wire[u]
    BY <1>5 DEF Acquires, Receives, HoldAcquire
  <2>2. CASE call[s] = "acquire"
    BY <1>5, <2>1, <2>2 DEF Acquires, Proceeds
  <2>3. CASE call[s] # "acquire"
    BY <1>5, <2>1, <2>3 DEF Acquires
  <2> QED BY <2>2, <2>3
<1>6. CASE Releases(s)
  <2>1. /\ agent'.holds = [agent.holds EXCEPT ![s] = 0] /\ vm' = vm
        /\ session[s] \notin {"placing", "working"}
        /\ wire' = [wire EXCEPT ![s] = @ \ {"release"}] /\ UNCHANGED <<due, misses>>
    BY <1>6 DEF Releases, Receives, HoldRelease
  <2>2. CASE call[s] = "release"
    BY <1>6, <2>1, <2>2 DEF Releases, Proceeds
  <2>3. CASE call[s] # "release"
    BY <1>6, <2>1, <2>3 DEF Releases
  <2> QED BY <2>2, <2>3
<1>7. CASE CallFails(s)
  <2>1. wire'[s] \subseteq wire[s] /\ \A u \in Sessions \ {s} : wire'[u] = wire[u]
    BY <1>7 DEF CallFails
  <2>2. CASE call[s] = "acquire"
    <3>1. /\ session[s] \in {"placing", "working"} /\ session'[s] = "working"
          /\ call'[s] = "none" /\ due[s] = Keepalive
          /\ misses'[s] = IF misses[s] < 2 THEN misses[s] + 1 ELSE misses[s]
          /\ UNCHANGED <<vm, agent, due>>
      BY <1>7, <2>2 DEF CallFails, Proceeds
    <3>2. Reaches(s)'
      <4>1. session[s] = "placing" => misses[s] = 2
        OBVIOUS
      <4> QED BY <3>1, <4>1
    <3>3. CallsInOrder(s)'
      BY <1>7, <2>1, <2>2, <3>1 DEF CallFails
    <3>4. \A u \in Sessions \ {s} : Reaches(u)' /\ CallsInOrder(u)'
      BY <1>7, <2>1, <2>2 DEF CallFails, Proceeds
    <3> QED BY <3>2, <3>3, <3>4
  <2>3. CASE call[s] = "release"
    BY <1>7, <2>1, <2>3 DEF CallFails, Proceeds
  <2> QED BY <1>7, <2>2, <2>3 DEF CallFails
<1>8. CASE WireDrops(s)
  <2>1. wire'[s] \subseteq wire[s] /\ \A u \in Sessions \ {s} : wire'[u] = wire[u]
    BY <1>8 DEF WireDrops
  <2> QED BY <1>8, <2>1 DEF WireDrops
<1> QED BY <1>1, <1>2, <1>3, <1>4, <1>5, <1>6, <1>7, <1>8 DEF Session

\* Time passes for a hold and for the interval that renews it alike.
LEMMA TicksReach == ASSUME HoldsTypeOK, HoldInv, Ticks PROVE HoldInv'
<1> SUFFICES ASSUME NEW s \in Sessions PROVE Reaches(s)' /\ CallsInOrder(s)'
  BY DEF HoldInv
<1>1. /\ call[s] = "none" /\ (session[s] = "working" => due[s] > 0)
      /\ due'[s] = (IF due[s] > 0 THEN due[s] - 1 ELSE 0)
      /\ UNCHANGED <<vm, session, call, wire, misses>>
  BY DEF Ticks
<1>2. agent'.holds[s] >= agent.holds[s] - 1 /\ agent'.holds[s] \in Int
  BY HoldsAssumption DEF Ticks, Older, HoldsTypeOK
<1> QED
  BY <1>1, <1>2, HoldsAssumption
  DEF HoldsTypeOK, HoldInv, Reaches, CallsInOrder, Lost, Sent

\* Every step keeps the invariant.
LEMMA NextReaches == HoldsTypeOK /\ HoldInv /\ [Next]_vars => HoldInv'
<1> SUFFICES ASSUME HoldsTypeOK, HoldInv, [Next]_vars PROVE HoldInv'
  OBVIOUS
<1> USE DEF agentVars, sessionVars, pollVars
<1>1. CASE UNCHANGED vars
  BY <1>1, OthersReach DEF vars
<1>2. CASE Guest
  <2>1. InjectSecrets(agent).holds = agent.holds
    BY DEF InjectSecrets, Launch, HoldsTypeOK
  <2> QED
    BY <1>2, <2>1, OthersReach
    DEF Guest, ClientConnects, ClientLeaves, JobStarts, JobEnds, Others, GatewayExits,
        GatewayStalls, Boots, Injects, HoldsTypeOK
<1>3. CASE Watch
  <2>1. Launch(agent).holds = agent.holds
    BY DEF Launch, HoldsTypeOK
  <2>2. agent'.holds = agent.holds /\ UNCHANGED <<vm, session, due, call, wire, misses>>
    BY <1>3, <2>1 DEF Watch, Checks, CheckFails, Ticked, TickSeesSuspended
  <2> QED BY <2>2, OthersReach
<1>4. CASE Poll
  BY <1>4, OthersReach
  DEF Poll, PollPasses, PollCounts, PollAnswers, PollCountsHolds, PollTimesOut, PollEnds,
      PollGoes, IdleElapses
<1>5. CASE Suspend
  <2>1. CASE Sleeps
    BY <2>1 DEF Sleeps, HoldInv, Reaches, CallsInOrder, Lost, Sent
  <2> QED BY <1>5, <2>1, OthersReach DEF Suspend, Pauses, SuspendFails
<1>6. CASE Resumes
  <2>1. UNCHANGED <<session, due, call, wire, misses>> /\ \A s \in Sessions : misses[s] = 2
    BY <1>6 DEF Resumes, HoldInv, CallsInOrder
  <2>2. vm' = "running"
    BY <1>6 DEF Resumes
  <2> QED BY <2>1, <2>2 DEF HoldInv, Reaches, CallsInOrder
<1> QED
  BY <1>1, <1>2, <1>3, <1>4, <1>5, <1>6, SessionReaches, TicksReach DEF Next

\* While a command works in a tenant its hold is alive, whatever one renewal comes to and
\* whatever late requests reach the agent: HOLD_TTL_MS is more than two KEEPALIVE_MS.
THEOREM HoldsCover == Spec => []HoldCovers
<1>1. Init => HoldInv
  BY DEF Init, HoldInv, Reaches, CallsInOrder, Lost, Sent
<1> QED BY <1>1, HoldsTypeCorrect, NextReaches, ReachesCovers, PTL DEF Spec

----
(* Whom a poll has counted. *)
CountInv == \A p \in Polls :
    /\ poll[p] = "suspends" => quiet[p]
    /\ quiet[p] /\ poll[p] \in {"answered", "suspends"} => Busy \subseteq since[p]
    /\ quiet[p] /\ poll[p] = "asking" /\ client => "client" \in since[p]

\* Whoever comes is noted for every poll whose kind it is.
LEMMA ComersAreNoted == ASSUME HoldsTypeOK, CountInv, PollsGoOn PROVE CountInv'
<1> SUFFICES ASSUME NEW p \in Polls
             PROVE  /\ poll'[p] = "suspends" => quiet'[p]
                    /\ quiet'[p] /\ poll'[p] \in {"answered", "suspends"} => Busy' \subseteq since'[p]
                    /\ quiet'[p] /\ poll'[p] = "asking" /\ client' => "client" \in since'[p]
  BY DEF CountInv
<1>1. /\ since'[p] = (since[p] \cup (Kinds(p) \ Busy)) \cap Busy'
      /\ poll' = poll /\ quiet' = quiet
  BY DEF PollsGoOn
<1>2. Busy' \subseteq Users
  BY DEF Busy, Live, Users
<1>3. CASE quiet[p] /\ poll[p] \in {"answered", "suspends"}
  BY <1>1, <1>2, <1>3 DEF CountInv, Kinds, Users
<1>4. CASE quiet[p] /\ poll[p] = "asking"
  <2>1. client' => "client" \in Busy'
    BY DEF Busy
  <2>2. "client" \in Busy => client
    BY HoldsAssumption DEF Busy, Live
  <2> QED BY <1>1, <1>4, <2>1, <2>2 DEF CountInv, Kinds
<1> QED BY <1>1, <1>3, <1>4 DEF CountInv

\* A step that brings no user keeps what is counted.
LEMMA NobodyComes ==
    ASSUME CountInv, Busy' \subseteq Busy, client' => client, UNCHANGED <<poll, quiet, since>>
    PROVE  CountInv'
BY DEF CountInv

\* A poll that goes on keeps it: what it counts is there for all to see.
LEMMA PollCountsAll ==
    ASSUME HoldsTypeOK, CountInv, NEW p \in Polls,
           PollCounts(p) \/ PollAnswers(p) \/ PollTimesOut(p) \/ PollEnds(p)
    PROVE  CountInv'
<1> USE DEF PollGoes, CountInv, HoldsTypeOK, agentVars
<1>1. Busy' = Busy /\ client' = client
  BY DEF PollCounts, PollAnswers, PollCountsHolds, PollTimesOut, PollEnds, Busy, Live
<1>2. CASE PollCounts(p)
  <2>1. poll'[p] = "asking" /\ (quiet'[p] => ~client)
    BY <1>2 DEF PollCounts
  <2>2. \A q \in Polls \ {p} : poll'[q] = poll[q] /\ quiet'[q] = quiet[q] /\ since'[q] = since[q]
    BY <1>2 DEF PollCounts
  <2> QED BY <1>1, <2>1, <2>2
<1>3. CASE PollAnswers(p)
  <2>1. PICK heard \in BOOLEAN : PollCountsHolds(p, heard)
    BY <1>3 DEF PollAnswers
  <2>2. /\ poll[p] = "asking" /\ poll'[p] = "answered"
        /\ quiet'[p] <=> quiet[p] /\ There(heard) = {}
        /\ quiet'[p] => since'[p] = NotCounted(p, heard)
    BY <2>1 DEF PollCountsHolds
  <2>3. quiet'[p] => Busy \subseteq since'[p]
    <3> SUFFICES ASSUME quiet'[p] PROVE Busy \subseteq NotCounted(p, heard)
      BY <2>2
    <3>1. client => "client" \in NotCounted(p, heard)
      BY <2>2 DEF NotCounted
    <3>2. job => "job" \in NotCounted(p, heard)
      <4>1. CASE heard
        BY <2>2, <4>1 DEF There, Busy
      <4>2. CASE ~heard
        BY <4>2 DEF NotCounted, Busy
      <4> QED BY <4>1, <4>2
    <3>3. Live = {}
      BY <2>2 DEF There
    <3> QED BY <3>1, <3>2, <3>3 DEF Busy
  <2>4. \A q \in Polls \ {p} : poll'[q] = poll[q] /\ quiet'[q] = quiet[q] /\ since'[q] = since[q]
    BY <2>1 DEF PollCountsHolds
  <2> QED BY <1>1, <2>2, <2>3, <2>4
<1>4. CASE PollTimesOut(p)
  BY <1>1, <1>4 DEF PollTimesOut
<1>5. CASE PollEnds(p)
  BY <1>1, <1>5 DEF PollEnds
<1> QED BY <1>2, <1>3, <1>4, <1>5

\* Every step keeps the invariant.
LEMMA NextCounts == HoldsTypeOK /\ CountInv /\ [Next]_vars => CountInv'
<1> SUFFICES ASSUME HoldsTypeOK, CountInv, [Next]_vars PROVE CountInv'
  OBVIOUS
<1> USE DEF agentVars, sessionVars, pollVars
<1>1. CASE UNCHANGED vars
  BY <1>1, NobodyComes DEF vars, Busy, Live
<1>2. ASSUME NEW s \in Sessions, Session(s) PROVE CountInv'
  <2>1. CASE Acquires(s) \/ Releases(s)
    BY <2>1, ComersAreNoted DEF Acquires, Releases
  <2>2. CASE Opens(s) \/ KeepsAlive(s) \/ Closes(s) \/ SessionDies(s) \/ CallFails(s)
             \/ WireDrops(s)
    <3>1. UNCHANGED <<agent, client, job, poll, quiet, since>>
      BY <2>2 DEF Opens, KeepsAlive, Closes, SessionDies, CallFails, WireDrops
    <3> QED BY <3>1, NobodyComes DEF Busy, Live
  <2> QED BY <1>2, <2>1, <2>2 DEF Session
<1>3. CASE Guest
  <2>1. CASE ClientConnects \/ ClientLeaves \/ JobStarts \/ JobEnds \/ GatewayExits \/ Boots
    BY <2>1, ComersAreNoted
    DEF ClientConnects, ClientLeaves, JobStarts, JobEnds, Others, GatewayExits, Boots
  <2>2. CASE GatewayStalls \/ Injects
    <3>1. InjectSecrets(agent).holds = agent.holds
      BY DEF InjectSecrets, Launch, HoldsTypeOK
    <3>2. Live' = Live /\ UNCHANGED <<client, job, poll, quiet, since>>
      BY <2>2, <3>1 DEF GatewayStalls, Injects, Live, HoldsTypeOK
    <3> QED BY <3>2, NobodyComes DEF Busy
  <2> QED BY <1>3, <2>1, <2>2 DEF Guest
<1>4. CASE Watch
  <2>1. Launch(agent).holds = agent.holds
    BY DEF Launch, HoldsTypeOK
  <2>2. agent'.holds = agent.holds /\ UNCHANGED <<client, job, poll, quiet, since>>
    BY <1>4, <2>1 DEF Watch, Checks, CheckFails, Ticked, TickSeesSuspended
  <2> QED BY <2>2, NobodyComes DEF Busy, Live
<1>5. CASE Poll
  <2>1. CASE PollPasses \/ IdleElapses
    BY <2>1, NobodyComes DEF PollPasses, IdleElapses, Busy, Live
  <2> QED BY <1>5, <2>1, PollCountsAll DEF Poll
<1>6. CASE Suspend
  <2>1. CASE Pauses
    BY <2>1, ComersAreNoted DEF Pauses
  <2>2. CASE SuspendFails \/ Sleeps
    <3>1. Busy' = Busy /\ client' = client
      BY <2>2 DEF SuspendFails, Sleeps, Busy, Live
    <3>2. SuspendEnds
      BY <2>2 DEF SuspendFails, Sleeps
    <3> QED BY <3>1, <3>2 DEF SuspendEnds, Starters, CountInv
  <2> QED BY <1>6, <2>1, <2>2 DEF Suspend
<1>7. CASE Resumes \/ Ticks
  BY <1>7, ComersAreNoted DEF Resumes, Ticks
<1> QED BY <1>1, <1>2, <1>3, <1>4, <1>5, <1>6, <1>7 DEF Next

\* However many polls overlap: when the VM is paused, whoever is there came after the agent
\* counted such users for the poll that started the suspend, or is a job of a gateway that
\* did not answer.
THEOREM UsersAreKept == Spec => BusyIsKept
<1>1. Init => CountInv
  BY DEF Init, CountInv
<1>2. CountInv /\ [Next]_vars
        => [vm = "running" /\ vm' = "paused" =>
               \A p \in Polls : poll[p] = "suspends" => Busy \subseteq since[p]]_vars
  BY DEF CountInv
<1> QED BY <1>1, <1>2, HoldsTypeCorrect, NextCounts, PTL DEF Spec, BusyIsKept
====
