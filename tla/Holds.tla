---- MODULE Holds ----
(***************************************************************************)
(* One tenant between its users and the idle poll. Commands that work in a *)
(* tenant (src/commands/hold.ts, exec.ts, logs.tsx) place a hold with a    *)
(* time to live on its guest agent (guest/lobster-agent.mjs) and renew it; *)
(* the scheduler asks the agent how busy it is and suspends an idle one.   *)
(* The agent also launches the gateway, which the watchdog has it check.   *)
(* Polls do not wait for each other: one may be answered before an earlier *)
(* one (src/watchdog/scheduler.ts:264).                                    *)
(*                                                                         *)
(* A tick is the unit of KEEPALIVE_MS and HOLD_TTL_MS, minutes; a call of  *)
(* the agent is over within seconds. A request whose caller gave up may    *)
(* still reach the agent at any later time, or never.                      *)
(***************************************************************************)
EXTENDS Integers, WatchState

CONSTANTS
    Sessions,   \* commands with a hold; also the ids of their holds
    Polls,      \* idle polls that may be under way at a time
    Ttl,        \* HOLD_TTL_MS
    Keepalive,  \* KEEPALIVE_MS
    MayFail     \* "call" (a call of the agent), "rpc" (the gateway rejects the agent's call),
                \* "suspend" (runSuspend before the pause), "gateway" (it exits), "deaf" (it
                \* lives and does not answer), "session" (a command is killed)

ASSUME HoldsAssumption ==
    /\ Ttl \in Nat /\ Keepalive \in Nat \ {0}
    /\ Ttl > 2 * Keepalive
    /\ "client" \notin Sessions /\ "job" \notin Sessions

VARIABLES
    vm,         \* "running", "paused" by a suspend, or "asleep" in a snapshot
    agent,      \* the agent: has it the gateway's token, is its gateway process "gone", "up"
                \* or "deaf", and how long each hold is still to live
    booting,    \* the repair that booted the VM has not sent the secrets yet
    watch,      \* the watchdog's state of the tenant
    client,     \* a connection to the gateway's port is open
    job,        \* a cron job runs in the gateway
    session,    \* session[s]: where the command s is
    due,        \* due[s]: ticks until the interval of s renews its hold
    call,       \* call[s]: the call of the agent whose answer s waits for
    wire,       \* wire[s]: requests of s that the agent has not handled
    misses,     \* history: renewals of s in a row that failed; 2 is "too many to count on
                \* the hold", also after the guest stood still or was booted
    poll,       \* poll[p]: "idle", "asking" (its request at the agent's RPC), "answered" in
                \* time, or "suspends" while the suspend it started is in flight
    quiet,      \* quiet[p]: nobody, as far as the agent has counted for p
    since,      \* history: since[p]: of a quiet p, who came after the agent counted such users
                \* for it, or while it could not count them, and is still there
    idle        \* idleSince: none, counting, elapsed

agentVars == <<vm, agent, booting, watch>>
sessionVars == <<session, due, call, wire, misses>>
pollVars == <<poll, quiet, since, idle>>
vars == <<agentVars, client, job, sessionVars, pollVars>>

NoHolds == [s \in Sessions |-> 0]

Init ==
    /\ vm = "running"
    /\ agent = [token |-> TRUE, gateway |-> "up", holds |-> NoHolds]
    /\ booting = FALSE
    /\ watch = [InitialWatchState EXCEPT !.state = "HEALTHY"]
    /\ client = FALSE /\ job = FALSE
    /\ session = [s \in Sessions |-> "away"]
    /\ due = [s \in Sessions |-> 0]
    /\ call = [s \in Sessions |-> "none"]
    /\ wire = [s \in Sessions |-> {}]
    /\ misses = [s \in Sessions |-> 2]
    /\ poll = [p \in Polls |-> "idle"]
    /\ quiet = [p \in Polls |-> FALSE]
    /\ since = [p \in Polls |-> {}]
    /\ idle = "none"

Live == {s \in Sessions : agent.holds[s] > 0}
Busy == Live \cup (IF client THEN {"client"} ELSE {}) \cup (IF job THEN {"job"} ELSE {})

\* triggerSuspend is under way.
Suspending == \E p \in Polls : poll[p] = "suspends"

\* The poll passes over such a tenant.
Unwell == watch.state \notin {"UNKNOWN", "HEALTHY", "SUSPENDED"}

\* The users whose kind the agent has counted for a poll that is quiet so far.
Kinds(p) ==
    IF ~quiet[p] THEN {}
    ELSE IF poll[p] = "asking" THEN {"client"} ELSE Sessions \cup {"client", "job"}

\* The polls go on, while users come and go.
PollsGoOn ==
    /\ since' = [p \in Polls |-> (since[p] \cup (Kinds(p) \ Busy)) \cap Busy']
    /\ UNCHANGED <<poll, quiet>>

----
(* The agent's handlers. *)

\* handleLaunchOpenclaw: it needs the token, and leaves a gateway alone.
Launch(a) == IF a.token /\ a.gateway = "gone" THEN [a EXCEPT !.gateway = "up"] ELSE a

\* handleInjectSecrets.
InjectSecrets(a) == Launch([a EXCEPT !.token = TRUE])

\* Slip: a hold that is there is left as it is.
HoldAcquireOnce(a, s) == [a EXCEPT !.holds[s] = IF @ > 0 THEN @ ELSE Ttl]

\* A hold placed again lives from then on.
HoldAcquire(a, s) == [a EXCEPT !.holds[s] = Ttl]
HoldRelease(a, s) == [a EXCEPT !.holds[s] = 0]

\* Slip: a hold that has expired is kept.
OlderBelow(a) == [a EXCEPT !.holds = [s \in Sessions |-> @[s] - 1]]

\* The agent a tick later. A hold that has expired counts for nothing.
Older(a) == [a EXCEPT !.holds = [s \in Sessions |-> IF @[s] > 0 THEN @[s] - 1 ELSE 0]]

\* The agent after its clock was set forward by d ticks.
SetTime(a, d) == [a EXCEPT !.holds = [s \in Sessions |-> IF @[s] > d THEN @[s] - d ELSE 0]]

----
(* withHold, on a tenant the registry has as active: the interval starts,  *)
(* and the hold is asked for. The id is a new one.                         *)
Opens(s) ==
    /\ session[s] = "away" /\ wire[s] = {} /\ agent.holds[s] = 0
    /\ vm # "asleep"
    /\ session' = [session EXCEPT ![s] = "placing"]
    /\ due' = [due EXCEPT ![s] = Keepalive]
    /\ call' = [call EXCEPT ![s] = "acquire"]
    /\ wire' = [wire EXCEPT ![s] = {"acquire"}]
    /\ misses' = [misses EXCEPT ![s] = 2]
    /\ UNCHANGED <<agentVars, client, job, pollVars>>

(* The interval renews the hold.                                           *)
KeepsAlive(s) ==
    /\ session[s] = "working" /\ due[s] = 0 /\ call[s] = "none"
    /\ due' = [due EXCEPT ![s] = Keepalive]
    /\ call' = [call EXCEPT ![s] = "acquire"]
    /\ wire' = [wire EXCEPT ![s] = @ \cup {"acquire"}]
    /\ UNCHANGED <<agentVars, client, job, session, misses, pollVars>>

(* The command is done: the interval ends, the hold is given back. A       *)
(* renewal may still be on its way.                                        *)
Closes(s) ==
    /\ session[s] = "working"
    /\ session' = [session EXCEPT ![s] = "releasing"]
    /\ due' = [due EXCEPT ![s] = 0]
    /\ call' = [call EXCEPT ![s] = "release"]
    /\ wire' = [wire EXCEPT ![s] = @ \cup {"release"}]
    /\ misses' = [misses EXCEPT ![s] = 2]
    /\ UNCHANGED <<agentVars, client, job, pollVars>>

(* The command is killed.                                                  *)
SessionDies(s) ==
    /\ "session" \in MayFail
    /\ session[s] # "away"
    /\ session' = [session EXCEPT ![s] = "away"]
    /\ due' = [due EXCEPT ![s] = 0]
    /\ call' = [call EXCEPT ![s] = "none"]
    /\ misses' = [misses EXCEPT ![s] = 2]
    /\ UNCHANGED <<agentVars, client, job, wire, pollVars>>

\* What the command does when its call has ended, well or not: both are soft.
Proceeds(s) ==
    /\ call' = [call EXCEPT ![s] = "none"]
    /\ session' = [session EXCEPT ![s] = CASE @ = "placing" -> "working"
                                           [] @ = "releasing" -> "away"
                                           [] OTHER -> @]

\* The agent's server takes a request; it does not know whether its answer is awaited.
Receives(s, m) ==
    /\ vm = "running" /\ m \in wire[s]
    /\ wire' = [wire EXCEPT ![s] = @ \ {m}]

(* A hold is placed.                                                       *)
Acquires(s) ==
    /\ Receives(s, "acquire")
    /\ agent' = HoldAcquire(agent, s)
    /\ IF call[s] = "acquire"
       THEN Proceeds(s) /\ misses' = [misses EXCEPT ![s] = 0]
       ELSE UNCHANGED <<call, session, misses>>
    /\ UNCHANGED <<vm, booting, watch, client, job, due, idle>>
    /\ PollsGoOn

(* It is released.                                                         *)
Releases(s) ==
    /\ Receives(s, "release")
    /\ agent' = HoldRelease(agent, s)
    /\ IF call[s] = "release" THEN Proceeds(s) ELSE UNCHANGED <<call, session>>
    /\ UNCHANGED <<vm, booting, watch, client, job, due, misses, idle>>
    /\ PollsGoOn

(* The call fails or times out; the request is lost, or still on its way.  *)
CallFails(s) ==
    /\ call[s] # "none"
    /\ "call" \in MayFail \/ vm # "running"
    /\ Proceeds(s)
    /\ \/ wire' = [wire EXCEPT ![s] = @ \ {call[s]}]
       \/ UNCHANGED wire
    /\ misses' = IF call[s] = "acquire" /\ misses[s] < 2
                 THEN [misses EXCEPT ![s] = @ + 1] ELSE misses
    /\ UNCHANGED <<agentVars, client, job, due, pollVars>>

(* A request nobody waits for any more is lost.                            *)
WireDrops(s) ==
    /\ \E m \in wire[s] \ {call[s]} : wire' = [wire EXCEPT ![s] = @ \ {m}]
    /\ UNCHANGED <<agentVars, client, job, session, due, call, misses, pollVars>>

Session(s) ==
    \/ Opens(s) \/ KeepsAlive(s) \/ Closes(s) \/ SessionDies(s)
    \/ Acquires(s) \/ Releases(s) \/ CallFails(s) \/ WireDrops(s)

----
(* The gateway's users and jobs come and go.                               *)
Others == UNCHANGED <<agentVars, sessionVars, idle>> /\ PollsGoOn

ClientConnects ==
    /\ vm = "running" /\ agent.gateway # "gone" /\ ~client
    /\ client' = TRUE /\ UNCHANGED job /\ Others

ClientLeaves == client /\ client' = FALSE /\ UNCHANGED job /\ Others

JobStarts ==
    /\ vm = "running" /\ agent.gateway # "gone" /\ ~job
    /\ job' = TRUE /\ UNCHANGED client /\ Others

JobEnds ==
    /\ vm = "running" /\ job
    /\ job' = FALSE /\ UNCHANGED client /\ Others

(* The gateway exits; the agent notices at once.                           *)
GatewayExits ==
    /\ "gateway" \in MayFail
    /\ vm = "running" /\ agent.gateway # "gone"
    /\ agent' = [agent EXCEPT !.gateway = "gone"]
    /\ client' = FALSE /\ job' = FALSE
    /\ UNCHANGED <<vm, booting, watch, sessionVars, idle>>
    /\ PollsGoOn

(* The gateway answers nobody, or answers again.                           *)
GatewayStalls ==
    /\ "deaf" \in MayFail
    /\ vm = "running" /\ agent.gateway # "gone"
    /\ agent' = [agent EXCEPT !.gateway = IF @ = "up" THEN "deaf" ELSE "up"]
    /\ UNCHANGED <<vm, booting, watch, client, job, sessionVars, pollVars>>

\* Whether a tick repairs: it lets the repair be when a suspend has begun meanwhile.
Repairing(ok) ==
    {repairs \in BOOLEAN :
        /\ repairs => NeedsRepair(watch, ok)
        /\ NeedsRepair(watch, ok) => repairs \/ Suspending}

\* A repair that was tried counts, whatever came of it.
Attempted(w, repairs) == IF repairs THEN [w EXCEPT !.repairAttempts = @ + 1] ELSE w

\* A tick of the health loop, with the agents a repair may leave. That the cooldown of the
\* last repair puts off a check makes no difference here: nothing says how soon one comes.
Ticked(ok, repaired) ==
    /\ vm = "running" /\ ~booting
    /\ \E repairs \in Repairing(ok) :
          /\ watch' = Attempted(Transition(watch, ok), repairs)
          /\ agent' \in IF repairs THEN repaired ELSE {agent}
    /\ UNCHANGED <<vm, booting, client, job, sessionVars, pollVars>>

\* Slip: the agent is pinged, which it answers without a gateway too.
ChecksPing == Ticked(TRUE, {agent})

(* The gateway's process id is asked for, and when there is none the       *)
(* repair has the gateway ensured.                                         *)
Checks == Ticked(agent.gateway # "gone", {Launch(agent)})

(* The agent does not answer: the tenant is not healthy, and what the      *)
(* repair asked for may have been done.                                    *)
CheckFails == "call" \in MayFail /\ Ticked(FALSE, {agent, Launch(agent)})

(* A tick that finds the tenant suspended begins its watch state anew.     *)
TickSeesSuspended ==
    /\ vm = "asleep"
    /\ watch' = [InitialWatchState EXCEPT !.state = "SUSPENDED"]
    /\ UNCHANGED <<vm, agent, booting, client, job, sessionVars, pollVars>>

(* The VM is gone and the repair boots it: a new agent, without secrets.   *)
(* That of a tenant that is FAILED stays gone.                             *)
Boots ==
    /\ vm = "running" /\ NeedsRepair(watch, FALSE)
    /\ booting' = TRUE /\ watch' = Attempted(Missed(watch), TRUE)
    /\ agent' = [token |-> FALSE, gateway |-> "gone", holds |-> NoHolds]
    /\ client' = FALSE /\ job' = FALSE
    /\ misses' = [s \in Sessions |-> 2]
    /\ UNCHANGED <<vm, session, due, call, wire, idle>>
    /\ PollsGoOn

(* The repair sends the secrets. When that fails it does not come back to  *)
(* it, though the agent may have handled it all the same.                  *)
Injects ==
    /\ booting /\ booting' = FALSE
    /\ \/ vm = "running" /\ agent' = InjectSecrets(agent)
       \/ ("call" \in MayFail \/ vm # "running") /\ UNCHANGED agent
    /\ UNCHANGED <<vm, watch, client, job, sessionVars, pollVars>>

----
PollGoes(p, label, isQuiet, who) ==
    /\ poll' = [poll EXCEPT ![p] = label]
    /\ quiet' = [quiet EXCEPT ![p] = isQuiet]
    /\ since' = [since EXCEPT ![p] = IF isQuiet THEN who ELSE {}]
    /\ UNCHANGED <<agentVars, client, job, sessionVars>>

(* handleGetActiveConnections begins: the connections are counted, and the *)
(* gateway is asked about its jobs.                                        *)
PollCounts(p) ==
    /\ poll[p] = "idle" /\ vm = "running" /\ ~Suspending /\ ~Unwell
    /\ PollGoes(p, "asking", ~client, {})
    /\ UNCHANGED idle

\* gatewayRpc: the gateway answers, or the call is rejected at once. The agent waits longer
\* for a deaf gateway than the host for the agent.
GatewayRpc(heard) ==
    \/ heard /\ agent.gateway = "up"
    \/ ~heard /\ (agent.gateway = "gone" \/ (agent.gateway = "up" /\ "rpc" \in MayFail))

\* Whom the agent counts then: a job only with the gateway's answer.
There(heard) == Live \cup (IF heard THEN {"job"} \cap Busy ELSE {})

\* Whom it did not count, so far.
NotCounted(p, heard) == since[p] \cup (IF heard THEN {} ELSE {"job"} \cap Busy)

\* Slip: an answer the gateway does not give ends the count.
PollCountsOnlyWithGateway(p, heard) ==
    /\ poll[p] = "asking" /\ vm = "running"
    /\ GatewayRpc(heard)
    /\ PollGoes(p, "answered", quiet[p] /\ (heard => There(heard) = {}), NotCounted(p, heard))
    /\ UNCHANGED idle

(* It goes on with the gateway's answer, or without: then no job counts.   *)
(* The holds are counted last.                                             *)
PollCountsHolds(p, heard) ==
    /\ poll[p] = "asking" /\ vm = "running"
    /\ GatewayRpc(heard)
    /\ PollGoes(p, "answered", quiet[p] /\ There(heard) = {}, NotCounted(p, heard))
    /\ UNCHANGED idle

(* A tenant that is suspended or not healthy is not polled.                *)
PollPasses ==
    /\ \E p \in Polls : poll[p] = "idle"
    /\ Suspending \/ vm = "asleep" \/ Unwell
    /\ idle' = "none"
    /\ UNCHANGED <<agentVars, client, job, sessionVars, poll, quiet, since>>

(* The poll does not hear from the agent within 3 s: nothing is changed,   *)
(* whether the agent has counted by then or not.                           *)
PollTimesOut(p) ==
    /\ poll[p] = "asking"
    /\ "call" \in MayFail \/ vm # "running" \/ agent.gateway = "deaf"
    /\ PollGoes(p, "idle", FALSE, {})
    /\ UNCHANGED idle

\* Slip: each answer starts the idle clock anew.
PollEndsRestarting(p) ==
    /\ poll[p] = "answered"
    /\ PollGoes(p, "idle", FALSE, {})
    /\ idle' = IF quiet[p] THEN "counting" ELSE "none"

(* The answer reaches the scheduler.                                       *)
PollEnds(p) ==
    /\ poll[p] = "answered"
    /\ IF quiet[p] /\ idle = "elapsed" /\ ~Suspending
       THEN PollGoes(p, "suspends", TRUE, since[p])
       ELSE PollGoes(p, "idle", FALSE, {})
    /\ idle' = CASE ~quiet[p] -> "none"
                 [] quiet[p] /\ idle = "none" -> "counting"
                 [] OTHER -> idle

(* A tenant that sleeps has no idleSince for long, see PollPasses.         *)
IdleElapses ==
    /\ idle = "counting" /\ vm = "running" /\ idle' = "elapsed"
    /\ UNCHANGED <<agentVars, client, job, sessionVars, poll, quiet, since>>

(* runSuspend has asked for the schedules and pauses the VM.               *)
Pauses ==
    /\ Suspending /\ vm = "running"
    /\ vm' = "paused"
    /\ client' = FALSE
    /\ misses' = [s \in Sessions |-> 2]
    /\ UNCHANGED <<agent, booting, watch, job, session, due, call, wire, idle>>
    /\ PollsGoOn

\* The polls whose suspend is in flight: one, or none.
Starters == {p \in Polls : poll[p] = "suspends"}

SuspendEnds ==
    /\ poll' = [p \in Polls |-> IF p \in Starters THEN "idle" ELSE poll[p]]
    /\ quiet' = [p \in Polls |-> p \notin Starters /\ quiet[p]]
    /\ since' = [p \in Polls |-> IF p \in Starters THEN {} ELSE since[p]]
    /\ idle' = "none"

(* It skips the suspend, or fails.                                         *)
SuspendFails ==
    /\ "suspend" \in MayFail
    /\ Suspending /\ vm = "running"
    /\ SuspendEnds
    /\ UNCHANGED <<agentVars, client, job, sessionVars>>

(* The snapshot is written and the process killed.                         *)
Sleeps ==
    /\ vm = "paused" /\ vm' = "asleep"
    /\ SuspendEnds
    /\ UNCHANGED <<agent, booting, watch, client, job, sessionVars>>

(* runResume, for a request, a timer or withHold: the agent goes on with   *)
(* the holds it had, and its clock is set, or not.                         *)
Resumes ==
    /\ vm = "asleep" /\ vm' = "running"
    /\ \E d \in 0..Ttl : agent' = SetTime(agent, d)
    /\ idle' = "none"
    /\ UNCHANGED <<booting, watch, client, job, sessionVars>>
    /\ PollsGoOn

Suspend == Pauses \/ SuspendFails \/ Sleeps

PollAnswers(p) == \E heard \in BOOLEAN : PollCountsHolds(p, heard)

Poll ==
    \/ PollPasses \/ IdleElapses
    \/ \E p \in Polls : PollCounts(p) \/ PollAnswers(p) \/ PollTimesOut(p) \/ PollEnds(p)

(* Time passes: a command's call, which takes seconds, has come to its     *)
(* end, and an interval that is due has fired.                             *)
Ticks ==
    /\ \A s \in Sessions : call[s] = "none" /\ (session[s] = "working" => due[s] > 0)
    /\ agent' = IF vm = "running" THEN Older(agent) ELSE agent
    /\ due' = [s \in Sessions |-> IF due[s] > 0 THEN due[s] - 1 ELSE 0]
    /\ UNCHANGED <<vm, booting, watch, client, job, session, call, wire, misses, idle>>
    /\ PollsGoOn

Guest ==
    \/ ClientConnects \/ ClientLeaves \/ JobStarts \/ JobEnds \/ GatewayExits
    \/ GatewayStalls \/ Boots \/ Injects

Watch == Checks \/ CheckFails \/ TickSeesSuspended

Next ==
    \/ \E s \in Sessions : Session(s)
    \/ Guest \/ Watch \/ Poll \/ Suspend \/ Resumes \/ Ticks

Spec == Init /\ [][Next]_vars

\* Time passes, polls and ticks come. The agent may not answer a poll in time, and a suspend
\* may be skipped or fail; but if they are tried again and again then some come to their end.
FairSpec ==
    /\ Spec
    /\ WF_vars(\E p \in Polls : PollCounts(p))
    /\ SF_vars(\E p \in Polls : PollAnswers(p))
    /\ WF_vars(\E p \in Polls : PollEnds(p))
    /\ WF_vars(IdleElapses) /\ SF_vars(Pauses) /\ WF_vars(Sleeps)
    /\ WF_vars(Checks) /\ WF_vars(Ticks)

----
HoldsTypeOK ==
    /\ vm \in {"running", "paused", "asleep"}
    /\ agent \in [token : BOOLEAN, gateway : {"gone", "up", "deaf"},
                 holds : [Sessions -> 0..Ttl]]
    /\ watch \in TenantWatchState
    /\ booting \in BOOLEAN /\ client \in BOOLEAN /\ job \in BOOLEAN
    /\ session \in [Sessions -> {"away", "placing", "working", "releasing"}]
    /\ due \in [Sessions -> 0..Keepalive]
    /\ call \in [Sessions -> {"none", "acquire", "release"}]
    /\ wire \in [Sessions -> SUBSET {"acquire", "release"}]
    /\ misses \in [Sessions -> 0..2]
    /\ poll \in [Polls -> {"idle", "asking", "answered", "suspends"}]
    /\ quiet \in [Polls -> BOOLEAN]
    /\ since \in [Polls -> SUBSET (Sessions \cup {"client", "job"})]
    /\ idle \in {"none", "counting", "elapsed"}

\* A hold outlasts one lost renewal: while a command works, its hold is alive unless the
\* first placement or two renewals in a row have failed, or the guest stood still or was
\* booted, whatever late and reordered requests the agent handles.
HoldCovers ==
    \A s \in Sessions : session[s] = "working" /\ misses[s] < 2 => agent.holds[s] > 0

\* A tenant is not suspended under its users, however polls overlap: a client, job or hold
\* that is there when the VM is paused has come since the agent counted its kind for the poll
\* that started the suspend, or is a job of a gateway that did not answer.
BusyIsKept ==
    [][vm = "running" /\ vm' = "paused" =>
          \A p \in Polls : poll[p] = "suspends" => Busy \subseteq since[p]]_vars

\* The idle poll speaks with one voice: no answer that counts a user is on its way when the
\* VM is paused. (With polls that overlap there is: a later poll found the user, and
\* triggerSuspend does not ask again.)
BusyAnswerStops ==
    [][vm = "running" /\ vm' = "paused" =>
          \A p \in Polls : poll[p] = "answered" => quiet[p]]_vars

\* No user is left: no command, no connection, no job.
Deserted == (\A s \in Sessions : session[s] = "away") /\ ~client /\ ~job

\* A tenant whose users have gone for good does sleep in the end: no hold of a command that
\* was killed, or of a renewal that overtook its release, keeps it awake.
\* (One that is found unhealthy again and again, or has FAILED, as after a repair that could
\* not send the secrets, is not polled; and for one whose gateway does not answer, the agent
\* does not answer in time.)
DesertedSleeps ==
    []<>~Deserted \/ []<>(vm = "asleep") \/ []<>Unwell \/ []<>(agent.gateway = "deaf")

\* A gateway that exited does not stay away: it is launched again, unless the VM and with it
\* the token is lost, or the watchdog has given the tenant up after MaxRepairAttempts repairs.
GatewayReturns ==
    []<>(agent.gateway # "gone" \/ vm # "running" \/ ~agent.token \/ watch.state = "FAILED")
====
