---- MODULE WatchState ----
(***************************************************************************)
(* The health state machine the watchdog keeps per tenant:                 *)
(* src/watchdog/state.ts. Of a TenantWatchState the check's time and       *)
(* results are left out; lastRepairAt is kept as the fact that decides     *)
(* anything: whether the repair cooldown is still running.                 *)
(***************************************************************************)
EXTENDS Naturals

CONSTANT MaxRepairAttempts      \* config.watchdog.maxRepairAttempts

ASSUME MaxRepairAssumption == MaxRepairAttempts \in Nat

HealthState ==
    {"UNKNOWN", "HEALTHY", "DEGRADED", "RECOVERING", "FAILED", "SUSPENDED"}

TenantWatchState == [state : HealthState, repairAttempts : Nat, cooling : BOOLEAN]

InitialWatchState ==
    [state |-> "UNKNOWN", repairAttempts |-> 0, cooling |-> FALSE]

\* The watch state of a tenant whose checks were all ok.
Passed(current) ==
    [current EXCEPT
        !.state = IF @ = "DEGRADED" THEN "RECOVERING" ELSE "HEALTHY",
        !.repairAttempts = IF current.state = "HEALTHY" THEN @ ELSE 0]

\* Slip: the attempt bound is compared with > instead of >=.
MissedOffByOne(current) ==
    CASE current.state \in {"HEALTHY", "RECOVERING"} ->
            [current EXCEPT !.state = "DEGRADED", !.repairAttempts = 0]
      [] current.state = "FAILED" -> current
      [] current.state = "DEGRADED" /\ current.repairAttempts > MaxRepairAttempts ->
            [current EXCEPT !.state = "FAILED"]
      [] OTHER -> [current EXCEPT !.state = "DEGRADED"]

\* The watch state of a tenant with a check that was not ok.
Missed(current) ==
    CASE current.state \in {"HEALTHY", "RECOVERING"} ->
            [current EXCEPT !.state = "DEGRADED", !.repairAttempts = 0]
      [] current.state = "FAILED" -> current
      [] current.state = "DEGRADED" /\ current.repairAttempts >= MaxRepairAttempts ->
            [current EXCEPT !.state = "FAILED"]
      [] OTHER -> [current EXCEPT !.state = "DEGRADED"]

Transition(current, allOk) == IF allOk THEN Passed(current) ELSE Missed(current)

\* Whether transition asks the tick for a repair.
NeedsRepair(current, allOk) ==
    ~allOk /\ Missed(current).state # "FAILED"
====
