---- MODULE Lifecycle ----
(***************************************************************************)
(* What lobsterd promises of one tenant, without hosts, processes, sockets *)
(* and files: a virtual machine that stops and goes on. Its memory is that *)
(* of a computer that was only asleep ("preserving full VM state",         *)
(* README.md:239), or was switched off and booted; and it is never started *)
(* once the tenant is being removed.                                       *)
(***************************************************************************)

CONSTANTS
    Memory,     \* contents of the memory
    Fresh       \* after a boot

VARIABLES
    status,     \* of the tenant in the registry; "absent" when it is not there
    running,    \* the virtual machine runs
    memory      \* its memory

vars == <<status, running, memory>>

Init == status = "active" /\ running = TRUE /\ memory = Fresh

Works ==
    /\ running
    /\ memory' \in Memory
    /\ UNCHANGED <<status, running>>

\* It is paused, killed, or dies.
Stops ==
    /\ running /\ running' = FALSE
    /\ UNCHANGED <<status, memory>>

\* A resume: from where it was.
Continues ==
    /\ status = "suspended" /\ ~running
    /\ running' = TRUE
    /\ UNCHANGED <<status, memory>>

\* A repair: from the beginning.
Boots ==
    /\ status = "active" /\ ~running
    /\ running' = TRUE /\ memory' = Fresh
    /\ UNCHANGED status

\* The registry follows: suspended and active alternate, removal is for good.
Follows ==
    /\ \/ status = "active" /\ status' = "suspended"
       \/ status = "suspended" /\ status' = "active"
       \/ status \in {"active", "suspended"} /\ status' = "removing"
       \/ status = "removing" /\ status' = "absent"
    /\ UNCHANGED <<running, memory>>

Next == Works \/ Stops \/ Continues \/ Boots \/ Follows

Spec == Init /\ [][Next]_vars
====
