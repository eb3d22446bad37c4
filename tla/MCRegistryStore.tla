---- MODULE MCRegistryStore ----
(***************************************************************************)
(* Instances of RegistryStore: three savers, in processes of their own or  *)
(* two of them in one.                                                     *)
(***************************************************************************)
EXTENDS RegistryStore, TLC

CONSTANTS t1, t2, t3, i1, i2, i3

\* Three commands.
OwnProcess == (t1 :> i1) @@ (t2 :> i2) @@ (t3 :> i3)

\* Two tasks of the watchdog or of the REST server, and a command.
SharedProcess == (t1 :> i1) @@ (t2 :> i1) @@ (t3 :> i2)
====
