---- MODULE MCWatchDaemon ----
(***************************************************************************)
(* Instances of WatchDaemon.                                               *)
(***************************************************************************)
EXTENDS WatchDaemon

CONSTANTS n1, n2, p1, p2
====
