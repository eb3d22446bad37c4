---- MODULE MCHolds ----
(* Constants of Holds for TLC. *)
EXTENDS Holds

CONSTANTS s1, p1, p2
====
