---- MODULE MCWakes ----
(* Constants of Wakes for TLC are in the configuration. *)
EXTENDS Wakes
====
