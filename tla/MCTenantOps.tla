---- MODULE MCTenantOps ----
(***************************************************************************)
(* Instances of TenantOps.                                                 *)
(***************************************************************************)
EXTENDS TenantOps

CONSTANTS o1, o2, v1, v2, v3, m1, m2
====
