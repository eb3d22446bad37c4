---- MODULE Subnets ----
(***************************************************************************)
(* The addresses of a tenant, from the index the registry counts. Each     *)
(* tenant has a /30: network, host, guest, broadcast.                      *)
(*                                                                         *)
(* The code shifts and masks signed 32-bit integers. The four low octets of*)
(* a sum do not depend on where it wraps, so that an octet is a quotient   *)
(* and a remainder of the whole number.                                    *)
(***************************************************************************)
EXTENDS Integers

\* network.subnetBase of the default configuration.
SubnetBase == <<10, 0, 0, 0>>

Octet(n, unit) == (n \div unit) % 256
ToIp(n) == <<Octet(n, 16777216), Octet(n, 65536), Octet(n, 256), Octet(n, 1)>>

ComputeSubnetIps(base, index) ==
    LET subnet == base[1] * 16777216 + base[2] * 65536 + base[3] * 256 + base[4]
                    + 4 * index
    IN  [host |-> ToIp(subnet + 1), guest |-> ToIp(subnet + 2)]

\* Indices whose subnet starts below 2^24: from the default base they stay in 10.0.0.0/8.
Indices == {i \in Nat : i < 4194304}
====
