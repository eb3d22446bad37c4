---- MODULE Host_proofs ----
(***************************************************************************)
(* What is proved of Host, for any number of tenants and of operations at  *)
(* the same time.                                                          *)
(***************************************************************************)
EXTENDS Host, TLAPS

(* Addresses. An address is the sum of its octets.                         *)

\* A number is known from its quotient and its remainder by 256.
LEMMA SameNumber ==
    ASSUME NEW n \in Int, NEW m \in Int,
           n \div 256 = m \div 256, n % 256 = m % 256
    PROVE  n = m
<1>1. \A k \in Int : k = 256 * (k \div 256) + (k % 256)
  BY SMT
<1> QED BY SMT, <1>1

\* Equal octets, equal numbers: a number below 2^32 is the sum of its octets.
LEMMA OctetsDistinct ==
    ASSUME NEW n \in Int, NEW m \in Int,
           0 <= n, n < 4294967296, 0 <= m, m < 4294967296,
           ToIp(n) = ToIp(m)
    PROVE  n = m
<1> DEFINE A(k) == k \div 256
           B(k) == k \div 65536
           C(k) == k \div 16777216
<1>1. \A k \in Int : A(k) \in Int /\ B(k) = A(k) \div 256 /\ B(k) \in Int /\ C(k) = B(k) \div 256
  BY SMT
<1>2. \A k \in Int : k \div 1 = k
  BY SMT
<1>3. /\ C(n) % 256 = C(m) % 256 /\ B(n) % 256 = B(m) % 256
      /\ A(n) % 256 = A(m) % 256 /\ n % 256 = m % 256
  BY SMT, <1>2 DEF ToIp, Octet
<1>4. /\ C(n) \in Int /\ 0 <= C(n) /\ C(n) < 256
      /\ C(m) \in Int /\ 0 <= C(m) /\ C(m) < 256
  BY SMT
<1> HIDE DEF A, B, C
<1>5. C(n) = C(m)
  BY SMT, <1>3, <1>4
<1>6. B(n) = B(m)
  <2>1. /\ B(n) \in Int /\ B(m) \in Int
        /\ B(n) \div 256 = B(m) \div 256
    BY SMT, <1>1, <1>5
  <2> QED BY SMT, <1>3, <2>1, SameNumber
<1>7. A(n) = A(m)
  <2>1. /\ A(n) \in Int /\ A(m) \in Int
        /\ A(n) \div 256 = A(m) \div 256
    BY SMT, <1>1, <1>6
  <2> QED BY SMT, <1>3, <2>1, SameNumber
<1>8. n \div 256 = m \div 256
  BY SMT, <1>7 DEF A
<1> QED BY SMT, <1>3, <1>8, SameNumber

\* Different indices have different addresses, throughout 10.0.0.0/8: no tenant is given
\* what belongs to another, unless they were given one index.
THEOREM SubnetsDistinct ==
    \A i, j \in Indices :
        ComputeSubnetIps(SubnetBase, i) = ComputeSubnetIps(SubnetBase, j) => i = j
<1> SUFFICES ASSUME NEW i \in Indices, NEW j \in Indices,
                    ComputeSubnetIps(SubnetBase, i) = ComputeSubnetIps(SubnetBase, j)
             PROVE  i = j
  OBVIOUS
<1> DEFINE a(k) == 167772160 + 4 * k + 1
<1>1. a(i) \in Int /\ 0 <= a(i) /\ a(i) < 4294967296
  BY SMT DEF Indices
<1>2. a(j) \in Int /\ 0 <= a(j) /\ a(j) < 4294967296
  BY SMT DEF Indices
<1>3. ASSUME NEW k \in Indices PROVE ComputeSubnetIps(SubnetBase, k).host = ToIp(a(k))
  <2>1. 10 * 16777216 + 0 * 65536 + 0 * 256 + 0 + 4 * k + 1 = a(k)
    BY SMT DEF Indices
  <2>2. /\ SubnetBase[1] = 10 /\ SubnetBase[2] = 0 /\ SubnetBase[3] = 0 /\ SubnetBase[4] = 0
    BY SMT DEF SubnetBase
  <2> HIDE DEF a
  <2> QED BY SMT, <2>1, <2>2 DEF ComputeSubnetIps
<1>4. a(i) = a(j)
  <2> HIDE DEF a
  <2> QED BY SMT, <1>1, <1>2, <1>3, OctetsDistinct
<1> QED BY SMT, <1>4 DEF Indices

----
(* The registry. Every operation saves what it read, changed: whatever is  *)
(* saved over what, each registry that was ever read or saved is sound.    *)
Sound(r) ==
    /\ r \in Registry
    /\ r.next \in 1 .. (MaxIndex + 1)
    /\ \A t \in r.tenants : t.index \in 1 .. (r.next - 1) /\ t.name \in Names
    /\ \A s, t \in r.tenants : s.name = t.name \/ s.index = t.index => s = t

Spawning(o) ==
    /\ read[o].next <= MaxIndex
    /\ who[o].index = read[o].next /\ who[o].name \in Names
    /\ \A t \in read[o].tenants : t.name # who[o].name

RegistryInv ==
    /\ kind \in [Ops -> AllKinds \cup {"none"}]
    /\ who \in [Ops -> Tenant]
    /\ read \in [Ops -> Registry]
    /\ Sound(registry)
    /\ \A o \in Ops : Sound(read[o]) /\ (kind[o] = "spawn" => Spawning(o))

\* The empty registry is sound.
LEMMA EmptySound == Sound(EmptyRegistry)
BY HostAssumption DEF Sound, EmptyRegistry, Registry

\* A beginning operation reads the registry.
LEMMA BeginsSound ==
    ASSUME RegistryInv, NEW o \in Ops, NEW k, NEW t \in Tenant,
           Begins(o, k, t),
           k = "spawn" => /\ registry.next <= MaxIndex
                          /\ t.index = registry.next /\ t.name \in Names
                          /\ \A u \in registry.tenants : u.name # t.name
    PROVE  RegistryInv'
<1>1. k \in AllKinds
  BY HostAssumption DEF Begins
<1>2. registry' = registry /\ Sound(registry) /\ registry \in Registry
  BY DEF Begins, RegistryInv, Sound
<1>3. /\ kind' = [kind EXCEPT ![o] = k] /\ who' = [who EXCEPT ![o] = t]
      /\ read' = [read EXCEPT ![o] = registry]
  BY DEF Begins
<1>4. /\ kind' \in [Ops -> AllKinds \cup {"none"}] /\ who' \in [Ops -> Tenant]
      /\ read' \in [Ops -> Registry]
  BY <1>1, <1>2, <1>3 DEF RegistryInv
<1>5. ASSUME NEW p \in Ops PROVE Sound(read'[p]) /\ (kind'[p] = "spawn" => Spawning(p)')
  <2>1. CASE p = o
    BY <1>2, <1>3, <2>1 DEF RegistryInv, Spawning
  <2>2. CASE p # o
    BY <1>3, <2>2 DEF RegistryInv, Spawning
  <2> QED BY <2>1, <2>2
<1> QED BY <1>2, <1>4, <1>5 DEF RegistryInv, Sound

\* An operation that is over has forgotten what it read.
LEMMA IdlesSound ==
    ASSUME RegistryInv, NEW o \in Ops, Idles(o), UNCHANGED registry
    PROVE  RegistryInv'
<1>1. EmptyRegistry \in Registry /\ NoTenant \in Tenant
  BY HostAssumption DEF EmptyRegistry, Registry, NoTenant, Tenant
<1>2. /\ kind' = [kind EXCEPT ![o] = "none"] /\ who' = [who EXCEPT ![o] = NoTenant]
      /\ read' = [read EXCEPT ![o] = EmptyRegistry]
  BY DEF Idles
<1>3. /\ kind' \in [Ops -> AllKinds \cup {"none"}] /\ who' \in [Ops -> Tenant]
      /\ read' \in [Ops -> Registry]
  BY <1>1, <1>2 DEF RegistryInv
<1>4. ASSUME NEW p \in Ops PROVE Sound(read'[p]) /\ (kind'[p] = "spawn" => Spawning(p)')
  <2>1. CASE p = o
    BY <1>2, <2>1, EmptySound DEF RegistryInv
  <2>2. CASE p # o
    BY <1>2, <2>2 DEF RegistryInv, Spawning
  <2> QED BY <2>1, <2>2
<1> QED BY <1>3, <1>4 DEF RegistryInv, Sound

\* Steps that leave the operations alone, or only move them on.
LEMMA KeepsSound ==
    RegistryInv /\ UNCHANGED <<registry, kind, who, read>> => RegistryInv'
BY DEF RegistryInv, Sound, Spawning

\* What is saved is sound.
LEMMA SavedSound ==
    ASSUME RegistryInv, NEW o \in Ops, NEW c
    PROVE  Sound(Saved(o, c))
<1>1. Sound(read[o]) /\ read[o] \in Registry /\ who[o] \in Tenant
  BY DEF RegistryInv, Sound
<1>2. CASE c.act = "mark"
  BY <1>1, <1>2 DEF Saved
<1>3. CASE c.act = "save" /\ kind[o] = "spawn"
  <2>1. Saved(o, c) = [tenants |-> read[o].tenants \cup {who[o]}, next |-> read[o].next + 1]
    BY <1>3 DEF Saved
  <2>2. Spawning(o)
    BY <1>3 DEF RegistryInv
  <2> QED BY <1>1, <2>1, <2>2, HostAssumption DEF Sound, Spawning, Registry, Tenant
<1>4. CASE c.act = "save" /\ kind[o] = "evict"
  <2>1. Saved(o, c) = [read[o] EXCEPT !.tenants = {t \in @ : t.name # who[o].name}]
    BY <1>4 DEF Saved
  <2> QED BY <1>1, <2>1 DEF Sound, Registry
<1>5. CASE c.act = "clear" /\ c.thing = "config-dir"
  BY <1>5, EmptySound DEF Saved
<1>6. CASE c.act # "mark" /\ ~(c.act = "save" /\ kind[o] \in {"spawn", "evict"})
             /\ ~(c.act = "clear" /\ c.thing = "config-dir")
  BY <1>6 DEF Saved, RegistryInv
<1> QED BY <1>2, <1>3, <1>4, <1>5, <1>6

\* Every step keeps all registries sound.
LEMMA NextSound == RegistryInv /\ [Next]_vars => RegistryInv'
<1> SUFFICES ASSUME RegistryInv, [Next]_vars PROVE RegistryInv'
  OBVIOUS
<1>1. CASE UNCHANGED vars
  BY <1>1, KeepsSound DEF vars, opVars
<1>2. CASE BuoyStarts
  BY <1>2, KeepsSound DEF BuoyStarts, opVars
<1>3. CASE Reboots
  <2>1. EmptyRegistry \in Registry /\ NoTenant \in Tenant
    BY HostAssumption DEF EmptyRegistry, Registry, NoTenant, Tenant
  <2>2. /\ kind' = [o \in Ops |-> "none"] /\ who' = [o \in Ops |-> NoTenant]
        /\ read' = [o \in Ops |-> EmptyRegistry] /\ registry' = registry
    BY <1>3 DEF Reboots
  <2> QED BY <2>1, <2>2, EmptySound DEF RegistryInv
<1>4. ASSUME NEW o \in Ops, NEW n \in Names, SpawnBegins(o, n) PROVE RegistryInv'
  <2> DEFINE t == [name |-> n, index |-> registry.next]
  <2>1. t \in Tenant
    BY DEF Tenant, RegistryInv, Sound, Registry
  <2>2. \A u \in registry.tenants : u.name # n
    BY <1>4 DEF SpawnBegins, Registered
  <2> QED BY <1>4, <2>1, <2>2, BeginsSound DEF SpawnBegins
<1>5. ASSUME NEW o \in Ops, NEW t \in registry.tenants,
             EvictBegins(o, t) \/ RepairTapBegins(o, t) \/ RepairCaddyRouteBegins(o, t)
      PROVE  RegistryInv'
  <2>1. t \in Tenant
    BY DEF RegistryInv, Sound, Registry
  <2> QED BY <1>5, <2>1, BeginsSound DEF EvictBegins, RepairTapBegins, RepairCaddyRouteBegins
<1>6. ASSUME NEW o \in Ops, InitBegins(o) \/ UninitBegins(o) PROVE RegistryInv'
  <2>1. NoTenant \in Tenant
    BY DEF NoTenant, Tenant
  <2> QED BY <1>6, <2>1, BeginsSound DEF InitBegins, UninitBegins
<1>7. ASSUME NEW o \in Ops, Does(o) PROVE RegistryInv'
  <2>1. Sound(registry') /\ UNCHANGED <<kind, who, read>>
    BY <1>7, SavedSound DEF Does
  <2> QED BY <2>1 DEF RegistryInv, Spawning
<1>8. ASSUME NEW o \in Ops, Misses(o) PROVE RegistryInv'
  BY <1>8, KeepsSound DEF Misses
<1>9. ASSUME NEW o \in Ops, Breaks(o) PROVE RegistryInv'
  BY <1>9, KeepsSound, IdlesSound DEF Breaks, Undoes
<1>10. ASSUME NEW o \in Ops, StageEnds(o) PROVE RegistryInv'
  BY <1>10, KeepsSound, IdlesSound DEF StageEnds, Ends
<1>11. ASSUME NEW o \in Ops, Dies(o) PROVE RegistryInv'
  BY <1>11, IdlesSound DEF Dies
<1> QED BY <1>1, <1>2, <1>3, <1>4, <1>5, <1>6, <1>7, <1>8, <1>9, <1>10, <1>11 DEF Next

\* No registry that was ever saved, whatever it was saved over, names a tenant or gives an
\* address twice.
THEOREM RegistryStaysDistinct ==
    ASSUME MaxIndex \in Indices
    PROVE  Spec => []RegistryDistinct
<1>1. Init => RegistryInv
  <2>1. EmptyRegistry \in Registry /\ NoTenant \in Tenant
    BY HostAssumption DEF EmptyRegistry, Registry, NoTenant, Tenant
  <2> QED BY <2>1, EmptySound DEF Init, RegistryInv
<1>2. RegistryInv => RegistryDistinct
  <2> SUFFICES ASSUME RegistryInv, NEW s \in registry.tenants, NEW t \in registry.tenants,
                      s.name = t.name \/ Ips(s) = Ips(t)
               PROVE  s = t
    BY DEF RegistryDistinct
  <2>1. s.index \in Indices /\ t.index \in Indices
    BY SMT, HostAssumption DEF RegistryInv, Sound, Indices
  <2>2. s.name = t.name \/ s.index = t.index
    BY <2>1, SubnetsDistinct DEF Ips
  <2> QED BY <2>2 DEF RegistryInv, Sound
<1> QED BY <1>1, <1>2, NextSound, PTL DEF Spec

----
(* Types. *)

\* A beginning operation.
LEMMA BeginsTyped ==
    ASSUME HostTypeOK, RegistryInv', NEW o \in Ops, NEW k, NEW t, Begins(o, k, t)
    PROVE  HostTypeOK'
BY DEF HostTypeOK, RegistryInv, Sound, Begins, history

\* An operation that is over.
LEMMA IdlesTyped ==
    ASSUME HostTypeOK, RegistryInv', NEW o \in Ops, Idles(o),
           registry' \in Registry, lockdown' \in BOOLEAN, host' \in [Items -> Nat],
           debris' \subseteq Items, torn' \subseteq Names \cup {NoName},
           faults' \in 0 .. MaxFaults
    PROVE  HostTypeOK'
BY DEF HostTypeOK, RegistryInv, Idles

\* A command leaves a number of each item.
LEMMA AfterTyped ==
    ASSUME HostTypeOK, NEW c, NEW t, Can(c, t)
    PROVE  After(c, t) \in [Items -> Nat]
<1> DEFINE k == Key(c.thing, t)
<1>1. host \in [Items -> Nat]
  BY DEF HostTypeOK
<1>2. CASE c.act = "append"
  <2>1. k \in Items => host[k] + 1 \in Nat
    BY <1>1
  <2> QED BY <1>1, <1>2, <2>1 DEF After
<1>3. CASE c.act = "drop"
  <2>1. k \in Items => host[k] - 1 \in Nat
    BY <1>1, <1>3 DEF Can, Has
  <2> QED BY <1>1, <1>3, <2>1 DEF After
<1>4. CASE c.act \in {"create", "make"}
  BY <1>1, <1>4 DEF After
<1>5. CASE c.act \in {"clear", "remove"}
  BY <1>1, <1>5 DEF After
<1>6. CASE c.act = "empty"
  BY <1>1, <1>6 DEF After
<1>7. CASE c.act \notin {"append", "drop", "create", "make", "clear", "remove", "empty"}
  BY <1>1, <1>7 DEF After
<1> QED BY <1>2, <1>3, <1>4, <1>5, <1>6, <1>7

\* What fails is counted.
LEMMA FaultTyped ==
    ASSUME HostTypeOK, NEW e, Fault(e) \/ UNCHANGED faults
    PROVE  faults' \in 0 .. MaxFaults
BY HostAssumption DEF HostTypeOK, Fault

\* Items of a tenant are items, its name is one.
LEMMA WhoNamed == ASSUME HostTypeOK, NEW o \in Ops PROVE who[o].name \in Names \cup {NoName}
BY DEF HostTypeOK, Tenant

\* Every step keeps the types.
LEMMA NextTyped == HostTypeOK /\ RegistryInv /\ RegistryInv' /\ [Next]_vars => HostTypeOK'
<1> SUFFICES ASSUME HostTypeOK, RegistryInv, RegistryInv', [Next]_vars PROVE HostTypeOK'
  OBVIOUS
<1>0. registry' \in Registry /\ who' \in [Ops -> Tenant] /\ read' \in [Ops -> Registry]
      /\ kind' \in [Ops -> AllKinds \cup {"none"}]
  BY DEF RegistryInv, Sound
<1>1. CASE UNCHANGED vars
  BY <1>1 DEF vars, opVars, history, HostTypeOK
<1>2. CASE BuoyStarts
  BY <1>2 DEF BuoyStarts, opVars, history, HostTypeOK
<1>3. CASE Reboots
  <2>1. faults' \in 0 .. MaxFaults
    BY <1>3, FaultTyped DEF Reboots
  <2>2. host' \in [Items -> Nat]
    BY <1>3 DEF Reboots, HostTypeOK
  <2>3. debris' \subseteq Items
    BY <1>3 DEF Reboots, HostTypeOK, ItemsOf
  <2> QED BY <1>0, <1>3, <2>1, <2>2, <2>3 DEF Reboots, HostTypeOK
<1>4. ASSUME NEW o \in Ops, NEW n \in Names, SpawnBegins(o, n) PROVE HostTypeOK'
  BY <1>4, BeginsTyped DEF SpawnBegins
<1>5. ASSUME NEW o \in Ops, NEW t \in registry.tenants,
             EvictBegins(o, t) \/ RepairTapBegins(o, t) \/ RepairCaddyRouteBegins(o, t)
      PROVE  HostTypeOK'
  BY <1>5, BeginsTyped DEF EvictBegins, RepairTapBegins, RepairCaddyRouteBegins
<1>6. ASSUME NEW o \in Ops, InitBegins(o) \/ UninitBegins(o) PROVE HostTypeOK'
  BY <1>6, BeginsTyped DEF InitBegins, UninitBegins
<1>7. ASSUME NEW o \in Ops, Does(o) PROVE HostTypeOK'
  <2>1. host' \in [Items -> Nat]
    BY <1>7, AfterTyped DEF Does
  <2>2. lockdown' \in BOOLEAN
    BY <1>7 DEF Does
  <2>3. step' \in [Ops -> Nat \ {0}]
    BY <1>7 DEF Does, HostTypeOK
  <2> QED BY <1>0, <1>7, <2>1, <2>2, <2>3 DEF Does, HostTypeOK, history
<1>8. ASSUME NEW o \in Ops, Misses(o) PROVE HostTypeOK'
  <2>1. faults' \in 0 .. MaxFaults
    BY <1>8, FaultTyped DEF Misses, CommandFails
  <2>2. step' \in [Ops -> Nat \ {0}]
    BY <1>8 DEF Misses, HostTypeOK
  <2> QED BY <1>0, <1>8, <2>1, <2>2 DEF Misses, HostTypeOK
<1>9. ASSUME NEW o \in Ops, Breaks(o) PROVE HostTypeOK'
  <2>1. faults' \in 0 .. MaxFaults
    BY <1>9, FaultTyped DEF Breaks, CommandFails
  <2>2. host' \in [Items -> Nat]
    BY <1>9, AfterTyped DEF Breaks, HostTypeOK
  <2>3. debris' \subseteq Items /\ torn' \subseteq Names \cup {NoName}
    BY <1>9, WhoNamed DEF Breaks, HostTypeOK
  <2>4. CASE Idles(o)
    BY <1>0, <1>9, <2>1, <2>2, <2>3, <2>4, IdlesTyped DEF Breaks, HostTypeOK
  <2>5. CASE stage[o] # 1 /\ Undoes(o, stage[o] - 1)
    <3>1. stage[o] - 1 \in Nat \ {0}
      BY <2>5 DEF HostTypeOK
    <3>2. /\ stage' \in [Ops -> Nat \ {0}] /\ step' \in [Ops -> Nat \ {0}]
          /\ undoing' \in [Ops -> BOOLEAN]
      BY <2>5, <3>1 DEF Undoes, HostTypeOK
    <3> QED BY <1>0, <1>9, <2>1, <2>2, <2>3, <2>5, <3>2 DEF Breaks, Undoes, HostTypeOK
  <2> QED BY <1>9, <2>4, <2>5 DEF Breaks
<1>10. ASSUME NEW o \in Ops, StageEnds(o) PROVE HostTypeOK'
  <2>1. CASE Ends(o)
    <3>1. debris' \subseteq Items
      BY <2>1 DEF Ends, Left
    <3>2. torn' \subseteq Names \cup {NoName}
      BY <2>1 DEF Ends, HostTypeOK
    <3> QED BY <1>0, <1>10, <2>1, <3>1, <3>2, IdlesTyped DEF StageEnds, Ends, HostTypeOK
  <2>2. CASE ~Ends(o)
    <3>1. /\ stage[o] # (IF undoing[o] THEN 1 ELSE Len(Program(o)))
          /\ stage' = [stage EXCEPT ![o] = IF undoing[o] THEN @ - 1 ELSE @ + 1]
          /\ step' = [step EXCEPT ![o] = 1]
          /\ UNCHANGED <<kind, who, undoing, read, locked, debris, torn>>
          /\ UNCHANGED <<host, registry, lockdown, faults>>
      BY <1>10, <2>2 DEF StageEnds
    <3>2. (IF undoing[o] THEN stage[o] - 1 ELSE stage[o] + 1) \in Nat \ {0}
      BY <3>1 DEF HostTypeOK
    <3>3. stage' \in [Ops -> Nat \ {0}] /\ step' \in [Ops -> Nat \ {0}]
      BY <3>1, <3>2 DEF HostTypeOK
    <3> QED BY <1>0, <3>1, <3>3 DEF HostTypeOK
  <2> QED BY <2>1, <2>2
<1>11. ASSUME NEW o \in Ops, Dies(o) PROVE HostTypeOK'
  <2>1. faults' \in 0 .. MaxFaults
    BY <1>11, FaultTyped DEF Dies
  <2>2. debris' \subseteq Items
    BY <1>11 DEF Dies, Left
  <2>3. torn' \subseteq Names \cup {NoName}
    BY <1>11, WhoNamed DEF Dies, HostTypeOK
  <2> QED BY <1>0, <1>11, <2>1, <2>2, <2>3, IdlesTyped DEF Dies, HostTypeOK
<1> QED BY <1>1, <1>2, <1>3, <1>4, <1>5, <1>6, <1>7, <1>8, <1>9, <1>10, <1>11 DEF Next

\* At the start.
LEMMA InitHolds == Init => HostTypeOK /\ RegistryInv
<1>1. EmptyRegistry \in Registry /\ NoTenant \in Tenant /\ 0 \in 0 .. MaxFaults
  BY HostAssumption DEF EmptyRegistry, Registry, NoTenant, Tenant
<1>2. Init => RegistryInv
  BY <1>1, EmptySound DEF Init, RegistryInv
<1>3. Init => host \in [Items -> Nat]
  BY DEF Init
<1>4. Init => /\ stage \in [Ops -> Nat \ {0}] /\ step \in [Ops -> Nat \ {0}]
               /\ undoing \in [Ops -> BOOLEAN] /\ locked \in [Ops -> BOOLEAN]
  BY DEF Init
<1>5. Init => registry \in Registry
  BY <1>1 DEF Init
<1>6. Init => /\ kind \in [Ops -> AllKinds \cup {"none"}] /\ who \in [Ops -> Tenant]
               /\ read \in [Ops -> Registry]
  BY <1>2 DEF RegistryInv
<1>7. Init => lockdown \in BOOLEAN /\ debris \subseteq Items /\ torn \subseteq Names \cup {NoName}
               /\ faults \in 0 .. MaxFaults
  BY <1>1 DEF Init
<1> QED BY <1>2, <1>3, <1>4, <1>5, <1>6, <1>7 DEF HostTypeOK

\* Every thing is there a natural number of times, whatever is dropped, and all bookkeeping
\* of operations that begin, break, roll back, die or end is of its type.
THEOREM HostTypeCorrect == Spec => []HostTypeOK
<1>1. HostTypeOK /\ RegistryInv /\ [Next]_vars => HostTypeOK' /\ RegistryInv'
  BY NextSound, NextTyped
<1> QED BY <1>1, InitHolds, PTL DEF Spec

----
(* Tenants that are not worked on. *)

\* The commands that leave all but one item as it is.
TenantThings ==
    {"dnat", "masquerade-in", "masquerade-out", "host-return", "block-host", "return",
     "gateway-in", "block-10", "block-172", "block-192", "block-link-local", "connlimit",
     "outbound", "agent-root", "health-root", "agent-drop", "health-drop", "ws-route",
     "http-route", "overlay", "tap", "chroot", "vm", "keys", "images", "config-dir"}
Gentle ==
    [act : {"append", "drop", "create", "make", "clear", "use", "mark", "save"},
     thing : TenantThings, soft : BOOLEAN]
OneTenant == AllKinds \ {"init", "uninit"}

\* The sequences of HostCommands.
LEMMA GentleRules ==
    /\ AddNat \in Seq(Gentle) /\ RemoveNat \in Seq(Gentle)
    /\ AddIsolationRules \in Seq(Gentle) /\ RemoveIsolationRules \in Seq(Gentle)
    /\ AddAgentLockdownRules \in Seq(Gentle) /\ RemoveAgentLockdownRules \in Seq(Gentle)
<1>1. NatRules \in Seq(TenantThings)
  BY DEF NatRules, TenantThings
<1>2. IsolationRules \in Seq(TenantThings)
  BY DEF IsolationRules, TenantThings
<1>3. LockdownRules \in Seq(TenantThings)
  BY DEF LockdownRules, TenantThings
<1>4. ASSUME NEW s \in Seq(TenantThings)
      PROVE  /\ Each(Hard, "append", s) \in Seq(Gentle)
             /\ Each(Soft, "drop", s) \in Seq(Gentle)
  <2>1. DOMAIN s = 1 .. Len(s) /\ Len(s) \in Nat /\ \A i \in 1 .. Len(s) : s[i] \in TenantThings
    OBVIOUS
  <2>2. \A x \in TenantThings : Hard("append", x) \in Gentle /\ Soft("drop", x) \in Gentle
    BY DEF Hard, Soft, Gentle
  <2>3. /\ Each(Hard, "append", s) \in [1 .. Len(s) -> Gentle]
        /\ Each(Soft, "drop", s) \in [1 .. Len(s) -> Gentle]
    BY <2>1, <2>2 DEF Each
  <2> QED BY <2>1, <2>3
<1> QED BY <1>1, <1>2, <1>3, <1>4 DEF AddNat, RemoveNat, AddIsolationRules,
          RemoveIsolationRules, AddAgentLockdownRules, RemoveAgentLockdownRules

LEMMA GentleThings ==
    /\ CreateTap \in Seq(Gentle) /\ DeleteTap \in Seq(Gentle)
    /\ AddRoute \in Seq(Gentle) /\ RemoveRoute \in Seq(Gentle)
    /\ CreateOverlay \in Seq(Gentle) /\ DeleteOverlay \in Seq(Gentle)
    /\ GenerateKeypair \in Seq(Gentle) /\ RemoveKeypair \in Seq(Gentle)
    /\ CleanupChroot \in Seq(Gentle) /\ StartJailer \in Seq(Gentle)
    /\ LinkChrootFiles \in Seq(Gentle) /\ BootVm \in Seq(Gentle) /\ Greet \in Seq(Gentle)
BY DEF CreateTap, DeleteTap, AddRoute, RemoveRoute, CreateOverlay, DeleteOverlay,
       GenerateKeypair, RemoveKeypair, CleanupChroot, StartJailer, LinkChrootFiles, BootVm,
       Greet, Hard, Soft, Gentle, TenantThings

\* What is made of gentle stages.
GentleStage == [do : Seq(Gentle), undo : Seq(Gentle)]

LEMMA GentlePrograms ==
    ASSUME NEW k \in OneTenant, NEW l \in BOOLEAN
    PROVE  Programs[k][l] \in Seq(GentleStage) /\ Len(Programs[k][l]) > 0
<1>1. \A s, t \in Seq(Gentle) : s \o t \in Seq(Gentle) /\ Stage(s, t) \in GentleStage
  BY DEF Stage, GentleStage
<1>2. <<>> \in Seq(Gentle) /\ <<Hard("save", "config-dir")>> \in Seq(Gentle)
        /\ <<Hard("mark", "config-dir")>> \in Seq(Gentle) /\ <<Soft("drop", "vm")>> \in Seq(Gentle)
        /\ StopJailer \in Seq(Gentle)
  BY <1>1, GentleThings DEF Hard, Soft, Gentle, TenantThings, StopJailer
<1>3. ASSUME NEW s \in Seq(Gentle) PROVE Once(s) \in Seq(GentleStage) /\ Len(Once(s)) = 1
  <2>1. Stage(s, <<>>) \in GentleStage
    BY <1>1, <1>2
  <2> QED BY <2>1 DEF Once
<1>4. Programs[k][l] = Stages(k, l)
  BY DEF Programs, OneTenant
<1>5. CASE k = "spawn"
  <2>1. CleanupChroot \o StartJailer \in Seq(Gentle)
    BY <1>1, GentleThings
  <2>2. LinkChrootFiles \o BootVm \o Greet \o GenerateKeypair \in Seq(Gentle)
    BY <1>1, GentleThings
  <2>3. Greet \o AddRoute \in Seq(Gentle)
    BY <1>1, GentleThings
  <2>4. /\ Stage(CreateOverlay, DeleteOverlay) \in GentleStage
        /\ Stage(CreateTap, DeleteTap) \in GentleStage
        /\ Stage(AddNat, RemoveNat) \in GentleStage
        /\ Stage(AddIsolationRules, RemoveIsolationRules) \in GentleStage
        /\ (IF l THEN Stage(AddAgentLockdownRules, RemoveAgentLockdownRules)
                 ELSE Stage(<<>>, <<>>)) \in GentleStage
        /\ Stage(CleanupChroot \o StartJailer, StopJailer) \in GentleStage
        /\ Stage(LinkChrootFiles \o BootVm \o Greet \o GenerateKeypair, RemoveKeypair)
              \in GentleStage
        /\ Stage(Greet \o AddRoute, RemoveRoute) \in GentleStage
        /\ Stage(<<Hard("save", "config-dir")>>, <<>>) \in GentleStage
    BY <1>1, <1>2, <2>1, <2>2, <2>3, GentleRules, GentleThings
  <2>5. SpawnStages(l) \in Seq(GentleStage) /\ Len(SpawnStages(l)) = 9
    BY <2>4 DEF SpawnStages
  <2>6. Stages(k, l) = SpawnStages(l)
    BY <1>5 DEF Stages
  <2> QED BY <1>4, <2>5, <2>6
<1>6. CASE k = "evict"
  <2>1. (IF l THEN RemoveAgentLockdownRules ELSE <<>>) \in Seq(Gentle)
    BY <1>2, GentleRules
  <2>2. EvictStages(l) \in Seq(GentleStage) /\ Len(EvictStages(l)) = 1
    BY <1>1, <1>2, <1>3, <2>1, GentleRules, GentleThings DEF EvictStages
  <2>3. Stages(k, l) = EvictStages(l)
    BY <1>6 DEF Stages
  <2> QED BY <1>4, <2>2, <2>3
<1>7. CASE k \in {"repairTap", "repairCaddyRoute"}
  <2>1. /\ RepairTapStages \in Seq(GentleStage) /\ Len(RepairTapStages) = 1
        /\ RepairCaddyRouteStages \in Seq(GentleStage) /\ Len(RepairCaddyRouteStages) = 1
    BY <1>1, <1>3, GentleRules, GentleThings DEF RepairTapStages, RepairCaddyRouteStages
  <2>2. Stages(k, l) \in {RepairTapStages, RepairCaddyRouteStages}
    BY <1>7 DEF Stages
  <2> QED BY <1>4, <2>1, <2>2
<1> QED BY <1>5, <1>6, <1>7 DEF OneTenant, AllKinds

(* One operation at a time: what is registered is what it read, and the    *)
(* tenant it works on.                                                     *)
OneAtATime == \A o, p \in Ops : o = p

WorkInv ==
    \A o \in Ops :
        /\ kind[o] = "none" => stage[o] = 1
        /\ kind[o] \in OneTenant =>
              /\ stage[o] \in 1 .. Len(Program(o))
              /\ registry.tenants \subseteq read[o].tenants \cup {who[o]}
              /\ kind[o] = "spawn" \/ who[o] \in read[o].tenants

\* The program of an operation.
LEMMA ProgramGentle ==
    ASSUME HostTypeOK, NEW o \in Ops, kind[o] \in OneTenant
    PROVE  Program(o) \in Seq(GentleStage) /\ Len(Program(o)) > 0
BY GentlePrograms DEF Program, HostTypeOK

\* A beginning operation.
LEMMA BeginsWork ==
    ASSUME OneAtATime, HostTypeOK, HostTypeOK', WorkInv, NEW o \in Ops, NEW k, NEW t,
           Begins(o, k, t), k \in OneTenant => k = "spawn" \/ t \in registry.tenants
    PROVE  WorkInv'
<1>1. /\ kind'[o] = k /\ who'[o] = t /\ read'[o] = registry /\ stage'[o] = 1
      /\ registry' = registry /\ k \in AllKinds
  BY HostAssumption DEF Begins, HostTypeOK, WorkInv
<1>2. k \in OneTenant => 1 \in 1 .. Len(Program(o))'
  <2> SUFFICES ASSUME k \in OneTenant PROVE 1 \in 1 .. Len(Program(o))'
    OBVIOUS
  <2>1. Program(o)' = Programs[k][locked'[o]] /\ locked'[o] \in BOOLEAN
    BY <1>1 DEF Program, HostTypeOK
  <2>2. Program(o)' \in Seq(GentleStage) /\ Len(Program(o)') > 0
    BY <2>1, GentlePrograms
  <2>3. Len(Program(o)') \in Nat
    BY <2>2
  <2> QED BY <2>2, <2>3
<1>3. k # "none"
  BY <1>1 DEF AllKinds
<1> QED BY <1>1, <1>2, <1>3 DEF OneAtATime, WorkInv

\* An operation that is over.
LEMMA IdlesWork ==
    ASSUME OneAtATime, HostTypeOK, NEW o \in Ops, Idles(o)
    PROVE  WorkInv'
<1>1. kind'[o] = "none" /\ stage'[o] = 1
  BY DEF Idles, HostTypeOK
<1> QED BY <1>1 DEF OneAtATime, WorkInv, OneTenant, AllKinds

\* Steps that only move it on, to a stage of its program.
LEMMA MovesWork ==
    ASSUME OneAtATime, HostTypeOK, WorkInv, NEW o \in Ops, kind[o] # "none",
           UNCHANGED <<kind, who, read, locked>>,
           kind[o] \in OneTenant => stage'[o] \in 1 .. Len(Program(o)),
           registry'.tenants \subseteq registry.tenants \cup read[o].tenants \cup {who[o]}
    PROVE  WorkInv'
<1>1. Program(o)' = Program(o)
  BY DEF Program
<1> QED BY <1>1 DEF OneAtATime, WorkInv

\* The registry that is saved.
LEMMA SavedWork ==
    ASSUME HostTypeOK, NEW o \in Ops, NEW c
    PROVE  Saved(o, c).tenants \subseteq registry.tenants \cup read[o].tenants \cup {who[o]}
<1>0. read[o] \in Registry /\ registry \in Registry
  BY DEF HostTypeOK
<1>1. CASE c.act = "mark"
  BY <1>1 DEF Saved
<1>2. CASE c.act = "save" /\ kind[o] = "spawn"
  BY <1>2 DEF Saved
<1>3. CASE c.act = "save" /\ kind[o] = "evict"
  <2>1. Saved(o, c) = [read[o] EXCEPT !.tenants = {t \in @ : t.name # who[o].name}]
    BY <1>3 DEF Saved
  <2> QED BY <1>0, <2>1 DEF Registry
<1>4. CASE c.act = "clear" /\ c.thing = "config-dir"
  BY <1>4 DEF Saved, EmptyRegistry
<1>5. CASE c.act # "mark" /\ ~(c.act = "save" /\ kind[o] \in {"spawn", "evict"})
             /\ ~(c.act = "clear" /\ c.thing = "config-dir")
  BY <1>5 DEF Saved
<1> QED BY <1>1, <1>2, <1>3, <1>4, <1>5

\* Every step keeps it.
LEMMA NextWork ==
    ASSUME OneAtATime, HostTypeOK, HostTypeOK', WorkInv, [Next]_vars
    PROVE  WorkInv'
<1>1. CASE UNCHANGED vars
  BY <1>1 DEF vars, opVars, WorkInv, Program
<1>2. CASE BuoyStarts
  BY <1>2 DEF BuoyStarts, opVars, WorkInv, Program
<1>3. CASE Reboots
  BY <1>3 DEF Reboots, WorkInv, OneTenant, AllKinds
<1>4. ASSUME NEW o \in Ops, NEW n \in Names, SpawnBegins(o, n) PROVE WorkInv'
  BY <1>4, BeginsWork DEF SpawnBegins
<1>5. ASSUME NEW o \in Ops, NEW t \in registry.tenants,
             EvictBegins(o, t) \/ RepairTapBegins(o, t) \/ RepairCaddyRouteBegins(o, t)
      PROVE  WorkInv'
  BY <1>5, BeginsWork DEF EvictBegins, RepairTapBegins, RepairCaddyRouteBegins
<1>6. ASSUME NEW o \in Ops, InitBegins(o) \/ UninitBegins(o) PROVE WorkInv'
  BY <1>6, BeginsWork DEF InitBegins, UninitBegins, OneTenant
<1>7. ASSUME NEW o \in Ops, Does(o) PROVE WorkInv'
  BY <1>7, MovesWork, SavedWork DEF Does, Busy, WorkInv
<1>8. ASSUME NEW o \in Ops, Misses(o) PROVE WorkInv'
  BY <1>8, MovesWork DEF Misses, Busy, WorkInv
<1>9. ASSUME NEW o \in Ops, Breaks(o) PROVE WorkInv'
  <2>1. CASE Idles(o)
    BY <2>1, IdlesWork
  <2>2. CASE stage[o] # 1 /\ Undoes(o, stage[o] - 1)
    <3>1. kind[o] \in OneTenant => stage'[o] \in 1 .. Len(Program(o))
      <4> SUFFICES ASSUME kind[o] \in OneTenant PROVE stage'[o] \in 1 .. Len(Program(o))
        OBVIOUS
      <4>1. Len(Program(o)) \in Nat
        BY ProgramGentle
      <4> QED BY <2>2, <4>1 DEF Undoes, WorkInv, HostTypeOK
    <3> QED BY <1>9, <2>2, <3>1, MovesWork DEF Breaks, Undoes, Busy
  <2> QED BY <1>9, <2>1, <2>2 DEF Breaks
<1>10. ASSUME NEW o \in Ops, StageEnds(o) PROVE WorkInv'
  <2>1. CASE Ends(o)
    BY <2>1, IdlesWork DEF Ends
  <2>2. CASE ~Ends(o)
    <3>1. /\ kind[o] # "none"
          /\ stage[o] # (IF undoing[o] THEN 1 ELSE Len(Program(o)))
          /\ stage' = [stage EXCEPT ![o] = IF undoing[o] THEN @ - 1 ELSE @ + 1]
          /\ UNCHANGED <<kind, who, read, locked, registry>>
      BY <1>10, <2>2 DEF StageEnds
    <3>2. kind[o] \in OneTenant => stage'[o] \in 1 .. Len(Program(o))
      <4> SUFFICES ASSUME kind[o] \in OneTenant PROVE stage'[o] \in 1 .. Len(Program(o))
        OBVIOUS
      <4>1. Len(Program(o)) \in Nat
        BY ProgramGentle
      <4> QED BY <3>1, <4>1 DEF WorkInv, HostTypeOK
    <3> QED BY <3>1, <3>2, MovesWork
  <2> QED BY <2>1, <2>2
<1>11. ASSUME NEW o \in Ops, Dies(o) PROVE WorkInv'
  BY <1>11, IdlesWork DEF Dies
<1> QED BY <1>1, <1>2, <1>3, <1>4, <1>5, <1>6, <1>7, <1>8, <1>9, <1>10, <1>11 DEF Next

\* What another tenant has is found by another name or another address.
LEMMA KeysDiffer ==
    ASSUME HostTypeOK, RegistryInv, WorkInv, NEW o \in Ops, kind[o] \in OneTenant,
           NEW t \in registry.tenants, t.name # who[o].name,
           NEW x, NEW y \in Own
    PROVE  Key(y, t) \in Items /\ Key(x, who[o]) # Key(y, t)
<1>1. t \in Tenant /\ t.name \in Names /\ t.index \in 1 .. MaxIndex
  BY HostAssumption DEF RegistryInv, Sound, Registry
<1>2. t.index # who[o].index
  <2>1. t \in read[o].tenants /\ Sound(read[o])
    BY DEF WorkInv, RegistryInv
  <2>2. CASE kind[o] = "spawn"
    BY <2>1, <2>2 DEF RegistryInv, Spawning, Sound
  <2>3. CASE who[o] \in read[o].tenants
    BY <2>1, <2>3 DEF Sound
  <2> QED BY <2>2, <2>3 DEF WorkInv
<1>3. Key(y, t) \in Items
  <2>1. t \in [name : Names, index : 1 .. MaxIndex]
    BY <1>1 DEF Tenant
  <2> QED BY <2>1 DEF Items
<1>4. y \in ByName \/ y \in ByAddress
  BY DEF ByName, ByAddress
<1>5. Key(x, who[o]) # Key(y, t)
  BY <1>2, <1>4 DEF Key
<1> QED BY <1>3, <1>5

\* A command that is not about a whole place changes one item.
LEMMA AfterOne ==
    ASSUME HostTypeOK, NEW c, NEW t,
           c.act \in {"append", "drop", "create", "make", "clear", "use", "mark", "save"},
           NEW i \in Items, i # Key(c.thing, t)
    PROVE  After(c, t)[i] = host[i]
<1>1. host \in [Items -> Nat]
  BY DEF HostTypeOK
<1>2. CASE c.act = "append"
  BY <1>1, <1>2 DEF After
<1>3. CASE c.act = "drop"
  BY <1>1, <1>3 DEF After
<1>4. CASE c.act \in {"create", "make"}
  BY <1>1, <1>4 DEF After
<1>5. CASE c.act = "clear"
  BY <1>1, <1>5 DEF After
<1>6. CASE c.act \in {"use", "mark", "save"}
  BY <1>1, <1>6 DEF After
<1> QED BY <1>2, <1>3, <1>4, <1>5, <1>6

\* Only a command changes what is on the host while an operation goes on, and only the
\* item it is about.
LEMMA DoesOne ==
    ASSUME HostTypeOK, WorkInv, NEW o \in Ops, kind[o] \in OneTenant, Does(o),
           NEW i \in Items, i # Key(Command1(o).thing, who[o])
    PROVE  host'[i] = host[i]
<1>1. Program(o)[stage[o]] \in GentleStage
  BY ProgramGentle DEF WorkInv
<1>2. Current(o) \in Seq(Gentle)
  BY <1>1 DEF Current, GentleStage
<1>3. Command1(o) \in Gentle
  BY <1>2 DEF Does, Busy, Command1
<1>4. Command1(o).act \in {"append", "drop", "create", "make", "clear", "use", "mark", "save"}
  BY <1>3 DEF Gentle
<1> QED BY <1>4, AfterOne DEF Does

\* As long as operations run one at a time, none changes anything another tenant has, in a
\* rollback neither: rules are found by an address nobody else was given.
THEOREM OthersAreLeftAlone ==
    ASSUME OneAtATime
    PROVE  Spec => OthersUntouched
<1> DEFINE Untouched ==
        \A o \in Ops : kind[o] \in AllKinds \ {"init", "uninit"} /\ step'[o] = step[o] + 1 =>
            \A t \in registry.tenants : t.name # who[o].name =>
                \A thing \in Own : host'[Key(thing, t)] = host[Key(thing, t)]
<1>1. Init => WorkInv
  BY DEF Init, WorkInv, OneTenant, AllKinds
<1>2. HostTypeOK /\ RegistryInv /\ WorkInv /\ [Next]_vars =>
          HostTypeOK' /\ RegistryInv' /\ WorkInv'
  BY NextSound, NextTyped, NextWork
<1>3. ASSUME HostTypeOK, RegistryInv, WorkInv, [Next]_vars PROVE Untouched
  <2> SUFFICES ASSUME NEW o \in Ops, kind[o] \in OneTenant, step'[o] = step[o] + 1,
                      NEW t \in registry.tenants, t.name # who[o].name, NEW y \in Own
               PROVE  host'[Key(y, t)] = host[Key(y, t)]
    BY DEF OneTenant
  <2>1. step[o] \in Nat \ {0} /\ kind[o] # "none"
    BY <1>3 DEF HostTypeOK, OneTenant, AllKinds
  <2>2. Does(o) => host'[Key(y, t)] = host[Key(y, t)]
    BY <1>3, KeysDiffer, DoesOne
  <2>3. UNCHANGED vars \/ BuoyStarts \/ Reboots \/ Misses(o) => host'[Key(y, t)] = host[Key(y, t)]
    <3>1. ~UNCHANGED vars /\ ~BuoyStarts
      BY <2>1 DEF vars, opVars, BuoyStarts
    <3>2. ~Reboots
      BY <2>1 DEF Reboots
    <3>3. Misses(o) => host' = host
      BY DEF Misses
    <3> QED BY <3>1, <3>2, <3>3
  <2>4. ~Idles(o) /\ ~Undoes(o, stage[o] - 1)
    BY <1>3, <2>1 DEF Idles, Undoes, HostTypeOK
  <2>5. ~Breaks(o) /\ ~Dies(o)
    BY <2>4 DEF Breaks, Dies
  <2>6. ~StageEnds(o)
    BY <1>3, <2>1, <2>4 DEF StageEnds, Ends, HostTypeOK
  <2>7. \A k, u : ~Begins(o, k, u)
    BY <2>1 DEF Begins
  <2> QED BY <1>3, <2>2, <2>3, <2>5, <2>6, <2>7
          DEF Next, OneAtATime, SpawnBegins, EvictBegins, RepairTapBegins,
              RepairCaddyRouteBegins, InitBegins, UninitBegins
<1>4. HostTypeOK /\ RegistryInv /\ WorkInv /\ [Next]_vars => [Untouched]_vars
  BY <1>3
<1> QED BY <1>1, <1>2, <1>4, InitHolds, PTL DEF Spec, OthersUntouched
====
