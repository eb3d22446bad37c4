---- MODULE HostCleanup_proofs ----
(***************************************************************************)
(* What is left on a host, for any tenants, registry and faults, as long   *)
(* as operations run one at a time: rollback and evict leave nothing but   *)
(* what a failed command left, a TAP device stands for its rules, and no   *)
(* two tenants use one address.                                            *)
(*                                                                         *)
(* First what the programs are like, then the invariant that follows an    *)
(* operation through its program, then one lemma for each kind of step.    *)
(***************************************************************************)
EXTENDS Host_proofs

(* What the programs are like.                                             *)

TapRules == ToSet(NatRules) \cup ToSet(IsolationRules)
TapParts == TapRules \cup {"tap"}

\* The stage of a spawn that makes a thing.
Home ==
    [x \in Own |->
        CASE x = "overlay" -> 1
          [] x = "tap" -> 2
          [] x \in ToSet(NatRules) -> 3
          [] x \in ToSet(IsolationRules) -> 4
          [] x \in ToSet(LockdownRules) -> 5
          [] x \in {"vm", "chroot"} -> 6
          [] x = "keys" -> 7
          [] OTHER -> 8]
MadeIn(s) == {x \in Own : Home[x] = s}

\* The things that the commands of a sequence with one of these acts are about.
About(s, acts) == {s[i].thing : i \in {j \in DOMAIN s : s[j].act \in acts}}
Changing == {"append", "drop", "create", "make", "clear"}
Adding == {"append", "create"}
Taking == {"drop", "clear"}

\* Nothing is appended that the same sequence has changed before.
Fresh(s) ==
    \A m, n \in DOMAIN s :
        m < n /\ s[n].act = "append" /\ s[m].act \in Changing => s[m].thing # s[n].thing

\* Commands that build, of which one may be ignored, and commands that remove.
Builder(parts) ==
    {c \in Gentle :
        /\ c.act \in {"append", "create", "make", "clear"} => c.thing \in parts
        /\ c.act \in Adding => c.thing # "chroot"
        /\ c.act = "clear" <=> c.soft
        /\ c.act = "clear" => c.thing = "chroot"
        /\ c.act \in {"append", "create", "make", "clear", "use"}}
Remover == {c \in Gentle : c.soft /\ c.act \in Taking /\ c.thing \in Own}
Saver == {c \in Gentle : ~c.soft /\ c.act \in {"mark", "save"} /\ c.thing = "config-dir"}

\* The things of a spawn with and without lockdown.
Parts(l) == IF l THEN Own ELSE Own \ ToSet(LockdownRules)

\* The sets of things, spelled out.
LEMMA RuleSets ==
    /\ ToSet(NatRules) = {"dnat", "masquerade-in", "masquerade-out"}
    /\ ToSet(IsolationRules) =
          {"host-return", "block-host", "return", "gateway-in", "block-10", "block-172",
           "block-192", "block-link-local", "connlimit", "outbound"}
    /\ ToSet(LockdownRules) = {"agent-root", "health-root", "agent-drop", "health-drop"}
    /\ ToSet(Chains) = {"input-chain", "forward-chain", "output-chain"}
    /\ ToSet(Jumps) = {"input-jump", "forward-jump", "output-jump"}
BY DEF ToSet, NatRules, IsolationRules, LockdownRules, Chains, Jumps

\* The things of a tenant, and of the host.
LEMMA ThingSets ==
    /\ Own = TenantThings \ {"images", "config-dir"}
    /\ TapParts \subseteq Own /\ Routes \subseteq Own
    /\ \A x \in Own : x \notin Global
    /\ \A x \in Own : Home[x] \in 1 .. 8
BY RuleSets DEF Own, Rules, Routes, TenantThings, Global, TapParts, TapRules, Home

LEMMA HomeSets ==
    /\ MadeIn(1) = {"overlay"} /\ MadeIn(2) = {"tap"}
    /\ MadeIn(3) = ToSet(NatRules) /\ MadeIn(4) = ToSet(IsolationRules)
    /\ MadeIn(5) = ToSet(LockdownRules) /\ MadeIn(6) = {"vm", "chroot"}
    /\ MadeIn(7) = {"keys"} /\ MadeIn(8) = Routes /\ MadeIn(9) = {}
BY RuleSets DEF MadeIn, Home, Own, Rules, Routes

----
(* Sequences of commands. *)

LEMMA AboutConcat ==
    ASSUME NEW S, NEW s \in Seq(S), NEW t \in Seq(S), NEW acts
    PROVE  \A x : x \in About(s \o t, acts) <=> x \in About(s, acts) \/ x \in About(t, acts)
<1>1. /\ DOMAIN s = 1 .. Len(s) /\ DOMAIN t = 1 .. Len(t) /\ Len(s) \in Nat /\ Len(t) \in Nat
      /\ DOMAIN (s \o t) = 1 .. (Len(s) + Len(t))
      /\ \A i \in 1 .. Len(s) : (s \o t)[i] = s[i]
      /\ \A i \in 1 .. Len(t) : (s \o t)[Len(s) + i] = t[i]
  OBVIOUS
<1>2. ASSUME NEW x \in About(s \o t, acts) PROVE x \in About(s, acts) \cup About(t, acts)
  <2>1. PICK i \in DOMAIN (s \o t) : (s \o t)[i].act \in acts /\ x = (s \o t)[i].thing
    BY <1>2 DEF About
  <2>2. CASE i \in 1 .. Len(s)
    BY <1>1, <2>1, <2>2 DEF About
  <2>3. CASE i \notin 1 .. Len(s)
    <3>1. i - Len(s) \in 1 .. Len(t) /\ (s \o t)[i] = t[i - Len(s)]
      BY <1>1, <2>1, <2>3
    <3> QED BY <1>1, <2>1, <3>1 DEF About
  <2> QED BY <2>2, <2>3
<1>3. ASSUME NEW x \in About(s, acts) PROVE x \in About(s \o t, acts)
  <2>1. PICK i \in DOMAIN s : s[i].act \in acts /\ x = s[i].thing
    BY <1>3 DEF About
  <2>2. i \in DOMAIN (s \o t) /\ (s \o t)[i] = s[i]
    BY <1>1, <2>1
  <2> QED BY <2>1, <2>2 DEF About
<1>4. ASSUME NEW x \in About(t, acts) PROVE x \in About(s \o t, acts)
  <2>1. PICK i \in DOMAIN t : t[i].act \in acts /\ x = t[i].thing
    BY <1>4 DEF About
  <2>2. Len(s) + i \in DOMAIN (s \o t) /\ (s \o t)[Len(s) + i] = t[i]
    BY <1>1, <2>1
  <2> QED BY <2>1, <2>2 DEF About
<1> QED BY <1>2, <1>3, <1>4

LEMMA FreshConcat ==
    ASSUME NEW S, NEW s \in Seq(S), NEW t \in Seq(S), Fresh(s), Fresh(t),
           About(s, Changing) \cap About(t, {"append"}) = {}
    PROVE  Fresh(s \o t)
<1>1. /\ DOMAIN s = 1 .. Len(s) /\ DOMAIN t = 1 .. Len(t) /\ Len(s) \in Nat /\ Len(t) \in Nat
      /\ DOMAIN (s \o t) = 1 .. (Len(s) + Len(t))
      /\ \A i \in 1 .. Len(s) : (s \o t)[i] = s[i]
      /\ \A i \in 1 .. Len(t) : (s \o t)[Len(s) + i] = t[i]
  OBVIOUS
<1> SUFFICES ASSUME NEW m \in DOMAIN (s \o t), NEW n \in DOMAIN (s \o t), m < n,
                    (s \o t)[n].act = "append", (s \o t)[m].act \in Changing
             PROVE  (s \o t)[m].thing # (s \o t)[n].thing
  BY DEF Fresh
<1>2. CASE n \in 1 .. Len(s)
  <2>1. m \in 1 .. Len(s)
    BY <1>1, <1>2
  <2> QED BY <1>1, <1>2, <2>1 DEF Fresh
<1>3. CASE m \notin 1 .. Len(s)
  <2>1. /\ m - Len(s) \in DOMAIN t /\ (s \o t)[m] = t[m - Len(s)]
        /\ n - Len(s) \in DOMAIN t /\ (s \o t)[n] = t[n - Len(s)]
        /\ m - Len(s) < n - Len(s)
    BY <1>1, <1>3
  <2> QED BY <2>1 DEF Fresh
<1>4. CASE m \in 1 .. Len(s) /\ n \notin 1 .. Len(s)
  <2>1. /\ m \in DOMAIN s /\ (s \o t)[m] = s[m]
        /\ n - Len(s) \in DOMAIN t /\ (s \o t)[n] = t[n - Len(s)]
    BY <1>1, <1>4
  <2>2. s[m].thing \in About(s, Changing) /\ t[n - Len(s)].thing \in About(t, {"append"})
    BY <2>1 DEF About
  <2> QED BY <2>1, <2>2
<1> QED BY <1>2, <1>3, <1>4

\* A command for each of a list of rules.
LEMMA EachRule ==
    ASSUME NEW S, NEW s \in Seq(S), NEW acts
    PROVE  /\ About(Each(Hard, "append", s), acts) = IF "append" \in acts THEN ToSet(s) ELSE {}
           /\ About(Each(Soft, "drop", s), acts) = IF "drop" \in acts THEN ToSet(s) ELSE {}
           /\ (\A m, n \in DOMAIN s : m # n => s[m] # s[n]) => Fresh(Each(Hard, "append", s))
<1> DEFINE h == [i \in DOMAIN s |-> Hard("append", s[i])]
           d == [i \in DOMAIN s |-> Soft("drop", s[i])]
<1>1. DOMAIN h = DOMAIN s /\ \A i \in DOMAIN s : h[i].act = "append" /\ h[i].thing = s[i]
  BY DEF Hard
<1>2. DOMAIN d = DOMAIN s /\ \A i \in DOMAIN s : d[i].act = "drop" /\ d[i].thing = s[i]
  BY DEF Soft
<1> HIDE DEF h, d
<1>3. About(h, acts) = IF "append" \in acts THEN ToSet(s) ELSE {}
  <2>2. ASSUME NEW x \in About(h, acts) PROVE "append" \in acts /\ x \in ToSet(s)
    BY <1>1, <2>2 DEF About, ToSet
  <2>3. ASSUME NEW x \in ToSet(s), "append" \in acts PROVE x \in About(h, acts)
    <3>1. PICK i \in DOMAIN s : x = s[i]
      BY <2>3 DEF ToSet
    <3> QED BY <1>1, <2>3, <3>1 DEF About
  <2> QED BY <2>2, <2>3
<1>4. About(d, acts) = IF "drop" \in acts THEN ToSet(s) ELSE {}
  <2>2. ASSUME NEW x \in About(d, acts) PROVE "drop" \in acts /\ x \in ToSet(s)
    BY <1>2, <2>2 DEF About, ToSet
  <2>3. ASSUME NEW x \in ToSet(s), "drop" \in acts PROVE x \in About(d, acts)
    <3>1. PICK i \in DOMAIN s : x = s[i]
      BY <2>3 DEF ToSet
    <3> QED BY <1>2, <2>3, <3>1 DEF About
  <2> QED BY <2>2, <2>3
<1>5. ASSUME \A m, n \in DOMAIN s : m # n => s[m] # s[n]
      PROVE  Fresh(h)
  <2>1. \A m, n \in DOMAIN s : m < n => m # n
    OBVIOUS
  <2> QED BY <1>1, <1>5, <2>1 DEF Fresh
<1> USE DEF h, d
<1>6. Each(Hard, "append", s) = h /\ Each(Soft, "drop", s) = d
  BY DEF Each
<1> HIDE DEF h, d
<1> QED BY <1>3, <1>4, <1>5, <1>6

----
(* A stage of a spawn makes its things, and nothing else; its undo removes *)
(* all of them.                                                            *)
StageFits(st, s, l) ==
    /\ s # 9 => st.do \in Seq(Builder(MadeIn(s) \cap Parts(l)))
    /\ s = 9 => st.do = <<Hard("save", "config-dir")>>
    /\ Fresh(st.do)
    /\ MadeIn(s) \cap Parts(l) \subseteq About(st.do, Changing)
    /\ MadeIn(s) \cap TapParts \subseteq About(st.do, Adding)
    /\ st.undo \in Seq(Remover)
    /\ MadeIn(s) \cap Parts(l) \subseteq About(st.undo, Taking)

LEMMA Fitting ==
    ASSUME NEW do, NEW undo, NEW s, NEW l, NEW parts,
           s # 9, MadeIn(s) \cap Parts(l) = parts, do \in Seq(Builder(parts)), Fresh(do),
           parts \subseteq About(do, Changing), MadeIn(s) \cap TapParts \subseteq About(do, Adding),
           undo \in Seq(Remover), parts \subseteq About(undo, Taking)
    PROVE  StageFits(Stage(do, undo), s, l)
<1>1. Stage(do, undo).do = do /\ Stage(do, undo).undo = undo
  BY DEF Stage
<1>2. do \in Seq(Builder(MadeIn(s) \cap Parts(l)))
  BY Zenon
<1> QED BY Zenon, <1>1, <1>2 DEF StageFits

\* The lists of rules name none twice.
LEMMA RulesOnce ==
    /\ NatRules \in Seq(Own) /\ IsolationRules \in Seq(Own) /\ LockdownRules \in Seq(Own)
    /\ \A m, n \in DOMAIN NatRules : m # n => NatRules[m] # NatRules[n]
    /\ \A m, n \in DOMAIN IsolationRules : m # n => IsolationRules[m] # IsolationRules[n]
    /\ \A m, n \in DOMAIN LockdownRules : m # n => LockdownRules[m] # LockdownRules[n]
<1>1. NatRules \in Seq(TenantThings \ {"images", "config-dir"})
  BY DEF NatRules, TenantThings
<1>2. IsolationRules \in Seq(TenantThings \ {"images", "config-dir"})
  BY DEF IsolationRules, TenantThings
<1>3. LockdownRules \in Seq(TenantThings \ {"images", "config-dir"})
  BY DEF LockdownRules, TenantThings
<1>4. \A m, n \in DOMAIN NatRules : m # n => NatRules[m] # NatRules[n]
  BY DEF NatRules
<1>5. \A m, n \in DOMAIN IsolationRules : m # n => IsolationRules[m] # IsolationRules[n]
  BY DEF IsolationRules
<1>6. \A m, n \in DOMAIN LockdownRules : m # n => LockdownRules[m] # LockdownRules[n]
  BY DEF LockdownRules
<1> QED BY <1>1, <1>2, <1>3, <1>4, <1>5, <1>6, ThingSets

\* Adding and removing a list of rules.
LEMMA RulesFit ==
    ASSUME NEW s \in Seq(Own), \A m, n \in DOMAIN s : m # n => s[m] # s[n],
           "chroot" \notin ToSet(s)
    PROVE  /\ Each(Hard, "append", s) \in Seq(Builder(ToSet(s)))
           /\ Each(Soft, "drop", s) \in Seq(Remover)
           /\ Fresh(Each(Hard, "append", s))
           /\ ToSet(s) = About(Each(Hard, "append", s), Changing)
           /\ ToSet(s) = About(Each(Hard, "append", s), Adding)
           /\ ToSet(s) = About(Each(Soft, "drop", s), Taking)
<1>1. DOMAIN s = 1 .. Len(s) /\ Len(s) \in Nat
      /\ \A i \in 1 .. Len(s) : s[i] \in TenantThings /\ s[i] \in Own /\ s[i] \in ToSet(s)
  BY ThingSets DEF ToSet
<1>2. \A x \in TenantThings \cap ToSet(s) : Hard("append", x) \in Builder(ToSet(s))
  BY DEF Hard, Gentle, Builder, Adding
<1>3. \A x \in TenantThings \cap Own : Soft("drop", x) \in Remover
  BY DEF Soft, Gentle, Remover, Taking
<1>4. Each(Hard, "append", s) \in [1 .. Len(s) -> Builder(ToSet(s))]
  BY <1>1, <1>2 DEF Each
<1>5. Each(Soft, "drop", s) \in [1 .. Len(s) -> Remover]
  BY <1>1, <1>3 DEF Each
<1>6. /\ Each(Hard, "append", s) \in Seq(Builder(ToSet(s)))
      /\ Each(Soft, "drop", s) \in Seq(Remover)
  BY <1>1, <1>4, <1>5
<1> QED BY <1>6, EachRule DEF Changing, Adding, Taking

\* Builders of some parts build more.
LEMMA MoreParts ==
    ASSUME NEW some, NEW parts, some \subseteq parts, NEW s \in Seq(Builder(some))
    PROVE  s \in Seq(Builder(parts))
<1>1. Builder(some) \subseteq Builder(parts)
  BY DEF Builder
<1> QED BY <1>1

\* What the commands of a sequence are about, one by one.
LEMMA AboutEach ==
    ASSUME NEW s, NEW acts
    PROVE  \A x : x \in About(s, acts) <=> \E i \in DOMAIN s : s[i].act \in acts /\ x = s[i].thing
BY DEF About

\* The short sequences.
LEMMA Pieces ==
    /\ CleanupChroot \in Seq(Builder({"vm", "chroot"})) /\ Fresh(CleanupChroot)
    /\ About(CleanupChroot, Changing) = {"chroot"}
    /\ StartJailer \in Seq(Builder({"vm", "chroot"})) /\ Fresh(StartJailer)
    /\ About(StartJailer, Changing) = {"vm", "chroot"} /\ About(StartJailer, {"append"}) = {"vm"}
    /\ LinkChrootFiles \in Seq(Builder({})) /\ Fresh(LinkChrootFiles)
    /\ About(LinkChrootFiles, Changing) = {}
    /\ BootVm \in Seq(Builder({})) /\ Fresh(BootVm)
    /\ About(BootVm, Changing) = {} /\ About(BootVm, {"append"}) = {}
    /\ Greet \in Seq(Builder({})) /\ Fresh(Greet)
    /\ About(Greet, Changing) = {} /\ About(Greet, {"append"}) = {}
    /\ GenerateKeypair \in Seq(Builder({"keys"})) /\ Fresh(GenerateKeypair)
    /\ About(GenerateKeypair, Changing) = {"keys"}
    /\ About(GenerateKeypair, {"append"}) = {}
    /\ AddRoute \in Seq(Builder(Routes)) /\ Fresh(AddRoute)
    /\ About(AddRoute, Changing) = Routes
<1> USE DEF Hard, Soft
<1>1. /\ CleanupChroot \in Seq(Builder({"vm", "chroot"}))
      /\ StartJailer \in Seq(Builder({"vm", "chroot"}))
      /\ LinkChrootFiles \in Seq(Builder({}))
      /\ BootVm \in Seq(Builder({})) /\ Greet \in Seq(Builder({}))
      /\ GenerateKeypair \in Seq(Builder({"keys"}))
      /\ AddRoute \in Seq(Builder(Routes))
  BY DEF CleanupChroot, StartJailer, LinkChrootFiles, BootVm, Greet, GenerateKeypair, AddRoute,
         Builder, Gentle, TenantThings, Adding, Routes
<1>2. /\ Fresh(CleanupChroot) /\ Fresh(StartJailer) /\ Fresh(LinkChrootFiles) /\ Fresh(BootVm)
      /\ Fresh(Greet) /\ Fresh(GenerateKeypair)
  BY DEF CleanupChroot, StartJailer, LinkChrootFiles, BootVm, Greet, GenerateKeypair, Fresh
<1>3. Fresh(AddRoute)
  BY DEF AddRoute, Fresh
<1>4. About(CleanupChroot, Changing) = {"chroot"}
  <2>1. /\ DOMAIN CleanupChroot = {1}
        /\ CleanupChroot[1].act = "clear" /\ CleanupChroot[1].thing = "chroot"
    BY DEF CleanupChroot
  <2> QED BY <2>1, AboutEach DEF Changing, Routes
<1>5. About(StartJailer, Changing) = {"vm", "chroot"} /\ About(StartJailer, {"append"}) = {"vm"}
  <2>1. /\ DOMAIN StartJailer = {1, 2}
        /\ StartJailer[1].act = "append" /\ StartJailer[1].thing = "vm"
        /\ StartJailer[2].act = "make" /\ StartJailer[2].thing = "chroot"
    BY DEF StartJailer
  <2> QED BY <2>1, AboutEach DEF Changing, Routes
<1>6. About(LinkChrootFiles, Changing) = {}
  <2>1. /\ DOMAIN LinkChrootFiles = {1, 2, 3}
        /\ LinkChrootFiles[1].act = "use" /\ LinkChrootFiles[1].thing = "images"
        /\ LinkChrootFiles[2].act = "use" /\ LinkChrootFiles[2].thing = "overlay"
        /\ LinkChrootFiles[3].act = "use" /\ LinkChrootFiles[3].thing = "chroot"
    BY DEF LinkChrootFiles
  <2> QED BY <2>1, AboutEach DEF Changing, Routes
<1>7. About(BootVm, Changing) = {} /\ About(BootVm, {"append"}) = {}
  <2>1. /\ DOMAIN BootVm = {1, 2}
        /\ BootVm[1].act = "use" /\ BootVm[1].thing = "vm"
        /\ BootVm[2].act = "use" /\ BootVm[2].thing = "tap"
    BY DEF BootVm
  <2> QED BY <2>1, AboutEach DEF Changing, Routes
<1>8. About(Greet, Changing) = {} /\ About(Greet, {"append"}) = {}
  <2>1. /\ DOMAIN Greet = {1}
        /\ Greet[1].act = "use" /\ Greet[1].thing = "vm"
    BY DEF Greet
  <2> QED BY <2>1, AboutEach DEF Changing, Routes
<1>9. About(GenerateKeypair, Changing) = {"keys"} /\ About(GenerateKeypair, {"append"}) = {}
  <2>1. /\ DOMAIN GenerateKeypair = {1, 2}
        /\ GenerateKeypair[1].act = "create" /\ GenerateKeypair[1].thing = "keys"
        /\ GenerateKeypair[2].act = "use" /\ GenerateKeypair[2].thing = "keys"
    BY DEF GenerateKeypair
  <2> QED BY <2>1, AboutEach DEF Changing, Routes
<1>10. About(AddRoute, Changing) = Routes
  <2>1. /\ DOMAIN AddRoute = {1, 2}
        /\ AddRoute[1].act = "append" /\ AddRoute[1].thing = "ws-route"
        /\ AddRoute[2].act = "append" /\ AddRoute[2].thing = "http-route"
    BY DEF AddRoute
  <2> QED BY <2>1, AboutEach DEF Changing, Routes
<1> QED BY <1>1, <1>2, <1>3, <1>4, <1>5, <1>6, <1>7, <1>8, <1>9, <1>10

LEMMA Creations ==
    /\ CreateOverlay \in Seq(Builder({"overlay"})) /\ Fresh(CreateOverlay)
    /\ About(CreateOverlay, Changing) = {"overlay"}
    /\ CreateTap \in Seq(Builder({"tap"})) /\ Fresh(CreateTap)
    /\ About(CreateTap, Changing) = {"tap"} /\ About(CreateTap, Adding) = {"tap"}
<1> USE DEF Hard
<1>1. /\ CreateOverlay \in Seq(Builder({"overlay"})) /\ Fresh(CreateOverlay)
      /\ CreateTap \in Seq(Builder({"tap"})) /\ Fresh(CreateTap)
  BY DEF CreateOverlay, CreateTap, Builder, Gentle, TenantThings, Adding, Fresh
<1>2. About(CreateOverlay, Changing) = {"overlay"}
  <2>1. /\ DOMAIN CreateOverlay = {1, 2}
        /\ CreateOverlay[1].act = "make" /\ CreateOverlay[1].thing = "overlay"
        /\ CreateOverlay[2].act = "use"
    BY DEF CreateOverlay
  <2> QED BY <2>1, AboutEach DEF Changing
<1>3. About(CreateTap, Changing) = {"tap"} /\ About(CreateTap, Adding) = {"tap"}
  <2>1. /\ DOMAIN CreateTap = {1, 2}
        /\ CreateTap[1].act = "create" /\ CreateTap[1].thing = "tap"
        /\ CreateTap[2].act = "use"
    BY DEF CreateTap
  <2> QED BY <2>1, AboutEach DEF Changing, Adding
<1> QED BY <1>1, <1>2, <1>3

\* What removes one thing, or two.
LEMMA Removals ==
    /\ \A x \in Own, a \in Taking :
          <<Soft(a, x)>> \in Seq(Remover) /\ About(<<Soft(a, x)>>, Taking) = {x}
    /\ DeleteOverlay \in Seq(Remover) /\ About(DeleteOverlay, Taking) = {"overlay"}
    /\ DeleteTap \in Seq(Remover) /\ About(DeleteTap, Taking) = {"tap"}
    /\ CleanupChroot \in Seq(Remover) /\ About(CleanupChroot, Taking) = {"chroot"}
    /\ <<Soft("drop", "vm")>> \in Seq(Remover) /\ About(<<Soft("drop", "vm")>>, Taking) = {"vm"}
    /\ StopJailer \in Seq(Remover) /\ About(StopJailer, Taking) = {"vm", "chroot"}
    /\ RemoveKeypair \in Seq(Remover) /\ About(RemoveKeypair, Taking) = {"keys"}
    /\ RemoveRoute \in Seq(Remover) /\ About(RemoveRoute, Taking) = Routes
<1>1. \A x \in Own, a \in Taking : Soft(a, x) \in Remover
  BY ThingSets DEF Remover, Soft, Gentle, Taking
<1>2. ASSUME NEW x \in Own, NEW a \in Taking
      PROVE  <<Soft(a, x)>> \in Seq(Remover) /\ About(<<Soft(a, x)>>, Taking) = {x}
  <2> DEFINE s == <<Soft(a, x)>>
  <2>1. DOMAIN s = {1} /\ s[1].act = a /\ s[1].thing = x
    BY DEF Soft
  <2>2. s \in Seq(Remover)
    BY <1>1
  <2> HIDE DEF s
  <2>3. About(s, Taking) = {x}
    BY <2>1, AboutEach
  <2> QED BY <2>2, <2>3 DEF s
<1>3. /\ "overlay" \in Own /\ "tap" \in Own /\ "chroot" \in Own /\ "vm" \in Own /\ "keys" \in Own
      /\ "ws-route" \in Own /\ "http-route" \in Own /\ "drop" \in Taking /\ "clear" \in Taking
  BY DEF Own, Routes, Taking
<1>4. /\ DeleteOverlay \in Seq(Remover) /\ About(DeleteOverlay, Taking) = {"overlay"}
      /\ DeleteTap \in Seq(Remover) /\ About(DeleteTap, Taking) = {"tap"}
      /\ CleanupChroot \in Seq(Remover) /\ About(CleanupChroot, Taking) = {"chroot"}
      /\ <<Soft("drop", "vm")>> \in Seq(Remover) /\ About(<<Soft("drop", "vm")>>, Taking) = {"vm"}
      /\ RemoveKeypair \in Seq(Remover) /\ About(RemoveKeypair, Taking) = {"keys"}
  BY <1>2, <1>3 DEF DeleteOverlay, DeleteTap, CleanupChroot, RemoveKeypair
<1>5. StopJailer \in Seq(Remover) /\ About(StopJailer, Taking) = {"vm", "chroot"}
  <2> DEFINE a == <<Soft("drop", "vm")>>
  <2>1. a \in Seq(Remover) /\ About(a, Taking) = {"vm"}
    BY <1>4
  <2> HIDE DEF a
  <2>2. /\ a \o CleanupChroot \in Seq(Remover)
        /\ About(a \o CleanupChroot, Taking) = About(a, Taking) \cup About(CleanupChroot, Taking)
    <3>1. CleanupChroot \in Seq(Remover)
      BY <1>4
    <3>2. a \o CleanupChroot \in Seq(Remover)
      BY <2>1, <3>1
    <3>3. \A x : x \in About(a \o CleanupChroot, Taking)
                    <=> x \in About(a, Taking) \/ x \in About(CleanupChroot, Taking)
      BY <2>1, <3>1, AboutConcat
    <3> QED BY <3>2, <3>3
  <2>3. StopJailer = a \o CleanupChroot
    BY DEF StopJailer, a
  <2> QED BY <1>4, <2>1, <2>2, <2>3
<1>6. RemoveRoute \in Seq(Remover)
  BY <1>1, <1>3 DEF RemoveRoute
<1>7. About(RemoveRoute, Taking) = Routes
  <2>1. /\ DOMAIN RemoveRoute = {1, 2}
        /\ RemoveRoute[1].act = "drop" /\ RemoveRoute[1].thing = "ws-route"
        /\ RemoveRoute[2].act = "drop" /\ RemoveRoute[2].thing = "http-route"
    BY DEF RemoveRoute, Soft
  <2> QED BY <2>1, AboutEach DEF Taking, Routes
<1> QED BY <1>2, <1>4, <1>5, <1>6, <1>7

\* The stages that add rules.
LEMMA RuleStagesFit ==
    ASSUME NEW l \in BOOLEAN
    PROVE  /\ StageFits(Stage(AddNat, RemoveNat), 3, l)
           /\ StageFits(Stage(AddIsolationRules, RemoveIsolationRules), 4, l)
           /\ StageFits(IF l THEN Stage(AddAgentLockdownRules, RemoveAgentLockdownRules)
                             ELSE Stage(<<>>, <<>>), 5, l)
<1>1. /\ MadeIn(3) \cap Parts(l) = ToSet(NatRules) /\ MadeIn(4) \cap Parts(l) = ToSet(IsolationRules)
      /\ MadeIn(5) \cap Parts(l) = (IF l THEN ToSet(LockdownRules) ELSE {})
      /\ MadeIn(5) \cap TapParts = {}
  BY HomeSets, RuleSets DEF Parts, Own, Rules, TapParts, TapRules
<1>2. "chroot" \notin ToSet(NatRules) \cup ToSet(IsolationRules) \cup ToSet(LockdownRules)
  BY RuleSets
<1>3. ASSUME NEW s \in Seq(Own), \A m, n \in DOMAIN s : m # n => s[m] # s[n],
             "chroot" \notin ToSet(s), NEW k \in {3, 4, 5}, MadeIn(k) \cap Parts(l) = ToSet(s),
             MadeIn(k) \cap TapParts \subseteq ToSet(s)
      PROVE  StageFits(Stage(Each(Hard, "append", s), Each(Soft, "drop", s)), k, l)
  <2> DEFINE a == Each(Hard, "append", s)
             d == Each(Soft, "drop", s)
  <2>1. /\ a \in Seq(Builder(ToSet(s))) /\ d \in Seq(Remover) /\ Fresh(a)
        /\ ToSet(s) = About(a, Changing) /\ ToSet(s) = About(a, Adding)
        /\ ToSet(s) = About(d, Taking)
    BY Zenon, <1>3, RulesFit
  <2>2. k # 9
    OBVIOUS
  <2> HIDE DEF a, d
  <2>3. StageFits(Stage(a, d), k, l)
    BY <1>3, <2>1, <2>2, Fitting
  <2> QED BY <2>3 DEF a, d
<1>4. StageFits(Stage(AddNat, RemoveNat), 3, l)
  BY <1>1, <1>2, <1>3, RulesOnce, HomeSets DEF AddNat, RemoveNat
<1>5. StageFits(Stage(AddIsolationRules, RemoveIsolationRules), 4, l)
  BY <1>1, <1>2, <1>3, RulesOnce, HomeSets DEF AddIsolationRules, RemoveIsolationRules
<1>6. CASE l
  <2>1. StageFits(Stage(AddAgentLockdownRules, RemoveAgentLockdownRules), 5, l)
    BY <1>1, <1>2, <1>3, <1>6, RulesOnce DEF AddAgentLockdownRules, RemoveAgentLockdownRules
  <2> QED BY <1>4, <1>5, <1>6, <2>1
<1>7. CASE ~l
  <2>1. Fresh(<<>>)
    BY DEF Fresh
  <2>2. StageFits(Stage(<<>>, <<>>), 5, l)
    <3>1. <<>> \in Seq(Builder({})) /\ <<>> \in Seq(Remover) /\ 5 # 9
      OBVIOUS
    <3>2. MadeIn(5) \cap Parts(l) = {}
      BY <1>1, <1>7
    <3> QED BY Zenon, <1>1, <2>1, <3>1, <3>2, Fitting
  <2> QED BY <1>4, <1>5, <1>7, <2>2
<1> QED BY <1>6, <1>7

\* The others.
LEMMA ThingStagesFit ==
    ASSUME NEW l \in BOOLEAN
    PROVE  /\ StageFits(Stage(CreateOverlay, DeleteOverlay), 1, l)
           /\ StageFits(Stage(CreateTap, DeleteTap), 2, l)
           /\ StageFits(Stage(CleanupChroot \o StartJailer, StopJailer), 6, l)
           /\ StageFits(Stage(LinkChrootFiles \o BootVm \o Greet \o GenerateKeypair,
                              RemoveKeypair), 7, l)
           /\ StageFits(Stage(Greet \o AddRoute, RemoveRoute), 8, l)
           /\ StageFits(Stage(<<Hard("save", "config-dir")>>, <<>>), 9, l)
<1>1. MadeIn(1) \cap Parts(l) = {"overlay"} /\ MadeIn(1) \cap TapParts = {}
  BY HomeSets, RuleSets DEF Parts, Own, TapParts, TapRules
<1>2. MadeIn(2) \cap Parts(l) = {"tap"} /\ MadeIn(2) \cap TapParts = {"tap"}
  BY HomeSets, RuleSets DEF Parts, Own, TapParts, TapRules
<1>3. MadeIn(6) \cap Parts(l) = {"vm", "chroot"} /\ MadeIn(6) \cap TapParts = {}
  BY HomeSets, RuleSets DEF Parts, Own, TapParts, TapRules
<1>4. MadeIn(7) \cap Parts(l) = {"keys"} /\ MadeIn(7) \cap TapParts = {}
  BY HomeSets, RuleSets DEF Parts, Own, TapParts, TapRules
<1>5. MadeIn(8) \cap Parts(l) = Routes /\ MadeIn(8) \cap TapParts = {} /\ MadeIn(9) = {}
  BY HomeSets, RuleSets DEF Parts, Own, Rules, Routes, TapParts, TapRules
<1>0. 1 # 9 /\ 2 # 9 /\ 6 # 9 /\ 7 # 9 /\ 8 # 9
  OBVIOUS
<1>6. StageFits(Stage(CreateOverlay, DeleteOverlay), 1, l)
  BY Zenon, <1>0, <1>1, Creations, Removals, Fitting
<1>7. StageFits(Stage(CreateTap, DeleteTap), 2, l)
  BY Zenon, <1>0, <1>2, Creations, Removals, Fitting
<1>8. StageFits(Stage(CleanupChroot \o StartJailer, StopJailer), 6, l)
  <2> DEFINE do == CleanupChroot \o StartJailer
  <2>1. /\ do \in Seq(Builder({"vm", "chroot"})) /\ Fresh(do)
        /\ {"vm", "chroot"} \subseteq About(do, Changing)
    BY Pieces, FreshConcat, AboutConcat
  <2> HIDE DEF do
  <2>2. StageFits(Stage(do, StopJailer), 6, l)
    BY Zenon, <1>0, <1>3, <2>1, Removals, Fitting
  <2> QED BY <2>2 DEF do
<1>9. StageFits(Stage(LinkChrootFiles \o BootVm \o Greet \o GenerateKeypair, RemoveKeypair), 7, l)
  <2> DEFINE some == LinkChrootFiles \o BootVm
             more == some \o Greet
             do == more \o GenerateKeypair
             S == Builder({"keys"})
  <2>1. /\ LinkChrootFiles \in Seq(S) /\ BootVm \in Seq(S) /\ Greet \in Seq(S)
        /\ GenerateKeypair \in Seq(S)
    BY Pieces, MoreParts
  <2> HIDE DEF S
  <2>2. some \in Seq(S) /\ Fresh(some) /\ About(some, Changing) = {}
    BY <2>1, Pieces, FreshConcat, AboutConcat
  <2> HIDE DEF some
  <2>3. more \in Seq(S) /\ Fresh(more) /\ About(more, Changing) = {}
    <3>1. About(some \o Greet, Changing) = About(some, Changing) \cup About(Greet, Changing)
      BY <2>1, <2>2, AboutConcat
    <3> QED BY <2>1, <2>2, <3>1, Pieces, FreshConcat
  <2> HIDE DEF more
  <2>4. do \in Seq(S) /\ Fresh(do) /\ About(do, Changing) = {"keys"}
    <3>1. About(more \o GenerateKeypair, Changing) =
              About(more, Changing) \cup About(GenerateKeypair, Changing)
      BY <2>1, <2>3, AboutConcat
    <3> QED BY <2>1, <2>3, <3>1, Pieces, FreshConcat
  <2> HIDE DEF do
  <2>5. StageFits(Stage(do, RemoveKeypair), 7, l)
    BY Zenon, <1>0, <1>4, <2>4, Removals, Fitting DEF S
  <2> QED BY <2>5 DEF do, more, some
<1>10. StageFits(Stage(Greet \o AddRoute, RemoveRoute), 8, l)
  <2> DEFINE do == Greet \o AddRoute
  <2>1. Greet \in Seq(Builder(Routes))
    BY Pieces, MoreParts
  <2>2. do \in Seq(Builder(Routes)) /\ Fresh(do) /\ About(do, Changing) = Routes
    <3>1. About(Greet \o AddRoute, Changing) = About(Greet, Changing) \cup About(AddRoute, Changing)
      BY <2>1, Pieces, AboutConcat
    <3> QED BY <2>1, <3>1, Pieces, FreshConcat
  <2> HIDE DEF do
  <2>3. StageFits(Stage(do, RemoveRoute), 8, l)
    BY Zenon, <1>0, <1>5, <2>2, Removals, Fitting
  <2> QED BY <2>3 DEF do
<1>11. StageFits(Stage(<<Hard("save", "config-dir")>>, <<>>), 9, l)
  <2>1. Fresh(<<Hard("save", "config-dir")>>)
    BY DEF Fresh, Hard
  <2> QED BY <1>5, <2>1 DEF StageFits, Stage
<1> QED BY <1>6, <1>7, <1>8, <1>9, <1>10, <1>11

\* A spawn has nine stages, and all fit.
LEMMA SpawnFits ==
    ASSUME NEW l \in BOOLEAN
    PROVE  /\ Len(Programs["spawn"][l]) = 9
           /\ \A s \in 1 .. 9 : StageFits(Programs["spawn"][l][s], s, l)
<1>1. Programs["spawn"][l] = SpawnStages(l)
  BY DEF Programs, AllKinds, Stages
<1>2. \A s \in 1 .. 9 : s \in {1, 2, 3, 4, 5, 6, 7, 8, 9}
  OBVIOUS
<1> QED BY <1>1, <1>2, RuleStagesFit, ThingStagesFit DEF SpawnStages

\* An evict saves twice, and removes everything in between.
LEMMA EvictFits ==
    ASSUME NEW l \in BOOLEAN
    PROVE  LET e == Programs["evict"][l][1].do
           IN  /\ Len(Programs["evict"][l]) = 1
               /\ e \in Seq(Remover \cup Saver)
               /\ Parts(l) \subseteq About(e, Taking)
               /\ Len(e) > 0 /\ e[Len(e)] = Hard("save", "config-dir")
<1> DEFINE S == Remover \cup Saver
           mark == <<Hard("mark", "config-dir")>>
           save == <<Hard("save", "config-dir")>>
           vm == <<Soft("drop", "vm")>>
           some == IF l THEN RemoveAgentLockdownRules ELSE <<>>
           e2 == mark \o RemoveRoute
           e3 == e2 \o vm
           e4 == e3 \o RemoveIsolationRules
           e5 == e4 \o some
           e6 == e5 \o RemoveNat
           e7 == e6 \o DeleteTap
           e8 == e7 \o CleanupChroot
           e9 == e8 \o DeleteOverlay
           e10 == e9 \o RemoveKeypair
           e == e10 \o save
           all == Once(e)
<1>1. Hard("mark", "config-dir") \in S /\ Hard("save", "config-dir") \in S
  BY DEF Hard, Saver, Gentle, TenantThings
<1>2. mark \in Seq(S) /\ save \in Seq(S)
  BY <1>1
<1>3. Programs["evict"][l] = all
  <2>1. Programs["evict"][l] = EvictStages(l)
    BY DEF Programs, AllKinds, Stages
  <2> QED BY Zenon, <2>1 DEF EvictStages
<1>4. \A s : Len(Once(s)) = 1 /\ Once(s)[1].do = s
  BY DEF Once, Stage
<1>5. ASSUME NEW s \in Seq(S), NEW t \in Seq(Remover)
      PROVE  /\ s \o t \in Seq(S)
             /\ \A x : x \in About(s \o t, Taking) <=> x \in About(s, Taking) \/ x \in About(t, Taking)
  <2>1. t \in Seq(S)
    OBVIOUS
  <2> HIDE DEF S
  <2> QED BY <2>1, AboutConcat
<1>6. /\ RemoveNat \in Seq(Remover) /\ About(RemoveNat, Taking) = ToSet(NatRules)
      /\ RemoveIsolationRules \in Seq(Remover)
      /\ About(RemoveIsolationRules, Taking) = ToSet(IsolationRules)
      /\ RemoveAgentLockdownRules \in Seq(Remover)
      /\ About(RemoveAgentLockdownRules, Taking) = ToSet(LockdownRules)
  <2>1. "chroot" \notin ToSet(NatRules) \cup ToSet(IsolationRules) \cup ToSet(LockdownRules)
    BY RuleSets
  <2>2. RemoveNat \in Seq(Remover) /\ About(RemoveNat, Taking) = ToSet(NatRules)
    BY Zenon, <2>1, RulesOnce, RulesFit DEF RemoveNat
  <2>3. /\ RemoveIsolationRules \in Seq(Remover)
        /\ About(RemoveIsolationRules, Taking) = ToSet(IsolationRules)
    BY Zenon, <2>1, RulesOnce, RulesFit DEF RemoveIsolationRules
  <2>4. /\ RemoveAgentLockdownRules \in Seq(Remover)
        /\ About(RemoveAgentLockdownRules, Taking) = ToSet(LockdownRules)
    BY Zenon, <2>1, RulesOnce, RulesFit DEF RemoveAgentLockdownRules
  <2> QED BY <2>2, <2>3, <2>4
<1>7. some \in Seq(Remover) /\ (l => ToSet(LockdownRules) = About(some, Taking))
  <2>1. CASE l
    BY <1>6, <2>1
  <2>2. CASE ~l
    BY <2>2
  <2> QED BY <2>1, <2>2
<1>8. vm \in Seq(Remover) /\ About(vm, Taking) = {"vm"}
  BY Removals
<1> HIDE DEF S, mark, save, vm, some
<1>12. e2 \in Seq(S) /\ Routes \subseteq About(e2, Taking)
  BY <1>2, <1>5, Removals
<1> HIDE DEF e2
<1>13. e3 \in Seq(S) /\ Routes \cup {"vm"} \subseteq About(e3, Taking)
  BY <1>5, <1>8, <1>12
<1> HIDE DEF e3
<1>14. e4 \in Seq(S) /\ Routes \cup {"vm"} \cup ToSet(IsolationRules) \subseteq About(e4, Taking)
  BY <1>5, <1>6, <1>13
<1> HIDE DEF e4
<1>15. /\ e5 \in Seq(S) /\ Routes \cup {"vm"} \cup ToSet(IsolationRules) \subseteq About(e5, Taking)
       /\ l => ToSet(LockdownRules) \subseteq About(e5, Taking)
  BY <1>5, <1>7, <1>14
<1> HIDE DEF e5
<1> DEFINE seen6 == Routes \cup {"vm"} \cup ToSet(IsolationRules) \cup ToSet(NatRules)
                        \cup (IF l THEN ToSet(LockdownRules) ELSE {})
<1>16. e6 \in Seq(S) /\ seen6 \subseteq About(e6, Taking)
  BY <1>5, <1>6, <1>15
<1> HIDE DEF e6, seen6
<1>17. e7 \in Seq(S) /\ seen6 \cup {"tap"} \subseteq About(e7, Taking)
  BY <1>5, <1>16, Removals
<1> HIDE DEF e7
<1>18. e8 \in Seq(S) /\ seen6 \cup {"tap", "chroot"} \subseteq About(e8, Taking)
  BY <1>5, <1>17, Removals
<1> HIDE DEF e8
<1>19. e9 \in Seq(S) /\ seen6 \cup {"tap", "chroot", "overlay"} \subseteq About(e9, Taking)
  BY <1>5, <1>18, Removals
<1> HIDE DEF e9
<1>20. e10 \in Seq(S) /\ seen6 \cup {"tap", "chroot", "overlay", "keys"} \subseteq About(e10, Taking)
  BY <1>5, <1>19, Removals
<1> HIDE DEF e10
<1>21. Len(save) = 1 /\ save[1] = Hard("save", "config-dir")
  BY DEF save
<1>22. /\ e \in Seq(S) /\ Len(e) = Len(e10) + 1 /\ e[Len(e)] = Hard("save", "config-dir")
       /\ Len(e10) \in Nat
  <2>1. ASSUME NEW t \in Seq(S), NEW u \in Seq(S), Len(u) = 1
        PROVE  /\ t \o u \in Seq(S) /\ Len(t \o u) = Len(t) + 1 /\ Len(t) \in Nat
               /\ (t \o u)[Len(t) + 1] = u[1]
    <3>1. t \o u \in Seq(S) /\ Len(t \o u) = Len(t) + Len(u) /\ Len(t) \in Nat
      OBVIOUS
    <3>2. \A i \in 1 .. Len(u) : (t \o u)[Len(t) + i] = u[i]
      OBVIOUS
    <3>3. 1 \in 1 .. Len(u)
      BY <2>1
    <3> QED BY <2>1, <3>1, <3>2, <3>3
  <2>2. /\ e \in Seq(S) /\ Len(e) = Len(e10) + 1 /\ e[Len(e10) + 1] = save[1] /\ Len(e10) \in Nat
    BY <1>2, <1>20, <1>21, <2>1
  <2> QED BY Zenon, <1>21, <2>2
<1>23. seen6 \cup {"tap", "chroot", "overlay", "keys"} \subseteq About(e, Taking)
  BY <1>2, <1>20, AboutConcat
<1> HIDE DEF e
<1>24. Parts(l) \subseteq About(e, Taking)
  BY <1>23 DEF seen6, Parts, Own, Rules
<1>25. Len(e) > 0
  BY <1>22
<1>26. /\ Len(Programs["evict"][l]) = 1 /\ Programs["evict"][l][1].do = e
  BY Zenon, <1>3, <1>4
<1> QED BY Zenon, <1>22, <1>24, <1>25, <1>26 DEF S

\* A repair of the device makes it and all its rules.
LEMMA RepairTapFits ==
    ASSUME NEW l \in BOOLEAN
    PROVE  LET r == Programs["repairTap"][l][1].do
           IN  /\ Len(Programs["repairTap"][l]) = 1
               /\ r \in Seq(Builder(TapParts)) /\ Fresh(r)
               /\ TapParts \subseteq About(r, Adding)
<1> DEFINE S == Builder(TapParts)
           some == CreateTap \o AddNat
           r == some \o AddIsolationRules
<1>1. "chroot" \notin ToSet(NatRules) \cup ToSet(IsolationRules) \cup ToSet(LockdownRules)
  BY RuleSets
<1>2. /\ AddNat \in Seq(Builder(ToSet(NatRules))) /\ Fresh(AddNat)
      /\ ToSet(NatRules) = About(AddNat, Changing) /\ ToSet(NatRules) = About(AddNat, Adding)
      /\ About(AddNat, {"append"}) = ToSet(NatRules)
  <2>1. /\ AddNat \in Seq(Builder(ToSet(NatRules))) /\ Fresh(AddNat)
        /\ ToSet(NatRules) = About(AddNat, Changing) /\ ToSet(NatRules) = About(AddNat, Adding)
    BY Zenon, <1>1, RulesOnce, RulesFit DEF AddNat
  <2>2. "append" \in {"append"}
    OBVIOUS
  <2>3. About(AddNat, {"append"}) = ToSet(NatRules)
    BY Zenon, <2>2, RulesOnce, EachRule DEF AddNat
  <2> QED BY <2>1, <2>3
<1>3. /\ AddIsolationRules \in Seq(Builder(ToSet(IsolationRules))) /\ Fresh(AddIsolationRules)
      /\ ToSet(IsolationRules) = About(AddIsolationRules, Changing)
      /\ ToSet(IsolationRules) = About(AddIsolationRules, Adding)
      /\ About(AddIsolationRules, {"append"}) = ToSet(IsolationRules)
  <2>1. /\ AddIsolationRules \in Seq(Builder(ToSet(IsolationRules))) /\ Fresh(AddIsolationRules)
        /\ ToSet(IsolationRules) = About(AddIsolationRules, Changing)
        /\ ToSet(IsolationRules) = About(AddIsolationRules, Adding)
    BY Zenon, <1>1, RulesOnce, RulesFit DEF AddIsolationRules
  <2>2. "append" \in {"append"}
    OBVIOUS
  <2>3. About(AddIsolationRules, {"append"}) = ToSet(IsolationRules)
    BY Zenon, <2>2, RulesOnce, EachRule DEF AddIsolationRules
  <2> QED BY <2>1, <2>3
<1>4. CreateTap \in Seq(S) /\ AddNat \in Seq(S) /\ AddIsolationRules \in Seq(S)
  <2>1. {"tap"} \subseteq TapParts /\ ToSet(NatRules) \subseteq TapParts
        /\ ToSet(IsolationRules) \subseteq TapParts
    BY DEF TapParts, TapRules
  <2> QED BY <1>2, <1>3, <2>1, Creations, MoreParts
<1> HIDE DEF S
<1>5. /\ some \in Seq(S)
      /\ \A x : x \in About(some, Changing) <=> x \in {"tap"} \cup ToSet(NatRules)
      /\ \A x : x \in About(some, Adding) <=> x \in {"tap"} \cup ToSet(NatRules)
  <2>1. some \in Seq(S)
    BY <1>4
  <2>2. \A x : x \in About(some, Changing) <=> x \in About(CreateTap, Changing) \/ x \in About(AddNat, Changing)
    BY <1>4, AboutConcat
  <2>3. \A x : x \in About(some, Adding) <=> x \in About(CreateTap, Adding) \/ x \in About(AddNat, Adding)
    BY <1>4, AboutConcat
  <2> HIDE DEF some
  <2> QED BY <1>2, <2>1, <2>2, <2>3, Creations
<1>6. Fresh(some)
  <2>1. About(CreateTap, Changing) \cap About(AddNat, {"append"}) = {}
    BY <1>2, Creations, RuleSets
  <2> QED BY <1>2, <1>4, <2>1, Creations, FreshConcat
<1> HIDE DEF some
<1>7. /\ r \in Seq(S)
      /\ \A x : x \in About(r, Adding) <=> x \in TapParts
  <2>1. \A x : x \in About(r, Adding) <=> x \in About(some, Adding) \/ x \in About(AddIsolationRules, Adding)
    BY <1>4, <1>5, AboutConcat
  <2> QED BY <1>3, <1>4, <1>5, <2>1 DEF TapParts, TapRules
<1>8. Fresh(r)
  <2>1. About(some, Changing) \cap About(AddIsolationRules, {"append"}) = {}
    BY <1>3, <1>5, RuleSets
  <2> QED BY <1>3, <1>4, <1>5, <1>6, <2>1, FreshConcat
<1>9. Programs["repairTap"][l] = RepairTapStages
  BY DEF Programs, AllKinds, Stages
<1>10. \A s : Len(Once(s)) = 1 /\ Once(s)[1].do = s
  BY DEF Once, Stage
<1>11. RepairTapStages = Once(r)
  BY Zenon DEF RepairTapStages, some
<1> HIDE DEF r
<1>12. Len(Programs["repairTap"][l]) = 1 /\ Programs["repairTap"][l][1].do = r
  BY Zenon, <1>9, <1>10, <1>11
<1>13. TapParts \subseteq About(r, Adding)
  BY <1>7
<1> QED BY Zenon, <1>7, <1>8, <1>12, <1>13 DEF S

\* A repair of the routes removes both and adds both.
LEMMA RepairRoutesFit ==
    ASSUME NEW l \in BOOLEAN
    PROVE  LET r == Programs["repairCaddyRoute"][l][1].do
           IN  /\ Len(Programs["repairCaddyRoute"][l]) = 1
               /\ DOMAIN r = 1 .. 4
               /\ r[1] = Soft("drop", "ws-route") /\ r[2] = Soft("drop", "http-route")
               /\ r[3] = Hard("append", "ws-route") /\ r[4] = Hard("append", "http-route")
<1> DEFINE r == RemoveRoute \o AddRoute
<1>1. /\ RemoveRoute \in Seq(Command) /\ Len(RemoveRoute) = 2
      /\ RemoveRoute[1] = Soft("drop", "ws-route") /\ RemoveRoute[2] = Soft("drop", "http-route")
  BY DEF RemoveRoute, Soft, Command, Acts, Things, Own, Routes
<1>2. /\ AddRoute \in Seq(Command) /\ Len(AddRoute) = 2
      /\ AddRoute[1] = Hard("append", "ws-route") /\ AddRoute[2] = Hard("append", "http-route")
  BY DEF AddRoute, Hard, Command, Acts, Things, Own, Routes
<1>3. /\ \A i \in 1 .. Len(RemoveRoute) : r[i] = RemoveRoute[i]
      /\ \A i \in 1 .. Len(AddRoute) : r[Len(RemoveRoute) + i] = AddRoute[i]
      /\ DOMAIN r = 1 .. Len(RemoveRoute) + Len(AddRoute)
  <2>1. ASSUME NEW s \in Seq(Command), NEW t \in Seq(Command)
        PROVE  /\ \A i \in 1 .. Len(s) : (s \o t)[i] = s[i]
               /\ \A i \in 1 .. Len(t) : (s \o t)[Len(s) + i] = t[i]
               /\ DOMAIN (s \o t) = 1 .. Len(s) + Len(t)
    OBVIOUS
  <2> QED BY Zenon, <1>1, <1>2, <2>1
<1> HIDE DEF r
<1>4. DOMAIN r = 1 .. 4
  <2>1. Len(RemoveRoute) + Len(AddRoute) = 4
    BY <1>1, <1>2
  <2> QED BY <1>3, <2>1
<1>5. /\ r[1] = RemoveRoute[1] /\ r[2] = RemoveRoute[2]
      /\ r[3] = AddRoute[1] /\ r[4] = AddRoute[2]
  BY <1>1, <1>2, <1>3
<1>6. Programs["repairCaddyRoute"][l] = RepairCaddyRouteStages
  BY DEF Programs, AllKinds, Stages
<1>7. \A s : Len(Once(s)) = 1 /\ Once(s)[1].do = s
  BY DEF Once, Stage
<1>8. Len(Programs["repairCaddyRoute"][l]) = 1 /\ Programs["repairCaddyRoute"][l][1].do = r
  BY Zenon, <1>6, <1>7 DEF RepairCaddyRouteStages, r
<1> QED BY Zenon, <1>1, <1>2, <1>4, <1>5, <1>8

\* init and uninit are about what there is once on the host. Only the first empties the
\* server alone, only the second removes the configuration.
HostCommand(k) ==
    {c \in Command :
        /\ c.thing \in Global
        /\ c.act \in {"create", "make", "drop", "clear", "empty", "remove"}
        /\ k = "init" => c.act # "clear" /\ (c.act = "empty" => c.thing = "server")}

LEMMA InitUninitFit ==
    ASSUME NEW l \in BOOLEAN, NEW k \in {"init", "uninit"}
    PROVE  /\ Len(Programs[k][l]) = 1
           /\ Programs[k][l][1].do \in Seq(HostCommand(k))
<1>1. \A s : Len(Once(s)) = 1 /\ Once(s)[1].do = s
  BY DEF Once, Stage
<1>2. /\ \A x \in ToSet(Chains) \cup ToSet(Jumps) : x \in Global
      /\ "server" \in Global /\ "service" \in Global /\ "base-dir" \in Global
      /\ "config-dir" \in Global /\ "images" \in Global
  BY DEF Global
<1>3. /\ Chains \in Seq(ToSet(Chains)) /\ Jumps \in Seq(ToSet(Jumps))
  BY RuleSets DEF Chains, Jumps
<1>4. ASSUME NEW x \in Global
      PROVE  /\ Hard("make", x) \in HostCommand("init") /\ Soft("create", x) \in HostCommand("init")
             /\ Hard("empty", "server") \in HostCommand("init")
             /\ Soft("drop", x) \in HostCommand("uninit") /\ Soft("empty", x) \in HostCommand("uninit")
             /\ Soft("remove", x) \in HostCommand("uninit") /\ Soft("clear", x) \in HostCommand("uninit")
  BY <1>2 DEF Hard, Soft, HostCommand, Command, Acts, Things
<1>5. CASE k = "init"
  <2> DEFINE S == HostCommand("init")
  <2>1. InstallImages \in Seq(S) /\ EnsureDirs \in Seq(S) /\ EnableService \in Seq(S)
        /\ WriteCaddyBaseConfig \in Seq(S)
    BY <1>2, <1>4 DEF InstallImages, EnsureDirs, EnableService, WriteCaddyBaseConfig
  <2>2. EnsureChains \in Seq(S)
    <3>1. Each(Soft, "create", Chains) \in Seq(S)
      <4>1. Each(Soft, "create", Chains) \in [1 .. Len(Chains) -> S]
        BY <1>2, <1>3, <1>4 DEF Each
      <4> QED BY <1>3, <4>1
    <3>2. Each(Hard, "make", Jumps) \in Seq(S)
      <4>1. Each(Hard, "make", Jumps) \in [1 .. Len(Jumps) -> S]
        BY <1>2, <1>3, <1>4 DEF Each
      <4> QED BY <1>3, <4>1
    <3> QED BY <3>1, <3>2 DEF EnsureChains
  <2> HIDE DEF S
  <2>3. InstallImages \o EnsureDirs \o EnsureChains \o WriteCaddyBaseConfig \o EnableService \in Seq(S)
    BY <2>1, <2>2
  <2>4. Programs[k][l] = InitStages
    BY <1>5 DEF Programs, AllKinds, Stages
  <2> QED BY Zenon, <1>1, <1>5, <2>3, <2>4 DEF InitStages, S
<1>6. CASE k = "uninit"
  <2> DEFINE S == HostCommand("uninit")
             first == <<Soft("clear", "service")>>
             last == <<Soft("empty", "base-dir"), Soft("clear", "base-dir"), Soft("clear", "config-dir")>>
  <2>1. first \in Seq(S) /\ last \in Seq(S)
    BY <1>2, <1>4
  <2>2. FlushAndRemoveChains \in Seq(S)
    <3>1. Each(Soft, "drop", Jumps) \in Seq(S)
      <4>1. Each(Soft, "drop", Jumps) \in [1 .. Len(Jumps) -> S]
        BY <1>2, <1>3, <1>4 DEF Each
      <4> QED BY <1>3, <4>1
    <3>2. Each(Soft, "empty", Chains) \in Seq(S) /\ Each(Soft, "remove", Chains) \in Seq(S)
      <4>1. /\ Each(Soft, "empty", Chains) \in [1 .. Len(Chains) -> S]
            /\ Each(Soft, "remove", Chains) \in [1 .. Len(Chains) -> S]
        BY <1>2, <1>3, <1>4 DEF Each
      <4> QED BY <1>3, <4>1
    <3> QED BY <3>1, <3>2 DEF FlushAndRemoveChains
  <2> HIDE DEF S, first, last
  <2>3. first \o FlushAndRemoveChains \o last \in Seq(S)
    BY <2>1, <2>2
  <2>4. Programs[k][l] = UninitStages
    BY <1>6 DEF Programs, AllKinds, Stages
  <2> QED BY Zenon, <1>1, <1>6, <2>3, <2>4 DEF UninitStages, S, first, last
<1> QED BY <1>5, <1>6

----
(* The invariant.                                                          *)

\* A tenant has nothing of a thing, but what a failure left; or it has it.
Clean(x, t) == host[Key(x, t)] = 0 \/ Key(x, t) \in debris
Made(x, t) == host[Key(x, t)] >= 1

\* What is there twice, a failure left.
AtMostOnce == \A i \in Items : i[1] \in Own => host[i] <= 1 \/ i \in debris

\* What is there belongs to a registered tenant, to one under work, or a failure left it.
Claimed ==
    \A i \in Items :
        i[1] \in Own /\ host[i] > 0 =>
            \/ i \in debris
            \/ \E t \in registry.tenants : i \in ItemsOf(t)
            \/ \E o \in Ops : kind[o] \in {"spawn", "evict"} /\ i \in ItemsOf(who[o])

\* Without lockdown there are no rules of it: an operation that read its absence need not
\* remove them.
NoLockdown ==
    ~lockdown \/ (\E o \in Ops : kind[o] \in OneTenant /\ ~locked[o]) =>
        \A i \in Items : i[1] \in ToSet(LockdownRules) => host[i] = 0 \/ i \in debris

\* A tenant nobody works on has its device and all its rules, or neither.
Tended(t) ==
    \E o \in Ops : kind[o] \in {"spawn", "evict", "repairTap"} /\ who[o].name = t.name
TapStandsForRules(t) ==
    IF Has("tap", t) THEN t.name \in torn \/ \A r \in TapRules : Made(r, t)
                     ELSE \A r \in TapRules : Clean(r, t)
Untended == \A t \in registry.tenants : Tended(t) \/ TapStandsForRules(t)

\* What a sequence will append is not there yet, and what it has made is.
Adds(o) ==
    \A m \in DOMAIN Current(o) :
        LET c == Current(o)[m]
        IN  /\ c.act = "append" /\ m >= step[o] => Clean(c.thing, who[o])
            /\ c.act \in Adding /\ m < step[o] => Made(c.thing, who[o])
\* What a sequence has removed is gone.
Takes(o) ==
    \A m \in DOMAIN Current(o) :
        LET c == Current(o)[m]
        IN  c.act \in Taking /\ m < step[o] => Clean(c.thing, who[o])

\* A spawn has made nothing of later stages, or has undone them; it registers its tenant
\* with its last command.
SpawnProgress(o) ==
    /\ who[o] \in registry.tenants <=> (stage[o] = 9 /\ step[o] > 1 /\ ~undoing[o])
    /\ \A x \in Own : Home[x] > stage[o] => Clean(x, who[o])
    /\ IF undoing[o] THEN Takes(o)
       ELSE Adds(o) /\ \A x \in TapParts : Home[x] < stage[o] => Made(x, who[o])
EvictProgress(o) ==
    /\ Takes(o)
    /\ step[o] > Len(Current(o)) => \A t \in registry.tenants : t.name # who[o].name
RepairRoutesProgress(o) ==
    /\ step[o] \in {2, 3} => Clean("ws-route", who[o])
    /\ step[o] \in {3, 4} => Clean("http-route", who[o])

Progress(o) ==
    /\ kind[o] # "spawn" => stage[o] = 1 /\ ~undoing[o]
    /\ kind[o] = "none" => step[o] = 1
    /\ kind[o] \in OneTenant =>
          /\ locked[o] => lockdown
          /\ read[o].tenants \subseteq registry.tenants \cup {who[o]}
    /\ kind[o] = "uninit" => registry.tenants = {}
    /\ kind[o] = "spawn" => SpawnProgress(o)
    /\ kind[o] = "evict" => EvictProgress(o)
    /\ kind[o] \in {"repairTap", "repairCaddyRoute"} => who[o] \in registry.tenants
    /\ kind[o] = "repairTap" => Adds(o)
    /\ kind[o] = "repairCaddyRoute" => RepairRoutesProgress(o)

CleanInv ==
    /\ AtMostOnce /\ Claimed /\ NoLockdown /\ Untended
    /\ \A o \in Ops : Progress(o)

\* What was proved in Host_proofs of operations that run one at a time.
Base == OneAtATime /\ HostTypeOK /\ RegistryInv /\ WorkInv

----
(* Items. *)

LEMMA KeyFacts ==
    /\ \A x, t : Key(x, t)[1] = x
    /\ \A x, y, t, u : Key(x, t) = Key(y, u) => x = y
BY DEF Key

\* A tenant under work, or a registered one, has its items.
LEMMA WhoFits ==
    ASSUME Base, NEW o \in Ops, kind[o] \in OneTenant
    PROVE  /\ who[o] \in Tenant /\ who[o].name \in Names /\ who[o].index \in 1 .. MaxIndex
           /\ \A x \in Own : Key(x, who[o]) \in Items
           /\ ItemsOf(who[o]) = {Key(x, who[o]) : x \in Own}
<1>1. who[o] \in Tenant /\ Sound(read[o])
  BY DEF Base, RegistryInv
<1>2. who[o].name \in Names /\ who[o].index \in 1 .. MaxIndex
  <2>1. CASE kind[o] = "spawn"
    BY <1>1, <2>1, HostAssumption DEF Base, RegistryInv, Spawning, Sound
  <2>2. CASE who[o] \in read[o].tenants
    BY <1>1, <2>2, HostAssumption DEF Sound
  <2> QED BY <2>1, <2>2 DEF Base, WorkInv
<1>3. who[o] \in [name : Names, index : 1 .. MaxIndex]
  BY <1>1, <1>2 DEF Tenant
<1>4. \A x \in Own : Key(x, who[o]) \in Items
  BY <1>3 DEF Items
<1> QED BY <1>1, <1>2, <1>4 DEF ItemsOf

LEMMA RegisteredFits ==
    ASSUME RegistryInv, NEW t \in registry.tenants
    PROVE  /\ t \in Tenant /\ t.name \in Names /\ t.index \in 1 .. MaxIndex
           /\ \A x \in Own : Key(x, t) \in Items
           /\ ItemsOf(t) = {Key(x, t) : x \in Own}
<1>1. t \in Tenant /\ t.name \in Names /\ t.index \in 1 .. MaxIndex
  BY HostAssumption DEF RegistryInv, Sound, Registry
<1>2. t \in [name : Names, index : 1 .. MaxIndex]
  BY <1>1 DEF Tenant
<1>3. \A x \in Own : Key(x, t) \in Items
  BY <1>2 DEF Items
<1> QED BY <1>1, <1>3 DEF ItemsOf

\* What a command makes of the item it is about.
LEMMA AfterHere ==
    ASSUME HostTypeOK, NEW c, NEW t, Key(c.thing, t) \in Items
    PROVE  LET k == Key(c.thing, t)
           IN  /\ c.act = "append" => After(c, t)[k] = host[k] + 1
               /\ c.act = "drop" => After(c, t)[k] = host[k] - 1
               /\ c.act \in {"create", "make"} => After(c, t)[k] = 1
               /\ c.act = "clear" => After(c, t)[k] = 0
               /\ c.act \in {"use", "mark", "save"} => After(c, t)[k] = host[k]
<1>1. host \in [Items -> Nat]
  BY DEF HostTypeOK
<1>2. c.act = "append" => After(c, t)[Key(c.thing, t)] = host[Key(c.thing, t)] + 1
  BY <1>1 DEF After
<1>3. c.act = "drop" => After(c, t)[Key(c.thing, t)] = host[Key(c.thing, t)] - 1
  BY <1>1 DEF After
<1>4. c.act \in {"create", "make"} => After(c, t)[Key(c.thing, t)] = 1
  BY <1>1 DEF After
<1>5. c.act = "clear" => After(c, t)[Key(c.thing, t)] = 0
  BY <1>1 DEF After
<1>6. c.act \in {"use", "mark", "save"} => After(c, t)[Key(c.thing, t)] = host[Key(c.thing, t)]
  BY <1>1 DEF After
<1> QED BY <1>2, <1>3, <1>4, <1>5, <1>6

\* A command on one tenant, which may have had its effect or not, or more debris.
Works(o, c) ==
    /\ c \in Gentle
    /\ (Can(c, who[o]) /\ host' = After(c, who[o])) \/ host' = host
    /\ debris \subseteq debris'

\* It changes nothing but its item.
LEMMA WorksHere ==
    ASSUME Base, NEW o \in Ops, kind[o] \in OneTenant, NEW c, Works(o, c)
    PROVE  /\ \A i \in Items : i # Key(c.thing, who[o]) => host'[i] = host[i]
           /\ c.act \in {"use", "mark", "save"} => \A i \in Items : host'[i] = host[i]
<1>1. c.act \in {"append", "drop", "create", "make", "clear", "use", "mark", "save"}
  BY DEF Works, Gentle
<1>2. HostTypeOK
  BY DEF Base
<1>3. \A i \in Items : i # Key(c.thing, who[o]) => After(c, who[o])[i] = host[i]
  BY <1>1, <1>2, AfterOne
<1>4. c.act \in {"use", "mark", "save"} => After(c, who[o]) = host
  BY DEF After
<1> QED BY <1>3, <1>4 DEF Works

\* What is clean stays clean, but for an item that is made or added; what is made stays
\* made, but for one that is removed.
LEMMA WorksKeeps ==
    ASSUME Base, NEW o \in Ops, kind[o] \in OneTenant, NEW c, Works(o, c), NEW x \in Own, UNCHANGED who
    PROVE  /\ Clean(x, who[o]) /\ (x # c.thing \/ c.act \in Taking \cup {"use", "mark", "save"})
                => Clean(x, who[o])'
           /\ Made(x, who[o]) /\ (x # c.thing \/ c.act \notin Taking) => Made(x, who[o])'
<1> DEFINE k == Key(x, who[o])
<1>1. k \in Items /\ host \in [Items -> Nat] /\ HostTypeOK
  BY WhoFits DEF Base, HostTypeOK
<1>2. x # c.thing => host'[k] = host[k]
  BY <1>1, KeyFacts, WorksHere
<1>3. c.act \in {"use", "mark", "save"} => host'[k] = host[k]
  BY <1>1, WorksHere
<1>4. ASSUME x = c.thing, host' # host
      PROVE  /\ c.act = "append" => host'[k] = host[k] + 1
             /\ c.act = "drop" => host'[k] = host[k] - 1 /\ host[k] > 0
             /\ c.act \in {"create", "make"} => host'[k] = 1
             /\ c.act = "clear" => host'[k] = 0
  <2>1. host' = After(c, who[o]) /\ Can(c, who[o])
    BY <1>4 DEF Works
  <2> QED BY <1>1, <1>4, <2>1, AfterHere DEF Can, Has
<1>5. c.act \in {"append", "drop", "create", "make", "clear", "use", "mark", "save"}
  BY DEF Works, Gentle
<1>6. host[k] \in Nat /\ Key(x, who[o])' = k
  BY <1>1 DEF Key
<1>7. ASSUME Clean(x, who[o]), x # c.thing \/ c.act \in Taking \cup {"use", "mark", "save"}
      PROVE  Clean(x, who[o])'
  <2>1. k \in debris => k \in debris'
    BY DEF Works
  <2> QED BY <1>2, <1>3, <1>4, <1>6, <1>7, <2>1 DEF Clean, Taking
<1>8. ASSUME Made(x, who[o]), x # c.thing \/ c.act \notin Taking
      PROVE  Made(x, who[o])'
  BY <1>2, <1>3, <1>4, <1>5, <1>6, <1>8 DEF Made, Taking
<1> QED BY <1>7, <1>8

\* What was to be made is made, what was to be removed is gone.
LEMMA WorksDone ==
    ASSUME Base, AtMostOnce, NEW o \in Ops, kind[o] \in OneTenant, NEW c, Works(o, c),
           host' = After(c, who[o]), Can(c, who[o]), c.thing \in Own, UNCHANGED who
    PROVE  /\ c.act \in Adding => Made(c.thing, who[o])'
           /\ c.act \in Taking => Clean(c.thing, who[o])'
<1> DEFINE k == Key(c.thing, who[o])
<1>1. k \in Items /\ host \in [Items -> Nat] /\ HostTypeOK
  BY WhoFits DEF Base, HostTypeOK
<1>2. host[k] \in Nat /\ k' = k /\ k[1] = c.thing
  BY <1>1, KeyFacts DEF Key
<1>3. /\ c.act = "append" => host'[k] = host[k] + 1
      /\ c.act = "drop" => host'[k] = host[k] - 1 /\ host[k] > 0
      /\ c.act = "create" => host'[k] = 1
      /\ c.act = "clear" => host'[k] = 0
  BY <1>1, AfterHere DEF Can, Has
<1>4. host[k] <= 1 \/ k \in debris
  BY <1>1, <1>2 DEF AtMostOnce
<1>5. c.act \in Adding => Made(c.thing, who[o])'
  BY <1>2, <1>3 DEF Made, Adding
<1>6. c.act \in Taking => Clean(c.thing, who[o])'
  BY <1>2, <1>3, <1>4 DEF Clean, Taking, Works
<1> QED BY <1>5, <1>6

LEMMA WorksAtMostOnce ==
    ASSUME Base, AtMostOnce, NEW o \in Ops, kind[o] \in OneTenant, NEW c, Works(o, c),
           c.act = "append" => Clean(c.thing, who[o])
    PROVE  AtMostOnce'
<1> SUFFICES ASSUME NEW i \in Items, i[1] \in Own PROVE host'[i] <= 1 \/ i \in debris'
  BY DEF AtMostOnce
<1>1. host \in [Items -> Nat] /\ HostTypeOK /\ host[i] \in Nat
  BY DEF Base, HostTypeOK
<1>2. host[i] <= 1 \/ i \in debris
  BY DEF AtMostOnce
<1>3. debris \subseteq debris'
  BY DEF Works
<1>4. CASE host'[i] = host[i]
  BY <1>2, <1>3, <1>4
<1>5. CASE host'[i] # host[i]
  <2>1. i = Key(c.thing, who[o]) /\ host' = After(c, who[o]) /\ Can(c, who[o])
    BY <1>5, WorksHere DEF Works
  <2>2. c.act \in {"append", "drop", "create", "make", "clear", "use", "mark", "save"}
    BY DEF Works, Gentle
  <2>3. /\ c.act = "append" => host'[i] = host[i] + 1
        /\ c.act = "drop" => host'[i] = host[i] - 1 /\ host[i] > 0
        /\ c.act \in {"create", "make"} => host'[i] = 1
        /\ c.act = "clear" => host'[i] = 0
        /\ c.act \in {"use", "mark", "save"} => host'[i] = host[i]
    BY <1>1, <2>1, AfterHere DEF Can, Has
  <2>4. c.act = "append" => host[i] = 0 \/ i \in debris
    BY <2>1 DEF Clean
  <2> QED BY <1>1, <1>2, <1>3, <2>2, <2>3, <2>4
<1> QED BY <1>4, <1>5

\* The other tenants' devices and rules.
LEMMA OthersStand ==
    ASSUME Base, NEW o \in Ops, kind[o] \in OneTenant, NEW c, Works(o, c),
           NEW t \in registry.tenants, t.name # who[o].name \/ c.thing \notin TapParts,
           TapStandsForRules(t), torn \subseteq torn'
    PROVE  TapStandsForRules(t)'
<1>1. ASSUME NEW x \in TapParts
      PROVE  host'[Key(x, t)] = host[Key(x, t)] /\ Key(x, t)' = Key(x, t)
  <2>1. x \in Own /\ Key(x, t) \in Items
    BY ThingSets, RegisteredFits DEF Base
  <2>2. Key(x, t) # Key(c.thing, who[o])
    <3>1. CASE t.name # who[o].name
      BY <2>1, <3>1, KeysDiffer DEF Base
    <3>2. CASE c.thing \notin TapParts
      BY <3>2, KeyFacts
    <3> QED BY <3>1, <3>2
  <2> QED BY <2>1, <2>2, WorksHere DEF Key
<1>2. Has("tap", t)' = Has("tap", t)
  BY <1>1 DEF Has, TapParts
<1>3. \A r \in TapRules : (Made(r, t) => Made(r, t)') /\ (Clean(r, t) => Clean(r, t)')
  BY <1>1 DEF Made, Clean, TapParts, Works
<1> QED BY <1>2, <1>3 DEF TapStandsForRules

\* No rules of lockdown without it.
LEMMA WorksNoLockdown ==
    ASSUME Base, NoLockdown, NEW o \in Ops, kind[o] \in OneTenant, NEW c, Works(o, c),
           UNCHANGED lockdown,
           kind'[o] \in OneTenant => kind'[o] = kind[o] /\ locked'[o] = locked[o],
           c.act \in {"append", "create", "make"} /\ c.thing \in ToSet(LockdownRules) =>
              locked[o] /\ lockdown
    PROVE  NoLockdown'
<1> SUFFICES ASSUME ~lockdown \/ (kind'[o] \in OneTenant /\ ~locked'[o]),
                    NEW i \in Items, i[1] \in ToSet(LockdownRules)
             PROVE  host'[i] = 0 \/ i \in debris'
  BY DEF NoLockdown, Base, OneAtATime
<1>1. host[i] = 0 \/ i \in debris
  BY DEF NoLockdown
<1>2. host \in [Items -> Nat] /\ HostTypeOK /\ debris \subseteq debris'
  BY DEF Base, HostTypeOK, Works
<1>3. CASE host'[i] = host[i]
  BY <1>1, <1>2, <1>3
<1>4. CASE host'[i] # host[i]
  <2>1. i = Key(c.thing, who[o]) /\ host' = After(c, who[o]) /\ Can(c, who[o])
    BY <1>4, WorksHere DEF Works
  <2>2. i[1] = c.thing
    BY <2>1, KeyFacts
  <2>3. c.act \notin {"append", "create", "make"}
    BY <2>2
  <2>4. c.act \in {"append", "drop", "create", "make", "clear", "use", "mark", "save"}
    BY DEF Works, Gentle
  <2>5. /\ c.act = "drop" => host[i] > 0
        /\ c.act = "clear" => host'[i] = 0
        /\ c.act \in {"use", "mark", "save"} => host'[i] = host[i]
    BY <1>2, <2>1, AfterHere DEF Can, Has
  <2> QED BY <1>1, <1>2, <1>4, <2>3, <2>4, <2>5
<1> QED BY <1>3, <1>4

\* Whoever works on a tenant answers for what it makes.
LEMMA WorksClaimed ==
    ASSUME Base, Claimed, NEW o \in Ops, kind[o] \in OneTenant, NEW c, Works(o, c),
           UNCHANGED <<kind, who>>,
           registry.tenants \subseteq
              registry'.tenants \cup (IF kind[o] = "evict" THEN {who[o]} ELSE {}),
           kind[o] \notin {"spawn", "evict"} => who[o] \in registry'.tenants
    PROVE  Claimed'
<1> SUFFICES ASSUME NEW i \in Items, i[1] \in Own, host'[i] > 0
             PROVE  \/ i \in debris'
                    \/ \E t \in registry'.tenants : i \in ItemsOf(t)
                    \/ \E p \in Ops : kind[p] \in {"spawn", "evict"} /\ i \in ItemsOf(who[p])
  BY DEF Claimed, ItemsOf, Key
<1>1. CASE host'[i] = host[i]
  <2>1. CASE i \in debris
    BY <2>1 DEF Works
  <2>2. CASE \E t \in registry.tenants : i \in ItemsOf(t)
    BY <2>2
  <2>3. CASE \E p \in Ops : kind[p] \in {"spawn", "evict"} /\ i \in ItemsOf(who[p])
    BY <2>3
  <2> QED BY <1>1, <2>1, <2>2, <2>3 DEF Claimed
<1>2. CASE host'[i] # host[i]
  <2>1. i = Key(c.thing, who[o]) /\ i[1] = c.thing
    BY <1>2, WorksHere, KeyFacts
  <2>2. i \in ItemsOf(who[o])
    BY <2>1, WhoFits
  <2> QED BY <2>2
<1> QED BY <1>1, <1>2

----
(* Along a sequence. *)

\* Where a spawn is.
LEMMA SpawnAt ==
    ASSUME Base, NEW o \in Ops, kind[o] = "spawn"
    PROVE  /\ stage[o] \in 1 .. 9 /\ locked[o] \in BOOLEAN /\ Len(Program(o)) = 9
           /\ \A s \in 1 .. 9 : StageFits(Program(o)[s], s, locked[o])
           /\ step[o] \in Nat \ {0} /\ undoing[o] \in BOOLEAN
<1>1. Program(o) = Programs["spawn"][locked[o]] /\ locked[o] \in BOOLEAN
  BY DEF Program, Base, HostTypeOK
<1>2. Len(Program(o)) = 9 /\ \A s \in 1 .. 9 : StageFits(Program(o)[s], s, locked[o])
  BY <1>1, SpawnFits
<1>3. stage[o] \in 1 .. Len(Program(o))
  BY DEF Base, WorkInv, OneTenant, AllKinds
<1> QED BY <1>1, <1>2, <1>3 DEF Base, HostTypeOK

\* Where another operation is.
LEMMA OtherAt ==
    ASSUME Base, NEW o \in Ops, kind[o] \in AllKinds \ {"spawn"}, Progress(o)
    PROVE  /\ stage[o] = 1 /\ undoing[o] = FALSE /\ locked[o] \in BOOLEAN /\ step[o] \in Nat \ {0}
           /\ Program(o) = Programs[kind[o]][locked[o]]
           /\ Current(o) = Programs[kind[o]][locked[o]][1].do
BY DEF Progress, Base, HostTypeOK, Program, Current

\* A command is carried out, or if that may be ignored, is not.
CarriedOut(o, c) == host' = After(c, who[o]) /\ Can(c, who[o])

LEMMA AddsKept ==
    ASSUME Base, AtMostOnce, NEW o \in Ops, kind[o] \in OneTenant, Adds(o), Busy(o),
           NEW parts, parts \subseteq Own, Current(o) \in Seq(Builder(parts)), Fresh(Current(o)),
           Works(o, Command1(o)), UNCHANGED who,
           CarriedOut(o, Command1(o)) \/ Command1(o).soft,
           Current(o)' = Current(o), step'[o] = step[o] + 1
    PROVE  Adds(o)'
<1>0. PICK s, n, c : s = Current(o) /\ n = step[o] /\ c = Command1(o)
  OBVIOUS
<1>1. n \in DOMAIN s /\ c = s[n] /\ n \in Nat /\ DOMAIN s \subseteq Nat /\ Works(o, c)
  BY <1>0 DEF Busy, Command1
<1>2. \A m \in DOMAIN s : s[m] \in Builder(parts)
  BY <1>0
<1>3. ASSUME NEW m \in DOMAIN s, s[m].act = "append", m >= n + 1
      PROVE  Clean(s[m].thing, who[o])'
  <2>1. Clean(s[m].thing, who[o])
    BY <1>0, <1>1, <1>3 DEF Adds
  <2>2. s[m].thing \in Own
    BY <1>2, <1>3 DEF Builder
  <2>3. c.act \in Changing => s[m].thing # c.thing
    BY <1>0, <1>1, <1>3 DEF Fresh
  <2>4. c.act \notin Changing => c.act \in {"use", "mark", "save"}
    BY <1>1, <1>2 DEF Builder, Changing
  <2> QED BY <1>1, <2>1, <2>2, <2>3, <2>4, WorksKeeps
<1>4. ASSUME NEW m \in DOMAIN s, s[m].act \in Adding, m < n
      PROVE  Made(s[m].thing, who[o])'
  <2>1. Made(s[m].thing, who[o])
    BY <1>0, <1>4 DEF Adds
  <2>2. s[m].thing \in Own /\ s[m].thing # "chroot"
    BY <1>2, <1>4 DEF Builder, Adding
  <2>3. c.act \in Taking => c.thing = "chroot"
    BY <1>1, <1>2 DEF Builder, Taking
  <2> QED BY <1>1, <2>1, <2>2, <2>3, WorksKeeps
<1>5. ASSUME s[n].act \in Adding PROVE Made(s[n].thing, who[o])'
  <2>1. c.act \in Adding /\ c.thing \in Own /\ ~c.soft
    BY <1>1, <1>2, <1>5 DEF Builder, Adding
  <2>2. CarriedOut(o, c)
    BY <1>0, <2>1
  <2>3. Made(c.thing, who[o])'
    BY <1>1, <2>1, <2>2, WorksDone DEF CarriedOut
  <2> QED BY <1>1, <2>3
<1>6. \A m \in DOMAIN s : m < n + 1 => m < n \/ m = n
  BY <1>1
<1>7. Current(o)' = s /\ step'[o] = n + 1
  BY <1>0
<1>8. \A m \in DOMAIN s : /\ s[m].act = "append" /\ m >= n + 1 => Clean(s[m].thing, who[o])'
                          /\ s[m].act \in Adding /\ m < n + 1 => Made(s[m].thing, who[o])'
  BY <1>3, <1>4, <1>5, <1>6
<1>9. who' = who
  OBVIOUS
<1> QED BY <1>7, <1>8, <1>9 DEF Adds, Clean, Made

LEMMA TakesKept ==
    ASSUME Base, AtMostOnce, NEW o \in Ops, kind[o] \in OneTenant, Takes(o), Busy(o),
           Current(o) \in Seq(Remover \cup Saver), Works(o, Command1(o)), UNCHANGED who,
           CarriedOut(o, Command1(o)) \/ Key(Command1(o).thing, who[o]) \in debris',
           Current(o)' = Current(o), step'[o] = step[o] + 1
    PROVE  Takes(o)'
<1>0. PICK s, n, c : s = Current(o) /\ n = step[o] /\ c = Command1(o)
  OBVIOUS
<1>1. n \in DOMAIN s /\ c = s[n] /\ n \in Nat /\ DOMAIN s \subseteq Nat /\ Works(o, c)
  BY <1>0 DEF Busy, Command1
<1>2. \A m \in DOMAIN s : s[m] \in Remover \cup Saver
  BY <1>0
<1>3. c.act \in Taking \cup {"use", "mark", "save"}
  BY <1>1, <1>2 DEF Remover, Saver
<1>4. ASSUME NEW m \in DOMAIN s, s[m].act \in Taking, m < n
      PROVE  Clean(s[m].thing, who[o])'
  <2>1. Clean(s[m].thing, who[o])
    BY <1>0, <1>4 DEF Takes
  <2>2. s[m].thing \in Own
    BY <1>2, <1>4 DEF Remover, Saver, Taking
  <2> QED BY <1>1, <1>3, <2>1, <2>2, WorksKeeps
<1>5. ASSUME s[n].act \in Taking PROVE Clean(s[n].thing, who[o])'
  <2>1. c.act \in Taking /\ c.thing \in Own
    BY <1>1, <1>2, <1>5 DEF Remover, Saver, Taking
  <2>2. CASE CarriedOut(o, c)
    BY <1>1, <2>1, <2>2, WorksDone DEF CarriedOut
  <2>3. CASE Key(c.thing, who[o]) \in debris'
    BY <1>1, <2>3 DEF Clean, Key
  <2> QED BY <1>0, <2>2, <2>3
<1>6. \A m \in DOMAIN s : m < n + 1 => m < n \/ m = n
  BY <1>1
<1>7. Current(o)' = s /\ step'[o] = n + 1
  BY <1>0
<1>8. \A m \in DOMAIN s : s[m].act \in Taking /\ m < n + 1 => Clean(s[m].thing, who[o])'
  BY <1>4, <1>5, <1>6
<1>9. who' = who
  OBVIOUS
<1> QED BY <1>7, <1>8, <1>9 DEF Takes, Clean

\* What the next command can be.
Menu(o, c) ==
    /\ c \in Gentle
    /\ c.soft => c.act \in Taking
    /\ c.act \in Changing \cup {"make"} => c.thing \in Own
    /\ c.act = "append" => Clean(c.thing, who[o])
    /\ c.act \in {"append", "create", "make"} /\ c.thing \in ToSet(LockdownRules) =>
          locked[o] /\ lockdown
    /\ c.act = "mark" => kind[o] = "evict"
    /\ c.act = "save" => kind[o] \in {"spawn", "evict"}
    /\ kind[o] = "repairCaddyRoute" => c.thing \in Routes

LEMMA SpawnMenu ==
    ASSUME Base, NEW o \in Ops, kind[o] = "spawn", Progress(o), Busy(o),
           NEW c, c = Command1(o)
    PROVE  /\ Menu(o, c)
           /\ ~undoing[o] /\ stage[o] # 9 => c \in Builder(MadeIn(stage[o]) \cap Parts(locked[o]))
           /\ ~undoing[o] /\ stage[o] = 9 => c = Hard("save", "config-dir") /\ step[o] = 1
           /\ undoing[o] => c \in Remover
<1> DEFINE st == Program(o)[stage[o]]
<1>1. StageFits(st, stage[o], locked[o]) /\ stage[o] \in 1 .. 9 /\ undoing[o] \in BOOLEAN
  BY SpawnAt
<1>2. step[o] \in DOMAIN Current(o) /\ c = Current(o)[step[o]]
  BY DEF Busy, Command1
<1>3. SpawnProgress(o) /\ (locked[o] => lockdown)
  BY DEF Progress, OneTenant, AllKinds
<1>4. CASE undoing[o]
  <2>1. Current(o) = st.undo
    BY <1>4 DEF Current
  <2>2. c \in Remover
    BY <1>1, <1>2, <2>1 DEF StageFits
  <2>3. Menu(o, c)
    BY <2>2 DEF Menu, Remover, Taking
  <2> QED BY <1>4, <2>2, <2>3
<1>5. CASE ~undoing[o] /\ stage[o] # 9
  <2>1. Current(o) = st.do
    BY <1>5 DEF Current
  <2>2. Current(o) \in Seq(Builder(MadeIn(stage[o]) \cap Parts(locked[o])))
    BY <1>1, <1>5, <2>1 DEF StageFits
  <2>3. c \in Builder(MadeIn(stage[o]) \cap Parts(locked[o]))
    BY <1>2, <2>2
  <2>4. step[o] >= step[o]
    BY SpawnAt
  <2>5. c.act = "append" => Clean(c.thing, who[o])
    BY <1>2, <1>3, <1>5, <2>4 DEF SpawnProgress, Adds
  <2>6. /\ c \in Gentle /\ c.act \in {"append", "create", "make", "clear", "use"}
        /\ c.act \in {"append", "create", "make", "clear"} =>
              c.thing \in Own /\ c.thing \in Parts(locked[o])
        /\ c.act = "clear" <=> c.soft
    BY <2>3 DEF Builder, MadeIn
  <2>7. c.thing \in Parts(locked[o]) /\ c.thing \in ToSet(LockdownRules) => locked[o]
    BY DEF Parts
  <2>8. Menu(o, c)
    BY <1>3, <2>5, <2>6, <2>7 DEF Menu, Taking, Changing
  <2> QED BY <1>5, <2>3, <2>8
<1>6. CASE ~undoing[o] /\ stage[o] = 9
  <2>1. Current(o) = <<Hard("save", "config-dir")>>
    BY <1>1, <1>6 DEF StageFits, Current
  <2>2. c = Hard("save", "config-dir") /\ step[o] = 1
    BY <1>2, <2>1
  <2>3. Menu(o, c)
    BY <2>2 DEF Menu, Hard, Gentle, TenantThings, Changing
  <2> QED BY <1>6, <2>2, <2>3
<1> QED BY <1>1, <1>4, <1>5, <1>6

LEMMA OtherMenu ==
    ASSUME Base, NEW o \in Ops, kind[o] \in OneTenant \ {"spawn"}, Progress(o), Busy(o),
           NEW c, c = Command1(o)
    PROVE  /\ Menu(o, c)
           /\ kind[o] = "evict" => c \in Remover \cup Saver
           /\ kind[o] = "repairTap" => c \in Builder(TapParts)
           /\ kind[o] = "repairCaddyRoute" =>
                 /\ step[o] \in 1 .. 4
                 /\ step[o] = 1 => c = Soft("drop", "ws-route")
                 /\ step[o] = 2 => c = Soft("drop", "http-route")
                 /\ step[o] = 3 => c = Hard("append", "ws-route")
                 /\ step[o] = 4 => c = Hard("append", "http-route")
<1>1. /\ locked[o] \in BOOLEAN /\ step[o] \in Nat \ {0}
      /\ Current(o) = Programs[kind[o]][locked[o]][1].do
  BY OtherAt DEF OneTenant
<1>2. step[o] \in DOMAIN Current(o) /\ c = Current(o)[step[o]]
  BY DEF Busy, Command1
<1>3. CASE kind[o] = "evict"
  <2>1. Current(o) \in Seq(Remover \cup Saver)
    BY <1>1, <1>3, EvictFits
  <2>2. c \in Remover \cup Saver
    BY <1>2, <2>1
  <2>3. Menu(o, c)
    BY <1>3, <2>2 DEF Menu, Remover, Saver, Taking, Changing
  <2> QED BY <1>3, <2>2, <2>3
<1>4. CASE kind[o] = "repairTap"
  <2>1. Current(o) \in Seq(Builder(TapParts))
    BY <1>1, <1>4, RepairTapFits
  <2>2. c \in Builder(TapParts)
    BY <1>2, <2>1
  <2>3. c.act = "append" => Clean(c.thing, who[o])
    <3>1. step[o] >= step[o]
      BY <1>1
    <3> QED BY <1>2, <1>4, <3>1 DEF Progress, Adds
  <2>4. \A x \in TapParts : x \in Own /\ x \notin ToSet(LockdownRules)
    BY ThingSets, RuleSets DEF TapParts, TapRules
  <2>5. Menu(o, c)
    BY <1>4, <2>2, <2>3, <2>4 DEF Menu, Builder, Taking, Changing
  <2> QED BY <1>4, <2>2, <2>5
<1>5. CASE kind[o] = "repairCaddyRoute"
  <2>1. /\ DOMAIN Current(o) = 1 .. 4
        /\ Current(o)[1] = Soft("drop", "ws-route") /\ Current(o)[2] = Soft("drop", "http-route")
        /\ Current(o)[3] = Hard("append", "ws-route") /\ Current(o)[4] = Hard("append", "http-route")
    BY <1>1, <1>5, RepairRoutesFit
  <2>2. RepairRoutesProgress(o)
    BY <1>5 DEF Progress
  <2>3. step[o] \in {1, 2, 3, 4}
    BY <1>2, <2>1
  <2>4. "ws-route" \in Own /\ "http-route" \in Own /\ Routes = {"ws-route", "http-route"}
        /\ \A x \in Routes : x \notin ToSet(LockdownRules)
    BY RuleSets DEF Own, Routes
  <2>5. CASE step[o] = 1
    <3>1. c = Soft("drop", "ws-route")
      BY <1>2, <2>1, <2>5
    <3>2. c.act = "drop" /\ c.thing = "ws-route" /\ c.soft = TRUE /\ c \in Gentle
      BY <3>1 DEF Soft, Gentle, TenantThings
    <3> QED BY <1>5, <2>4, <2>5, <3>1, <3>2 DEF Menu, Taking
  <2>6. CASE step[o] = 2
    <3>1. c = Soft("drop", "http-route")
      BY <1>2, <2>1, <2>6
    <3>2. c.act = "drop" /\ c.thing = "http-route" /\ c.soft = TRUE /\ c \in Gentle
      BY <3>1 DEF Soft, Gentle, TenantThings
    <3> QED BY <1>5, <2>4, <2>6, <3>1, <3>2 DEF Menu, Taking
  <2>7. CASE step[o] = 3
    <3>1. c = Hard("append", "ws-route")
      BY <1>2, <2>1, <2>7
    <3>2. c.act = "append" /\ c.thing = "ws-route" /\ c.soft = FALSE /\ c \in Gentle
      BY <3>1 DEF Hard, Gentle, TenantThings
    <3>3. Clean(c.thing, who[o])
      BY <2>2, <2>7, <3>2 DEF RepairRoutesProgress
    <3> QED BY <1>5, <2>4, <2>7, <3>1, <3>2, <3>3 DEF Menu, Taking
  <2>8. CASE step[o] = 4
    <3>1. c = Hard("append", "http-route")
      BY <1>2, <2>1, <2>8
    <3>2. c.act = "append" /\ c.thing = "http-route" /\ c.soft = FALSE /\ c \in Gentle
      BY <3>1 DEF Hard, Gentle, TenantThings
    <3>3. Clean(c.thing, who[o])
      BY <2>2, <2>8, <3>2 DEF RepairRoutesProgress
    <3> QED BY <1>5, <2>4, <2>8, <3>1, <3>2, <3>3 DEF Menu, Taking
  <2> QED BY <2>3, <2>5, <2>6, <2>7, <2>8
<1> QED BY <1>3, <1>4, <1>5 DEF OneTenant, AllKinds

----
(* Steps of an operation on one tenant that go on.                         *)

\* The registry that an operation saves has what was registered, but for the tenant it works
\* on.
LEMMA SavedMoves ==
    ASSUME Base, NEW o \in Ops, kind[o] \in OneTenant, Progress(o), NEW c, Menu(o, c)
    PROVE  LET r == Saved(o, c)
           IN  /\ registry.tenants \subseteq
                     r.tenants \cup (IF kind[o] = "evict" THEN {who[o]} ELSE {})
               /\ r.tenants \subseteq registry.tenants \cup {who[o]}
               /\ c.act \notin {"mark", "save"} => r = registry
               /\ kind[o] = "spawn" /\ c.act = "save" => who[o] \in r.tenants
               /\ kind[o] = "evict" /\ c.act = "save" => \A t \in r.tenants : t.name # who[o].name
<1>1. /\ read[o] \in Registry /\ Sound(read[o]) /\ registry \in Registry
      /\ registry.tenants \subseteq read[o].tenants \cup {who[o]}
      /\ kind[o] = "spawn" \/ who[o] \in read[o].tenants
      /\ read[o].tenants \subseteq registry.tenants \cup {who[o]}
  BY DEF Base, RegistryInv, WorkInv, Progress, HostTypeOK
<1>2. ~(c.act = "clear" /\ c.thing = "config-dir")
  BY ThingSets DEF Menu, Changing
<1>3. c.act \in {"mark", "save"} => kind[o] \in {"spawn", "evict"}
  BY DEF Menu
<1>4. CASE c.act = "mark"
  <2>1. Saved(o, c) = read[o]
    BY <1>4 DEF Saved
  <2>2. kind[o] = "evict"
    BY <1>4 DEF Menu
  <2> QED BY <1>1, <1>4, <2>1, <2>2
<1>5. CASE c.act = "save" /\ kind[o] = "spawn"
  <2>1. Saved(o, c) = [tenants |-> read[o].tenants \cup {who[o]}, next |-> read[o].next + 1]
    BY <1>5 DEF Saved
  <2> QED BY <1>1, <1>5, <2>1
<1>6. CASE c.act = "save" /\ kind[o] = "evict"
  <2>1. Saved(o, c) = [read[o] EXCEPT !.tenants = {t \in @ : t.name # who[o].name}]
    BY <1>6 DEF Saved
  <2>2. Saved(o, c).tenants = {t \in read[o].tenants : t.name # who[o].name}
    BY <1>1, <2>1 DEF Registry
  <2>3. \A t \in read[o].tenants : t.name = who[o].name => t = who[o]
    BY <1>1, <1>6 DEF Sound
  <2> QED BY <1>1, <1>6, <2>2, <2>3
<1>7. CASE c.act \notin {"mark", "save"}
  <2>1. Saved(o, c) = registry
    BY <1>2, <1>7 DEF Saved
  <2> QED BY <1>7, <2>1
<1> QED BY <1>3, <1>4, <1>5, <1>6, <1>7

\* A command is done or missed.
Advances(o, c) ==
    /\ Works(o, c)
    /\ CarriedOut(o, c) \/ (c.soft /\ Key(c.thing, who[o]) \in debris')
    /\ registry' = Saved(o, c)
    /\ step'[o] = step[o] + 1
    /\ UNCHANGED <<kind, who, stage, undoing, read, locked, lockdown, torn>>

LEMMA DoesOrMisses ==
    ASSUME Base, NEW o \in Ops, kind[o] \in OneTenant, NEW c, c = Command1(o), Menu(o, c),
           Does(o) \/ Misses(o)
    PROVE  Busy(o) /\ Advances(o, c)
<1>1. step \in [Ops -> Nat \ {0}] /\ lockdown \in BOOLEAN
  BY DEF Base, HostTypeOK
<1>2. ~(c.act = "clear" /\ c.thing = "config-dir")
  BY ThingSets DEF Menu, Changing
<1>3. ASSUME Does(o) PROVE Busy(o) /\ Advances(o, c)
  <2>1. /\ Busy(o) /\ Can(c, who[o]) /\ host' = After(c, who[o]) /\ registry' = Saved(o, c)
        /\ lockdown' = (lockdown /\ ~(c.act = "clear" /\ c.thing = "config-dir"))
        /\ step' = [step EXCEPT ![o] = @ + 1]
        /\ UNCHANGED <<kind, who, stage, undoing, read, locked, history>>
    BY <1>3 DEF Does
  <2>2. lockdown' = lockdown
    BY <1>1, <1>2, <2>1
  <2>3. step'[o] = step[o] + 1
    BY <1>1, <2>1
  <2>4. Works(o, c) /\ CarriedOut(o, c)
    BY <2>1 DEF Menu, Works, CarriedOut, history
  <2> QED BY <2>1, <2>2, <2>3, <2>4 DEF Advances, history
<1>4. ASSUME Misses(o) PROVE Busy(o) /\ Advances(o, c)
  <2>1. /\ Busy(o) /\ c.soft /\ step' = [step EXCEPT ![o] = @ + 1]
        /\ debris' = debris \cup ({Key(c.thing, who[o])} \cap Items)
        /\ UNCHANGED <<host, registry, lockdown, kind, who, stage, undoing, read, locked, torn>>
    BY <1>4 DEF Misses
  <2>2. c.act \in Taking /\ c.thing \in Own
    BY <2>1 DEF Menu, Taking, Changing
  <2>3. Key(c.thing, who[o]) \in debris'
    BY <2>1, <2>2, WhoFits
  <2>4. registry' = Saved(o, c)
    BY <1>2, <2>1, <2>2 DEF Saved, Taking
  <2>5. Works(o, c)
    BY <2>1 DEF Menu, Works
  <2> QED BY <1>1, <2>1, <2>3, <2>4, <2>5 DEF Advances
<1> QED BY <1>3, <1>4

\* All but the progress of the operation itself.
LEMMA AdvancesSafe ==
    ASSUME Base, CleanInv, NEW o \in Ops, kind[o] \in OneTenant, NEW c, Menu(o, c), Advances(o, c)
    PROVE  /\ AtMostOnce' /\ Claimed' /\ NoLockdown' /\ Untended'
           /\ read'[o].tenants \subseteq registry'.tenants \cup {who'[o]}
           /\ locked'[o] => lockdown'
<1>1. Works(o, c) /\ UNCHANGED <<kind, who, locked, lockdown, torn, read>> /\ Progress(o)
  BY DEF Advances, CleanInv
<1>2. /\ registry.tenants \subseteq registry'.tenants \cup (IF kind[o] = "evict" THEN {who[o]} ELSE {})
      /\ registry'.tenants \subseteq registry.tenants \cup {who[o]}
      /\ c.act \notin {"mark", "save"} => registry' = registry
  <2>1. registry' = Saved(o, c)
    BY DEF Advances
  <2> QED BY <1>1, <2>1, SavedMoves
<1>3. kind[o] \notin {"spawn", "evict"} => registry' = registry /\ who[o] \in registry'.tenants
  BY <1>1, <1>2 DEF Menu, Progress, OneTenant, AllKinds
<1>4. AtMostOnce'
  BY <1>1, WorksAtMostOnce DEF Menu, CleanInv
<1>5. Claimed'
  BY <1>1, <1>2, <1>3, WorksClaimed DEF CleanInv
<1>6. NoLockdown'
  BY <1>1, WorksNoLockdown DEF Menu, CleanInv
<1>7. Untended'
  <2> SUFFICES ASSUME NEW t \in registry'.tenants, ~Tended(t)' PROVE TapStandsForRules(t)'
    BY DEF Untended
  <2>1. t = who[o] => kind[o] = "repairCaddyRoute"
    BY <1>1 DEF Tended, OneTenant, AllKinds
  <2>2. kind[o] \in {"spawn", "evict", "repairTap"} => t.name # who[o].name
    BY <1>1 DEF Tended
  <2>3. t \in registry.tenants
    BY <1>2, <1>3, <2>1
  <2>4. ~Tended(t)
    BY <1>1 DEF Tended
  <2>5. TapStandsForRules(t)
    BY <2>3, <2>4 DEF CleanInv, Untended
  <2>6. t.name # who[o].name \/ c.thing \notin TapParts
    <3>1. kind[o] = "repairCaddyRoute" => c.thing \in Routes
      BY DEF Menu
    <3>2. \A x \in Routes : x \notin TapParts
      BY RuleSets DEF Routes, TapParts, TapRules
    <3> QED BY <2>2, <3>1, <3>2 DEF OneTenant, AllKinds
  <2> QED BY <1>1, <2>3, <2>5, <2>6, OthersStand
<1>8. read[o].tenants \subseteq registry'.tenants \cup {who[o]} /\ (locked[o] => lockdown)
  BY <1>1, <1>2 DEF Progress
<1> QED BY <1>1, <1>4, <1>5, <1>6, <1>7, <1>8

LEMMA SameSequence ==
    ASSUME NEW o \in Ops, NEW c, Advances(o, c)
    PROVE  Current(o)' = Current(o)
BY DEF Advances, Current, Program

\* A spawn goes on.
LEMMA SpawnAdvances ==
    ASSUME Base, Base', CleanInv, NEW o \in Ops, kind[o] = "spawn", Busy(o), NEW c, c = Command1(o),
           Advances(o, c)
    PROVE  SpawnProgress(o)'
<1>1. /\ Progress(o) /\ SpawnProgress(o) /\ kind[o] \in OneTenant /\ AtMostOnce
      /\ Works(o, c) /\ UNCHANGED <<who, stage, undoing>> /\ step'[o] = step[o] + 1
      /\ registry' = Saved(o, c) /\ (CarriedOut(o, c) \/ (c.soft /\ Key(c.thing, who[o]) \in debris'))
  BY DEF CleanInv, Progress, OneTenant, AllKinds, Advances
<1>2. /\ Menu(o, c)
      /\ ~undoing[o] /\ stage[o] # 9 => c \in Builder(MadeIn(stage[o]) \cap Parts(locked[o]))
      /\ ~undoing[o] /\ stage[o] = 9 => c = Hard("save", "config-dir") /\ step[o] = 1
      /\ undoing[o] => c \in Remover
  BY <1>1, SpawnMenu
<1>3. /\ StageFits(Program(o)[stage[o]], stage[o], locked[o]) /\ stage[o] \in 1 .. 9
      /\ step[o] \in Nat \ {0} /\ undoing[o] \in BOOLEAN
  BY SpawnAt
<1>4. who'[o] \in registry'.tenants <=> (stage'[o] = 9 /\ step'[o] > 1 /\ ~undoing'[o])
  <2>1. CASE ~undoing[o] /\ stage[o] = 9
    <3>1. c.act = "save"
      BY <1>2, <2>1 DEF Hard
    <3>2. who[o] \in registry'.tenants
      BY <1>1, <1>2, <3>1, SavedMoves
    <3> QED BY <1>1, <1>2, <2>1, <3>2
  <2>2. CASE undoing[o] \/ stage[o] # 9
    <3>1. c.act \notin {"mark", "save"}
      BY <1>2, <1>3, <2>2 DEF Builder, Remover, Taking
    <3>2. registry' = registry
      BY <1>1, <1>2, <3>1, SavedMoves
    <3> QED BY <1>1, <2>2, <3>2 DEF SpawnProgress
  <2> QED BY <2>1, <2>2
<1>5. ASSUME NEW x \in Own, Home[x] > stage[o] PROVE Clean(x, who[o])'
  <2>1. Clean(x, who[o])
    BY <1>1, <1>5 DEF SpawnProgress
  <2>2. Home[x] # stage[o]
    BY <1>3, <1>5, ThingSets
  <2>3. x # c.thing \/ c.act \in Taking \cup {"use", "mark", "save"}
    BY <1>2, <1>3, <2>2 DEF Builder, Remover, MadeIn, Hard, Taking
  <2> QED BY <1>1, <2>1, <2>3, WorksKeeps
<1>6. CASE undoing[o]
  <2>1. Takes(o) /\ Current(o) = Program(o)[stage[o]].undo
    BY <1>1, <1>6 DEF SpawnProgress, Current
  <2>2. Current(o) \in Seq(Remover \cup Saver)
    BY <1>3, <2>1 DEF StageFits
  <2>3. Takes(o)'
    BY <1>1, <2>1, <2>2, TakesKept, SameSequence
  <2> QED BY <1>1, <1>4, <1>5, <1>6, <2>3 DEF SpawnProgress, Clean
<1>7. CASE ~undoing[o]
  <2>1. Adds(o) /\ Current(o) = Program(o)[stage[o]].do
    BY <1>1, <1>7 DEF SpawnProgress, Current
  <2>2. Adds(o)'
    <3>1. CASE stage[o] # 9
      <4>1. /\ Current(o) \in Seq(Builder(MadeIn(stage[o]) \cap Parts(locked[o]))) /\ Fresh(Current(o))
            /\ MadeIn(stage[o]) \cap Parts(locked[o]) \subseteq Own
        BY <1>3, <2>1, <3>1 DEF StageFits, MadeIn
      <4>2. PICK parts : parts = MadeIn(stage[o]) \cap Parts(locked[o])
        OBVIOUS
      <4>3. Current(o) \in Seq(Builder(parts)) /\ parts \subseteq Own
        BY Zenon, <4>1, <4>2
      <4> QED BY <1>1, <2>1, <4>1, <4>3, AddsKept, SameSequence
    <3>2. CASE stage[o] = 9
      <4>1. Current(o)' = <<Hard("save", "config-dir")>>
        BY <1>3, <2>1, <3>2, SameSequence DEF StageFits
      <4> QED BY <4>1 DEF Adds, Hard, Adding
    <3> QED BY <3>1, <3>2
  <2>3. ASSUME NEW x \in TapParts, Home[x] < stage[o] PROVE Made(x, who[o])'
    <3>1. Made(x, who[o]) /\ x \in Own
      BY <1>1, <1>7, <2>3, ThingSets DEF SpawnProgress
    <3>2. Home[x] # stage[o]
      BY <1>3, <2>3, <3>1, ThingSets
    <3>3. x # c.thing \/ c.act \notin Taking
      BY <1>2, <1>7, <3>2 DEF Builder, MadeIn, Hard, Taking
    <3> QED BY <1>1, <3>1, <3>3, WorksKeeps
  <2> QED BY <1>1, <1>4, <1>5, <1>7, <2>2, <2>3 DEF SpawnProgress, Clean, Made
<1> QED BY <1>3, <1>6, <1>7

LEMMA EvictAdvances ==
    ASSUME Base, CleanInv, NEW o \in Ops, kind[o] = "evict", Busy(o), NEW c, c = Command1(o),
           Advances(o, c)
    PROVE  EvictProgress(o)'
<1>1. /\ Progress(o) /\ Takes(o) /\ kind[o] \in OneTenant /\ kind[o] # "spawn" /\ AtMostOnce
      /\ Works(o, c) /\ UNCHANGED who /\ step'[o] = step[o] + 1
      /\ registry' = Saved(o, c) /\ (CarriedOut(o, c) \/ Key(c.thing, who[o]) \in debris')
  BY DEF CleanInv, Progress, EvictProgress, OneTenant, AllKinds, Advances
<1>2. PICK l \in BOOLEAN : Current(o) = Programs["evict"][l][1].do /\ step[o] \in Nat
  BY <1>1, OtherAt DEF OneTenant
<1>3. /\ Current(o) \in Seq(Remover \cup Saver) /\ Len(Current(o)) > 0
      /\ Current(o)[Len(Current(o))] = Hard("save", "config-dir")
  BY <1>2, EvictFits
<1>4. Takes(o)'
  BY <1>1, <1>3, TakesKept, SameSequence
<1>5. ASSUME step'[o] > Len(Current(o)) PROVE \A t \in registry'.tenants : t.name # who[o].name
  <2>1. step[o] \in 1 .. Len(Current(o)) /\ Len(Current(o)) \in Nat
    BY <1>3 DEF Busy
  <2>2. step[o] = Len(Current(o))
    BY <1>1, <1>5, <2>1
  <2>3. c = Hard("save", "config-dir")
    BY <1>3, <2>2 DEF Command1
  <2>4. c.act = "save"
    BY <2>3 DEF Hard
  <2>5. Menu(o, c)
    BY <1>1, OtherMenu
  <2> QED BY <1>1, <2>4, <2>5, SavedMoves
<1>6. Current(o)' = Current(o)
  BY SameSequence
<1>7. who'[o] = who[o]
  BY <1>1
<1> QED BY <1>4, <1>5, <1>6, <1>7 DEF EvictProgress

LEMMA RepairTapAdvances ==
    ASSUME Base, CleanInv, NEW o \in Ops, kind[o] = "repairTap", Busy(o), NEW c, c = Command1(o),
           Advances(o, c)
    PROVE  Adds(o)'
<1>1. /\ Progress(o) /\ Adds(o) /\ kind[o] \in OneTenant /\ AtMostOnce
      /\ Works(o, c) /\ UNCHANGED who /\ step'[o] = step[o] + 1
      /\ (CarriedOut(o, c) \/ c.soft)
  BY DEF CleanInv, Progress, OneTenant, AllKinds, Advances
<1>2. PICK l \in BOOLEAN : Current(o) = Programs["repairTap"][l][1].do
  BY <1>1, OtherAt DEF OneTenant, AllKinds
<1>3. Current(o) \in Seq(Builder(TapParts)) /\ Fresh(Current(o)) /\ TapParts \subseteq Own
  BY <1>2, RepairTapFits, ThingSets
<1> QED BY <1>1, <1>3, AddsKept, SameSequence

LEMMA RoutesAdvance ==
    ASSUME Base, CleanInv, NEW o \in Ops, kind[o] = "repairCaddyRoute", Busy(o), NEW c,
           c = Command1(o), Advances(o, c)
    PROVE  RepairRoutesProgress(o)'
<1>1. /\ Progress(o) /\ RepairRoutesProgress(o) /\ kind[o] \in OneTenant \ {"spawn"} /\ AtMostOnce
      /\ Works(o, c) /\ UNCHANGED who /\ step'[o] = step[o] + 1
      /\ (CarriedOut(o, c) \/ Key(c.thing, who[o]) \in debris')
  BY DEF CleanInv, Progress, OneTenant, AllKinds, Advances
<1>2. /\ step[o] \in 1 .. 4
      /\ step[o] = 1 => c = Soft("drop", "ws-route")
      /\ step[o] = 2 => c = Soft("drop", "http-route")
      /\ step[o] = 3 => c = Hard("append", "ws-route")
      /\ step[o] = 4 => c = Hard("append", "http-route")
  BY <1>1, OtherMenu
<1>3. "ws-route" \in Own /\ "http-route" \in Own
  BY DEF Own, Routes
<1>4. c.act \in Taking /\ c.thing \in Own => Clean(c.thing, who[o])'
  <2>1. Key(c.thing, who[o])' = Key(c.thing, who[o])
    BY <1>1 DEF Key
  <2>2. CASE CarriedOut(o, c)
    BY <1>1, <2>2, WorksDone DEF CarriedOut
  <2>3. CASE Key(c.thing, who[o]) \in debris'
    BY <2>1, <2>3 DEF Clean
  <2> QED BY <1>1, <2>2, <2>3
<1>5. \A x \in {"ws-route", "http-route"} :
          Clean(x, who[o]) /\ (x # c.thing \/ c.act \in Taking) => Clean(x, who[o])'
  BY <1>1, <1>3, WorksKeeps
<1>6. CASE step[o] = 1
  <2>1. c.act = "drop" /\ c.thing = "ws-route"
    BY <1>2, <1>6 DEF Soft
  <2> QED BY <1>1, <1>3, <1>4, <1>6, <2>1 DEF RepairRoutesProgress, Taking
<1>7. CASE step[o] = 2
  <2>1. c.act = "drop" /\ c.thing = "http-route"
    BY <1>2, <1>7 DEF Soft
  <2> QED BY <1>1, <1>3, <1>4, <1>5, <1>7, <2>1 DEF RepairRoutesProgress, Taking
<1>8. CASE step[o] = 3
  <2>1. c.act = "append" /\ c.thing = "ws-route"
    BY <1>2, <1>8 DEF Hard
  <2> QED BY <1>1, <1>3, <1>5, <1>8, <2>1 DEF RepairRoutesProgress
<1>9. CASE step[o] = 4
  BY <1>1, <1>9 DEF RepairRoutesProgress
<1>10. step[o] \in {1, 2, 3, 4}
  BY <1>2
<1> QED BY <1>6, <1>7, <1>8, <1>9, <1>10

\* Whatever it works on.
LEMMA TenantAdvances ==
    ASSUME Base, Base', CleanInv, NEW o \in Ops, kind[o] \in OneTenant, Does(o) \/ Misses(o)
    PROVE  CleanInv'
<1>1. PICK c : c = Command1(o)
  OBVIOUS
<1>2. Progress(o) /\ Busy(o)
  BY DEF CleanInv, Does, Misses
<1>3. Menu(o, c)
  BY <1>1, <1>2, SpawnMenu, OtherMenu
<1>4. Advances(o, c)
  BY <1>1, <1>3, DoesOrMisses
<1>5. /\ AtMostOnce' /\ Claimed' /\ NoLockdown' /\ Untended'
      /\ read'[o].tenants \subseteq registry'.tenants \cup {who'[o]}
      /\ locked'[o] => lockdown'
  BY <1>3, <1>4, AdvancesSafe
<1>6. UNCHANGED <<kind, who, stage, undoing>> /\ registry' = Saved(o, c)
  BY <1>4 DEF Advances
<1>7. kind[o] \in {"repairTap", "repairCaddyRoute"} => who[o] \in registry'.tenants
  <2> SUFFICES ASSUME kind[o] \in {"repairTap", "repairCaddyRoute"} PROVE who[o] \in registry'.tenants
    OBVIOUS
  <2>1. c.act \notin {"mark", "save"}
    BY <1>3 DEF Menu
  <2>2. registry' = registry
    BY <1>2, <1>3, <1>6, <2>1, SavedMoves
  <2> QED BY <1>2, <2>2 DEF Progress
<1>8. kind[o] = "spawn" => SpawnProgress(o)'
  BY <1>1, <1>2, <1>4, SpawnAdvances
<1>9. kind[o] = "evict" => EvictProgress(o)'
  BY <1>1, <1>2, <1>4, EvictAdvances
<1>10. kind[o] = "repairTap" => Adds(o)'
  BY <1>1, <1>2, <1>4, RepairTapAdvances
<1>11. kind[o] = "repairCaddyRoute" => RepairRoutesProgress(o)'
  BY <1>1, <1>2, <1>4, RoutesAdvance
<1>12. Progress(o)'
  BY <1>2, <1>5, <1>6, <1>7, <1>8, <1>9, <1>10, <1>11 DEF Progress, OneTenant, AllKinds
<1> QED BY <1>5, <1>12 DEF CleanInv, Base, OneAtATime

----
(* Steps with which an operation is over.                                  *)

\* What is there afterwards was there before, or a failure left it.
Settles ==
    \A i \in Items : i[1] \in Own =>
        i \in debris' \/ host'[i] = 0 \/ (host'[i] = host[i] /\ i \notin debris)
Gone(x, t) == host'[Key(x, t)] = 0 \/ Key(x, t) \in debris'

LEMMA SettlesSafe ==
    ASSUME CleanInv, Settles
    PROVE  /\ AtMostOnce'
           /\ \A i \in Items : i[1] \in ToSet(LockdownRules) /\ (host[i] = 0 \/ i \in debris) =>
                  host'[i] = 0 \/ i \in debris'
<1>1. \A x \in ToSet(LockdownRules) : x \in Own
  BY DEF Own, Rules
<1>2. AtMostOnce'
  BY DEF CleanInv, AtMostOnce, Settles, Items, Key
<1>3. ASSUME NEW i \in Items, i[1] \in ToSet(LockdownRules), host[i] = 0 \/ i \in debris
      PROVE  host'[i] = 0 \/ i \in debris'
  BY <1>1, <1>3 DEF Settles
<1> QED BY <1>2, <1>3

\* A device stands for its rules as long as neither changes.
LEMMA StandsOn ==
    ASSUME Base, NEW t \in registry.tenants, TapStandsForRules(t),
           \A x \in TapParts : host'[Key(x, t)] = host[Key(x, t)],
           \A x \in TapParts : Key(x, t) \in debris /\ host[Key(x, t)] > 0 => Key(x, t) \in debris',
           t.name \in torn => t.name \in torn'
    PROVE  TapStandsForRules(t)'
<1>1. ASSUME NEW x \in TapParts
      PROVE  Key(x, t)' = Key(x, t) /\ Key(x, t) \in Items /\ host[Key(x, t)] \in Nat
  <2>1. x \in Own /\ Key(x, t) \in Items
    BY ThingSets, RegisteredFits DEF Base
  <2> QED BY <2>1 DEF Key, Base, HostTypeOK
<1>2. Has("tap", t)' = Has("tap", t)
  BY <1>1 DEF Has, TapParts
<1>3. \A r \in TapRules : (Made(r, t) => Made(r, t)') /\ (Clean(r, t) => Clean(r, t)')
  BY <1>1 DEF Made, Clean, TapParts
<1> QED BY <1>2, <1>3 DEF TapStandsForRules

LEMMA Ended ==
    ASSUME Base, CleanInv, NEW o \in Ops, Idles(o), UNCHANGED <<registry, lockdown>>, Settles,
           kind[o] \in {"spawn", "evict"} =>
              who[o] \in registry.tenants \/ \A x \in Own : Gone(x, who[o]),
           \A t \in registry.tenants : TapStandsForRules(t)'
    PROVE  CleanInv'
<1>1. kind'[o] = "none" /\ stage'[o] = 1 /\ step'[o] = 1 /\ undoing'[o] = FALSE
  BY DEF Idles, Base, HostTypeOK
<1>2. \A p \in Ops : p = o
  BY DEF Base, OneAtATime
<1>3. Progress(o)'
  BY <1>1 DEF Progress, OneTenant, AllKinds
<1>4. AtMostOnce'
  BY SettlesSafe
<1>5. Claimed'
  <2> SUFFICES ASSUME NEW i \in Items, i[1] \in Own, host'[i] > 0
               PROVE  i \in debris' \/ \E t \in registry'.tenants : i \in ItemsOf(t)
    BY DEF Claimed, ItemsOf, Items, Key
  <2>1. CASE i \in debris'
    BY <2>1
  <2>2. CASE host'[i] = host[i] /\ i \notin debris
    <3>1. CASE \E t \in registry.tenants : i \in ItemsOf(t)
      BY <3>1
    <3>2. CASE kind[o] \in {"spawn", "evict"} /\ i \in ItemsOf(who[o])
      <4>1. PICK x \in Own : i = Key(x, who[o])
        BY <3>2 DEF ItemsOf
      <4>2. Gone(x, who[o]) => i \in debris'
        BY <4>1, <2>2 DEF Gone
      <4> QED BY <3>2, <4>1, <4>2
    <3> QED BY <1>2, <2>2, <3>1, <3>2 DEF CleanInv, Claimed
  <2> QED BY <2>1, <2>2 DEF Settles
<1>6. NoLockdown'
  <2>1. kind'[o] \notin OneTenant
    BY <1>1 DEF OneTenant, AllKinds
  <2> SUFFICES ASSUME ~lockdown, NEW i \in Items, i[1] \in ToSet(LockdownRules)
               PROVE  host'[i] = 0 \/ i \in debris'
    BY <1>2, <2>1 DEF NoLockdown, Items, Key
  <2> QED BY SettlesSafe DEF CleanInv, NoLockdown
<1>7. Untended'
  BY DEF Untended
<1> QED BY <1>2, <1>3, <1>4, <1>5, <1>6, <1>7 DEF CleanInv

----
(* init and uninit.                                                        *)

\* They change nothing of a tenant, but that they remove it.
LEMMA HostWorks ==
    ASSUME HostTypeOK, NEW t, NEW k \in {"init", "uninit"}, NEW c \in HostCommand(k)
    PROVE  /\ \A i \in Items : i[1] \in Own => After(c, t)[i] \in {host[i], 0}
           /\ k = "init" => \A i \in Items : i[1] \in TapParts => After(c, t)[i] = host[i]
<1>1. c.act \in {"create", "make", "drop", "clear", "empty", "remove"} /\ c.thing \in Global
  BY DEF HostCommand
<1>2. host \in [Items -> Nat]
  BY DEF HostTypeOK
<1>3. ASSUME NEW i \in Items, i[1] \in Own PROVE i # Key(c.thing, t)
  BY <1>1, <1>3, KeyFacts, ThingSets
<1>4. CASE c.act \in {"create", "make", "drop", "clear", "remove"}
  <2>1. ASSUME NEW i \in Items, i[1] \in Own PROVE After(c, t)[i] = host[i]
    <3>1. i # Key(c.thing, t)
      BY <1>3, <2>1
    <3> QED BY <1>2, <1>4, <3>1 DEF After
  <2> QED BY <2>1, ThingSets
<1>5. CASE c.act = "empty"
  <2>1. After(c, t) = [i \in Items |-> IF In(i, c.thing) THEN 0 ELSE host[i]]
    BY <1>5 DEF After
  <2>2. ASSUME k = "init", NEW i \in Items, i[1] \in TapParts PROVE ~In(i, c.thing)
    <3>1. c.thing = "server"
      BY <1>5, <2>2 DEF HostCommand
    <3>2. \A x \in TapParts : Place(x) # "server"
      BY RuleSets DEF TapParts, TapRules, Place, Routes
    <3> QED BY <2>2, <3>1, <3>2 DEF In
  <2> QED BY <2>1, <2>2
<1> QED BY <1>1, <1>4, <1>5

\* Without tenants, and with nobody who works on one, all there is a failure left.
LEMMA NothingClaimed ==
    ASSUME Base, CleanInv, NEW o \in Ops, kind[o] = "uninit", NEW i \in Items, i[1] \in Own
    PROVE  host[i] = 0 \/ i \in debris
<1>1. registry.tenants = {}
  BY DEF CleanInv, Progress
<1>2. \A p \in Ops : kind[p] \notin {"spawn", "evict"}
  BY DEF Base, OneAtATime
<1>3. host[i] \in Nat
  BY DEF Base, HostTypeOK
<1> QED BY <1>1, <1>2, <1>3 DEF CleanInv, Claimed

LEMMA HostAt ==
    ASSUME Base, CleanInv, NEW o \in Ops, kind[o] \in {"init", "uninit"}, Busy(o)
    PROVE  Command1(o) \in HostCommand(kind[o]) /\ stage[o] = 1
<1>1. Progress(o) /\ kind[o] \in AllKinds \ {"spawn"}
  BY DEF CleanInv, AllKinds
<1>2. /\ locked[o] \in BOOLEAN /\ stage[o] = 1
      /\ Current(o) = Programs[kind[o]][locked[o]][1].do
  BY <1>1, OtherAt
<1>3. Current(o) \in Seq(HostCommand(kind[o]))
  BY <1>2, InitUninitFit
<1> QED BY <1>2, <1>3 DEF Busy, Command1

LEMMA HostSaved ==
    ASSUME Base, CleanInv, NEW o \in Ops, kind[o] \in {"init", "uninit"},
           NEW c \in HostCommand(kind[o])
    PROVE  /\ kind[o] = "init" => Saved(o, c) = registry /\ c.act # "clear"
           /\ kind[o] = "uninit" => Saved(o, c).tenants = {}
<1>1. c.act \notin {"mark", "save"}
  BY DEF HostCommand
<1>2. kind[o] = "init" => c.act # "clear"
  BY DEF HostCommand
<1>3. kind[o] = "uninit" => registry.tenants = {}
  BY DEF CleanInv, Progress
<1>4. Saved(o, c) = registry \/ Saved(o, c) = EmptyRegistry
  BY <1>1 DEF Saved
<1>5. kind[o] = "init" => Saved(o, c) = registry
  BY <1>1, <1>2 DEF Saved
<1> QED BY <1>2, <1>3, <1>4, <1>5 DEF EmptyRegistry

LEMMA HostAdvances ==
    ASSUME Base, CleanInv, NEW o \in Ops, kind[o] \in {"init", "uninit"}, Does(o) \/ Misses(o)
    PROVE  CleanInv'
<1>1. PICK c \in HostCommand(kind[o]) : c = Command1(o)
  BY HostAt DEF Does, Misses
<1>2. /\ host' = After(c, who[o]) \/ host' = host
      /\ registry' = Saved(o, c) \/ registry' = registry
      /\ lockdown' = lockdown \/ (c.act = "clear" /\ registry' = Saved(o, c))
      /\ debris \subseteq debris' /\ torn' = torn
      /\ step' = [step EXCEPT ![o] = @ + 1]
      /\ UNCHANGED <<kind, who, stage, undoing, read, locked>>
  <2>1. lockdown \in BOOLEAN
    BY DEF Base, HostTypeOK
  <2>2. CASE Does(o)
    BY <1>1, <2>1, <2>2 DEF Does, history
  <2>3. CASE Misses(o)
    BY <1>1, <2>3 DEF Misses
  <2> QED BY <2>2, <2>3
<1>3. /\ kind[o] = "init" => registry' = registry /\ lockdown' = lockdown
      /\ kind[o] = "uninit" => registry.tenants = {} /\ registry'.tenants = {}
  <2>1. kind[o] = "uninit" => registry.tenants = {}
    BY DEF CleanInv, Progress
  <2> QED BY <1>2, <2>1, HostSaved
<1>4. /\ \A i \in Items : i[1] \in Own => host'[i] \in {host[i], 0}
      /\ kind[o] = "init" => \A i \in Items : i[1] \in TapParts => host'[i] = host[i]
  BY <1>2, HostWorks DEF Base
<1>5. Settles
  BY <1>2, <1>4 DEF Settles
<1>6. \A p \in Ops : p = o
  BY DEF Base, OneAtATime
<1>7. Claimed'
  <2> SUFFICES ASSUME NEW i \in Items, i[1] \in Own, host'[i] > 0
               PROVE  i \in debris' \/ \E t \in registry'.tenants : i \in ItemsOf(t)
    BY DEF Claimed, ItemsOf, Items, Key
  <2>1. host[i] > 0
    BY <1>4
  <2>2. i \in debris \/ \E t \in registry.tenants : i \in ItemsOf(t)
    BY <1>6, <2>1 DEF CleanInv, Claimed
  <2> QED BY <1>2, <1>3, <2>2
<1>8. NoLockdown'
  <2>1. kind'[o] \notin OneTenant
    BY <1>2 DEF OneTenant
  <2> SUFFICES ASSUME ~lockdown', NEW i \in Items, i[1] \in ToSet(LockdownRules)
               PROVE  host'[i] = 0 \/ i \in debris'
    BY <1>6, <2>1 DEF NoLockdown, Items, Key
  <2>2. host[i] = 0 \/ i \in debris
    <3>1. i[1] \in Own
      BY DEF Own, Rules
    <3> QED BY <1>3, <3>1, NothingClaimed DEF CleanInv, NoLockdown
  <2> QED BY <1>5, <2>2, SettlesSafe
<1>9. Untended'
  <2> SUFFICES ASSUME NEW t \in registry'.tenants PROVE TapStandsForRules(t)'
    BY DEF Untended
  <2>1. kind[o] = "init" /\ t \in registry.tenants
    BY <1>3
  <2>2. TapStandsForRules(t)
    BY <1>6, <2>1 DEF CleanInv, Untended, Tended
  <2>3. \A x \in TapParts : host'[Key(x, t)] = host[Key(x, t)]
    BY <1>4, <2>1, ThingSets, RegisteredFits, KeyFacts DEF Base
  <2> QED BY <1>2, <2>1, <2>2, <2>3, StandsOn
<1>10. Progress(o)'
  <2>1. Progress(o)
    BY DEF CleanInv
  <2> QED BY <1>2, <1>3, <2>1 DEF Progress, OneTenant
<1> QED BY <1>5, <1>6, <1>7, <1>8, <1>9, <1>10, SettlesSafe DEF CleanInv

LEMMA HostBreaks ==
    ASSUME Base, CleanInv, NEW o \in Ops, kind[o] \in {"init", "uninit"}, Breaks(o)
    PROVE  CleanInv'
<1>1. PICK c \in HostCommand(kind[o]) : c = Command1(o)
  BY HostAt DEF Breaks
<1>2. /\ host' = After(c, who[o]) \/ host' = host
      /\ debris \subseteq debris' /\ torn' = torn /\ Idles(o) /\ UNCHANGED <<registry, lockdown>>
  <2>1. stage[o] = 1
    BY HostAt DEF Breaks
  <2> QED BY <1>1, <2>1 DEF Breaks
<1>3. /\ \A i \in Items : i[1] \in Own => host'[i] \in {host[i], 0}
      /\ kind[o] = "init" => \A i \in Items : i[1] \in TapParts => host'[i] = host[i]
  BY <1>2, HostWorks DEF Base
<1>4. Settles
  BY <1>2, <1>3 DEF Settles
<1>5. ASSUME NEW t \in registry.tenants PROVE TapStandsForRules(t)'
  <2>1. kind[o] = "init"
    BY DEF CleanInv, Progress
  <2>2. TapStandsForRules(t)
    BY DEF CleanInv, Untended, Tended, Base, OneAtATime
  <2>3. \A x \in TapParts : host'[Key(x, t)] = host[Key(x, t)]
    BY <1>3, <2>1, ThingSets, RegisteredFits, KeyFacts DEF Base
  <2> QED BY <1>2, <2>2, <2>3, StandsOn
<1> QED BY <1>2, <1>4, <1>5, Ended

----
(* A failure that is not ignored. What the commands of the stage were about*)
(* may be left.                                                            *)

\* No other registered tenant has the name of the one that is worked on.
LEMMA SameTenant ==
    ASSUME Base, NEW o \in Ops, kind[o] \in OneTenant, NEW t \in registry.tenants,
           t.name = who[o].name
    PROVE  t = who[o]
<1>1. /\ t \in read[o].tenants \cup {who[o]} /\ Sound(read[o])
      /\ kind[o] = "spawn" \/ who[o] \in read[o].tenants
  BY DEF Base, WorkInv, RegistryInv
<1>2. CASE kind[o] = "spawn"
  BY <1>1, <1>2 DEF Base, RegistryInv, Spawning
<1>3. CASE who[o] \in read[o].tenants
  BY <1>1, <1>3 DEF Sound
<1> QED BY <1>1, <1>2, <1>3

LEMMA BreaksMenu ==
    ASSUME Base, CleanInv, NEW o \in Ops, kind[o] \in OneTenant, Breaks(o),
           NEW c, c = Command1(o)
    PROVE  /\ Busy(o) /\ Progress(o) /\ Menu(o, c) /\ Works(o, c) /\ ~undoing[o] /\ ~c.soft
           /\ \A x \in Own, acts \in {Changing, Adding, Taking} :
                  x \in About(Current(o), acts) => Key(x, who[o]) \in debris'
           /\ c.thing \in Own => Key(c.thing, who[o]) \in debris'
           /\ kind[o] = "spawn" => who[o] \notin registry.tenants
<1>1. Busy(o) /\ Progress(o) /\ ~c.soft
  BY DEF Breaks, CleanInv
<1>2. Menu(o, c)
  BY <1>1, SpawnMenu, OtherMenu
<1>3. Works(o, c)
  BY <1>2 DEF Breaks, Works, Menu
<1>4. ~undoing[o]
  <2>1. kind[o] = "spawn" /\ undoing[o] => c \in Remover
    BY <1>1, SpawnMenu
  <2>2. kind[o] # "spawn" => ~undoing[o]
    BY <1>1 DEF Progress
  <2> QED BY <1>1, <2>1, <2>2 DEF Remover
<1>5. \A d \in ToSet(Current(o)) : d.thing \in Own => Key(d.thing, who[o]) \in debris'
  BY WhoFits DEF Breaks
<1>6. ASSUME NEW x \in Own, NEW acts, x \in About(Current(o), acts)
      PROVE  Key(x, who[o]) \in debris'
  <2>1. PICK i \in DOMAIN Current(o) : x = Current(o)[i].thing
    BY <1>6 DEF About
  <2>2. Current(o)[i] \in ToSet(Current(o))
    BY <2>1 DEF ToSet
  <2> QED BY <1>5, <2>1, <2>2
<1>7. c \in ToSet(Current(o))
  BY <1>1 DEF Busy, Command1, ToSet
<1>8. kind[o] = "spawn" => who[o] \notin registry.tenants
  <2> SUFFICES ASSUME kind[o] = "spawn" PROVE who[o] \notin registry.tenants
    OBVIOUS
  <2>1. stage[o] = 9 => step[o] = 1
    BY <1>1, <1>4, SpawnMenu
  <2> QED BY <1>1, <2>1 DEF Progress, SpawnProgress
<1> QED BY <1>1, <1>2, <1>3, <1>4, <1>5, <1>6, <1>7, <1>8

\* What was not there is not, or may be left.
LEMMA BreaksGone ==
    ASSUME Base, CleanInv, NEW o \in Ops, kind[o] \in OneTenant, Breaks(o),
           NEW x \in Own, Clean(x, who[o])
    PROVE  Gone(x, who[o])
<1>1. PICK c : c = Command1(o)
  OBVIOUS
<1>2. Works(o, c) /\ (c.thing \in Own => Key(c.thing, who[o]) \in debris')
  BY <1>1, BreaksMenu
<1>3. Key(x, who[o]) \in Items
  BY WhoFits
<1>4. CASE x = c.thing
  BY <1>2, <1>4 DEF Gone
<1>5. CASE x # c.thing
  <2>1. host'[Key(x, who[o])] = host[Key(x, who[o])]
    BY <1>2, <1>3, <1>5, WorksHere, KeyFacts
  <2> QED BY <1>2, <2>1 DEF Clean, Gone, Works
<1> QED BY <1>4, <1>5

\* Rules of lockdown that an operation does not know of are not there.
LEMMA NoneUnlocked ==
    ASSUME Base, CleanInv, NEW o \in Ops, kind[o] \in OneTenant, ~locked[o],
           NEW x \in ToSet(LockdownRules)
    PROVE  Clean(x, who[o])
<1>1. x \in Own /\ Key(x, who[o]) \in Items /\ Key(x, who[o])[1] = x
  BY WhoFits, KeyFacts DEF Own, Rules
<1> QED BY <1>1 DEF CleanInv, NoLockdown, Clean

\* A spawn that breaks leaves only things of the stage, and what earlier stages made.
LEMMA SpawnBreaksGone ==
    ASSUME Base, CleanInv, NEW o \in Ops, kind[o] = "spawn", Breaks(o),
           NEW x \in Own, Home[x] >= stage[o]
    PROVE  Gone(x, who[o])
<1>1. /\ kind[o] \in OneTenant /\ ~undoing[o] /\ Progress(o)
      /\ \A y \in Own : y \in About(Current(o), Changing) => Key(y, who[o]) \in debris'
  BY BreaksMenu DEF OneTenant, AllKinds
<1>2. stage[o] \in 1 .. 9 /\ StageFits(Program(o)[stage[o]], stage[o], locked[o])
  BY SpawnAt
<1>3. Current(o) = Program(o)[stage[o]].do
  BY <1>1 DEF Current
<1>4. CASE Home[x] > stage[o]
  <2>1. Clean(x, who[o])
    BY <1>1, <1>4 DEF Progress, SpawnProgress
  <2> QED BY <1>1, <2>1, BreaksGone
<1>5. CASE Home[x] = stage[o] /\ x \in Parts(locked[o])
  <2>1. x \in About(Current(o), Changing)
    BY <1>2, <1>3, <1>5 DEF StageFits, MadeIn
  <2> QED BY <1>1, <2>1 DEF Gone
<1>6. CASE x \notin Parts(locked[o])
  <2>1. ~locked[o] /\ x \in ToSet(LockdownRules)
    BY <1>6 DEF Parts
  <2> QED BY <1>1, <2>1, NoneUnlocked, BreaksGone
<1>7. Home[x] \in 1 .. 8
  BY ThingSets
<1> QED BY <1>2, <1>4, <1>5, <1>6, <1>7

\* It goes back to the stage before.
LEMMA SpawnUndoes ==
    ASSUME Base, Base', CleanInv, NEW o \in Ops, kind[o] = "spawn", Breaks(o), stage[o] # 1
    PROVE  CleanInv'
<1>1. PICK c : c = Command1(o)
  OBVIOUS
<1>2. /\ kind[o] \in OneTenant /\ Progress(o) /\ Menu(o, c) /\ Works(o, c)
      /\ who[o] \notin registry.tenants
  BY <1>1, BreaksMenu DEF OneTenant, AllKinds
<1>3. /\ stage'[o] = stage[o] - 1 /\ step'[o] = 1 /\ undoing'[o] = TRUE
      /\ UNCHANGED <<kind, who, read, locked, registry, lockdown, torn>>
  BY DEF Breaks, Undoes, Base, HostTypeOK
<1>4. \A p \in Ops : p = o
  BY DEF Base, OneAtATime
<1>5. AtMostOnce'
  BY <1>2, WorksAtMostOnce DEF Menu, CleanInv
<1>6. Claimed'
  BY <1>2, <1>3, WorksClaimed DEF CleanInv
<1>7. NoLockdown'
  BY <1>2, <1>3, WorksNoLockdown DEF Menu, CleanInv
<1>8. Untended'
  <2> SUFFICES ASSUME NEW t \in registry.tenants PROVE TapStandsForRules(t)'
    BY <1>3 DEF Untended
  <2>1. t.name # who[o].name
    BY <1>2, SameTenant
  <2>2. TapStandsForRules(t)
    BY <1>4, <2>1 DEF CleanInv, Untended, Tended
  <2> QED BY <1>2, <1>3, <2>1, <2>2, OthersStand
<1>9. SpawnProgress(o)'
  <2>1. stage[o] \in 1 .. 9 /\ stage'[o] \in 1 .. 8
    BY <1>3, SpawnAt
  <2>2. ASSUME NEW x \in Own, Home[x] > stage[o] - 1 PROVE Clean(x, who[o])'
    <3>1. Home[x] >= stage[o]
      BY <2>1, <2>2, ThingSets
    <3>2. Gone(x, who[o])
      BY <3>1, SpawnBreaksGone
    <3> QED BY <1>3, <3>2 DEF Gone, Clean, Key
  <2>3. Takes(o)'
    <3>1. kind'[o] = "spawn" /\ Program(o)' = Program(o) /\ locked[o] \in BOOLEAN
      BY <1>3 DEF Program, Base, HostTypeOK
    <3>2. StageFits(Program(o)[stage'[o]], stage'[o], locked[o])
      BY <2>1, SpawnAt
    <3>3. Current(o)' = Program(o)[stage'[o]].undo
      BY <1>3, <3>1 DEF Current
    <3>4. Current(o)' \in Seq(Remover)
      BY <3>2, <3>3 DEF StageFits
    <3>5. \A m \in DOMAIN Current(o)' : ~(m < 1)
      BY <3>4
    <3>6. step'[o] = 1
      BY <1>3
    <3> QED BY Zenon, <3>5, <3>6 DEF Takes
  <2> QED BY <1>2, <1>3, <2>1, <2>2, <2>3 DEF SpawnProgress, Clean
<1>10. Progress(o)'
  BY <1>2, <1>3, <1>9 DEF Progress, OneTenant, AllKinds
<1> QED BY <1>4, <1>5, <1>6, <1>7, <1>8, <1>10 DEF CleanInv

\* An operation of one stage, or a spawn in its first, ends when it breaks.
LEMMA BreaksEnds ==
    ASSUME Base, CleanInv, NEW o \in Ops, kind[o] \in OneTenant, Breaks(o), stage[o] = 1
    PROVE  CleanInv'
<1>1. PICK c : c = Command1(o)
  OBVIOUS
<1>2. /\ Busy(o) /\ Progress(o) /\ Menu(o, c) /\ Works(o, c) /\ ~undoing[o]
      /\ \A x \in Own, acts \in {Changing, Adding, Taking} :
             x \in About(Current(o), acts) => Key(x, who[o]) \in debris'
      /\ c.thing \in Own => Key(c.thing, who[o]) \in debris'
      /\ kind[o] = "spawn" => who[o] \notin registry.tenants
  BY <1>1, BreaksMenu
<1>3. /\ Idles(o) /\ UNCHANGED <<registry, lockdown>> /\ debris \subseteq debris'
      /\ torn' = IF kind[o] \in {"repairTap", "evict"} THEN torn \cup {who[o].name} ELSE torn
  BY DEF Breaks
<1>4. Settles
  <2> SUFFICES ASSUME NEW i \in Items, i[1] \in Own
               PROVE  i \in debris' \/ host'[i] = 0 \/ (host'[i] = host[i] /\ i \notin debris)
    BY DEF Settles
  <2>1. CASE i = Key(c.thing, who[o])
    BY <1>2, <2>1, KeyFacts
  <2>2. CASE i # Key(c.thing, who[o])
    BY <1>2, <1>3, <2>2, WorksHere
  <2> QED BY <2>1, <2>2
<1>5. kind[o] = "spawn" => \A x \in Own : Gone(x, who[o])
  <2>1. \A x \in Own : Home[x] >= 1
    BY ThingSets
  <2> QED BY <2>1, SpawnBreaksGone
<1>6. ASSUME kind[o] = "evict", NEW x \in Own PROVE Gone(x, who[o])
  <2>1. locked[o] \in BOOLEAN /\ Current(o) = Programs["evict"][locked[o]][1].do
    BY <1>2, <1>6, OtherAt DEF AllKinds
  <2>2. CASE x \in Parts(locked[o])
    <3>1. x \in About(Current(o), Taking)
      BY <2>1, <2>2, EvictFits
    <3> QED BY <1>2, <3>1 DEF Gone
  <2>3. CASE x \notin Parts(locked[o])
    <3>1. ~locked[o] /\ x \in ToSet(LockdownRules)
      BY <2>3 DEF Parts
    <3> QED BY <3>1, NoneUnlocked, BreaksGone
  <2> QED BY <2>2, <2>3
<1>7. ASSUME kind[o] = "repairTap", NEW x \in TapParts PROVE Gone(x, who[o])
  <2>1. locked[o] \in BOOLEAN /\ Current(o) = Programs["repairTap"][locked[o]][1].do
    BY <1>2, <1>7, OtherAt DEF AllKinds
  <2>2. x \in About(Current(o), Adding) /\ x \in Own
    BY <1>7, <2>1, RepairTapFits, ThingSets
  <2> QED BY <1>2, <2>2 DEF Gone
<1>8. ASSUME NEW t \in registry.tenants PROVE TapStandsForRules(t)'
  <2>1. CASE t.name # who[o].name \/ kind[o] = "repairCaddyRoute"
    <3>1. TapStandsForRules(t)
      BY <2>1 DEF CleanInv, Untended, Tended, Base, OneAtATime
    <3>2. kind[o] = "repairCaddyRoute" => c.thing \notin TapParts
      <4>1. \A x \in Routes : x \notin TapParts
        BY RuleSets DEF Routes, TapParts, TapRules
      <4> QED BY <1>2, <4>1 DEF Menu
    <3>3. torn \subseteq torn'
      BY <1>3
    <3> QED BY <1>2, <2>1, <3>1, <3>2, <3>3, OthersStand
  <2>2. CASE t.name = who[o].name /\ kind[o] \in {"evict", "repairTap"}
    <3>1. t = who[o] /\ t.name \in torn'
      BY <1>3, <2>2, SameTenant
    <3>2. \A r \in TapRules : r \in TapParts /\ r \in Own
      BY ThingSets DEF TapParts
    <3>3. \A r \in TapRules : Gone(r, t)
      BY <1>6, <1>7, <2>2, <3>1, <3>2
    <3> QED BY <3>1, <3>3 DEF TapStandsForRules, Gone, Clean, Key
  <2>3. CASE t.name = who[o].name /\ kind[o] = "spawn"
    BY <1>2, <2>3, SameTenant
  <2> QED BY <2>1, <2>2, <2>3 DEF OneTenant, AllKinds
<1> QED BY <1>3, <1>4, <1>5, <1>6, <1>8, Ended

LEMMA TenantBreaks ==
    ASSUME Base, Base', CleanInv, NEW o \in Ops, kind[o] \in OneTenant, Breaks(o)
    PROVE  CleanInv'
<1>1. kind[o] # "spawn" => stage[o] = 1
  BY DEF CleanInv, Progress
<1> QED BY <1>1, SpawnUndoes, BreaksEnds

----
(* The end of a stage.                                                     *)

\* All commands of the stage are done.
LEMMA StageDone ==
    ASSUME Base, NEW o \in Ops, ~Busy(o), kind[o] # "none", NEW S, Current(o) \in Seq(S)
    PROVE  /\ \A m \in DOMAIN Current(o) : m < step[o]
           /\ step[o] > Len(Current(o))
<1>1. step[o] \in Nat \ {0} /\ step[o] \notin DOMAIN Current(o)
  BY DEF Busy, Base, HostTypeOK
<1>2. Len(Current(o)) \in Nat /\ DOMAIN Current(o) = 1 .. Len(Current(o))
  OBVIOUS
<1> QED BY <1>1, <1>2

\* What a stage of the rollback was to remove is gone.
LEMMA SpawnUndone ==
    ASSUME Base, CleanInv, NEW o \in Ops, kind[o] = "spawn", ~Busy(o), undoing[o],
           NEW x \in Own, Home[x] >= stage[o]
    PROVE  Clean(x, who[o])
<1>1. SpawnProgress(o) /\ Takes(o) /\ kind[o] \in OneTenant
  BY DEF CleanInv, Progress, SpawnProgress, OneTenant, AllKinds
<1>2. stage[o] \in 1 .. 9 /\ StageFits(Program(o)[stage[o]], stage[o], locked[o])
  BY SpawnAt
<1>3. Current(o) = Program(o)[stage[o]].undo
  BY DEF Current
<1>4. Current(o) \in Seq(Remover)
  BY <1>2, <1>3 DEF StageFits
<1>5. \A m \in DOMAIN Current(o) : m < step[o]
  BY <1>4, StageDone
<1>6. CASE Home[x] > stage[o]
  BY <1>1, <1>6 DEF SpawnProgress
<1>7. CASE Home[x] = stage[o] /\ x \in Parts(locked[o])
  <2>1. x \in About(Current(o), Taking)
    BY <1>2, <1>3, <1>7 DEF StageFits, MadeIn
  <2> QED BY <1>1, <1>5, <2>1 DEF About, Takes
<1>8. CASE x \notin Parts(locked[o])
  <2>1. ~locked[o] /\ x \in ToSet(LockdownRules)
    BY <1>8 DEF Parts
  <2> QED BY <1>1, <2>1, NoneUnlocked
<1>9. Home[x] \in 1 .. 8
  BY ThingSets
<1> QED BY <1>2, <1>6, <1>7, <1>8, <1>9

\* The rollback of the stage before.
LEMMA SpawnGoesBack ==
    ASSUME Base, Base', CleanInv, NEW o \in Ops, kind[o] = "spawn", ~Busy(o), undoing[o], stage[o] # 1,
           stage'[o] = stage[o] - 1, step'[o] = 1,
           UNCHANGED <<host, registry, kind, who, undoing, read, locked, debris>>
    PROVE  SpawnProgress(o)'
<1>1. stage[o] \in 1 .. 9 /\ stage'[o] \in 1 .. 8 /\ undoing'[o] = TRUE
  BY SpawnAt
<1>2. who'[o] \notin registry'.tenants
  BY DEF CleanInv, Progress, SpawnProgress
<1>3. ASSUME NEW x \in Own, Home[x] > stage[o] - 1 PROVE Clean(x, who[o])'
  <2>1. Home[x] >= stage[o]
    BY <1>1, <1>3, ThingSets
  <2>2. Clean(x, who[o])
    BY <2>1, SpawnUndone
  <2> QED BY <2>2 DEF Clean, Key
<1>4. Takes(o)'
  <2>1. Program(o)' = Program(o) /\ locked[o] \in BOOLEAN
    BY DEF Program, Base, HostTypeOK
  <2>2. StageFits(Program(o)[stage'[o]], stage'[o], locked[o])
    BY <1>1, SpawnAt
  <2>3. Current(o)' = Program(o)[stage'[o]].undo
    BY <1>1, <2>1 DEF Current
  <2>4. Current(o)' \in Seq(Remover)
    BY <2>2, <2>3 DEF StageFits
  <2>5. \A m \in DOMAIN Current(o)' : ~(m < 1)
    BY <2>4
  <2> QED BY Zenon, <2>5 DEF Takes
<1> QED BY <1>1, <1>2, <1>3, <1>4 DEF SpawnProgress, Clean

\* What a stage was to add is there.
LEMMA SpawnStageMade ==
    ASSUME Base, CleanInv, NEW o \in Ops, kind[o] = "spawn", ~Busy(o), ~undoing[o],
           NEW x \in TapParts, Home[x] <= stage[o]
    PROVE  Made(x, who[o])
<1>1. SpawnProgress(o) /\ Adds(o)
  BY DEF CleanInv, Progress, SpawnProgress
<1>2. stage[o] \in 1 .. 9 /\ StageFits(Program(o)[stage[o]], stage[o], locked[o])
  BY SpawnAt
<1>3. Current(o) = Program(o)[stage[o]].do
  BY DEF Current
<1>4. x \in Own /\ Home[x] \in 1 .. 8
  BY ThingSets
<1>5. CASE Home[x] < stage[o]
  BY <1>1, <1>5 DEF SpawnProgress
<1>6. CASE Home[x] = stage[o]
  <2>1. stage[o] # 9 /\ x \in About(Current(o), Adding)
    BY <1>2, <1>3, <1>4, <1>6 DEF StageFits, MadeIn
  <2>2. PICK S : S = Builder(MadeIn(stage[o]) \cap Parts(locked[o]))
    OBVIOUS
  <2>3. Current(o) \in Seq(S)
    BY <1>2, <1>3, <2>1, <2>2, Zenon DEF StageFits
  <2>4. \A m \in DOMAIN Current(o) : m < step[o]
    BY <2>3, StageDone
  <2> QED BY <1>1, <2>1, <2>4 DEF About, Adds
<1> QED BY <1>2, <1>4, <1>5, <1>6

\* The next stage.
LEMMA SpawnGoesOn ==
    ASSUME Base, Base', CleanInv, NEW o \in Ops, kind[o] = "spawn", ~Busy(o), ~undoing[o],
           stage[o] # 9, stage'[o] = stage[o] + 1, step'[o] = 1,
           UNCHANGED <<host, registry, kind, who, undoing, read, locked, debris>>
    PROVE  SpawnProgress(o)'
<1>1. stage[o] \in 1 .. 9 /\ stage'[o] \in 1 .. 9 /\ undoing'[o] = undoing[o]
  BY SpawnAt
<1>2. SpawnProgress(o)
  BY DEF CleanInv, Progress
<1>3. who'[o] \notin registry'.tenants
  BY <1>2 DEF SpawnProgress
<1>4. ASSUME NEW x \in Own, Home[x] > stage[o] PROVE Clean(x, who[o])'
  <2>1. Clean(x, who[o])
    BY <1>2, <1>4 DEF SpawnProgress
  <2> QED BY <2>1 DEF Clean, Key
<1>5. ASSUME NEW x \in Own, Home[x] > stage[o] + 1 PROVE Home[x] > stage[o]
  BY <1>1, <1>5, ThingSets
<1>6. ASSUME NEW x \in TapParts, Home[x] < stage[o] + 1 PROVE Made(x, who[o])'
  <2>1. Home[x] <= stage[o]
    BY <1>1, <1>6, ThingSets
  <2>2. Made(x, who[o])
    BY <2>1, SpawnStageMade
  <2> QED BY <2>2 DEF Made, Key
<1>7. Adds(o)'
  <2>1. Program(o)' = Program(o) /\ locked[o] \in BOOLEAN
    BY DEF Program, Base, HostTypeOK
  <2>2. PICK s : s = Program(o)[stage'[o]].do
    OBVIOUS
  <2>3. Current(o)' = s
    BY <1>1, <2>1, <2>2 DEF Current
  <2>4. StageFits(Program(o)[stage'[o]], stage'[o], locked[o])
    BY <1>1, SpawnAt
  <2>5. CASE stage'[o] # 9
    <3>1. PICK parts : parts = MadeIn(stage'[o]) \cap Parts(locked[o])
      OBVIOUS
    <3>2. s \in Seq(Builder(parts))
      BY <2>2, <2>4, <2>5, <3>1, Zenon DEF StageFits
    <3>3. ASSUME NEW m \in DOMAIN s, s[m].act = "append" PROVE Clean(s[m].thing, who[o])'
      <4>1. s[m] \in Builder(parts)
        BY <3>2
      <4>2. s[m].thing \in parts
        BY <3>3, <4>1 DEF Builder
      <4>3. s[m].thing \in Own /\ Home[s[m].thing] = stage[o] + 1
        BY <3>1, <4>2 DEF MadeIn
      <4>4. Home[s[m].thing] > stage[o]
        BY <1>1, <4>3
      <4> QED BY <1>4, <4>3, <4>4
    <3>4. \A m \in DOMAIN s : ~(m < 1)
      BY <3>2
    <3> QED BY Zenon, <2>3, <3>3, <3>4 DEF Adds, Clean
  <2>6. CASE stage'[o] = 9
    <3>1. s = <<Hard("save", "config-dir")>>
      BY <2>2, <2>4, <2>6 DEF StageFits
    <3> QED BY <2>3, <3>1 DEF Adds, Hard, Adding
  <2> QED BY <2>5, <2>6
<1> QED BY <1>1, <1>3, <1>4, <1>5, <1>6, <1>7 DEF SpawnProgress, Clean, Made

\* A stage is over, and the operation is not.
LEMMA StageMoves ==
    ASSUME Base, Base', CleanInv, NEW o \in Ops, kind[o] # "none", StageEnds(o),
           stage[o] # (IF undoing[o] THEN 1 ELSE Len(Program(o)))
    PROVE  CleanInv'
<1>1. /\ ~Busy(o) /\ Progress(o) /\ undoing[o] \in BOOLEAN /\ locked[o] \in BOOLEAN
      /\ UNCHANGED <<host, registry, lockdown, kind, who, undoing, read, locked, debris, torn>>
      /\ stage'[o] = (IF undoing[o] THEN stage[o] - 1 ELSE stage[o] + 1) /\ step'[o] = 1
  BY DEF StageEnds, CleanInv, Base, HostTypeOK
<1>2. kind[o] = "spawn"
  <2>1. kind[o] \in AllKinds /\ (kind[o] # "spawn" => stage[o] = 1 /\ ~undoing[o])
    BY <1>1 DEF Progress, Base, HostTypeOK
  <2>2. Program(o) = Programs[kind[o]][locked[o]]
    BY DEF Program
  <2>3. kind[o] # "spawn" => Len(Program(o)) = 1
    BY <1>1, <2>1, <2>2, EvictFits, RepairTapFits, RepairRoutesFit, InitUninitFit DEF AllKinds
  <2> QED BY <2>1, <2>3
<1>3. Len(Program(o)) = 9
  BY <1>2, SpawnAt
<1>4. SpawnProgress(o)'
  <2>1. CASE undoing[o]
    BY <1>1, <1>2, <2>1, SpawnGoesBack
  <2>2. CASE ~undoing[o]
    BY <1>1, <1>2, <1>3, <2>2, SpawnGoesOn
  <2> QED BY <2>1, <2>2
<1>5. Progress(o)'
  BY <1>1, <1>2, <1>4 DEF Progress, OneTenant, AllKinds
<1>6. AtMostOnce' /\ Claimed' /\ NoLockdown'
  BY <1>1 DEF CleanInv, AtMostOnce, Claimed, NoLockdown, ItemsOf, Items, Key
<1>7. Untended'
  BY <1>1 DEF CleanInv, Untended, Tended, TapStandsForRules, Has, Made, Clean, Key
<1> QED BY <1>5, <1>6, <1>7 DEF CleanInv, Base, OneAtATime

\* What the last stage leaves: of a spawn that was undone, and of an evict, nothing.
LEMMA EvictLeavesNothing ==
    ASSUME Base, CleanInv, NEW o \in Ops, kind[o] = "evict", ~Busy(o)
    PROVE  /\ \A x \in Own : Clean(x, who[o])
           /\ \A t \in registry.tenants : t.name # who[o].name
<1>1. Progress(o) /\ Takes(o) /\ kind[o] \in OneTenant
  BY DEF CleanInv, Progress, EvictProgress, OneTenant, AllKinds
<1>2. locked[o] \in BOOLEAN /\ Current(o) = Programs["evict"][locked[o]][1].do
  BY <1>1, OtherAt DEF AllKinds
<1>3. Current(o) \in Seq(Remover \cup Saver) /\ Parts(locked[o]) \subseteq About(Current(o), Taking)
  BY <1>2, EvictFits
<1>4. (\A m \in DOMAIN Current(o) : m < step[o]) /\ step[o] > Len(Current(o))
  BY <1>3, StageDone
<1>5. ASSUME NEW x \in Own PROVE Clean(x, who[o])
  <2>1. CASE x \in Parts(locked[o])
    <3>1. x \in About(Current(o), Taking)
      BY <1>3, <2>1
    <3> QED BY <1>1, <1>4, <3>1 DEF About, Takes
  <2>2. CASE x \notin Parts(locked[o])
    <3>1. ~locked[o] /\ x \in ToSet(LockdownRules)
      BY <2>2 DEF Parts
    <3> QED BY <1>1, <3>1, NoneUnlocked
  <2> QED BY <2>1, <2>2
<1> QED BY <1>1, <1>4, <1>5 DEF Progress, EvictProgress

LEMMA RepairMakesAll ==
    ASSUME Base, CleanInv, NEW o \in Ops, kind[o] = "repairTap", ~Busy(o), NEW x \in TapParts
    PROVE  Made(x, who[o])
<1>1. Progress(o) /\ Adds(o)
  BY DEF CleanInv, Progress
<1>2. locked[o] \in BOOLEAN /\ Current(o) = Programs["repairTap"][locked[o]][1].do
  BY <1>1, OtherAt DEF AllKinds
<1>3. Current(o) \in Seq(Builder(TapParts)) /\ x \in About(Current(o), Adding)
  BY <1>2, RepairTapFits
<1>4. \A m \in DOMAIN Current(o) : m < step[o]
  BY <1>3, StageDone
<1> QED BY <1>1, <1>3, <1>4 DEF About, Adds

LEMMA SpawnRegistered ==
    ASSUME Base, CleanInv, NEW o \in Ops, kind[o] = "spawn", ~Busy(o), ~undoing[o], stage[o] = 9
    PROVE  who[o] \in registry.tenants /\ \A x \in TapParts : Made(x, who[o])
<1>1. SpawnProgress(o)
  BY DEF CleanInv, Progress
<1>2. Current(o) = <<Hard("save", "config-dir")>>
  BY SpawnAt DEF StageFits, Current
<1>3. step[o] > 1
  BY <1>2, SpawnAt DEF Busy
<1>4. \A x \in TapParts : Home[x] <= 9
  BY ThingSets
<1> QED BY <1>1, <1>3, <1>4, SpawnStageMade DEF SpawnProgress

\* An operation is over.
LEMMA StageFinishes ==
    ASSUME Base, CleanInv, NEW o \in Ops, kind[o] # "none", ~Busy(o),
           stage[o] = (IF undoing[o] THEN 1 ELSE Len(Program(o))),
           Ends(o), UNCHANGED <<host, registry, lockdown>>
    PROVE  CleanInv'
<1>1. /\ Progress(o) /\ Idles(o) /\ kind[o] \in AllKinds
      /\ torn' = IF kind[o] \in {"evict", "repairTap"} THEN torn \ {who[o].name} ELSE torn
      /\ debris' = {i \in debris \cap Items : host[i] > 0} /\ host \in [Items -> Nat]
  BY DEF CleanInv, Ends, Left, Base, HostTypeOK
<1>2. Settles
  BY <1>1 DEF Settles
<1>3. \A x, t : Key(x, t) \in Items /\ Clean(x, t) => Gone(x, t)
  BY <1>1 DEF Clean, Gone
<1>4. kind[o] = "spawn" => (undoing[o] /\ stage[o] = 1) \/ (~undoing[o] /\ stage[o] = 9)
  <2> SUFFICES ASSUME kind[o] = "spawn"
               PROVE  (undoing[o] /\ stage[o] = 1) \/ (~undoing[o] /\ stage[o] = 9)
    OBVIOUS
  <2>1. Len(Program(o)) = 9
    BY SpawnAt
  <2>2. CASE undoing[o]
    BY <2>2
  <2>3. CASE ~undoing[o]
    BY <2>1, <2>3
  <2> QED BY <2>2, <2>3
<1>5. ASSUME kind[o] = "spawn", undoing[o], stage[o] = 1, NEW x \in Own PROVE Clean(x, who[o])
  <2>1. Home[x] >= stage[o]
    BY <1>5, ThingSets
  <2> QED BY <1>5, <2>1, SpawnUndone
<1>6. kind[o] \in {"spawn", "evict"} =>
          who[o] \in registry.tenants \/ \A x \in Own : Gone(x, who[o])
  <2> SUFFICES ASSUME kind[o] \in {"spawn", "evict"}
               PROVE  who[o] \in registry.tenants \/ \A x \in Own : Gone(x, who[o])
    OBVIOUS
  <2>1. \A x \in Own : Key(x, who[o]) \in Items
    BY WhoFits DEF OneTenant, AllKinds
  <2>2. CASE kind[o] = "evict"
    BY <1>3, <2>1, <2>2, EvictLeavesNothing
  <2>3. CASE kind[o] = "spawn"
    BY <1>3, <1>4, <1>5, <2>1, <2>3, SpawnRegistered
  <2> QED BY <2>2, <2>3
<1>7. ASSUME NEW t \in registry.tenants PROVE TapStandsForRules(t)'
  <2>1. /\ \A x \in TapParts : host'[Key(x, t)] = host[Key(x, t)]
        /\ \A x \in TapParts : Key(x, t) \in debris /\ host[Key(x, t)] > 0 => Key(x, t) \in debris'
    <3>1. \A x \in TapParts : Key(x, t) \in Items
      BY ThingSets, RegisteredFits DEF Base
    <3> QED BY <1>1, <3>1
  <2>2. CASE t.name = who[o].name /\ kind[o] \in {"spawn", "repairTap"}
    <3>1. t = who[o]
      BY <2>2, SameTenant DEF OneTenant, AllKinds
    <3>2. kind[o] = "spawn" => ~undoing[o] /\ stage[o] = 9
      BY <1>1, <1>4, <3>1 DEF Progress, SpawnProgress
    <3>3. \A x \in TapParts : Made(x, t)
      BY <2>2, <3>1, <3>2, SpawnRegistered, RepairMakesAll
    <3>4. \A x \in TapParts : Made(x, t)'
      BY <3>3 DEF Made, Key
    <3>5. Has("tap", t)' /\ \A r \in TapRules : Made(r, t)'
      <4>1. host'[Key("tap", t)] \in Nat
        BY <1>1, RegisteredFits, ThingSets DEF Base, TapParts
      <4>2. host'[Key("tap", t)] >= 1
        BY <3>4 DEF Made, TapParts, Key
      <4>3. Has("tap", t)'
        BY <4>1, <4>2 DEF Has, Key
      <4> QED BY <3>4, <4>3 DEF TapParts
    <3> QED BY <3>5 DEF TapStandsForRules
  <2>3. CASE t.name = who[o].name /\ kind[o] = "evict"
    BY <2>3, EvictLeavesNothing
  <2>4. CASE t.name # who[o].name \/ kind[o] \notin {"spawn", "evict", "repairTap"}
    <3>1. TapStandsForRules(t)
      BY <2>4 DEF CleanInv, Untended, Tended, Base, OneAtATime
    <3>2. t.name \in torn => t.name \in torn'
      BY <1>1, <2>4
    <3> QED BY <2>1, <3>1, <3>2, StandsOn
  <2> QED BY <2>2, <2>3, <2>4
<1> QED BY <1>1, <1>2, <1>6, <1>7, Ended

LEMMA StageEndsClean ==
    ASSUME Base, Base', CleanInv, NEW o \in Ops, StageEnds(o)
    PROVE  CleanInv'
<1>1. kind[o] # "none" /\ ~Busy(o) /\ UNCHANGED <<host, registry, lockdown>>
  BY DEF StageEnds
<1>2. CASE stage[o] = (IF undoing[o] THEN 1 ELSE Len(Program(o)))
  <2>1. Ends(o)
    BY <1>2 DEF StageEnds
  <2> QED BY <1>1, <1>2, <2>1, StageFinishes
<1>3. CASE stage[o] # (IF undoing[o] THEN 1 ELSE Len(Program(o)))
  BY <1>1, <1>3, StageMoves
<1> QED BY <1>2, <1>3

----
(* An operation that is killed, and a restart of the host.                 *)

LEMMA DiesClean ==
    ASSUME Base, CleanInv, NEW o \in Ops, Dies(o)
    PROVE  CleanInv'
<1>1. /\ Idles(o) /\ kind[o] \in AllKinds /\ UNCHANGED <<host, registry, lockdown>>
      /\ torn' = torn \cup {who[o].name} /\ host \in [Items -> Nat]
      /\ \A i \in Items : i \in debris \cup ItemsOf(who[o]) /\ host[i] > 0 => i \in debris'
  BY DEF Dies, Left, Base, HostTypeOK
<1>2. Settles
  BY <1>1 DEF Settles
<1>3. kind[o] \in OneTenant => \A x \in Own : Key(x, who[o]) \in Items /\ Gone(x, who[o])
  BY <1>1, WhoFits DEF Gone
<1>4. ASSUME NEW t \in registry.tenants PROVE TapStandsForRules(t)'
  <2>1. \A x \in TapParts : Key(x, t) \in Items /\ x \in Own
    BY ThingSets, RegisteredFits DEF Base
  <2>2. CASE Tended(t)
    <3>1. t.name = who[o].name /\ kind[o] \in OneTenant
      BY <2>2 DEF Tended, Base, OneAtATime, OneTenant, AllKinds
    <3>2. t = who[o] /\ t.name \in torn'
      BY <1>1, <3>1, SameTenant
    <3>3. \A r \in TapRules : Gone(r, t)
      BY <1>3, <2>1, <3>1, <3>2 DEF TapParts
    <3> QED BY <3>2, <3>3 DEF TapStandsForRules, Gone, Clean, Key
  <2>3. CASE ~Tended(t)
    <3>1. TapStandsForRules(t)
      BY <2>3 DEF CleanInv, Untended
    <3> QED BY <1>1, <2>1, <3>1, StandsOn
  <2> QED BY <2>2, <2>3
<1> QED BY <1>1, <1>2, <1>3, <1>4, Ended DEF OneTenant, AllKinds

LEMMA RebootsClean ==
    ASSUME Base, CleanInv, Reboots
    PROVE  CleanInv'
<1>1. /\ host' = [i \in Items |-> IF i[1] \in Files THEN host[i] ELSE 0]
      /\ debris' = {i \in debris \cup UNION {ItemsOf(who[o]) : o \in Ops} : host'[i] > 0}
      /\ host \in [Items -> Nat] /\ UNCHANGED <<registry, lockdown>>
      /\ \A o \in Ops : kind'[o] = "none" /\ stage'[o] = 1 /\ step'[o] = 1 /\ undoing'[o] = FALSE
  BY DEF Reboots, Base, HostTypeOK
<1>2. \A i \in Items : host'[i] = host[i] \/ host'[i] = 0
  BY <1>1
<1>3. \A i \in Items : i \in debris /\ host'[i] > 0 => i \in debris'
  BY <1>1
<1>4. Settles
  BY <1>1, <1>2, <1>3 DEF Settles
<1>5. \A o \in Ops : Progress(o)'
  BY <1>1 DEF Progress, OneTenant, AllKinds
<1>6. Claimed'
  <2> SUFFICES ASSUME NEW i \in Items, i[1] \in Own, host'[i] > 0
               PROVE  i \in debris' \/ \E t \in registry'.tenants : i \in ItemsOf(t)
    BY DEF Claimed, ItemsOf, Items, Key
  <2>1. host[i] > 0
    BY <1>1, <1>2
  <2>2. ASSUME NEW o \in Ops, i \in ItemsOf(who[o]) PROVE i \in debris'
    BY <1>1, <2>2
  <2> QED BY <1>1, <1>3, <2>1, <2>2 DEF CleanInv, Claimed
<1>7. NoLockdown'
  <2>1. \A o \in Ops : kind'[o] \notin OneTenant
    BY <1>1 DEF OneTenant, AllKinds
  <2> SUFFICES ASSUME ~lockdown, NEW i \in Items, i[1] \in ToSet(LockdownRules)
               PROVE  host'[i] = 0 \/ i \in debris'
    BY <1>1, <2>1 DEF NoLockdown, Items, Key
  <2> QED BY <1>4, SettlesSafe DEF CleanInv, NoLockdown
<1>8. Untended'
  <2> SUFFICES ASSUME NEW t \in registry.tenants PROVE TapStandsForRules(t)'
    BY <1>1 DEF Untended
  <2>1. ASSUME NEW x \in TapParts PROVE host'[Key(x, t)] = 0
    <3>1. x \in Own /\ Key(x, t) \in Items
      BY <2>1, ThingSets, RegisteredFits DEF Base
    <3>2. \A y \in TapParts : y \notin Files
      BY RuleSets DEF TapParts, TapRules, Files
    <3> QED BY <1>1, <3>1, <3>2, KeyFacts
  <2>2. ~Has("tap", t)'
    BY <2>1 DEF Has, TapParts, Key
  <2>3. \A r \in TapRules : Clean(r, t)'
    BY <2>1 DEF Clean, TapParts, Key
  <2> QED BY <2>2, <2>3 DEF TapStandsForRules
<1> QED BY <1>4, <1>5, <1>6, <1>7, <1>8, SettlesSafe DEF CleanInv

----
(* An operation that begins.                                               *)

\* A name and an index that nobody has: nothing is there of the tenant, but what a failure
\* left of an earlier one.
LEMMA FreshClean ==
    ASSUME Base, CleanInv, NEW o \in Ops, kind[o] = "none", NEW t \in Tenant,
           t.name \notin Registered, t.index = registry.next, t.name \in Names,
           t.index \in 1 .. MaxIndex, NEW x \in Own
    PROVE  Clean(x, t)
<1>1. Key(x, t) \in Items /\ Key(x, t)[1] = x
  <2>1. t \in [name : Names, index : 1 .. MaxIndex]
    BY DEF Tenant
  <2> QED BY <2>1, KeyFacts DEF Items
<1>2. host[Key(x, t)] \in Nat
  BY <1>1 DEF Base, HostTypeOK
<1>3. x \in ByName \/ x \in ByAddress
  BY DEF ByName, ByAddress
<1>4. ASSUME NEW u \in registry.tenants, Key(x, t) \in ItemsOf(u) PROVE FALSE
  <2>1. u.index \in 1 .. (registry.next - 1) /\ registry.next \in Nat
    BY DEF Base, RegistryInv, Sound
  <2>2. PICK y \in Own : Key(x, t) = Key(y, u)
    BY <1>4 DEF ItemsOf
  <2>3. Key(x, t) = Key(x, u)
    BY <2>2, KeyFacts
  <2>4. t.name = u.name \/ t.index = u.index
    BY <1>3, <2>3 DEF Key
  <2> QED BY <2>1, <2>4 DEF Registered
<1>5. \A p \in Ops : kind[p] = "none"
  BY DEF Base, OneAtATime
<1> QED BY <1>1, <1>2, <1>4, <1>5 DEF CleanInv, Claimed, Clean

\* What is common to all.
LEMMA BeginsClean ==
    ASSUME Base, Base', CleanInv, NEW o \in Ops, NEW k, NEW t, Begins(o, k, t),
           k = "uninit" => registry.tenants = {},
           k = "spawn" => SpawnProgress(o)',
           k = "evict" => EvictProgress(o)',
           k \in {"repairTap", "repairCaddyRoute"} => t \in registry.tenants,
           k = "repairTap" => Adds(o)'
    PROVE  CleanInv'
<1>1. /\ kind[o] = "none" /\ k \in AllKinds /\ kind'[o] = k /\ who'[o] = t
      /\ read'[o] = registry /\ locked'[o] = lockdown
      /\ UNCHANGED <<host, registry, lockdown, stage, step, undoing, debris, torn>>
  BY HostAssumption DEF Begins, Base, HostTypeOK, history
<1>2. stage[o] = 1 /\ step[o] = 1 /\ ~undoing[o]
  BY <1>1 DEF CleanInv, Progress
<1>3. \A p \in Ops : p = o
  BY DEF Base, OneAtATime
<1>4. AtMostOnce'
  BY <1>1 DEF CleanInv, AtMostOnce, Items, Key
<1>5. Claimed'
  <2> SUFFICES ASSUME NEW i \in Items, i[1] \in Own, host[i] > 0
               PROVE  i \in debris \/ \E u \in registry.tenants : i \in ItemsOf(u)
    BY <1>1 DEF Claimed, ItemsOf, Items, Key
  <2> QED BY <1>1, <1>3 DEF CleanInv, Claimed
<1>6. NoLockdown'
  <2> SUFFICES ASSUME ~lockdown, NEW i \in Items, i[1] \in ToSet(LockdownRules)
               PROVE  host[i] = 0 \/ i \in debris
    BY <1>1, <1>3 DEF NoLockdown, Items, Key
  <2> QED BY DEF CleanInv, NoLockdown
<1>7. Untended'
  <2> SUFFICES ASSUME NEW u \in registry.tenants PROVE TapStandsForRules(u)'
    BY <1>1 DEF Untended
  <2>1. TapStandsForRules(u)
    BY <1>1, <1>3 DEF CleanInv, Untended, Tended
  <2> QED BY <1>1, <2>1 DEF TapStandsForRules, Has, Made, Clean, Key
<1>8. k = "repairCaddyRoute" => RepairRoutesProgress(o)'
  BY <1>1, <1>2 DEF RepairRoutesProgress
<1>9. Progress(o)'
  BY <1>1, <1>2, <1>8 DEF Progress, OneTenant, AllKinds
<1> QED BY <1>3, <1>4, <1>5, <1>6, <1>7, <1>9 DEF CleanInv

LEMMA SpawnBeginsClean ==
    ASSUME Base, Base', CleanInv, NEW o \in Ops, NEW n \in Names, SpawnBegins(o, n)
    PROVE  CleanInv'
<1>1. PICK t : t = [name |-> n, index |-> registry.next]
  OBVIOUS
<1>2. Begins(o, "spawn", t) /\ n \notin Registered /\ registry.next <= MaxIndex
  BY <1>1 DEF SpawnBegins
<1>3. /\ kind[o] = "none" /\ kind'[o] = "spawn" /\ who'[o] = t
      /\ UNCHANGED <<host, registry, stage, step, undoing, debris>>
  BY <1>2, HostAssumption DEF Begins, Base, HostTypeOK, history
<1>4. stage[o] = 1 /\ step[o] = 1 /\ ~undoing[o]
  BY <1>3 DEF CleanInv, Progress
<1>5. t \in Tenant /\ t.name = n /\ t.index = registry.next /\ t.index \in 1 .. MaxIndex
  BY <1>1, <1>2, HostAssumption DEF Tenant, Base, RegistryInv, Sound
<1>6. \A x \in Own : Clean(x, t)
  BY <1>2, <1>3, <1>5, FreshClean
<1>7. \A x \in Own : Clean(x, t)'
  BY <1>3, <1>6 DEF Clean, Key
<1>8. t \notin registry.tenants
  BY <1>2, <1>5 DEF Registered
<1>9. Adds(o)'
  <2>1. PICK l \in BOOLEAN : l = locked'[o]
    BY DEF Base, HostTypeOK
  <2>2. PICK s : s = Programs["spawn"][l][1].do
    OBVIOUS
  <2>3. Current(o)' = s
    BY <1>3, <1>4, <2>1, <2>2 DEF Current, Program
  <2>4. StageFits(Programs["spawn"][l][1], 1, l)
    BY SpawnFits
  <2>5. PICK parts : parts = MadeIn(1) \cap Parts(l)
    OBVIOUS
  <2>6. s \in Seq(Builder(parts))
    <3>1. 1 # 9
      OBVIOUS
    <3> QED BY <2>2, <2>4, <2>5, <3>1, Zenon DEF StageFits
  <2>7. ASSUME NEW m \in DOMAIN s, s[m].act = "append" PROVE Clean(s[m].thing, t)'
    <3>1. s[m] \in Builder(parts)
      BY <2>6
    <3>2. s[m].thing \in Own
      BY <2>5, <2>7, <3>1 DEF Builder, MadeIn
    <3> QED BY <1>7, <3>2
  <2>8. \A m \in DOMAIN s : ~(m < 1)
    BY <2>6
  <2>9. who'[o] = t /\ step'[o] = 1
    BY <1>3, <1>4
  <2> QED BY Zenon, <2>3, <2>7, <2>8, <2>9 DEF Adds, Clean
<1>10. \A x \in TapParts : ~(Home[x] < 1)
  BY ThingSets
<1>11. SpawnProgress(o)'
  BY <1>3, <1>4, <1>7, <1>8, <1>9, <1>10 DEF SpawnProgress, Clean
<1> QED BY <1>2, <1>11, BeginsClean

LEMMA EvictBeginsClean ==
    ASSUME Base, Base', CleanInv, NEW o \in Ops, NEW t, EvictBegins(o, t)
    PROVE  CleanInv'
<1>1. Begins(o, "evict", t)
  BY DEF EvictBegins
<1>2. /\ kind[o] = "none" /\ kind'[o] = "evict"
      /\ UNCHANGED <<stage, step, undoing>>
  BY <1>1, HostAssumption DEF Begins, Base, HostTypeOK
<1>3. stage[o] = 1 /\ step'[o] = 1 /\ ~undoing[o]
  BY <1>2 DEF CleanInv, Progress
<1>4. PICK l \in BOOLEAN : l = locked'[o]
  BY DEF Base, HostTypeOK
<1>5. PICK s : s = Programs["evict"][l][1].do
  OBVIOUS
<1>6. Current(o)' = s
  BY <1>2, <1>3, <1>4, <1>5 DEF Current, Program
<1>7. s \in Seq(Remover \cup Saver) /\ Len(s) > 0
  BY <1>5, EvictFits
<1>8. /\ \A m \in DOMAIN s : ~(m < 1)
      /\ ~(1 > Len(s))
  BY <1>7
<1>9. EvictProgress(o)'
  BY Zenon, <1>3, <1>6, <1>8 DEF EvictProgress, Takes
<1> QED BY <1>1, <1>9, BeginsClean

LEMMA RepairTapBeginsClean ==
    ASSUME Base, Base', CleanInv, NEW o \in Ops, NEW t \in registry.tenants, RepairTapBegins(o, t)
    PROVE  CleanInv'
<1>1. Begins(o, "repairTap", t) /\ ~Has("tap", t)
  BY DEF RepairTapBegins
<1>2. /\ kind[o] = "none" /\ kind'[o] = "repairTap" /\ who'[o] = t
      /\ UNCHANGED <<host, stage, step, undoing, debris>>
  BY <1>1, HostAssumption DEF Begins, Base, HostTypeOK, history
<1>3. stage[o] = 1 /\ step'[o] = 1 /\ ~undoing[o]
  BY <1>2 DEF CleanInv, Progress
<1>4. PICK l \in BOOLEAN : l = locked'[o]
  BY DEF Base, HostTypeOK
<1>5. PICK s : s = Programs["repairTap"][l][1].do
  OBVIOUS
<1>6. Current(o)' = s
  BY <1>2, <1>3, <1>4, <1>5 DEF Current, Program
<1>7. s \in Seq(Builder(TapParts))
  BY <1>5, RepairTapFits
<1>8. ASSUME NEW x \in TapParts PROVE Clean(x, t)'
  <2>1. TapStandsForRules(t)
    BY <1>2 DEF CleanInv, Untended, Tended, Base, OneAtATime
  <2>2. x \in Own /\ Key(x, t) \in Items
    BY <1>8, ThingSets, RegisteredFits DEF Base
  <2>3. host[Key(x, t)] \in Nat
    BY <2>2 DEF Base, HostTypeOK
  <2>4. x = "tap" => Clean(x, t)
    BY <1>1, <2>3 DEF Has, Clean
  <2>5. x \in TapRules => Clean(x, t)
    BY <1>1, <2>1 DEF TapStandsForRules
  <2>6. Clean(x, t)
    BY <1>8, <2>4, <2>5 DEF TapParts
  <2> QED BY <1>2, <2>6 DEF Clean, Key
<1>9. ASSUME NEW m \in DOMAIN s, s[m].act = "append" PROVE Clean(s[m].thing, t)'
  <2>1. s[m] \in Builder(TapParts)
    BY <1>7
  <2>2. s[m].thing \in TapParts
    BY <1>9, <2>1 DEF Builder
  <2> QED BY <1>8, <2>2
<1>10. \A m \in DOMAIN s : ~(m < 1)
  BY <1>7
<1>11. Adds(o)'
  BY Zenon, <1>2, <1>3, <1>6, <1>9, <1>10 DEF Adds, Clean
<1> QED BY <1>1, <1>11, BeginsClean

----
(* All steps.                                                              *)

LEMMA InitClean == Init => CleanInv
<1> SUFFICES ASSUME Init PROVE CleanInv
  OBVIOUS
<1>1. AtMostOnce /\ Claimed /\ NoLockdown
  BY DEF Init, AtMostOnce, Claimed, NoLockdown
<1>2. Untended
  BY DEF Init, Untended, EmptyRegistry
<1>3. \A o \in Ops : Progress(o)
  BY DEF Init, Progress, OneTenant, AllKinds
<1> QED BY <1>1, <1>2, <1>3 DEF CleanInv

\* Nothing an operation's progress depends on changes.
LEMMA ProgressKept ==
    ASSUME NEW o \in Ops, Progress(o), lockdown => lockdown',
           UNCHANGED <<host, registry, kind, who, stage, step, undoing, read, locked, debris>>
    PROVE  Progress(o)'
<1>1. Current(o)' = Current(o)
  BY DEF Current, Program
<1>2. \A x, t : (Clean(x, t)' <=> Clean(x, t)) /\ (Made(x, t)' <=> Made(x, t))
  BY DEF Clean, Made, Key
<1>3. /\ \A x : (Clean(x, who[o])' <=> Clean(x, who[o])) /\ (Made(x, who[o])' <=> Made(x, who[o]))
      /\ step'[o] = step[o]
  BY <1>2 DEF Clean, Made, Key
<1>4. (Adds(o) => Adds(o)') /\ (Takes(o) => Takes(o)')
  BY <1>1, <1>3 DEF Adds, Takes
<1>5. SpawnProgress(o) => SpawnProgress(o)'
  BY <1>3, <1>4 DEF SpawnProgress
<1>6. EvictProgress(o) => EvictProgress(o)'
  BY <1>1, <1>4 DEF EvictProgress
<1>7. RepairRoutesProgress(o) => RepairRoutesProgress(o)'
  BY <1>3 DEF RepairRoutesProgress
<1> QED BY <1>4, <1>5, <1>6, <1>7 DEF Progress

LEMMA NextClean ==
    ASSUME Base, Base', CleanInv, [Next]_vars
    PROVE  CleanInv'
<1>1. CASE UNCHANGED vars
  <2>1. UNCHANGED <<host, registry, lockdown, kind, who, stage, step, undoing, read, locked, debris, torn>>
    BY <1>1 DEF vars, opVars, history
  <2>2. AtMostOnce' /\ Claimed' /\ NoLockdown'
    BY <2>1 DEF CleanInv, AtMostOnce, Claimed, NoLockdown, ItemsOf, Items, Key
  <2>3. Untended'
    BY <2>1 DEF CleanInv, Untended, Tended, TapStandsForRules, Has, Made, Clean, Key
  <2>4. \A o \in Ops : Progress(o)'
    BY <2>1, ProgressKept DEF CleanInv
  <2> QED BY <2>2, <2>3, <2>4 DEF CleanInv
<1>2. CASE BuoyStarts
  <2>1. /\ lockdown' = TRUE
        /\ UNCHANGED <<host, registry, kind, who, stage, step, undoing, read, locked, debris, torn>>
    BY <1>2 DEF BuoyStarts, opVars, history
  <2>2. ~lockdown
    BY <1>2 DEF BuoyStarts
  <2>3. AtMostOnce' /\ Claimed' /\ NoLockdown'
    BY <2>1, <2>2 DEF CleanInv, AtMostOnce, Claimed, NoLockdown, ItemsOf, Items, Key
  <2>4. Untended'
    BY <2>1 DEF CleanInv, Untended, Tended, TapStandsForRules, Has, Made, Clean, Key
  <2>5. \A o \in Ops : Progress(o)'
    BY <2>1, ProgressKept DEF CleanInv
  <2> QED BY <2>3, <2>4, <2>5 DEF CleanInv
<1>3. CASE Reboots
  BY <1>3, RebootsClean
<1>4. ASSUME NEW o \in Ops, NEW n \in Names, SpawnBegins(o, n) PROVE CleanInv'
  BY <1>4, SpawnBeginsClean
<1>5. ASSUME NEW o \in Ops, NEW t \in registry.tenants, EvictBegins(o, t) PROVE CleanInv'
  BY <1>5, EvictBeginsClean
<1>6. ASSUME NEW o \in Ops, NEW t \in registry.tenants, RepairTapBegins(o, t) PROVE CleanInv'
  BY <1>6, RepairTapBeginsClean
<1>7. ASSUME NEW o \in Ops, NEW t \in registry.tenants, RepairCaddyRouteBegins(o, t)
      PROVE  CleanInv'
  BY <1>7, BeginsClean DEF RepairCaddyRouteBegins
<1>8. ASSUME NEW o \in Ops, InitBegins(o) \/ UninitBegins(o) PROVE CleanInv'
  BY <1>8, BeginsClean DEF InitBegins, UninitBegins
<1>9. ASSUME NEW o \in Ops, Does(o) \/ Misses(o) \/ Breaks(o) PROVE CleanInv'
  <2>1. kind[o] # "none" /\ kind[o] \in AllKinds \cup {"none"}
    BY <1>9 DEF Does, Misses, Breaks, Busy, Base, HostTypeOK
  <2>2. CASE kind[o] \in OneTenant
    BY <1>9, <2>2, TenantAdvances, TenantBreaks
  <2>3. CASE kind[o] \in {"init", "uninit"}
    BY <1>9, <2>3, HostAdvances, HostBreaks
  <2> QED BY <2>1, <2>2, <2>3 DEF OneTenant, AllKinds
<1>10. ASSUME NEW o \in Ops, StageEnds(o) PROVE CleanInv'
  BY <1>10, StageEndsClean
<1>11. ASSUME NEW o \in Ops, Dies(o) PROVE CleanInv'
  BY <1>11, DiesClean
<1> QED BY <1>1, <1>2, <1>3, <1>4, <1>5, <1>6, <1>7, <1>8, <1>9, <1>10, <1>11 DEF Next

\* The invariant holds as long as operations run one at a time.
LEMMA AlwaysClean ==
    ASSUME OneAtATime
    PROVE  Spec => [](Base /\ CleanInv)
<1>1. Init => Base /\ CleanInv
  <2>1. Init => WorkInv
    BY DEF Init, WorkInv, OneTenant, AllKinds
  <2> QED BY <2>1, InitHolds, InitClean DEF Base
<1>2. Base /\ CleanInv /\ [Next]_vars => Base' /\ CleanInv'
  <2> SUFFICES ASSUME Base, CleanInv, [Next]_vars PROVE Base' /\ CleanInv'
    OBVIOUS
  <2>1. RegistryInv'
    BY NextSound DEF Base
  <2>2. HostTypeOK'
    BY <2>1, NextTyped DEF Base
  <2>3. WorkInv'
    BY <2>2, NextWork DEF Base
  <2>4. Base'
    BY <2>1, <2>2, <2>3 DEF Base, OneAtATime
  <2> QED BY <2>4, NextClean
<1> QED BY <1>1, <1>2, PTL DEF Spec

----
(* What the runs check, for any tenants, registry and faults.              *)

\* Rollback and evict leave nothing of a tenant: after any spawns, evicts and repairs, with
\* whatever failed, died or restarted in between, what no registered tenant has is what a
\* failed command left behind.
THEOREM NothingElseIsLeft ==
    ASSUME OneAtATime
    PROVE  Spec => []OnlyDebrisLeft
<1>1. ASSUME CleanInv PROVE OnlyDebrisLeft
  <2> SUFFICES ASSUME AtRest, NEW i \in Items, host[i] > 0, i[1] \in Own
               PROVE  i \in debris \/ \E t \in registry.tenants : i \in ItemsOf(t)
    BY DEF OnlyDebrisLeft
  <2> QED BY <1>1 DEF CleanInv, Claimed, AtRest
<1> QED BY <1>1, AlwaysClean, PTL

\* The device of a tenant that nobody works on stands for all rules of it, each there once,
\* but for a repair or a removal that broke: so a check may look for the device alone.
THEOREM DeviceStandsForRules ==
    ASSUME OneAtATime
    PROVE  Spec => []TapHasRules
<1>1. ASSUME Base, CleanInv PROVE TapHasRules
  <2> SUFFICES ASSUME AtRest, NEW t \in registry.tenants, Has("tap", t), t.name \notin torn,
                      NEW r \in TapRules
               PROVE  host[Key(r, t)] = 1 \/ Key(r, t) \in debris
    BY DEF TapHasRules, TapRules
  <2>1. TapStandsForRules(t)
    BY <1>1 DEF CleanInv, Untended, Tended, AtRest
  <2>2. Made(r, t)
    BY <2>1 DEF TapStandsForRules
  <2>3. Key(r, t) \in Items /\ Key(r, t)[1] \in Own
    <3>1. r \in Own
      BY ThingSets DEF TapParts
    <3> QED BY <1>1, <3>1, RegisteredFits, KeyFacts DEF Base
  <2>4. host[Key(r, t)] \in Nat
    BY <1>1, <2>3 DEF Base, HostTypeOK
  <2> QED BY <1>1, <2>2, <2>3, <2>4 DEF CleanInv, AtMostOnce, Made
<1> QED BY <1>1, AlwaysClean, PTL

\* Whoever answers for an item that names both tenant and address, or one of them.
LEMMA ClaimedTenant ==
    ASSUME Base, CleanInv, NEW t \in [name : Names, index : 1 .. MaxIndex],
           Has("dnat", t), Key("dnat", t) \notin debris
    PROVE  \/ t \in registry.tenants
           \/ \E o \in Ops : kind[o] \in {"spawn", "evict"} /\ t = who[o]
<1>1. "dnat" \in Own /\ "dnat" \in ByName /\ "dnat" \in ByAddress
  BY RuleSets DEF Own, Rules, ByName, ByAddress
<1>2. Key("dnat", t) \in Items /\ Key("dnat", t)[1] = "dnat"
  BY <1>1, KeyFacts DEF Items
<1>3. ASSUME NEW u \in Tenant, Key("dnat", t) \in ItemsOf(u) PROVE t = u
  <2>1. PICK y \in Own : Key("dnat", t) = Key(y, u)
    BY <1>3 DEF ItemsOf
  <2>2. Key("dnat", t) = Key("dnat", u)
    BY <2>1, KeyFacts
  <2>3. t.name = u.name /\ t.index = u.index
    BY <1>1, <2>2 DEF Key
  <2> QED BY <2>3 DEF Tenant
<1>4. registry.tenants \subseteq Tenant /\ \A o \in Ops : who[o] \in Tenant
  BY DEF Base, HostTypeOK, Registry
<1> QED BY <1>1, <1>2, <1>3, <1>4 DEF CleanInv, Claimed, Has

\* As long as the addresses of 10.0.0.0/8 last, no two tenants have rules for the same
\* address, whatever was created, removed and broken before, but for rules that a failure left.
THEOREM AddressesStayDistinct ==
    ASSUME OneAtATime, MaxIndex \in Indices
    PROVE  Spec => []AddressesDistinct
<1>1. ASSUME Base, CleanInv PROVE AddressesDistinct
  <2> SUFFICES ASSUME NEW s \in [name : Names, index : 1 .. MaxIndex],
                      NEW t \in [name : Names, index : 1 .. MaxIndex],
                      Has("dnat", s), Key("dnat", s) \notin debris,
                      Has("dnat", t), Key("dnat", t) \notin debris, Ips(s) = Ips(t)
               PROVE  s = t
    BY DEF AddressesDistinct
  <2>1. s.index \in Indices /\ t.index \in Indices
    BY SMT, HostAssumption DEF Indices
  <2>2. s.index = t.index
    BY <2>1, SubnetsDistinct DEF Ips
  <2>3. /\ s \in registry.tenants \/ \E o \in Ops : kind[o] \in {"spawn", "evict"} /\ s = who[o]
        /\ t \in registry.tenants \/ \E o \in Ops : kind[o] \in {"spawn", "evict"} /\ t = who[o]
    BY <1>1, ClaimedTenant
  <2>4. ASSUME NEW u \in registry.tenants, NEW o \in Ops, kind[o] \in {"spawn", "evict"},
               u.index = who[o].index
        PROVE  u = who[o]
    <3>1. /\ u \in read[o].tenants \cup {who[o]} /\ Sound(read[o])
          /\ kind[o] = "spawn" \/ who[o] \in read[o].tenants
      BY <1>1, <2>4 DEF Base, WorkInv, RegistryInv, OneTenant, AllKinds
    <3>2. CASE kind[o] = "spawn" /\ u \in read[o].tenants
      <4>1. who[o].index = read[o].next /\ u.index \in 1 .. (read[o].next - 1) /\ read[o].next \in Nat
        BY <1>1, <3>1, <3>2 DEF Base, RegistryInv, Spawning, Sound
      <4> QED BY <2>4, <4>1
    <3>3. CASE who[o] \in read[o].tenants /\ u \in read[o].tenants
      BY <2>4, <3>1, <3>3 DEF Sound
    <3> QED BY <3>1, <3>2, <3>3
  <2>5. CASE s \in registry.tenants /\ t \in registry.tenants
    BY <1>1, <2>2, <2>5 DEF Base, RegistryInv, Sound
  <2> QED BY <1>1, <2>2, <2>3, <2>4, <2>5 DEF Base, OneAtATime
<1> QED BY <1>1, AlwaysClean, PTL
====
