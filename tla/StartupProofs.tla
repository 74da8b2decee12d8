--------------------------- MODULE StartupProofs ---------------------------
(***************************************************************************)
(* Shells that start one after the other never share an address, whatever  *)
(* their number, their nesting and the addresses of the host; and what the *)
(* constructor of CellularQueue accepts is usable and what the files say,  *)
(* whatever they hold.                                                     *)
(***************************************************************************)
EXTENDS Startup, SequenceTheorems, FiniteSetTheorems, WellFoundedInduction, TLAPS

\* A set of naturals has a least element.
LEMMA LeastOctet ==
  ASSUME NEW T, T \subseteq Nat, T # {}
  PROVE  \E x \in T : \A y \in T : x <= y
<1> DEFINE R == OpToRel(<, Nat)
<1>1. IsWellFoundedOn(R, Nat)
  BY NatLessThanWellFounded, Zenon
<1>2. \A x, y \in Nat : <<y, x>> \in R <=> y < x
  BY DEF OpToRel
<1> HIDE DEF R
<1>3. PICK x \in T : \A y \in T : ~ (<<y, x>> \in R)
  BY <1>1, WFMin
<1>4. ASSUME NEW y \in T
      PROVE  x <= y
  <2>1. x \in Nat /\ y \in Nat
    OBVIOUS
  <2>2. ~ (y < x)
    BY <1>2, <1>3, <2>1, Zenon
  <2> QED
    BY <2>1, <2>2
<1> QED
  BY <1>4

\* first_unassigned_address finds an octet that is not in use, if there is one.
LEMMA FirstIsFree ==
  ASSUME NEW used, NEW n \in Nat, Free(used, n) # {}
  PROVE  /\ first_unassigned_address(used, n) \in n..MaxOctet
         /\ first_unassigned_address(used, n) \notin used
<1>1. Free(used, n) \subseteq Nat
  BY AddressAssumption DEF Free
<1>2. \E o \in Free(used, n) : \A p \in Free(used, n) : o <= p
  BY <1>1, LeastOctet
<1>3. first_unassigned_address(used, n) \in Free(used, n)
  BY <1>2 DEF first_unassigned_address
<1> QED
  BY <1>3 DEF Free

-----------------------------------------------------------------------------
(* The invariant *)

ShellRecord ==
  [state : {"idle", "looking", "found", "addressed", "up", "ready", "ended", "threw"},
   where : Shells \cup {host}, egress : 0..MaxOctet, ingress : 0..MaxOctet,
   seen : SUBSET (0..MaxOctet), base : 0..MaxOctet]

ShellsTyped == shell \in [Shells -> ShellRecord]

\* The states in which a shell has chosen its addresses.
Chosen == {"found", "addressed", "up", "ready"}

\* What a shell knows and has chosen, in its own namespace.
OwnSound(s) ==
  /\ shell[s].state = "looking" /\ shell[s].where = host => HostAddresses \subseteq shell[s].seen
  /\ shell[s].state \in Chosen =>
       /\ shell[s].egress \in 1..MaxOctet /\ shell[s].ingress \in 1..MaxOctet
       /\ shell[s].egress # shell[s].ingress
       /\ shell[s].where = host => {shell[s].egress, shell[s].ingress} \cap HostAddresses = {}
       /\ shell[s].where # host => shell[s].base \notin {shell[s].egress, shell[s].ingress}
  /\ shell[s].state \in {"ready", "ended"} => shell[s].base # 0

\* A shell inside another has the base address of that one, which stays.
NestedSound(s) ==
  shell[s].state # "idle" /\ shell[s].where # host =>
    /\ shell[s].where \in Shells
    /\ shell[shell[s].where].state \in {"ready", "ended"}
    /\ shell[s].base = shell[shell[s].where].base

\* Of two shells in a namespace that were not starting at the same time, one
\* was up before the other looked at the interfaces; and it still is when the
\* other reads the routes.
ApartSound(s, t) ==
  s # t /\ shell[s].where = shell[t].where /\ {s, t} \notin overlap =>
    /\ ~ (shell[s].state \in Starting /\ shell[t].state \in Starting)
    /\ shell[s].state = "looking" /\ shell[t].state \in {"up", "ready"} =>
         shell[t].egress \in shell[s].seen
    /\ shell[s].state \in Chosen /\ shell[t].state \in Chosen =>
         {shell[s].egress, shell[s].ingress} \cap {shell[t].egress, shell[t].ingress} = {}

AddressInv ==
  /\ ShellsTyped
  /\ \A s \in Shells : OwnSound(s) /\ NestedSound(s)
  /\ \A s, t \in Shells : ApartSound(s, t)

\* The properties are parts of the invariant.
LEMMA AddressInvImplies ==
  ASSUME AddressInv
  PROVE  AddressTypeOK /\ OwnAddresses /\ BaseReachable
<1>1. \A s \in WithDevice : s \in Shells /\ shell[s].state \in Chosen /\ shell[s].state # "idle"
  BY DEF WithDevice, Chosen
<1>2. AddressTypeOK
  BY DEF AddressInv, ShellsTyped, ShellRecord, AddressTypeOK
<1>3. OwnAddresses
  BY <1>1 DEF AddressInv, OwnSound, ApartSound, OwnAddresses
<1>4. BaseReachable
  BY <1>1 DEF AddressInv, OwnSound, NestedSound, BaseReachable
<1> QED
  BY <1>2, <1>3, <1>4

-----------------------------------------------------------------------------
(* The steps *)

\* A shell starts, and looks at the interfaces of its namespace.
LEMMA StartsSound ==
  ASSUME AddressInv, NEW s \in Shells, NEW ns \in Shells \cup {host}, start(s, ns)
  PROVE  AddressInv'
<1> DEFINE r == [NoShell EXCEPT !.state = "looking", !.where = ns, !.seen = Interfaces(ns),
                                !.base = IF ns = host THEN 0 ELSE shell[ns].base]
<1>1. /\ shell \in [Shells -> ShellRecord] /\ shell[s].state = "idle"
      /\ shell' = [shell EXCEPT ![s] = r]
      /\ ns # host => ns \in Shells /\ shell[ns].state \in {"ready", "ended"} /\ ns # s
      /\ overlap' = overlap \cup {{s, t} : t \in {u \in In(ns) : shell[u].state \in Starting}}
  BY DEF AddressInv, ShellsTyped, start, Inner
<1>2. /\ r.state = "looking" /\ r.where = ns /\ r.seen = Interfaces(ns)
      /\ r.base = IF ns = host THEN 0 ELSE shell[ns].base
      /\ r.egress = 0 /\ r.ingress = 0
  BY DEF NoShell
<1>3. Interfaces(ns) \subseteq 0..MaxOctet
  BY <1>1, AddressAssumption DEF Interfaces, In, ShellRecord
<1>4. r \in ShellRecord
  <2> DEFINE b == IF ns = host THEN 0 ELSE shell[ns].base
             seen == Interfaces(ns)
             r1 == [NoShell EXCEPT !.state = "looking"]
             r2 == [r1 EXCEPT !.where = ns]
             r3 == [r2 EXCEPT !.seen = seen]
  <2>1. r = [r3 EXCEPT !.base = b]
    OBVIOUS
  <2>2. b \in 0..MaxOctet /\ 0 \in 0..MaxOctet
    BY <1>1, AddressAssumption DEF ShellRecord
  <2>3. r1 \in ShellRecord
    BY <2>2 DEF ShellRecord, NoShell
  <2> HIDE DEF b, r, seen, r1
  <2>4. r2 \in ShellRecord
    BY <2>3 DEF ShellRecord
  <2> HIDE DEF r2
  <2>5. seen \in SUBSET (0..MaxOctet)
    BY <1>3 DEF seen
  <2>6. r3 \in ShellRecord
    BY <2>4, <2>5 DEF ShellRecord
  <2> HIDE DEF r3
  <2> QED
    BY <2>1, <2>2, <2>6 DEF ShellRecord
<1> HIDE DEF r
<1>5. shell' \in [Shells -> ShellRecord] /\ \A t \in Shells : shell'[t] = IF t = s THEN r ELSE shell[t]
  BY <1>1, <1>4
<1>6. ASSUME NEW t \in Shells
      PROVE  OwnSound(t)'
  <2>1. CASE t = s
    BY <1>2, <1>5, <2>1 DEF OwnSound, Chosen, Interfaces
  <2>2. CASE t # s
    BY <1>5, <2>2 DEF AddressInv, OwnSound
  <2> QED
    BY <2>1, <2>2
<1>7. ASSUME NEW t \in Shells
      PROVE  NestedSound(t)'
  <2>1. CASE t = s
    BY <1>1, <1>2, <1>5, <2>1 DEF NestedSound
  <2>2. CASE t # s
    <3>1. NestedSound(t)
      BY DEF AddressInv
    <3> QED
      BY <1>1, <1>5, <2>2, <3>1 DEF NestedSound
  <2> QED
    BY <2>1, <2>2
<1>8. ASSUME NEW t \in Shells, t # s, shell[t].where = ns, {s, t} \notin overlap'
      PROVE  /\ shell[t].state \notin Starting
             /\ shell[t].state \in {"up", "ready"} => shell[t].egress \in r.seen
  <2>1. shell[t].state \notin Starting
    BY <1>1, <1>8 DEF In, Starting
  <2>2. shell[t].state \in {"up", "ready"} => shell[t].egress \in Interfaces(ns)
    BY <1>8 DEF Interfaces, In
  <2> QED
    BY <1>2, <2>1, <2>2
<1>9. ASSUME NEW t \in Shells, NEW u \in Shells
      PROVE  ApartSound(t, u)'
  <2>1. CASE t # s /\ u # s
    <3>1. ApartSound(t, u) /\ overlap \subseteq overlap'
      BY <1>1 DEF AddressInv
    <3> QED
      BY <1>5, <2>1, <3>1 DEF ApartSound
  <2>2. CASE t = s
    BY <1>2, <1>5, <1>8, <2>2 DEF ApartSound, Chosen
  <2>3. CASE u = s
    <3>1. {t, u} = {s, t}
      BY <2>3
    <3> QED
      BY <1>2, <1>5, <1>8, <2>3, <3>1 DEF ApartSound, Chosen
  <2> QED
    BY <2>1, <2>2, <2>3
<1> QED
  BY <1>5, <1>6, <1>7, <1>9 DEF AddressInv, ShellsTyped

\* A shell reads the routes and chooses two addresses: neither belongs to a
\* shell that was up before, whose egress address it has seen and whose ingress
\* address has a route.
LEMMA ChoosesSound ==
  ASSUME AddressInv, NEW s \in Shells, two_unassigned_addresses(s)
  PROVE  AddressInv'
<1> DEFINE used == InUse(s)
           one  == first_unassigned_address(used, 1)
           two  == first_unassigned_address(used, one + 1)
<1>1. shell \in [Shells -> ShellRecord] /\ shell[s].state = "looking" /\ UNCHANGED overlap
  BY DEF AddressInv, ShellsTyped, two_unassigned_addresses
<1>2. CASE shell' = [shell EXCEPT ![s].state = "threw"]
  <2> DEFINE r == [shell[s] EXCEPT !.state = "threw"]
  <2>1. r \in ShellRecord /\ r.state = "threw" /\ r.where = shell[s].where /\ r.base = shell[s].base
    BY <1>1 DEF ShellRecord
  <2>2. shell' = [shell EXCEPT ![s] = r]
    BY <1>2
  <2> HIDE DEF r
  <2>3. shell' \in [Shells -> ShellRecord] /\ \A t \in Shells : shell'[t] = IF t = s THEN r ELSE shell[t]
    BY <1>1, <2>1, <2>2
  <2>4. \A t \in Shells : OwnSound(t)'
    BY <2>1, <2>3 DEF AddressInv, OwnSound, Chosen
  <2>5. \A t \in Shells : NestedSound(t)'
    BY <1>1, <2>1, <2>3 DEF AddressInv, NestedSound
  <2>6. \A t, u \in Shells : ApartSound(t, u)'
    BY <1>1, <2>1, <2>3 DEF AddressInv, ApartSound, Chosen, Starting
  <2> QED
    BY <2>3, <2>4, <2>5, <2>6 DEF AddressInv, ShellsTyped
<1>3. CASE /\ Free(used, 1) # {} /\ Free(used, one + 1) # {}
           /\ shell' = [shell EXCEPT ![s].state = "found", ![s].seen = {}, ![s].egress = one,
                                     ![s].ingress = two]
  <2>1. one \in 1..MaxOctet /\ one \notin used
    BY <1>3, FirstIsFree
  <2>2. two \in one+1..MaxOctet /\ two \notin used
    <3>1. one + 1 \in Nat
      BY <2>1, AddressAssumption
    <3> HIDE DEF one
    <3> QED
      BY <1>3, <3>1, FirstIsFree
  <2> HIDE DEF one, two, used
  <2>3. one \in 1..MaxOctet /\ two \in 1..MaxOctet /\ one # two
    BY <2>1, <2>2, AddressAssumption
  <2> DEFINE r == [shell[s] EXCEPT !.state = "found", !.seen = {}, !.egress = one, !.ingress = two]
  <2>4. /\ r \in ShellRecord
        /\ r.state = "found" /\ r.where = shell[s].where /\ r.base = shell[s].base
        /\ r.egress = one /\ r.ingress = two
    <3> DEFINE r1 == [shell[s] EXCEPT !.state = "found"]
               r2 == [r1 EXCEPT !.seen = {}]
               r3 == [r2 EXCEPT !.egress = one]
    <3>1. r = [r3 EXCEPT !.ingress = two]
      OBVIOUS
    <3>2. one \in 0..MaxOctet /\ two \in 0..MaxOctet
      BY <2>3, AddressAssumption
    <3> HIDE DEF r
    <3>3. r1 \in ShellRecord /\ r1.state = "found" /\ r1.where = shell[s].where /\ r1.base = shell[s].base
      BY <1>1 DEF ShellRecord
    <3> HIDE DEF r1
    <3>4. r2 \in ShellRecord /\ r2.state = "found" /\ r2.where = shell[s].where /\ r2.base = shell[s].base
      BY <3>3 DEF ShellRecord
    <3> HIDE DEF r2
    <3>5. /\ r3 \in ShellRecord /\ r3.state = "found" /\ r3.where = shell[s].where
          /\ r3.base = shell[s].base /\ r3.egress = one
      BY <3>2, <3>4 DEF ShellRecord
    <3> HIDE DEF r3
    <3> QED
      BY <3>1, <3>2, <3>5 DEF ShellRecord
  <2>5. shell' = [shell EXCEPT ![s] = r]
    BY <1>1, <1>3 DEF ShellRecord
  <2> HIDE DEF r
  <2>6. shell' \in [Shells -> ShellRecord] /\ \A t \in Shells : shell'[t] = IF t = s THEN r ELSE shell[t]
    BY <1>1, <2>4, <2>5
  <2>7. /\ shell[s].seen \subseteq used
        /\ shell[s].base \in used
        /\ Routes(shell[s].where) \subseteq used
    BY DEF used, InUse
  <2>8. \A t \in Shells : OwnSound(t)'
    <3>1. OwnSound(s) /\ \A t \in Shells : OwnSound(t)
      BY DEF AddressInv
    <3>2. OwnSound(s)'
      BY <1>1, <2>1, <2>2, <2>3, <2>4, <2>6, <2>7, <3>1 DEF OwnSound, Chosen
    <3> QED
      BY <2>6, <3>1, <3>2 DEF OwnSound
  <2>9. \A t \in Shells : NestedSound(t)'
    BY <1>1, <2>4, <2>6 DEF AddressInv, NestedSound
  <2>10. ASSUME NEW t \in Shells, t # s, shell[t].where = shell[s].where, {s, t} \notin overlap
         PROVE  /\ shell[t].state \notin Starting
                /\ shell[t].state \in Chosen =>
                     {one, two} \cap {shell[t].egress, shell[t].ingress} = {}
    <3>1. ApartSound(s, t)
      BY DEF AddressInv
    <3>2. shell[t].state \notin Starting
      BY <1>1, <2>10, <3>1 DEF ApartSound, Starting
    <3>3. ASSUME shell[t].state \in Chosen
          PROVE  {one, two} \cap {shell[t].egress, shell[t].ingress} = {}
      <4>1. shell[t].state \in {"up", "ready"}
        BY <3>2, <3>3 DEF Chosen, Starting
      <4>2. shell[t].egress \in used
        BY <1>1, <2>7, <2>10, <3>1, <4>1 DEF ApartSound
      <4>3. shell[t].ingress \in used
        BY <2>7, <2>10, <4>1 DEF Routes, In
      <4> QED
        BY <2>1, <2>2, <4>2, <4>3
    <3> QED
      BY <3>2, <3>3
  <2>11. ASSUME NEW t \in Shells, NEW u \in Shells
         PROVE  ApartSound(t, u)'
    <3>1. CASE t # s /\ u # s
      <4>1. ApartSound(t, u)
        BY DEF AddressInv
      <4> QED
        BY <1>1, <2>6, <3>1, <4>1 DEF ApartSound
    <3>2. CASE t = s
      BY <1>1, <2>4, <2>6, <2>10, <3>2 DEF ApartSound
    <3>3. CASE u = s
      <4>1. {t, u} = {s, t}
        BY <3>3
      <4>2. t # s /\ shell[t].where = shell[s].where /\ {s, t} \notin overlap =>
              ~ (shell[t].state = "looking")
        BY <2>10 DEF Starting
      <4> QED
        BY <1>1, <2>4, <2>6, <2>10, <3>3, <4>1, <4>2 DEF ApartSound
    <3> QED
      BY <3>1, <3>2, <3>3
  <2> QED
    BY <2>6, <2>8, <2>9, <2>11 DEF AddressInv, ShellsTyped
<1> QED
  BY <1>2, <1>3 DEF two_unassigned_addresses, Second

\* The device gets its address, comes up, and its other end goes into the
\* namespace of the command: the addresses stay, and a base address that was
\* inherited stays too.
LEMMA DeviceSound ==
  ASSUME AddressInv, NEW s \in Shells, assign_address(s) \/ bring_up(s) \/ enter_namespace(s)
  PROVE  AddressInv'
<1>1. shell \in [Shells -> ShellRecord] /\ UNCHANGED overlap
  BY DEF AddressInv, ShellsTyped, assign_address, bring_up, enter_namespace
<1>2. PICK r \in ShellRecord :
        /\ shell' = [shell EXCEPT ![s] = r]
        /\ \/ shell[s].state = "found" /\ r.state = "addressed" /\ r.base = shell[s].base
           \/ shell[s].state = "addressed" /\ r.state = "up" /\ r.base = shell[s].base
           \/ shell[s].state = "up" /\ r.state = "ready" /\ r.base = SetBase(s)
        /\ r.where = shell[s].where /\ r.egress = shell[s].egress
        /\ r.ingress = shell[s].ingress /\ r.seen = shell[s].seen
  <2>1. CASE assign_address(s)
    <3>1. [shell[s] EXCEPT !.state = "addressed"] \in ShellRecord
      BY <1>1 DEF ShellRecord
    <3>2. shell' = [shell EXCEPT ![s] = [shell[s] EXCEPT !.state = "addressed"]]
      BY <1>1, <2>1 DEF assign_address
    <3> QED
      BY <1>1, <2>1, <3>1, <3>2 DEF assign_address, ShellRecord
  <2>2. CASE bring_up(s)
    <3>1. [shell[s] EXCEPT !.state = "up"] \in ShellRecord
      BY <1>1 DEF ShellRecord
    <3>2. shell' = [shell EXCEPT ![s] = [shell[s] EXCEPT !.state = "up"]]
      BY <1>1, <2>2 DEF bring_up
    <3> QED
      BY <1>1, <2>2, <3>1, <3>2 DEF bring_up, ShellRecord
  <2>3. CASE enter_namespace(s)
    <3>1. [shell[s] EXCEPT !.state = "ready", !.base = SetBase(s)] \in ShellRecord
      BY <1>1 DEF ShellRecord, SetBase
    <3>2. shell' = [shell EXCEPT ![s] = [shell[s] EXCEPT !.state = "ready", !.base = SetBase(s)]]
      BY <1>1, <2>3 DEF enter_namespace, ShellRecord
    <3> QED
      BY <1>1, <2>3, <3>1, <3>2 DEF enter_namespace, ShellRecord
  <2> QED
    BY <2>1, <2>2, <2>3
<1>3. shell' \in [Shells -> ShellRecord] /\ \A t \in Shells : shell'[t] = IF t = s THEN r ELSE shell[t]
  BY <1>1, <1>2
<1>4. /\ shell[s].state \in Chosen \ {"ready"} /\ r.state \in Chosen
      /\ shell[s].state \notin {"idle", "ready", "ended", "looking"}
      /\ r.state # "looking"
      /\ r.state \in Starting => shell[s].state \in Starting
  BY <1>2 DEF Chosen, Starting
<1>5. OwnSound(s) /\ NestedSound(s)
  BY DEF AddressInv
<1>6. /\ r.state = "ready" => r.base # 0
      /\ shell[s].where # host => r.base = shell[s].base
  <2>1. CASE r.state # "ready"
    BY <1>2, <2>1
  <2>2. CASE r.state = "ready"
    <3>1. r.base = SetBase(s) /\ shell[s].egress # 0
      BY <1>2, <1>4, <1>5, <2>2, AddressAssumption DEF OwnSound
    <3>2. shell[s].where # host => shell[s].base # 0
      BY <1>4, <1>5 DEF NestedSound, AddressInv, OwnSound
    <3> QED
      BY <3>1, <3>2 DEF SetBase
  <2> QED
    BY <2>1, <2>2
<1>7. ASSUME NEW t \in Shells
      PROVE  OwnSound(t)' /\ NestedSound(t)'
  <2>1. OwnSound(t) /\ NestedSound(t)
    BY DEF AddressInv
  <2>2. CASE t = s
    BY <1>2, <1>3, <1>4, <1>5, <1>6, <2>2 DEF OwnSound, NestedSound
  <2>3. CASE t # s
    BY <1>3, <1>4, <2>1, <2>3 DEF OwnSound, NestedSound
  <2> QED
    BY <2>2, <2>3
<1>8. ASSUME NEW t \in Shells, NEW u \in Shells
      PROVE  ApartSound(t, u)'
  <2>1. ApartSound(t, u) /\ ApartSound(u, t)
    BY DEF AddressInv
  <2>2. CASE t # s /\ u # s
    BY <1>1, <1>3, <2>1, <2>2 DEF ApartSound
  <2>3. CASE t = s
    BY <1>1, <1>2, <1>3, <1>4, <2>1, <2>3 DEF ApartSound
  <2>4. CASE u = s /\ t # s
    <3>1. shell'[t] = shell[t] /\ shell'[u] = r
      BY <1>3, <2>4
    <3>2. ASSUME shell[t].where = shell[u].where, {t, u} \notin overlap, shell[t].state = "looking",
                 r.state \in {"up", "ready"}
          PROVE  r.egress \in shell[t].seen
      <4>1. shell[u].state \in {"up", "ready"}
        BY <1>2, <2>1, <2>4, <3>2 DEF ApartSound, Starting
      <4> QED
        BY <1>2, <2>1, <2>4, <3>2, <4>1 DEF ApartSound
    <3> QED
      BY <1>1, <1>2, <1>4, <2>1, <2>4, <3>1, <3>2 DEF ApartSound
  <2> QED
    BY <2>2, <2>3, <2>4
<1> QED
  BY <1>3, <1>7, <1>8 DEF AddressInv, ShellsTyped

\* A shell ends, or what is left of it: whoever is inside keeps its namespace
\* and its base address.
LEMMA EndsSound ==
  ASSUME AddressInv, NEW s \in Shells, end(s) \/ free_namespace(s)
  PROVE  AddressInv'
<1> DEFINE ended == [[[shell[s] EXCEPT !.state = "ended"] EXCEPT !.egress = 0] EXCEPT !.ingress = 0]
<1>1. PICK r \in {NoShell, ended} :
        /\ shell' = [shell EXCEPT ![s] = r]
        /\ r = NoShell => shell[s].state = "threw" \/ In(s) = {}
        /\ r # NoShell => r = ended /\ shell[s].state = "ready"
  <2>1. CASE /\ shell' = [shell EXCEPT ![s] = NoShell]
             /\ shell[s].state = "threw" \/ In(s) = {}
    BY <2>1
  <2>2. CASE /\ shell' = [shell EXCEPT ![s].state = "ended", ![s].egress = 0, ![s].ingress = 0]
             /\ shell[s].state = "ready"
    <3>1. shell \in [Shells -> ShellRecord]
      BY DEF AddressInv, ShellsTyped
    <3>2. shell' = [shell EXCEPT ![s] = ended]
      BY <2>2, <3>1
    <3>3. ended.state # NoShell.state
      BY <3>1 DEF NoShell, ShellRecord
    <3> QED
      BY <2>2, <3>2, <3>3
  <2> QED
    BY <2>1, <2>2 DEF end, free_namespace
<1>2. /\ shell \in [Shells -> ShellRecord] /\ OwnSound(s) /\ NestedSound(s)
      /\ overlap' = overlap \/ overlap' = {p \in overlap : s \notin p}
  BY DEF AddressInv, ShellsTyped, end, free_namespace
<1>3. NoShell \in ShellRecord /\ NoShell.state = "idle" /\ 0 \in 0..MaxOctet
  BY AddressAssumption DEF NoShell, ShellRecord
<1>4. /\ ended \in ShellRecord /\ ended.state = "ended" /\ ended.where = shell[s].where
      /\ ended.base = shell[s].base
  BY <1>2, <1>3 DEF ShellRecord
<1> HIDE DEF ended
<1>5. r \in ShellRecord /\ r.state \in {"idle", "ended"}
  BY <1>3, <1>4
<1>6. shell' \in [Shells -> ShellRecord] /\ \A t \in Shells : shell'[t] = IF t = s THEN r ELSE shell[t]
  BY <1>1, <1>2, <1>5
<1>7. ASSUME NEW t \in Shells
      PROVE  OwnSound(t)' /\ NestedSound(t)'
  <2>1. OwnSound(t) /\ NestedSound(t)
    BY DEF AddressInv
  <2>2. CASE t = s
    <3>1. CASE r = NoShell
      BY <1>3, <1>6, <2>2, <3>1 DEF OwnSound, NestedSound, Chosen
    <3>2. CASE r # NoShell
      <4>1. r = ended /\ shell[s].state = "ready" /\ shell'[s] = r
        BY <1>1, <1>6, <3>2
      <4>2. OwnSound(s)'
        BY <1>2, <1>4, <4>1 DEF OwnSound, Chosen
      <4>3. shell[s].where # host =>
              shell[s].where \in Shells /\ shell[s].base = shell[shell[s].where].base
        BY <1>2, <4>1 DEF NestedSound
      <4>4. NestedSound(s)'
        BY <1>2, <1>4, <1>6, <4>1, <4>3 DEF NestedSound
      <4> QED
        BY <2>2, <4>2, <4>4
    <3> QED
      BY <3>1, <3>2
  <2>3. CASE t # s
    <3>1. shell'[t] = shell[t]
      BY <1>6, <2>3
    <3>2. ASSUME shell[t].state # "idle", shell[t].where = s, s # host
          PROVE  r.state = "ended" /\ r.base = shell[s].base
      <4>1. In(s) # {} /\ shell[s].state # "threw"
        BY <2>1, <3>2 DEF In, NestedSound
      <4> QED
        BY <1>1, <1>4, <4>1
    <3>3. OwnSound(t)'
      BY <2>1, <3>1 DEF OwnSound
    <3>4. NestedSound(t)'
      BY <1>6, <2>1, <3>1, <3>2 DEF NestedSound
    <3> QED
      BY <3>3, <3>4
  <2> QED
    BY <2>2, <2>3
<1>8. ASSUME NEW t \in Shells, NEW u \in Shells
      PROVE  ApartSound(t, u)'
  <2>1. ApartSound(t, u)
    BY DEF AddressInv
  <2>2. CASE t # s /\ u # s
    <3>1. {t, u} \in overlap => {t, u} \in overlap'
      BY <1>2, <2>2
    <3> QED
      BY <1>6, <2>1, <2>2, <3>1 DEF ApartSound
  <2>3. CASE t = s \/ u = s
    BY <1>5, <1>6, <2>3 DEF ApartSound, Chosen, Starting
  <2> QED
    BY <2>2, <2>3
<1> QED
  BY <1>6, <1>7, <1>8 DEF AddressInv, ShellsTyped

\* All steps keep the invariant.
LEMMA AddressInvariant == Spec => []AddressInv
<1>1. Init => AddressInv
  <2> SUFFICES ASSUME Init
               PROVE  AddressInv
    OBVIOUS
  <2>1. NoShell \in ShellRecord /\ NoShell.state = "idle"
    BY AddressAssumption DEF NoShell, ShellRecord
  <2>2. shell \in [Shells -> ShellRecord] /\ \A s \in Shells : shell[s].state = "idle"
    BY <2>1 DEF Init, AddressInit
  <2> QED
    BY <2>2 DEF AddressInv, ShellsTyped, OwnSound, NestedSound, ApartSound, Chosen, Starting
<1>2. AddressInv /\ [Next]_vars => AddressInv'
  <2> SUFFICES ASSUME AddressInv, [Next]_vars
               PROVE  AddressInv'
    OBVIOUS
  <2>1. CASE AddressStep
    BY <2>1, StartsSound, ChoosesSound, DeviceSound, EndsSound DEF AddressStep
  <2>2. CASE UNCHANGED addressVars
    <3>1. shell' = shell /\ overlap' = overlap
      BY <2>2 DEF addressVars
    <3> QED
      BY <3>1 DEF AddressInv, ShellsTyped, OwnSound, NestedSound, ApartSound
  <2> QED
    BY <2>1, <2>2 DEF Next, vars
<1> QED
  BY <1>1, <1>2, PTL DEF Spec

\* Two shells of a namespace share an address only if they were starting at
\* the same time, however many there are, however they nest and end, and
\* whatever the host's addresses are: what a shell has seen of the interfaces
\* is old when it reads the routes (Interfaces), but only of shells that
\* started together with it.
THEOREM AddressesAreOwn == Spec => []OwnAddresses
<1>1. AddressInv => OwnAddresses
  BY AddressInvImplies
<1> QED
  BY <1>1, AddressInvariant, PTL

\* No device at any depth of nesting has the address by which the host is
\* reached from inside (get_mahimahi_base, two_unassigned_addresses).
THEOREM BaseStaysReachable == Spec => []BaseReachable
<1>1. AddressInv => BaseReachable
  BY AddressInvImplies
<1> QED
  BY <1>1, AddressInvariant, PTL

-----------------------------------------------------------------------------
(* What the constructor of CellularQueue accepts *)

Words == 0..WORD-1

Lines == Seq(Int \cup {NaN})

DelayLine == [time : Words, delay : Nat, pdo : Seq(Int)]

\* The times of the lines of a packet-train trace.
Times(lines) == [i \in DOMAIN lines |-> lines[i].time]

QueueSound ==
  /\ queue_.packets \in Nat /\ queue_.bytes \in Nat
  /\ queue_.type # "infinite" => queue_.packets + queue_.bytes > 0

HeavySound ==
  /\ heavy_pdo_schedule_ \in Seq(Words) /\ NonDecreasing(heavy_pdo_schedule_)
  /\ phase \in {"train", "offsets", "loaded"} =>
       heavy_pdo_schedule_ # <<>> /\ Last(heavy_pdo_schedule_) # 0

TrainSound ==
  /\ delay_pdo_traces_ \in Seq(DelayLine) /\ NonDecreasing(Times(delay_pdo_traces_))
  /\ phase \in {"offsets", "loaded"} => Len(delay_pdo_traces_) > 2

LoadInv == start_timestamp_ \in Words /\ QueueSound /\ HeavySound /\ TrainSound

\* A number that is not before the last one may be appended.
LEMMA AppendNonDecreasing ==
  ASSUME NEW times \in Seq(Words), NonDecreasing(times), NEW ms \in Words,
         ~ (times # <<>> /\ ms < Last(times))
  PROVE  NonDecreasing(Append(times, ms))
<1> DEFINE n == Len(times)
           new == Append(times, ms)
<1>1. /\ n \in Nat /\ DOMAIN times = 1..n
      /\ DOMAIN new = 1..n+1 /\ new[n + 1] = ms /\ \A i \in 1..n : new[i] = times[i]
  BY AppendProperties, LenProperties
<1>2. \A i \in 1..n : times[i] \in Nat /\ times[i] <= ms
  <2> SUFFICES ASSUME NEW i \in 1..n
               PROVE  times[i] \in Nat /\ times[i] <= ms
    OBVIOUS
  <2>1. times # <<>> /\ n \in 1..n
    BY <1>1
  <2>2. Last(times) = times[n]
    BY DEF Last
  <2>3. times[i] \in Words /\ times[n] \in Words
    BY <1>1, <2>1, ElementOfSeq
  <2>4. times[i] <= times[n]
    BY <1>1, <2>1 DEF NonDecreasing
  <2>5. ms >= times[n]
    BY <2>1, <2>2, <2>3, LoadingAssumption DEF Words
  <2> QED
    BY <2>3, <2>4, <2>5, LoadingAssumption DEF Words
<1>3. ms \in Nat
  BY LoadingAssumption DEF Words
<1> HIDE DEF n, new
<1>4. ASSUME NEW i \in 1..n+1, NEW j \in 1..n+1, i <= j
      PROVE  new[i] <= new[j]
  <2>1. CASE j = n + 1
    BY <1>1, <1>2, <1>3, <2>1
  <2>2. CASE j # n + 1
    <3>1. i \in 1..n /\ j \in 1..n
      BY <1>1, <1>4, <2>2
    <3> QED
      BY <1>1, <1>4, <3>1 DEF NonDecreasing
  <2> QED
    BY <2>1, <2>2
<1> QED
  BY <1>1, <1>4 DEF NonDecreasing, new

\* The times of a trace to which a line is appended.
LEMMA TimesOfAppend ==
  ASSUME NEW lines \in Seq(DelayLine), NEW line \in DelayLine
  PROVE  /\ Times(lines) \in Seq(Words)
         /\ Times(Append(lines, line)) = Append(Times(lines), line.time)
<1> DEFINE n == Len(lines)
           more == Append(lines, line)
<1>1. /\ n \in Nat /\ DOMAIN lines = 1..n
      /\ DOMAIN more = 1..n+1 /\ more[n + 1] = line /\ \A i \in 1..n : more[i] = lines[i]
  BY AppendProperties, LenProperties
<1>2. \A i \in 1..n : lines[i].time \in Words
  <2>1. \A i \in 1..n : lines[i] \in DelayLine
    BY ElementOfSeq
  <2> QED
    BY <2>1 DEF DelayLine
<1>3. Times(lines) = [i \in 1..n |-> lines[i].time]
  BY <1>1 DEF Times
<1>4. Times(lines) \in [1..n -> Words]
  BY <1>2, <1>3
<1>5. Times(lines) \in Seq(Words) /\ Len(Times(lines)) = n
  BY <1>1, <1>4, SeqDef, LenProperties
<1>6. line.time \in Words
  BY DEF DelayLine
<1>7. Append(Times(lines), line.time) = [i \in 1..n+1 |-> IF i = n + 1 THEN line.time ELSE lines[i].time]
  <2> DEFINE a == Append(Times(lines), line.time)
  <2>1. /\ a \in Seq(Words) /\ Len(a) = n + 1 /\ DOMAIN a = 1..n+1
        /\ a[n + 1] = line.time /\ \A i \in 1..n : a[i] = lines[i].time
    BY <1>3, <1>5, <1>6, AppendProperties, LenProperties
  <2>2. a = [i \in 1..n+1 |-> a[i]]
    BY <2>1, LenProperties, SeqDef
  <2> HIDE DEF a, n
  <2>3. \A i \in 1..n+1 : a[i] = IF i = n + 1 THEN line.time ELSE lines[i].time
    BY <1>1, <2>1
  <2> QED
    BY <2>2, <2>3 DEF a
<1>8. Times(more) = [i \in 1..n+1 |-> more[i].time]
  BY <1>1 DEF Times
<1> HIDE DEF n, more
<1>9. \A i \in 1..n+1 : more[i].time = IF i = n + 1 THEN line.time ELSE lines[i].time
  BY <1>1
<1> QED
  BY <1>5, <1>7, <1>8, <1>9 DEF more

\* An exception or an abort leaves nothing, which is sound.
LEMMA GoneSound ==
  ASSUME LoadInv, Throws \/ Aborts, UNCHANGED <<start_timestamp_, queue_>>
  PROVE  LoadInv'
<1>1. /\ heavy_pdo_schedule_' = <<>> /\ delay_pdo_traces_' = <<>> /\ phase' \in {"threw", "aborted"}
  BY DEF Throws, Aborts, Gone
<1>2. Times(<<>>) = <<>> /\ NonDecreasing(<<>>)
  BY DEF Times, NonDecreasing
<1>3. HeavySound' /\ TrainSound'
  BY <1>1, <1>2, EmptySeq DEF HeavySound, TrainSound
<1> QED
  BY <1>3 DEF LoadInv, QueueSound

\* A number that is read as uint64_t, and counted from the start timestamp.
LEMMA TimeIsWord ==
  ASSUME NEW n \in Int, start_timestamp_ \in Words, ~ (uint64(n) < start_timestamp_)
  PROVE  Time(uint64(n)) \in Words
BY LoadingAssumption DEF Words, uint64, Time

\* main makes a queue only with the arguments it needs.
LEMMA MainSound ==
  ASSUME LoadInv, main
  PROVE  LoadInv'
<1>1. start_timestamp_' \in Words
  BY LoadingAssumption DEF main, Words
<1>2. \A a \in QueueArgs : get_arg(a) \in Nat
  BY LoadingAssumption DEF get_arg, IsNumber
<1>3. QueueSound'
  <2>1. PICK type \in QueueTypes, packets \in QueueArgs, bytes \in QueueArgs :
          IF get_packet_queue(type, packets, bytes)
          THEN queue_' = [type |-> type, packets |-> get_arg(packets), bytes |-> get_arg(bytes)]
          ELSE UNCHANGED queue_
    BY DEF main
  <2>2. CASE get_packet_queue(type, packets, bytes)
    <3>1. type # "infinite" => get_arg(packets) # 0 \/ get_arg(bytes) # 0
      BY <2>2 DEF get_packet_queue, Limited
    <3> QED
      BY <1>2, <2>1, <2>2, <3>1 DEF QueueSound
  <2>3. CASE ~ get_packet_queue(type, packets, bytes)
    BY <2>1, <2>3 DEF LoadInv, QueueSound
  <2> QED
    BY <2>2, <2>3
<1>4. /\ UNCHANGED <<heavy_pdo_schedule_, delay_pdo_traces_>>
      /\ phase' \notin {"train", "offsets", "loaded"}
  BY DEF main, contents
<1> QED
  BY <1>1, <1>3, <1>4 DEF LoadInv, HeavySound, TrainSound

\* A line of the heavy trace is left out, refused, or kept in order.
LEMMA HeavyLineSound ==
  ASSUME LoadInv, NEW line \in HeavyLines, read_heavy_line(line)
  PROVE  LoadInv'
<1>1. phase = "heavy" /\ UNCHANGED <<start_timestamp_, queue_>>
  BY DEF read_heavy_line, More
<1>2. CASE Throws
  BY <1>1, <1>2, GoneSound
<1>3. CASE UNCHANGED <<phase, contents>>
  BY <1>1, <1>3 DEF LoadInv, QueueSound, HeavySound, TrainSound, contents
<1>4. CASE /\ line # <<>> /\ IsNumber(line[1])
           /\ ~ (uint64(line[1]) < start_timestamp_)
           /\ ~ OutOfOrder(uint64(line[1]), heavy_pdo_schedule_)
           /\ heavy_pdo_schedule_' = Append(heavy_pdo_schedule_, Time(uint64(line[1])))
           /\ UNCHANGED <<phase, delay_pdo_traces_>>
  <2>1. line[1] \in Int
    BY <1>4, LoadingAssumption, ElementOfSeq, LenProperties, EmptySeq DEF IsNumber
  <2>2. Time(uint64(line[1])) \in Words
    BY <1>4, <2>1, TimeIsWord DEF LoadInv
  <2>3. NonDecreasing(heavy_pdo_schedule_') /\ heavy_pdo_schedule_' \in Seq(Words)
    BY <1>4, <2>2, AppendNonDecreasing, AppendProperties DEF LoadInv, HeavySound, OutOfOrder
  <2> QED
    BY <1>1, <1>4, <2>3 DEF LoadInv, QueueSound, HeavySound, TrainSound
<1> QED
  BY <1>2, <1>3, <1>4 DEF read_heavy_line

\* Whatever is stored in an int is an integer.
LEMMA IntIsInt ==
  ASSUME NEW n \in Int
  PROVE  int32(n) \in Int
BY LoadingAssumption DEF int32

\* A line that is kept has a time, a base delay and opportunities.
LEMMA TrainLineKept ==
  ASSUME NEW line \in Lines, \A i \in 1..Len(line) : IsNumber(line[i]), ~ DelayMissing(line),
         Time(uint64(line[1])) \in Words
  PROVE  TrainLine(line) \in DelayLine /\ TrainLine(line).time = Time(uint64(line[1]))
<1> DEFINE pdo == [i \in 1..Len(line)-2 |-> int32(line[i + 2])]
<1>1. Len(line) \in Nat
  BY LenProperties DEF Lines
<1>2. \A i \in 1..Len(line) : line[i] \in Int
  BY <1>1, ElementOfSeq DEF IsNumber, Lines
<1>3. Len(line) >= 2 /\ int32(line[2]) \in Nat
  <2>1. Len(line) >= 2 /\ ~ (int32(line[2]) < 0)
    BY <1>1 DEF DelayMissing
  <2>2. line[2] \in Int
    BY <1>1, <1>2, <2>1
  <2>3. int32(line[2]) \in Int
    BY <2>2, IntIsInt
  <2> QED
    BY <2>1, <2>3
<1>4. \A i \in 1..Len(line)-2 : line[i + 2] \in Int
  BY <1>1, <1>2
<1>5. \A i \in 1..Len(line)-2 : int32(line[i + 2]) \in Int
  BY <1>4, IntIsInt
<1>6. pdo \in [1..Len(line)-2 -> Int] /\ Len(line)-2 \in Nat
  BY <1>1, <1>3, <1>5
<1>7. pdo \in Seq(Int)
  BY <1>6, SeqDef
<1> QED
  BY <1>3, <1>7 DEF TrainLine, DelayLine

\* A line of the packet-train trace is left out, refused, or kept in order;
\* its base delay is not negative.
LEMMA TrainLineSound ==
  ASSUME LoadInv, NEW line \in TrainLines, read_train_line(line)
  PROVE  LoadInv'
<1> DEFINE ms  == uint64(line[1])
           new == TrainLine(line)
<1>1. phase = "train" /\ UNCHANGED <<start_timestamp_, queue_>>
  BY DEF read_train_line, More
<1>2. CASE Throws \/ Aborts
  BY <1>1, <1>2, GoneSound
<1>3. CASE UNCHANGED <<phase, contents>>
  BY <1>1, <1>3 DEF LoadInv, QueueSound, HeavySound, TrainSound, contents
<1>4. CASE /\ \A i \in 1..Len(line) : IsNumber(line[i])
           /\ ~ DelayMissing(line)
           /\ ~ (ms < start_timestamp_)
           /\ ~ OutOfOrder(ms, Times(delay_pdo_traces_))
           /\ delay_pdo_traces_' = Append(delay_pdo_traces_, new)
           /\ UNCHANGED <<phase, heavy_pdo_schedule_>>
  <2>1. line \in Seq(Int \cup {NaN}) /\ Len(line) \in Nat
    BY LoadingAssumption, LenProperties
  <2>2. \A i \in 1..Len(line) : line[i] \in Int
    BY <1>4, <2>1, ElementOfSeq DEF IsNumber
  <2>3. line[1] \in Int
    BY <1>4, <2>1, <2>2 DEF DelayMissing
  <2>6. Time(ms) \in Words
    BY <1>4, <2>3, TimeIsWord DEF LoadInv
  <2>7. new \in DelayLine /\ new.time = Time(ms)
    BY <1>4, <2>1, <2>6, TrainLineKept DEF Lines
  <2> HIDE DEF new, ms
  <2>8. /\ Times(delay_pdo_traces_) \in Seq(Words)
        /\ Times(delay_pdo_traces_') = Append(Times(delay_pdo_traces_), Time(ms))
    BY <1>4, <2>7, TimesOfAppend DEF LoadInv, TrainSound
  <2>9. NonDecreasing(Times(delay_pdo_traces_'))
    BY <1>4, <2>6, <2>8, AppendNonDecreasing DEF LoadInv, TrainSound, OutOfOrder
  <2>10. delay_pdo_traces_' \in Seq(DelayLine)
    BY <1>4, <2>7, AppendProperties DEF LoadInv, TrainSound
  <2> QED
    BY <1>1, <1>4, <2>9, <2>10 DEF LoadInv, QueueSound, HeavySound, TrainSound
<1> QED
  BY <1>2, <1>3, <1>4 DEF read_train_line, Times

\* The ends of the files: a schedule without time and a trace that is too
\* short are refused.
LEMMA EndOfFileSound ==
  ASSUME LoadInv, end_of_heavy \/ end_of_train \/ end_of_offsets
  PROVE  LoadInv'
<1>1. UNCHANGED <<start_timestamp_, queue_>>
  BY DEF end_of_heavy, end_of_train, end_of_offsets
<1>2. CASE Throws
  BY <1>1, <1>2, GoneSound
<1>3. CASE end_of_heavy /\ ~ Throws
  BY <1>1, <1>3 DEF end_of_heavy, contents, LoadInv, QueueSound, HeavySound, TrainSound
<1>4. CASE end_of_train /\ ~ Throws
  <2>1. Len(delay_pdo_traces_) \in Nat
    BY LenProperties DEF LoadInv, TrainSound
  <2> QED
    BY <1>1, <1>4, <2>1 DEF end_of_train, contents, LoadInv, QueueSound, HeavySound, TrainSound
<1>5. CASE end_of_offsets
  BY <1>1, <1>5 DEF end_of_offsets, contents, LoadInv, QueueSound, HeavySound, TrainSound
<1> QED
  BY <1>2, <1>3, <1>4, <1>5

\* The offsets do not concern the schedules.
LEMMA OffsetLineSound ==
  ASSUME LoadInv, NEW line \in OffsetLines, read_offset_line(line)
  PROVE  LoadInv'
<1>1. UNCHANGED <<start_timestamp_, queue_>>
  BY DEF read_offset_line
<1>2. CASE Throws
  BY <1>1, <1>2, GoneSound
<1>3. CASE UNCHANGED <<phase, heavy_pdo_schedule_, delay_pdo_traces_>>
  BY <1>1, <1>3 DEF LoadInv, QueueSound, HeavySound, TrainSound
<1> QED
  BY <1>2, <1>3 DEF read_offset_line

\* All steps keep the invariant.
LEMMA LoadInvariant == Spec => []LoadInv
<1>1. Init => LoadInv
  <2> SUFFICES ASSUME Init
               PROVE  LoadInv
    OBVIOUS
  <2>1. Times(<<>>) = <<>> /\ NonDecreasing(<<>>)
    BY DEF Times, NonDecreasing
  <2> QED
    BY <2>1, EmptySeq, LoadingAssumption
    DEF Init, LoadInit, LoadInv, QueueSound, HeavySound, TrainSound, Words
<1>2. LoadInv /\ [Next]_vars => LoadInv'
  <2> SUFFICES ASSUME LoadInv, [Next]_vars
               PROVE  LoadInv'
    OBVIOUS
  <2>1. CASE LoadStep
    <3>1. CASE usage_error \/ cannot_open
      BY <3>1, GoneSound DEF usage_error, cannot_open
    <3> QED
      BY <2>1, <3>1, MainSound, HeavyLineSound, TrainLineSound, OffsetLineSound, EndOfFileSound
      DEF LoadStep
  <2>2. CASE UNCHANGED loadVars
    BY <2>2 DEF loadVars, LoadInv, QueueSound, HeavySound, TrainSound
  <2> QED
    BY <2>1, <2>2 DEF Next, vars
<1> QED
  BY <1>1, <1>2, PTL DEF Spec

\* Whatever words the files and the arguments have, and for every width of the
\* integers: what main and the constructor of CellularQueue accept has
\* opportunities in order that last, three lines of delays in order and not
\* negative, and a limit for a queue that drops packets.
THEOREM AcceptedIsUsable == Spec => []AcceptedUsable
<1>1. LoadInv => AcceptedUsable
  <2> SUFFICES ASSUME LoadInv, phase = "loaded"
               PROVE  /\ heavy_pdo_schedule_ # <<>>
                      /\ NonDecreasing(heavy_pdo_schedule_)
                      /\ Last(heavy_pdo_schedule_) \in 1..WORD-1
                      /\ Len(delay_pdo_traces_) > 2
                      /\ NonDecreasing([i \in DOMAIN delay_pdo_traces_ |-> delay_pdo_traces_[i].time])
                      /\ \A i \in DOMAIN delay_pdo_traces_ : delay_pdo_traces_[i].delay >= 0
                      /\ queue_.type # "infinite" => queue_.packets + queue_.bytes > 0
    BY DEF AcceptedUsable
  <2>1. heavy_pdo_schedule_ # <<>> /\ NonDecreasing(heavy_pdo_schedule_)
    BY DEF LoadInv, HeavySound
  <2>2. Last(heavy_pdo_schedule_) \in 1..WORD-1
    <3>1. heavy_pdo_schedule_ \in Seq(Words) /\ Last(heavy_pdo_schedule_) # 0
      BY DEF LoadInv, HeavySound
    <3>2. Len(heavy_pdo_schedule_) \in 1..Len(heavy_pdo_schedule_)
      BY <2>1, <3>1, LenProperties, EmptySeq
    <3>3. Last(heavy_pdo_schedule_) \in Words
      BY <3>1, <3>2, ElementOfSeq DEF Last
    <3> QED
      BY <3>1, <3>3, LoadingAssumption DEF Words
  <2>3. Len(delay_pdo_traces_) > 2 /\ NonDecreasing(Times(delay_pdo_traces_))
    BY DEF LoadInv, TrainSound
  <2>4. \A i \in DOMAIN delay_pdo_traces_ : delay_pdo_traces_[i].delay >= 0
    <3>1. delay_pdo_traces_ \in Seq(DelayLine)
      BY DEF LoadInv, TrainSound
    <3>2. \A i \in DOMAIN delay_pdo_traces_ : delay_pdo_traces_[i] \in DelayLine
      BY <3>1, ElementOfSeq, LenProperties
    <3> QED
      BY <3>2 DEF DelayLine
  <2>5. queue_.type # "infinite" => queue_.packets + queue_.bytes > 0
    BY DEF LoadInv, QueueSound
  <2> QED
    BY <2>1, <2>2, <2>3, <2>4, <2>5 DEF Times
<1> QED
  BY <1>1, LoadInvariant, PTL

-----------------------------------------------------------------------------
(* What was read is what the files say *)

\* The lines of a set K, of the first n of a file, have the entries of t, in
\* order: v gives the entry of a line.
Listed(t, K, n, v) ==
  /\ K \subseteq 1..n /\ Len(t) = Cardinality(K)
  /\ \A i \in K : t[Position(i, K)] = v[i]

\* One more line of the set, the last.
LEMMA PositionsGrow ==
  ASSUME NEW n \in Nat, NEW K \in SUBSET (1..n)
  PROVE  /\ Cardinality(K) \in Nat /\ Cardinality(K \cup {n + 1}) = Cardinality(K) + 1
         /\ Position(n + 1, K \cup {n + 1}) = Cardinality(K) + 1
         /\ \A i \in K : /\ Position(i, K \cup {n + 1}) = Position(i, K)
                         /\ Position(i, K) \in 1..Cardinality(K)
<1> DEFINE J == K \cup {n + 1}
<1>1. IsFiniteSet(K) /\ n + 1 \notin K /\ \A j \in K : j \in Nat /\ j <= n
  <2>1. IsFiniteSet(1..n)
    BY FS_Interval
  <2>2. IsFiniteSet(K)
    BY <2>1, FS_Subset
  <2> QED
    BY <2>2
<1>2. Cardinality(K) \in Nat /\ IsFiniteSet(J) /\ Cardinality(J) = Cardinality(K) + 1
  BY <1>1, FS_AddElement, FS_CardinalityType
<1>3. Position(n + 1, J) = Cardinality(K) + 1
  <2>1. \A j \in J : j <= n + 1
    BY <1>1
  <2> HIDE DEF J
  <2>2. {j \in J : j <= n + 1} = J
    BY <2>1
  <2> QED
    BY <1>2, <2>2 DEF Position
<1>4. ASSUME NEW i \in K
      PROVE  /\ Position(i, J) = Position(i, K)
             /\ Position(i, K) \in 1..Cardinality(K)
  <2> DEFINE P == {j \in K : j <= i}
  <2>1. {j \in J : j <= i} = P
    BY <1>1
  <2>2. P \subseteq K /\ i \in P
    BY <1>1
  <2> HIDE DEF P
  <2>3. IsFiniteSet(P) /\ Cardinality(P) <= Cardinality(K) /\ Cardinality(P) \in Nat
    BY <1>1, <2>2, FS_Subset, FS_CardinalityType
  <2>4. Cardinality(P) # 0
    BY <2>2, <2>3, FS_EmptySet
  <2> QED
    BY <1>2, <2>1, <2>3, <2>4 DEF Position, P
<1> QED
  BY <1>2, <1>3, <1>4

LEMMA ListedOneMore ==
  ASSUME NEW S, NEW t \in Seq(S), NEW x \in S, NEW n \in Nat, NEW K, NEW v, NEW w,
         Listed(t, K, n, v), \A i \in 1..n : w[i] = v[i], w[n + 1] = x
  PROVE  Listed(Append(t, x), K \cup {n + 1}, n + 1, w)
<1> DEFINE J == K \cup {n + 1}
           c == Cardinality(K)
           u == Append(t, x)
<1>1. K \in SUBSET (1..n) /\ Len(t) = c /\ \A i \in K : t[Position(i, K)] = v[i]
  BY DEF Listed
<1>2. /\ c \in Nat /\ Cardinality(J) = c + 1 /\ Position(n + 1, J) = c + 1
      /\ \A i \in K : Position(i, J) = Position(i, K) /\ Position(i, K) \in 1..c
  BY <1>1, PositionsGrow
<1>3. Len(u) = c + 1 /\ u[c + 1] = x /\ \A k \in 1..c : u[k] = t[k]
  BY <1>1, AppendProperties
<1>4. J \subseteq 1..(n + 1)
  BY <1>1
<1> HIDE DEF u, c
<1>5. ASSUME NEW i \in J
      PROVE  u[Position(i, J)] = w[i]
  <2>1. CASE i = n + 1
    BY <1>2, <1>3, <2>1
  <2>2. CASE i # n + 1
    <3>1. i \in K /\ i \in 1..n
      BY <1>1, <2>2
    <3> QED
      BY <1>1, <1>2, <1>3, <3>1
  <2> QED
    BY <2>1, <2>2
<1> QED
  BY <1>2, <1>3, <1>4, <1>5 DEF Listed, u

\* A line that is not of the set.
LEMMA ListedSame ==
  ASSUME NEW t, NEW n \in Nat, NEW K, NEW v, NEW w,
         Listed(t, K, n, v), \A i \in 1..n : w[i] = v[i]
  PROVE  Listed(t, K, n + 1, w)
<1>1. K \subseteq 1..n /\ 1..n \subseteq 1..(n + 1)
  BY DEF Listed
<1> QED
  BY <1>1 DEF Listed

\* The lines from the start timestamp on, and the time of each line.
FromStart(lines) == {i \in DOMAIN lines : uint64(lines[i][1]) >= start_timestamp_}
TimeOf(lines) == [i \in DOMAIN lines |-> uint64(lines[i][1]) - start_timestamp_]


LEMMA LinesAppend ==
  ASSUME NEW lines \in Seq(Lines), NEW line \in Lines
  PROVE  /\ Len(lines) \in Nat /\ DOMAIN lines = 1..Len(lines)
         /\ Append(lines, line) \in Seq(Lines)
         /\ DOMAIN Append(lines, line) = 1..(Len(lines) + 1)
         /\ Len(Append(lines, line)) = Len(lines) + 1
         /\ Append(lines, line)[Len(lines) + 1] = line
         /\ \A i \in 1..Len(lines) : Append(lines, line)[i] = lines[i]
<1> DEFINE u == Append(lines, line)
<1>1. /\ u \in Seq(Lines) /\ Len(u) = Len(lines) + 1 /\ u[Len(lines) + 1] = line
      /\ \A i \in 1..Len(lines) : u[i] = lines[i]
  BY AppendProperties
<1>2. Len(lines) \in Nat /\ DOMAIN lines = 1..Len(lines)
  BY LenProperties
<1> HIDE DEF u
<1>3. DOMAIN u = 1..(Len(lines) + 1)
  BY <1>1, LenProperties
<1> QED
  BY <1>1, <1>2, <1>3 DEF u

LEMMA CutIsListed ==
  ASSUME NEW t, NEW lines \in Seq(Lines)
  PROVE  CutAtStart(t, lines) <=> Listed(t, FromStart(lines), Len(lines), TimeOf(lines))
<1>1. FromStart(lines) \subseteq 1..Len(lines) /\ DOMAIN lines = 1..Len(lines)
  BY LenProperties DEF FromStart
<1>2. \A i \in FromStart(lines) : TimeOf(lines)[i] = uint64(lines[i][1]) - start_timestamp_
  BY DEF FromStart, TimeOf
<1> QED
  BY <1>1, <1>2 DEF CutAtStart, Listed, FromStart

\* A line is read: kept, with its time, or left out.
LEMMA CutNextLine ==
  ASSUME NEW t \in Seq(Words), NEW lines \in Seq(Lines), NEW line \in Lines, CutAtStart(t, lines),
         start_timestamp_ \in Words, uint64(line[1]) \in Words
  PROVE  /\ uint64(line[1]) < start_timestamp_ => CutAtStart(t, Append(lines, line))
         /\ ~ (uint64(line[1]) < start_timestamp_) /\ Time(uint64(line[1])) \in Words =>
              CutAtStart(Append(t, Time(uint64(line[1]))), Append(lines, line))
<1> DEFINE n == Len(lines)
           u == Append(lines, line)
           ms == uint64(line[1])
           K == FromStart(lines)
<1>1. /\ n \in Nat /\ DOMAIN lines = 1..n /\ u \in Seq(Lines) /\ DOMAIN u = 1..(n + 1)
      /\ Len(u) = n + 1 /\ u[n + 1] = line /\ \A i \in 1..n : u[i] = lines[i]
  BY LinesAppend
<1>2. Listed(t, K, n, TimeOf(lines))
  BY CutIsListed
<1>3. /\ \A i : i \in 1..(n + 1) <=> i \in 1..n \/ i = n + 1
      /\ n + 1 \notin 1..n
  BY <1>1
<1>4. ms \in Nat /\ start_timestamp_ \in Nat
  BY LoadingAssumption DEF Words
<1> HIDE DEF u
<1>5. \A i \in 1..n : TimeOf(u)[i] = TimeOf(lines)[i]
  BY <1>1, <1>3 DEF TimeOf
<1>6. TimeOf(u)[n + 1] = ms - start_timestamp_
  BY <1>1, <1>3 DEF TimeOf
<1>7. FromStart(u) = IF ms >= start_timestamp_ THEN K \cup {n + 1} ELSE K
  <2>1. FromStart(u) = {i \in 1..(n + 1) : uint64(u[i][1]) >= start_timestamp_}
    BY <1>1 DEF FromStart
  <2>2. K = {i \in 1..n : uint64(lines[i][1]) >= start_timestamp_}
    BY <1>1 DEF FromStart
  <2>3. uint64(u[n + 1][1]) = ms /\ \A i \in 1..n : uint64(u[i][1]) = uint64(lines[i][1])
    BY <1>1
  <2> HIDE DEF K, ms
  <2> QED
    BY <1>3, <2>1, <2>2, <2>3
<1>8. ASSUME ms < start_timestamp_
      PROVE  CutAtStart(t, u)
  <2>1. FromStart(u) = K
    BY <1>4, <1>7, <1>8
  <2> QED
    BY <1>1, <1>2, <1>5, <2>1, ListedSame, CutIsListed
<1>9. ASSUME ~ (ms < start_timestamp_), Time(ms) \in Words
      PROVE  CutAtStart(Append(t, Time(ms)), u)
  <2>1. FromStart(u) = K \cup {n + 1}
    BY <1>4, <1>7, <1>9
  <2>2. TimeOf(u)[n + 1] = Time(ms)
    BY <1>6 DEF Time
  <2>3. Listed(Append(t, Time(ms)), K \cup {n + 1}, n + 1, TimeOf(u))
    <3> HIDE DEF K, n, ms
    <3> QED
      BY <1>1, <1>2, <1>5, <1>9, <2>2, ListedOneMore
  <2> QED
    BY <1>1, <2>1, <2>3, CutIsListed
<1> QED
  BY <1>8, <1>9 DEF u

\* The offsets: every line with a size has the next multiple of 100, and its
\* offset, unless some line has none.
SecondWords(lines) == [i \in DOMAIN lines |-> lines[i][2]]
SizesInTurn(lines) ==
  \A i \in WithSize(lines) : int32(lines[i][1]) = 100 * Position(i, WithSize(lines))
NoneMissing(lines) == \A i \in DOMAIN lines : Len(lines[i]) # 1
OffsetsFiled(offsets, lines) ==
  NoneMissing(lines) =>
    /\ Listed(offsets, WithSize(lines), Len(lines), SecondWords(lines))
    /\ SizesInTurn(lines)

\* A line of offsets is read.
LEMMA OffsetsNextLine ==
  ASSUME NEW t \in Seq(Int), NEW lines \in Seq(Lines), NEW line \in Lines, OffsetsFiled(t, lines),
         line # <<>> => Expected(line, lines)
  PROVE  /\ Len(line) < 2 => OffsetsFiled(t, Append(lines, line))
         /\ Len(line) >= 2 /\ line[2] \in Int => OffsetsFiled(Append(t, line[2]), Append(lines, line))
<1> DEFINE n == Len(lines)
           u == Append(lines, line)
           K == WithSize(lines)
           v == SecondWords(lines)
           w == SecondWords(u)
<1>1. /\ n \in Nat /\ DOMAIN lines = 1..n /\ u \in Seq(Lines) /\ DOMAIN u = 1..(n + 1)
      /\ Len(u) = n + 1 /\ u[n + 1] = line /\ \A i \in 1..n : u[i] = lines[i]
  BY LinesAppend
<1>2. /\ \A i : i \in 1..(n + 1) <=> i \in 1..n \/ i = n + 1
      /\ n + 1 \notin 1..n /\ n + 1 \in 1..(n + 1)
  BY <1>1
<1>3. Len(line) \in Nat /\ (line = <<>> <=> Len(line) = 0)
  BY LenProperties, EmptySeq DEF Lines
<1> HIDE DEF u
<1>4. K \in SUBSET (1..n)
  BY <1>1 DEF WithSize
<1>5. WithSize(u) = IF line = <<>> THEN K ELSE K \cup {n + 1}
  <2>1. WithSize(u) = {i \in 1..(n + 1) : u[i] # <<>>} /\ K = {i \in 1..n : lines[i] # <<>>}
    BY <1>1 DEF WithSize
  <2> HIDE DEF K, n
  <2> QED
    BY <1>1, <1>2, <2>1
<1>6. w[n + 1] = line[2] /\ \A i \in 1..n : w[i] = v[i]
  BY <1>1, <1>2 DEF SecondWords
<1>7. NoneMissing(u) => NoneMissing(lines) /\ Len(line) # 1
  <2>1. ASSUME NoneMissing(u)
        PROVE  NoneMissing(lines) /\ Len(line) # 1
    <3>1. \A i \in 1..(n + 1) : Len(u[i]) # 1
      BY <1>1, <2>1 DEF NoneMissing
    <3>2. Len(line) # 1 /\ \A i \in 1..n : Len(lines[i]) # 1
      BY <1>1, <1>2, <3>1
    <3> QED
      BY <1>1, <3>2 DEF NoneMissing
  <2> QED
    BY <2>1
<1>8. ASSUME NoneMissing(u)
      PROVE  Listed(t, K, n, v) /\ \A i \in K : int32(lines[i][1]) = 100 * Position(i, K)
  BY <1>7, <1>8 DEF OffsetsFiled, SizesInTurn
<1>9. ASSUME Len(line) < 2
      PROVE  OffsetsFiled(t, u)
  <2> SUFFICES ASSUME NoneMissing(u)
               PROVE  Listed(t, WithSize(u), Len(u), w) /\ SizesInTurn(u)
    BY DEF OffsetsFiled
  <2>1. line = <<>>
    <3>1. Len(line) # 1
      BY <1>7
    <3>2. Len(line) = 0
      <4> DEFINE l == Len(line)
      <4>1. l \in Nat /\ l < 2 /\ l # 1
        BY <1>3, <1>9, <3>1
      <4> HIDE DEF l
      <4>2. l = 0
        BY <4>1
      <4> QED
        BY <4>2 DEF l
    <3> QED
      BY <1>3, <3>2
  <2>2. WithSize(u) = K
    BY <1>5, <2>1
  <2> HIDE DEF K, n, v, w
  <2>3. Listed(t, K, n + 1, w)
    BY <1>1, <1>6, <1>8, ListedSame
  <2>4. \A i \in K : int32(u[i][1]) = 100 * Position(i, K)
    BY <1>1, <1>4, <1>8
  <2> QED
    BY <1>1, <2>2, <2>3, <2>4 DEF SizesInTurn
<1>10. ASSUME Len(line) >= 2, line[2] \in Int
       PROVE  OffsetsFiled(Append(t, line[2]), u)
  <2> DEFINE J == K \cup {n + 1}
  <2> SUFFICES ASSUME NoneMissing(u)
               PROVE  Listed(Append(t, line[2]), WithSize(u), Len(u), w) /\ SizesInTurn(u)
    BY DEF OffsetsFiled
  <2>1. line # <<>>
    BY <1>3, <1>10
  <2>2. WithSize(u) = J
    BY <1>5, <2>1
  <2>3. int32(line[1]) = 100 * (1 + Cardinality(K))
    BY <2>1 DEF Expected
  <2> HIDE DEF K, n, v, w
  <2>4. Listed(Append(t, line[2]), J, n + 1, w)
    BY <1>1, <1>6, <1>8, <1>10, ListedOneMore
  <2>5. /\ Cardinality(K) \in Nat /\ Position(n + 1, J) = Cardinality(K) + 1
        /\ \A i \in K : Position(i, J) = Position(i, K)
    BY <1>1, <1>4, PositionsGrow
  <2>6. int32(u[n + 1][1]) = 100 * Position(n + 1, J)
    BY <1>1, <2>3, <2>5
  <2>7. \A i \in K : int32(u[i][1]) = 100 * Position(i, J)
    BY <1>1, <1>4, <1>8, <2>5
  <2>8. \A i \in J : int32(u[i][1]) = 100 * Position(i, J)
    BY <2>6, <2>7
  <2> HIDE DEF J
  <2> QED
    BY <1>1, <2>2, <2>4, <2>8 DEF SizesInTurn
<1> QED
  BY <1>9, <1>10 DEF u

-----------------------------------------------------------------------------
(* The invariant: what was read so far is what the lines so far say, and what *)
(* a file fills is empty before it is opened.                                 *)

NotRead ==
  /\ phase = "main" => file = <<>> /\ heavy_pdo_schedule_ = <<>>
  /\ phase \in {"main", "heavy"} => delay_pdo_traces_ = <<>>
  /\ phase \in {"main", "heavy", "train"} => psize_latency_offset_ = <<>>

Phases == {"main", "heavy", "train", "offsets", "loaded", "threw", "aborted"}

FiledInv ==
  /\ phase \in Phases /\ file \in Seq(Lines) /\ psize_latency_offset_ \in Seq(Int) /\ NotRead
  /\ phase = "heavy" => CutAtStart(heavy_pdo_schedule_, file)
  /\ phase = "train" => CutAtStart(Times(delay_pdo_traces_), file)
  /\ phase \in {"offsets", "loaded"} => OffsetsFiled(psize_latency_offset_, file)

\* Of an empty file nothing was read.
LEMMA NothingFiled ==
  /\ <<>> \in Seq(Lines) /\ <<>> \in Seq(Int) /\ CutAtStart(<<>>, <<>>) /\ OffsetsFiled(<<>>, <<>>)
  /\ CutAtStart(<<>>, <<>>)' /\ Times(<<>>) = <<>>
<1>1. <<>> \in Seq(Lines) /\ <<>> \in Seq(Int) /\ Len(<<>>) = 0 /\ DOMAIN <<>> = {}
  BY EmptySeq
<1>2. Cardinality({}) = 0
  BY FS_EmptySet
<1>3. CutAtStart(<<>>, <<>>) /\ CutAtStart(<<>>, <<>>)'
  BY <1>1, <1>2 DEF CutAtStart
<1>4. WithSize(<<>>) = {}
  BY <1>1 DEF WithSize
<1>5. OffsetsFiled(<<>>, <<>>)
  BY <1>1, <1>2, <1>4 DEF OffsetsFiled, Listed, SizesInTurn
<1> QED
  BY <1>1, <1>3, <1>5 DEF Times

LEMMA GoneFiled ==
  ASSUME Throws \/ Aborts
  PROVE  FiledInv'
<1>1. /\ phase' \in {"threw", "aborted"} /\ file' = <<>> /\ psize_latency_offset_' = <<>>
  BY DEF Throws, Aborts, Gone
<1> QED
  BY <1>1, NothingFiled DEF FiledInv, NotRead, Phases

LEMMA MainFiled ==
  ASSUME FiledInv, main
  PROVE  FiledInv'
<1>1. /\ phase = "main" /\ phase' \in {"heavy", "threw"}
      /\ UNCHANGED <<file, heavy_pdo_schedule_, delay_pdo_traces_, psize_latency_offset_>>
  BY DEF main, contents
<1>2. /\ file' = <<>> /\ heavy_pdo_schedule_' = <<>> /\ delay_pdo_traces_' = <<>>
      /\ psize_latency_offset_' = <<>>
  BY <1>1 DEF FiledInv, NotRead
<1>3. CutAtStart(heavy_pdo_schedule_, file)'
  BY <1>2, NothingFiled DEF CutAtStart
<1> QED
  BY <1>1, <1>2, <1>3, NothingFiled DEF FiledInv, NotRead, Phases

LEMMA HeavyLineFiled ==
  ASSUME LoadInv, FiledInv, NEW line \in HeavyLines, read_heavy_line(line)
  PROVE  FiledInv'
<1> DEFINE ms == uint64(line[1])
           more == Append(file, line)
<1>1. /\ phase = "heavy" /\ UNCHANGED start_timestamp_ /\ start_timestamp_ \in Words
      /\ line \in Lines /\ file \in Seq(Lines) /\ heavy_pdo_schedule_ \in Seq(Words)
      /\ CutAtStart(heavy_pdo_schedule_, file)
      /\ delay_pdo_traces_ = <<>> /\ psize_latency_offset_ = <<>>
  BY LoadingAssumption DEF read_heavy_line, More, LoadInv, HeavySound, FiledInv, NotRead, Lines
<1>2. CASE Throws
  BY <1>2, GoneFiled
<1>3. CASE /\ line # <<>> /\ IsNumber(line[1]) /\ Reads(line)
           /\ UNCHANGED <<phase, delay_pdo_traces_, psize_latency_offset_>>
           /\ \/ ms < start_timestamp_ /\ UNCHANGED heavy_pdo_schedule_
              \/ ~ (ms < start_timestamp_) /\ heavy_pdo_schedule_' = Append(heavy_pdo_schedule_, Time(ms))
  <2>1. line[1] \in Int
    BY <1>1, <1>3, ElementOfSeq, LenProperties, EmptySeq DEF IsNumber, Lines
  <2>2. ms \in Words
    BY <2>1, LoadingAssumption DEF Words, uint64
  <2>3. ~ (ms < start_timestamp_) => Time(ms) \in Words
    BY <1>1, <2>1, TimeIsWord
  <2> HIDE DEF ms, more
  <2>4. CutAtStart(heavy_pdo_schedule_', more)
    BY <1>1, <1>3, <2>2, <2>3, CutNextLine DEF ms, more
  <2>5. file' = more /\ more \in Seq(Lines)
    BY <1>1, <1>3, LinesAppend DEF Reads, more
  <2>6. CutAtStart(heavy_pdo_schedule_, file)'
    BY <1>1, <2>4, <2>5 DEF CutAtStart, Position, uint64
  <2> QED
    BY <1>1, <1>3, <2>5, <2>6, NothingFiled DEF FiledInv, NotRead, Phases
<1> QED
  BY <1>2, <1>3 DEF read_heavy_line, contents

LEMMA TrainLineFiled ==
  ASSUME LoadInv, FiledInv, NEW line \in TrainLines, read_train_line(line)
  PROVE  FiledInv'
<1> DEFINE ms == uint64(line[1])
           more == Append(file, line)
           new == TrainLine(line)
<1>1. /\ phase = "train" /\ UNCHANGED start_timestamp_ /\ start_timestamp_ \in Words
      /\ line \in Lines /\ file \in Seq(Lines) /\ delay_pdo_traces_ \in Seq(DelayLine)
      /\ CutAtStart(Times(delay_pdo_traces_), file) /\ psize_latency_offset_ = <<>>
  BY LoadingAssumption DEF read_train_line, More, LoadInv, TrainSound, FiledInv, NotRead, Lines
<1>2. CASE Throws \/ Aborts
  BY <1>2, GoneFiled
<1>3. CASE /\ line # <<>> /\ (\A i \in 1..Len(line) : IsNumber(line[i])) /\ ~ DelayMissing(line)
           /\ Reads(line) /\ UNCHANGED <<phase, psize_latency_offset_>>
           /\ \/ ms < start_timestamp_ /\ UNCHANGED delay_pdo_traces_
              \/ ~ (ms < start_timestamp_) /\ delay_pdo_traces_' = Append(delay_pdo_traces_, new)
  <2>1. Len(line) \in Nat /\ \A i \in 1..Len(line) : line[i] \in Int
    BY <1>1, <1>3, ElementOfSeq, LenProperties DEF IsNumber, Lines
  <2>2. line[1] \in Int
    BY <1>3, <2>1 DEF DelayMissing
  <2>3. ms \in Words
    BY <2>2, LoadingAssumption DEF Words, uint64
  <2>4. ~ (ms < start_timestamp_) => Time(ms) \in Words
    BY <1>1, <2>2, TimeIsWord
  <2>7. Time(ms) \in Words => new \in DelayLine /\ new.time = Time(ms)
    BY <1>1, <1>3, TrainLineKept
  <2> HIDE DEF ms, more, new
  <2>8. Times(delay_pdo_traces_) \in Seq(Words)
    <3>1. [time |-> 0, delay |-> 0, pdo |-> <<>>] \in DelayLine
      BY LoadingAssumption, EmptySeq DEF DelayLine, Words
    <3> QED
      BY <1>1, <3>1, TimesOfAppend
  <2>9. \/ ms < start_timestamp_ /\ Times(delay_pdo_traces_') = Times(delay_pdo_traces_)
        \/ /\ ~ (ms < start_timestamp_)
           /\ Times(delay_pdo_traces_') = Append(Times(delay_pdo_traces_), Time(ms))
    BY <1>1, <1>3, <2>4, <2>7, TimesOfAppend
  <2>10. CutAtStart(Times(delay_pdo_traces_'), more)
    BY <1>1, <2>3, <2>4, <2>8, <2>9, CutNextLine DEF ms, more
  <2>11. file' = more /\ more \in Seq(Lines)
    BY <1>1, <1>3, LinesAppend DEF Reads, more
  <2>12. CutAtStart(Times(delay_pdo_traces_), file)'
    BY <1>1, <2>10, <2>11 DEF CutAtStart, Position, uint64
  <2> QED
    BY <1>1, <1>3, <2>11, <2>12, NothingFiled DEF FiledInv, NotRead, Phases
<1> QED
  BY <1>2, <1>3 DEF read_train_line, contents

LEMMA OffsetLineFiled ==
  ASSUME FiledInv, NEW line \in OffsetLines, read_offset_line(line)
  PROVE  FiledInv'
<1> DEFINE more == Append(file, line)
           offsets == psize_latency_offset_
<1>1. /\ phase = "offsets" /\ line \in Lines /\ file \in Seq(Lines) /\ offsets \in Seq(Int)
      /\ OffsetsFiled(offsets, file) /\ Len(line) \in Nat
  BY LoadingAssumption, LenProperties DEF read_offset_line, More, FiledInv, Lines
<1>2. CASE Throws
  BY <1>2, GoneFiled
<1>3. CASE /\ ~ (line # <<>> /\ (~ IsNumber(line[1]) \/ ~ Expected(line, file)))
           /\ ~ (Len(line) >= 2 /\ ~ IsNumber(line[2]))
           /\ offsets' = offsets \o (IF Len(line) >= 2 THEN <<line[2]>> ELSE <<>>)
           /\ Reads(line) /\ phase' = phase
  <2>1. file' = more /\ more \in Seq(Lines)
    BY <1>1, <1>3, LinesAppend DEF Reads
  <2>2. line # <<>> => Expected(line, file)
    BY <1>3
  <2> HIDE DEF more
  <2>3. CASE Len(line) < 2
    <3>1. offsets' = offsets
      BY <1>1, <1>3, <2>3, ConcatEmptySeq
    <3>2. OffsetsFiled(offsets, more)
      BY <1>1, <2>2, <2>3, OffsetsNextLine DEF more
    <3> QED
      BY <1>1, <1>3, <2>1, <3>1, <3>2 DEF FiledInv, NotRead, Phases
  <2>4. CASE Len(line) >= 2
    <3>1. line[2] \in Int
      BY <1>1, <1>3, <2>4, ElementOfSeq DEF IsNumber, Lines
    <3>2. offsets' = Append(offsets, line[2]) /\ Append(offsets, line[2]) \in Seq(Int)
      BY <1>1, <1>3, <2>4, <3>1, AppendIsConcat, AppendProperties
    <3>3. OffsetsFiled(Append(offsets, line[2]), more)
      BY <1>1, <2>2, <2>4, <3>1, OffsetsNextLine DEF more
    <3> QED
      BY <1>1, <1>3, <2>1, <3>2, <3>3 DEF FiledInv, NotRead, Phases
  <2> QED
    BY <1>1, <2>3, <2>4
<1> QED
  BY <1>2, <1>3 DEF read_offset_line

\* The next file begins with nothing read of it.
LEMMA EndOfFileFiled ==
  ASSUME FiledInv, end_of_heavy \/ end_of_train \/ end_of_offsets
  PROVE  FiledInv'
<1>1. CASE Throws
  BY <1>1, GoneFiled
<1>2. CASE end_of_heavy /\ ~ Throws
  <2>1. /\ phase' = "train" /\ file' = <<>> /\ delay_pdo_traces_' = <<>>
        /\ psize_latency_offset_' = <<>>
    BY <1>2 DEF end_of_heavy, contents, FiledInv, NotRead
  <2>2. CutAtStart(Times(delay_pdo_traces_), file)'
    BY <2>1, NothingFiled DEF CutAtStart
  <2> QED
    BY <2>1, <2>2, NothingFiled DEF FiledInv, NotRead, Phases
<1>3. CASE end_of_train /\ ~ Throws
  <2>1. phase' = "offsets" /\ file' = <<>> /\ psize_latency_offset_' = <<>>
    BY <1>3 DEF end_of_train, contents, FiledInv, NotRead
  <2> QED
    BY <2>1, NothingFiled DEF FiledInv, NotRead, Phases
<1>4. CASE end_of_offsets
  BY <1>4 DEF end_of_offsets, contents, FiledInv, NotRead, Phases
<1> QED
  BY <1>1, <1>2, <1>3, <1>4

\* All steps keep the invariant.
LEMMA FiledInvariant == Spec => []FiledInv
<1>1. Init => FiledInv
  BY NothingFiled DEF Init, LoadInit, FiledInv, NotRead, Phases
<1>2. LoadInv /\ FiledInv /\ [Next]_vars => FiledInv'
  <2> SUFFICES ASSUME LoadInv, FiledInv, [Next]_vars
               PROVE  FiledInv'
    OBVIOUS
  <2>1. CASE LoadStep
    <3>1. CASE usage_error \/ cannot_open
      BY <3>1, GoneFiled DEF usage_error, cannot_open
    <3> QED
      BY <2>1, <3>1, MainFiled, HeavyLineFiled, TrainLineFiled, OffsetLineFiled, EndOfFileFiled
      DEF LoadStep
  <2>2. CASE UNCHANGED loadVars
    BY <2>2 DEF loadVars, FiledInv, NotRead, CutAtStart, Position, uint64
  <2> QED
    BY <2>1, <2>2 DEF Next, vars
<1> QED
  BY <1>1, <1>2, LoadInvariant, PTL DEF Spec

\* Whatever the files hold and however long they are: the schedules in memory
\* are the lines of their files from the start timestamp on, in their order and
\* counted from it, the same for both; and every packet size has the offset of
\* its own line, unless a line has a size and no offset.
THEOREM TracesLoadedAsFiled == Spec => []LoadedAsFiled
<1>1. FiledInv => LoadedAsFiled
  <2> SUFFICES ASSUME FiledInv
               PROVE  SchedulesAsFiled /\ OffsetsAligned
    BY DEF LoadedAsFiled
  <2>1. SchedulesAsFiled
    BY DEF FiledInv, SchedulesAsFiled, Times
  <2>2. ASSUME phase \in {"offsets", "loaded"}, \A i \in DOMAIN file : Len(file[i]) # 1
        PROVE  /\ Len(psize_latency_offset_) = Cardinality(WithSize(file))
               /\ \A i \in WithSize(file) :
                    /\ int32(file[i][1]) = 100 * Position(i, WithSize(file))
                    /\ file[i][2] = psize_latency_offset_[Position(i, WithSize(file))]
    <3>1. /\ Listed(psize_latency_offset_, WithSize(file), Len(file), SecondWords(file))
          /\ SizesInTurn(file)
      BY <2>2 DEF FiledInv, OffsetsFiled, NoneMissing
    <3>2. \A i \in WithSize(file) : SecondWords(file)[i] = file[i][2]
      BY DEF SecondWords, WithSize
    <3> QED
      BY <3>1, <3>2 DEF Listed, SizesInTurn
  <2> QED
    BY <2>1, <2>2 DEF OffsetsAligned
<1> QED
  BY <1>1, FiledInvariant, PTL

=============================================================================
