-------------------------- MODULE TableCacheProofs --------------------------
(***************************************************************************)
(* Theorems about modules Ports and TableCache: any number of programs     *)
(* with any number of names and ports that write the two files and die,    *)
(* any number of rewrites by older programs, and beside them the daemon    *)
(* with its copy of the ports.                                             *)
(***************************************************************************)
EXTENDS TableCache, TLAPS

-----------------------------------------------------------------------------
(* Module Ports.                                                             *)

\* Ports that are one program's own.
Own(p) == [Public -> Mine[p] \cup {NoPort}]
OwnEntry(e) == e # None => e.ports \in Own(e.pid)

\* What a program is going to write is its own ports too: those it keeps, those its
\* healer wants back, those its call of setPort is to remember and to put in the
\* ports file.  Without these the two files' entries are not inductive.
OwnPorts ==
  /\ \A n \in Name : OwnEntry(reg[n]) /\ OwnEntry(side[n])
  /\ \A p \in Pid :
       /\ \A n \in Name : kept[p][n] \in Own(p) /\ heal[p].want[n] \in Own(p)
       /\ set[p] # None => set[p].private \in Mine[p] \cup {NoPort} /\ set[p].after \in Own(p)

Inv == TypeOK /\ OwnPorts

-----------------------------------------------------------------------------
LEMMA OwnIsPortMap ==
  ASSUME NEW p \in Pid
  PROVE  Own(p) \subseteq PortMap /\ NoPorts \in Own(p)
BY PortsAssumption DEF Own, PortMap, Private, NoPorts

LEMMA MergeOwn ==
  ASSUME NEW p \in Pid, NEW a \in Own(p), NEW b \in Own(p)
  PROVE  Merge(a, b) \in Own(p)
BY DEF Merge, Own

\* An entry that is well typed and of its program's own ports.
Good(e) == e \in Entry \cup {None} /\ OwnEntry(e)

LEMMA PrunedGood ==
  ASSUME Inv
  PROVE  \A n \in Name : Good(Pruned[n])
BY DEF Inv, TypeOK, OwnPorts, OwnEntry, Good, Pruned, Live

LEMMA NewGood ==
  ASSUME NEW p \in Pid, NEW ip \in Ip, NEW ports \in Own(p)
  PROVE  Good([pid |-> p, ip |-> ip, ports |-> ports])
BY OwnIsPortMap DEF Good, OwnEntry, Entry

LEMMA PortsGood ==
  ASSUME NEW e, Good(e), e # None, NEW ports \in Own(e.pid)
  PROVE  Good([e EXCEPT !.ports = ports])
<1>1. e \in Entry
  BY DEF Good
<1>2. [e EXCEPT !.ports = ports] = [pid |-> e.pid, ip |-> e.ip, ports |-> ports]
  BY <1>1 DEF Entry
<1>3. QED
  BY <1>1, <1>2, NewGood DEF Entry

LEMMA SideGood ==
  ASSUME Inv, NEW p \in Pid, NEW n \in Name, NEW ip, NEW ports \in Own(p),
         ports # NoPorts => ip \in Ip
  PROVE  /\ SideWith(p, n, ip, ports) \in [Name -> Entry \cup {None}]
         /\ \A m \in Name : OwnEntry(SideWith(p, n, ip, ports)[m])
<1> DEFINE live == [m \in Name |-> Live(side[m])]
           new == [pid |-> p, ip |-> ip, ports |-> ports]
<1>1. \A m \in Name : Good(live[m])
  BY DEF Inv, TypeOK, OwnPorts, OwnEntry, Good, Live
<1>2. Good(None)
  BY DEF Good, OwnEntry
<1>3. CASE ports # NoPorts
  <2>1. Good(new)
    BY <1>3, NewGood
  <2>2. SideWith(p, n, ip, ports) = [live EXCEPT ![n] = new]
    BY <1>3 DEF SideWith
  <2>3. QED
    BY <1>1, <2>1, <2>2 DEF Good
<1>4. CASE ports = NoPorts
  <2>1. SideWith(p, n, ip, ports) = [live EXCEPT ![n] = IF HeldBy(p, @) THEN None ELSE @]
    BY <1>4 DEF SideWith
  <2>2. QED
    BY <1>1, <1>2, <2>1 DEF Good
<1>5. QED
  BY <1>3, <1>4

-----------------------------------------------------------------------------
LEMMA InitInv == Init => Inv
<1> SUFFICES ASSUME Init
             PROVE  Inv
  OBVIOUS
<1>1. \A p \in Pid : NoPorts \in Own(p) /\ NoPorts \in PortMap
  BY OwnIsPortMap
<1>2. TypeOK
  BY <1>1, PortsAssumption DEF Init, TypeOK, Nothing, Off
<1>3. OwnPorts
  BY <1>1 DEF Init, OwnPorts, OwnEntry, Nothing, Off
<1>4. QED
  BY <1>2, <1>3 DEF Inv

LEMMA ClaimInv ==
  ASSUME Inv, NEW p \in Pid, NEW n \in Name, NEW ip \in Ip, Claim(p, n, ip)
  PROVE  Inv'
<1> DEFINE ports == IF Pruned[n] # None /\ Pruned[n].ip = ip THEN Pruned[n].ports ELSE NoPorts
           new == [pid |-> p, ip |-> ip, ports |-> ports]
<1>1. reg' = [Pruned EXCEPT ![n] = new]
  BY DEF Claim, Write, Pruned
<1>2. ports \in Own(p)
  BY PrunedGood, OwnIsPortMap DEF Good, OwnEntry, Claim, HeldBy
<1>3. Good(new)
  BY <1>2, NewGood
<1> HIDE DEF new
<1>4. \A m \in Name : Good(reg'[m])
  BY <1>1, <1>3, PrunedGood DEF Pruned
<1>5. TypeOK'
  BY <1>1, <1>4 DEF Inv, TypeOK, Claim, Write, Good, Pruned
<1>6. OwnPorts'
  BY <1>4 DEF Inv, OwnPorts, Claim, Good, OwnEntry
<1>7. QED
  BY <1>5, <1>6 DEF Inv

LEMMA ReleaseInv ==
  ASSUME Inv, NEW p \in Pid, NEW n \in Name, Release(p, n)
  PROVE  Inv'
<1>1. \/ reg' = [Pruned EXCEPT ![n] = IF HeldBy(p, @) THEN None ELSE @]
      \/ reg' = reg
  BY DEF Release, Write
<1>2. reg' \in [Name -> Entry \cup {None}] /\ \A m \in Name : Good(reg'[m])
  <2>1. CASE reg' = reg
    BY <2>1 DEF Inv, TypeOK, OwnPorts, Good
  <2>2. CASE reg' = [Pruned EXCEPT ![n] = IF HeldBy(p, @) THEN None ELSE @]
    BY <2>2, PrunedGood DEF Pruned, Good, OwnEntry
  <2>3. QED
    BY <1>1, <2>1, <2>2
<1>3. TypeOK'
  BY <1>2 DEF Inv, TypeOK, Release, Write
<1>4. OwnPorts'
  BY <1>2 DEF Inv, OwnPorts, Release, Good, OwnEntry
<1>5. QED
  BY <1>3, <1>4 DEF Inv

LEMMA ForgetInv ==
  ASSUME Inv, NEW p \in Pid, Forget(p) \/ ForgetSide(p) \/ ForgetFails(p)
  PROVE  Inv'
<1>1. NoPorts \in Own(p) /\ NoPorts \in PortMap
  BY OwnIsPortMap
<1>2. CASE Forget(p)
  <2>1. drop[p] \in [at : {"forget", "write"}, name : Name]
    BY <1>2 DEF Inv, TypeOK, Forget
  <2>2. TypeOK'
    BY <1>1, <1>2, <2>1 DEF Inv, TypeOK, Forget
  <2>3. OwnPorts'
    BY <1>1, <1>2, <2>1 DEF Inv, TypeOK, OwnPorts, Forget, OwnEntry
  <2>4. QED
    BY <2>2, <2>3 DEF Inv
<1>3. CASE ForgetSide(p)
  <2>1. drop[p].name \in Name /\ side' = SideWith(p, drop[p].name, None, NoPorts)
    BY <1>3 DEF Inv, TypeOK, ForgetSide
  <2>2. side' \in [Name -> Entry \cup {None}] /\ \A m \in Name : OwnEntry(side'[m])
    BY <1>1, <2>1, SideGood
  <2>3. TypeOK'
    BY <1>3, <2>2 DEF Inv, TypeOK, ForgetSide
  <2>4. OwnPorts'
    BY <1>3, <2>2 DEF Inv, OwnPorts, ForgetSide, OwnEntry
  <2>5. QED
    BY <2>3, <2>4 DEF Inv
<1>4. CASE ForgetFails(p)
  BY <1>4 DEF Inv, TypeOK, OwnPorts, OwnEntry, ForgetFails
<1>5. QED
  BY <1>2, <1>3, <1>4

LEMMA SetPortInv ==
  ASSUME Inv, NEW p \in Pid, NEW n \in Name, NEW ip \in Ip, NEW u \in Public,
         NEW v \in Mine[p] \cup {NoPort}, SetPort(p, n, ip, u, v)
  PROVE  Inv'
<1> DEFINE after == [Pruned[n].ports EXCEPT ![u] = v]
           call == [at |-> "remember", name |-> n, ip |-> ip, public |-> u,
                    private |-> v, after |-> after]
<1>1. Pruned[n] # None /\ Pruned[n].pid = p
  BY DEF SetPort, HeldBy
<1>2. after \in Own(p) /\ v \in Private \cup {NoPort}
  BY <1>1, PrunedGood DEF Good, OwnEntry, Own, Private
<1>3. reg' = [Pruned EXCEPT ![n] = [Pruned[n] EXCEPT !.ports = after]]
  BY DEF SetPort, Write, Pruned
<1>4. Good([Pruned[n] EXCEPT !.ports = after])
  BY <1>1, <1>2, PrunedGood, PortsGood
<1>5. \A m \in Name : Good(reg'[m])
  BY <1>3, <1>4, PrunedGood DEF Pruned
<1>6. set' = [set EXCEPT ![p] = call] /\ sets[p] < MaxSets
  BY DEF SetPort
<1>7. call \in [at : {"remember", "write"}, name : Name, ip : Ip, public : Public,
                private : Private \cup {NoPort}, after : PortMap]
  BY <1>2, OwnIsPortMap
<1>8. TypeOK'
  <2>1. sets' \in [Pid -> 0 .. MaxSets]
    BY <1>6, PortsAssumption DEF Inv, TypeOK, SetPort
  <2>2. reg' \in [Name -> Entry \cup {None}]
    BY <1>3, <1>5 DEF Pruned, Good
  <2>3. dirty' = Pid /\ UNCHANGED <<alive, side, kept, drop, heal, strips>>
    BY DEF SetPort, Write
  <2>4. QED
    BY <1>6, <1>7, <2>1, <2>2, <2>3 DEF Inv, TypeOK
<1>9. OwnPorts'
  <2>1. UNCHANGED <<side, kept, heal>>
    BY DEF SetPort
  <2>2. call.private = v /\ call.after = after
    OBVIOUS
  <2> HIDE DEF call, after
  <2>3. \A q \in Pid : set'[q] # None =>
          set'[q].private \in Mine[q] \cup {NoPort} /\ set'[q].after \in Own(q)
    BY <1>2, <1>6, <2>2 DEF Inv, TypeOK, OwnPorts
  <2>4. QED
    BY <1>5, <2>1, <2>3 DEF Inv, OwnPorts, Good, OwnEntry
<1>10. QED
  BY <1>8, <1>9 DEF Inv

LEMMA RememberInv ==
  ASSUME Inv, NEW p \in Pid, Remember(p)
  PROVE  Inv'
<1> DEFINE s == set[p]
<1>1. /\ s \in [at : {"remember", "write"}, name : Name, ip : Ip, public : Public,
                private : Private \cup {NoPort}, after : PortMap]
      /\ s # None /\ s.private \in Mine[p] \cup {NoPort} /\ s.after \in Own(p)
  BY DEF Inv, TypeOK, OwnPorts, Remember
<1>2. /\ kept' = [kept EXCEPT ![p][s.name][s.public] = s.private]
      /\ set' = [set EXCEPT ![p] = [s EXCEPT !.at = "write"]]
      /\ UNCHANGED <<alive, reg, side, drop, strips, sets>>
      /\ heal' = heal \/ heal' = [heal EXCEPT ![p].at = "tick"]
      /\ dirty' = dirty \/ dirty' = dirty \cup {p}
  BY DEF Inv, TypeOK, Remember
<1>3. /\ kept' \in [Pid -> [Name -> PortMap]]
      /\ \A q \in Pid, n \in Name : kept'[q][n] \in Own(q)
  BY <1>1, <1>2 DEF Inv, TypeOK, OwnPorts, Own, PortMap
<1>4. /\ heal' \in [Pid -> [at : {"off", "tick", "stat", "update", "restat"},
                            want : [Name -> PortMap]]]
      /\ \A q \in Pid : heal'[q].want = heal[q].want
  <2>1. CASE heal' = heal
    BY <2>1 DEF Inv, TypeOK
  <2>2. CASE heal' = [heal EXCEPT ![p].at = "tick"]
    BY <2>2 DEF Inv, TypeOK
  <2>3. QED
    BY <1>2, <2>1, <2>2
<1>5. TypeOK'
  BY <1>1, <1>2, <1>3, <1>4 DEF Inv, TypeOK
<1>6. OwnPorts'
  BY <1>1, <1>2, <1>3, <1>4 DEF Inv, TypeOK, OwnPorts, OwnEntry
<1>7. QED
  BY <1>5, <1>6 DEF Inv

LEMMA WriteSideInv ==
  ASSUME Inv, NEW p \in Pid, WriteSide(p) \/ SideFails(p)
  PROVE  Inv'
<1>1. CASE WriteSide(p)
  <2>1. /\ set[p].name \in Name /\ set[p].ip \in Ip /\ set[p].after \in Own(p)
        /\ side' = SideWith(p, set[p].name, set[p].ip, set[p].after)
    BY <1>1 DEF Inv, TypeOK, OwnPorts, WriteSide
  <2>2. side' \in [Name -> Entry \cup {None}] /\ \A m \in Name : OwnEntry(side'[m])
    BY <2>1, SideGood
  <2>3. TypeOK'
    BY <1>1, <2>2 DEF Inv, TypeOK, WriteSide
  <2>4. OwnPorts'
    BY <1>1, <2>2 DEF Inv, TypeOK, OwnPorts, WriteSide, OwnEntry
  <2>5. QED
    BY <2>3, <2>4 DEF Inv
<1>2. CASE SideFails(p)
  BY <1>2 DEF Inv, TypeOK, OwnPorts, OwnEntry, SideFails
<1>3. QED
  BY <1>1, <1>2

LEMMA HealerInv ==
  ASSUME Inv, NEW p \in Pid, Healer(p)
  PROVE  Inv'
<1>1. NoPorts \in Own(p) /\ NoPorts \in PortMap
  BY OwnIsPortMap
<1>2. CASE HealTick(p)
  <2>1. TypeOK'
    BY <1>1, <1>2 DEF Inv, TypeOK, HealTick, Off, Nothing
  <2>2. OwnPorts'
    BY <1>1, <1>2 DEF Inv, TypeOK, OwnPorts, OwnEntry, HealTick, Off, Nothing
  <2>3. QED
    BY <2>1, <2>2 DEF Inv
<1>3. CASE HealStat(p)
  <2>1. TypeOK'
    <3>1. heal' \in [Pid -> [at : {"off", "tick", "stat", "update", "restat"},
                             want : [Name -> PortMap]]]
      <4>1. [at |-> "tick", want |-> Nothing] \in [at : {"off", "tick", "stat", "update", "restat"},
                                                  want : [Name -> PortMap]]
        BY <1>1 DEF Nothing
      <4>2. QED
        BY <1>3, <4>1 DEF Inv, TypeOK, HealStat
    <3>2. QED
      BY <1>3, <3>1 DEF Inv, TypeOK, HealStat
  <2>2. OwnPorts'
    BY <1>1, <1>3 DEF Inv, TypeOK, OwnPorts, OwnEntry, HealStat, Nothing
  <2>3. QED
    BY <2>1, <2>2 DEF Inv
<1>4. CASE HealUpdate(p)
  <2> DEFINE ports(n) == Merge(Pruned[n].ports, heal[p].want[n])
             new(n) == [Pruned[n] EXCEPT !.ports = ports(n)]
  <2>1. reg' = [n \in Name |-> IF HeldBy(p, Pruned[n]) THEN new(n) ELSE Pruned[n]]
    BY <1>4 DEF HealUpdate, Write
  <2>2. ASSUME NEW n \in Name, HeldBy(p, Pruned[n])
        PROVE  Good(new(n))
    <3>1. Pruned[n] # None /\ Pruned[n].pid = p /\ Good(Pruned[n])
      BY <2>2, PrunedGood DEF HeldBy
    <3>2. ports(n) \in Own(p)
      BY <3>1, MergeOwn DEF Inv, OwnPorts, Good, OwnEntry
    <3>3. QED
      BY <3>1, <3>2, PortsGood
  <2> HIDE DEF new
  <2>3. \A n \in Name : Good(reg'[n])
    BY <2>1, <2>2, PrunedGood
  <2>4. TypeOK'
    <3>1. reg' \in [Name -> Entry \cup {None}]
      BY <2>1, <2>3 DEF Good
    <3>2. heal' \in [Pid -> [at : {"off", "tick", "stat", "update", "restat"},
                             want : [Name -> PortMap]]]
      BY <1>4 DEF Inv, TypeOK, HealUpdate
    <3>3. dirty' \subseteq Pid /\ UNCHANGED <<alive, side, kept, set, drop, strips, sets>>
      BY <1>4 DEF Inv, TypeOK, HealUpdate, Write
    <3>4. QED
      BY <3>1, <3>2, <3>3 DEF Inv, TypeOK
  <2>5. OwnPorts'
    BY <1>4, <2>3 DEF Inv, TypeOK, OwnPorts, HealUpdate, Good, OwnEntry
  <2>6. QED
    BY <2>4, <2>5 DEF Inv
<1>5. CASE HealRestat(p)
  <2>1. TypeOK'
    BY <1>1, <1>5 DEF Inv, TypeOK, HealRestat, Nothing
  <2>2. OwnPorts'
    BY <1>1, <1>5 DEF Inv, TypeOK, OwnPorts, OwnEntry, HealRestat, Nothing
  <2>3. QED
    BY <2>1, <2>2 DEF Inv
<1>6. CASE HealFails(p)
  <2>1. heal' = [heal EXCEPT ![p].at = "restat"] /\ UNCHANGED <<alive, reg, side, kept, dirty, set, drop, strips, sets>>
    BY <1>6 DEF HealFails
  <2>2. TypeOK'
    <3>1. heal' \in [Pid -> [at : {"off", "tick", "stat", "update", "restat"},
                             want : [Name -> PortMap]]]
      BY <2>1 DEF Inv, TypeOK
    <3>2. QED
      BY <2>1, <3>1 DEF Inv, TypeOK
  <2>3. \A q \in Pid : heal'[q].want = heal[q].want
    BY <2>1 DEF Inv, TypeOK
  <2>4. OwnPorts'
    BY <2>1, <2>3 DEF Inv, OwnPorts, OwnEntry
  <2>5. QED
    BY <2>2, <2>4 DEF Inv
<1>7. QED
  BY <1>2, <1>3, <1>4, <1>5, <1>6 DEF Healer

LEMMA ExitInv ==
  ASSUME Inv, NEW p \in Pid, Exit(p)
  PROVE  Inv'
<1>1. NoPorts \in Own(p) /\ NoPorts \in PortMap
  BY OwnIsPortMap
<1>2. TypeOK'
  BY <1>1 DEF Inv, TypeOK, Exit, Off, Nothing
<1>3. OwnPorts'
  BY <1>1 DEF Inv, TypeOK, OwnPorts, OwnEntry, Exit, Off, Nothing
<1>4. QED
  BY <1>2, <1>3 DEF Inv

LEMMA RewriteInv ==
  ASSUME Inv, Touch \/ Strip
  PROVE  Inv'
<1>1. ASSUME NEW e, Good(e), e # None
      PROVE  Good([e EXCEPT !.ports = NoPorts])
  BY <1>1, OwnIsPortMap, PortsGood DEF Good, Entry
<1>2. CASE Touch
  <2>1. reg' = Pruned
    BY <1>2 DEF Touch, Write
  <2>2. QED
    BY <1>2, <2>1, PrunedGood DEF Inv, TypeOK, OwnPorts, OwnEntry, Touch, Write, Good, Pruned
<1>3. CASE Strip
  <2>1. reg' = [n \in Name |-> IF Pruned[n] = None THEN None ELSE [Pruned[n] EXCEPT !.ports = NoPorts]]
    BY <1>3 DEF Strip, Write
  <2>2. \A n \in Name : Good(reg'[n])
    BY <1>1, <2>1, PrunedGood
  <2>3. TypeOK'
    BY <1>3, <2>1, <2>2, PortsAssumption DEF Inv, TypeOK, Strip, Write, Good
  <2>4. OwnPorts'
    BY <1>3, <2>2 DEF Inv, OwnPorts, OwnEntry, Strip, Good
  <2>5. QED
    BY <2>3, <2>4 DEF Inv
<1>4. QED
  BY <1>2, <1>3

-----------------------------------------------------------------------------
LEMMA NextInv == Inv /\ Next => Inv'
<1> SUFFICES ASSUME Inv, Next
             PROVE  Inv'
  OBVIOUS
<1>1. ASSUME NEW p \in Pid, Calls(p)
      PROVE  Inv'
  BY <1>1, ClaimInv, ReleaseInv, ForgetInv, SetPortInv, RememberInv, WriteSideInv DEF Calls
<1>2. ASSUME NEW p \in Pid, Healer(p) \/ Exit(p)
      PROVE  Inv'
  BY <1>2, HealerInv, ExitInv
<1>3. QED
  BY <1>1, <1>2, RewriteInv DEF Next

LEMMA StepInv == Inv /\ [Next]_vars => Inv'
<1>1. Inv /\ UNCHANGED vars => Inv'
  BY DEF Inv, TypeOK, OwnPorts, OwnEntry, vars
<1>2. QED
  BY <1>1, NextInv

LEMMA SpecInv == Spec => []Inv
<1>1. QED
  BY InitInv, StepInv, PTL DEF Spec

LEMMA InvNoForeignPorts == Inv => NoForeignPorts
BY DEF Inv, TypeOK, OwnPorts, OwnEntry, Own, NoForeignPorts

\* The state has the type the module says, with or without the busy registry.
THEOREM PortsTypeOKHolds == Spec => []TypeOK
<1>1. Inv => TypeOK
  BY DEF Inv
<1>2. QED
  BY <1>1, SpecInv, PTL

\* No name is ever given a port of another program, in names.json or in the ports
\* file, whatever falls between a healer's or a setPort's look and its write.
THEOREM NoForeignPortsHolds == Spec => []NoForeignPorts
<1>1. QED
  BY InvNoForeignPorts, SpecInv, PTL

-----------------------------------------------------------------------------
(* Module TableCache.                                                        *)

\* Where a refresh is, that what it has read of the registry is of own ports, and that
\* a front door is of a program that runs one.
ReadOK ==
  /\ read.at \in {"idle", "stamped", "read"}
  /\ read.at = "idle" => read = Idle
  /\ \A n \in Name : Good(read.file.name[n])
  /\ {door, read.file.door} \subseteq Doors \cup {None}

OwnMapping(m) ==
  /\ m.pid \in Pid
  /\ \/ m.via = m.pid /\ m.private \in Mine[m.pid]
     \/ m.via \in Doors /\ m.public = FrontDoor /\ m.private = FrontDoor

\* While the stamp has not changed since it was taken, what has been read is the
\* registry as it still is, and what has been built is the table of both files.
Fresh ==
  ~stale =>
    /\ read.at = "read" => read.file = File
    /\ read = Idle => {m \in table : {m.pid, m.via} \subseteq alive} = TableFrom(File)

CInv == Inv /\ ReadOK /\ (\A m \in table : OwnMapping(m)) /\ Fresh

-----------------------------------------------------------------------------
Mapped(f, n) == f.name[n] # None /\ f.name[n].pid \in alive

Listed(f, n, u) == Mapped(f, n) /\ Effective(f.name, n)[u] # NoPort

Served(f, n, u) == Mapping(f, n, f.name[n].pid, u, Effective(f.name, n)[u])

AtDoor(f, n) ==
  Mapped(f, n) /\ n \in f.routed /\ f.door \in alive /\ Effective(f.name, n)[FrontDoor] = NoPort

FromDoor(f, n) == Mapping(f, n, f.door, FrontDoor, FrontDoor)

\* What is in the table that readPortTable builds.
LEMMA TableHas ==
  ASSUME NEW f, NEW m
  PROVE  m \in TableFrom(f) <=>
           \/ \E n \in Name, u \in Public : Listed(f, n, u) /\ m = Served(f, n, u)
           \/ \E n \in Name : AtDoor(f, n) /\ m = FromDoor(f, n)
<1> DEFINE mapped == {n \in Name : Mapped(f, n)}
           open(n) == {u \in Public : Effective(f.name, n)[u] # NoPort}
           fronted == {n \in mapped \cap f.routed : f.door \in alive /\ FrontDoor \notin open(n)}
           own == UNION {{Served(f, n, u) : u \in open(n)} : n \in mapped}
           shared == {FromDoor(f, n) : n \in fronted}
<1>1. TableFrom(f) = own \cup shared
  BY DEF TableFrom, Served, FromDoor, Mapped
<1>2. m \in own <=>
        \E n \in Name, u \in Public : Listed(f, n, u) /\ m = Served(f, n, u)
  BY DEF Listed
<1>3. \A n \in Name : n \in fronted <=> AtDoor(f, n)
  BY TableCacheAssumption DEF AtDoor
<1>4. m \in shared <=>
        \E n \in Name : AtDoor(f, n) /\ m = FromDoor(f, n)
  BY <1>3
<1> HIDE DEF own, shared
<1>5. QED
  BY <1>1, <1>2, <1>4

\* The two files are merged only when they are of one program, so what is
\* effective are its own ports, though the registry may be one read earlier.
LEMMA EffectiveOwn ==
  ASSUME Inv, NEW r, NEW n \in Name, Good(r[n]), r[n] # None
  PROVE  Effective(r, n) \in Own(r[n].pid)
<1>1. r[n].pid \in Pid /\ r[n].ports \in Own(r[n].pid)
  BY DEF Good, OwnEntry, Entry
<1>2. CASE side[n] # None /\ side[n].pid = r[n].pid /\ side[n].ip = r[n].ip
  <2>1. side[n].ports \in Own(r[n].pid)
    BY <1>2 DEF Inv, OwnPorts, OwnEntry
  <2>2. Effective(r, n) = Merge(r[n].ports, side[n].ports)
    BY <1>2 DEF Effective
  <2>3. QED
    BY <1>1, <2>1, <2>2, MergeOwn
<1>3. CASE ~(side[n] # None /\ side[n].pid = r[n].pid /\ side[n].ip = r[n].ip)
  BY <1>1, <1>3 DEF Effective
<1>4. QED
  BY <1>2, <1>3

LEMMA TableIsOwn ==
  ASSUME Inv, NEW f, \A n \in Name : Good(f.name[n]), f.door \in Doors \cup {None},
         NEW m \in TableFrom(f)
  PROVE  OwnMapping(m)
<1>1. CASE \E n \in Name, u \in Public : Listed(f, n, u) /\ m = Served(f, n, u)
  <2>1. PICK n \in Name, u \in Public : Listed(f, n, u) /\ m = Served(f, n, u)
    BY <1>1
  <2>2. f.name[n] # None /\ f.name[n].pid \in Pid
    BY <2>1 DEF Listed, Mapped, Good, Entry
  <2>3. Effective(f.name, n)[u] \in Mine[f.name[n].pid] \cup {NoPort}
    BY <2>2, EffectiveOwn DEF Own
  <2>4. QED
    BY <2>1, <2>2, <2>3 DEF Listed, Served, Mapping, OwnMapping
<1>2. CASE \E n \in Name : AtDoor(f, n) /\ m = FromDoor(f, n)
  <2>1. PICK n \in Name : AtDoor(f, n) /\ m = FromDoor(f, n)
    BY <1>2
  <2>2. f.name[n].pid \in Pid
    BY <2>1 DEF AtDoor, Mapped, Good, Entry
  <2>3. f.door \in Doors
    BY <2>1, TableCacheAssumption DEF AtDoor, Inv, TypeOK
  <2>4. QED
    BY <2>1, <2>2, <2>3 DEF FromDoor, Mapping, OwnMapping
<1>3. QED
  BY <1>1, <1>2, TableHas

\* With the files as they were, programs that die take their mappings with them and
\* nothing else.
LEMMA TableShrinks ==
  ASSUME alive' \subseteq alive, UNCHANGED <<File, side>>
  PROVE  TableFrom(File)' = {m \in TableFrom(File) : {m.pid, m.via} \subseteq alive'}
<1>0. UNCHANGED <<reg, routed, door, side>>
  BY DEF File
<1>1. ASSUME NEW n, NEW u
      PROVE  /\ Listed(File, n, u)' <=> Listed(File, n, u) /\ reg[n].pid \in alive'
             /\ Served(File, n, u)' = Served(File, n, u)
             /\ AtDoor(File, n)' <=> AtDoor(File, n) /\ {reg[n].pid, door} \subseteq alive'
             /\ FromDoor(File, n)' = FromDoor(File, n)
  BY <1>0 DEF Listed, Served, AtDoor, FromDoor, Mapping, Mapped, Effective, Merge, File
<1>2. ASSUME NEW m
      PROVE  m \in TableFrom(File)' <=>
               \/ \E n \in Name, u \in Public : Listed(File, n, u)' /\ m = Served(File, n, u)'
               \/ \E n \in Name : AtDoor(File, n)' /\ m = FromDoor(File, n)'
  <2> DEFINE mapped == {n \in Name : Mapped(File, n)'}
             open(n) == {u \in Public : Effective(File.name, n)'[u] # NoPort}
             fronted == {n \in mapped : /\ n \in File'.routed /\ File'.door \in alive'
                                        /\ FrontDoor \notin open(n)}
             own == UNION {{Served(File, n, u)' : u \in open(n)} : n \in mapped}
             shared == {FromDoor(File, n)' : n \in fronted}
  <2>1. TableFrom(File)' = own \cup shared
    BY DEF TableFrom, Served, FromDoor, Mapped
  <2>2. m \in own <=>
          \E n \in Name, u \in Public : Listed(File, n, u)' /\ m = Served(File, n, u)'
    BY DEF Listed
  <2>3. \A n \in Name : n \in fronted <=> AtDoor(File, n)'
    BY TableCacheAssumption DEF AtDoor
  <2>4. m \in shared <=>
          \E n \in Name : AtDoor(File, n)' /\ m = FromDoor(File, n)'
    BY <2>3
  <2> HIDE DEF own, shared
  <2>5. QED
    BY <2>1, <2>2, <2>4
<1>3. ASSUME NEW n, NEW u
      PROVE  /\ Served(File, n, u).pid = reg[n].pid /\ Served(File, n, u).via = reg[n].pid
             /\ FromDoor(File, n).pid = reg[n].pid /\ FromDoor(File, n).via = door
  BY DEF Served, FromDoor, Mapping, File
<1>4. ASSUME NEW m
      PROVE  m \in TableFrom(File) <=>
               \/ \E n \in Name, u \in Public : Listed(File, n, u) /\ m = Served(File, n, u)
               \/ \E n \in Name : AtDoor(File, n) /\ m = FromDoor(File, n)
  BY TableHas
<1>5. QED
  BY <1>1, <1>2, <1>3, <1>4

-----------------------------------------------------------------------------
LEMMA InitCInv == CInit => CInv
<1> SUFFICES ASSUME CInit
             PROVE  CInv
  OBVIOUS
<1>1. Inv
  BY InitInv DEF CInit
<1>2. ReadOK
  BY DEF CInit, ReadOK, Idle, Empty, Good, OwnEntry
<1>3. QED
  BY <1>1, <1>2 DEF CInit, CInv, NoTable, Fresh

LEMMA AliveShrinks == Next => alive' \subseteq alive
<1>1. ASSUME NEW p \in Pid, Calls(p)
      PROVE  alive' \subseteq alive
  BY <1>1 DEF Calls, Claim, Release, Forget, ForgetSide, ForgetFails, SetPort, Remember, WriteSide, SideFails
<1>2. ASSUME NEW p \in Pid, Healer(p)
      PROVE  alive' \subseteq alive
  BY <1>2 DEF Healer, HealTick, HealStat, HealUpdate, HealFails, HealRestat
<1>3. ASSUME NEW p \in Pid, Exit(p)
      PROVE  alive' \subseteq alive
  BY <1>3 DEF Exit
<1>4. QED
  BY <1>1, <1>2, <1>3 DEF Next, Touch, Strip

\* A program's write, whatever it makes of the routes and the front door.
LEMMA WriterCInv ==
  ASSUME CInv, Next, NEW names, NEW holder \in Doors \cup {None}, Fronted(names, holder)
  PROVE  CInv'
<1>1. Inv'
  BY NextInv DEF CInv
<1>2. ReadOK'
  BY DEF CInv, Fronted, ReadOK, Good, OwnEntry
<1>3. \A m \in table' : OwnMapping(m)
  BY DEF CInv, Fronted
<1>4. alive' \subseteq alive
  BY AliveShrinks
<1>5. Fresh'
  <2>1. SUFFICES ASSUME ~stale'
                 PROVE  /\ read'.at = "read" => read'.file = File'
                        /\ read' = Idle =>
                             {m \in table' : {m.pid, m.via} \subseteq alive'} = TableFrom(File)'
    BY DEF Fresh, Idle, Empty
  <2>2. ~stale /\ UNCHANGED <<File, side, read, table>>
    BY <2>1 DEF Fronted
  <2>3. read.at = "read" => read.file = File
    BY <2>2 DEF CInv, Fresh
  <2>4. ASSUME read = Idle
        PROVE  {m \in table : {m.pid, m.via} \subseteq alive'} = TableFrom(File)'
    <3>1. {m \in table : {m.pid, m.via} \subseteq alive} = TableFrom(File)
      BY <2>2, <2>4 DEF CInv, Fresh
    <3>2. TableFrom(File)' = {m \in TableFrom(File) : {m.pid, m.via} \subseteq alive'}
      BY <1>4, <2>2, TableShrinks
    <3>3. QED
      BY <1>4, <3>1, <3>2
  <2>5. QED
    BY <2>2, <2>3, <2>4
<1>6. QED
  BY <1>1, <1>2, <1>3, <1>5 DEF CInv, OwnMapping

LEMMA ProgramCInv ==
  ASSUME CInv, Program \/ \E p \in Pid : Fronting(p)
  PROVE  CInv'
<1>0. door \in Doors \cup {None} /\ (Touch => Next)
  BY DEF CInv, ReadOK, Next
<1>1. CASE Program
  BY <1>0, <1>1, WriterCInv DEF Program
<1>2. ASSUME NEW p \in Pid, NEW n \in Name, NEW given \in BOOLEAN, Route(p, n, given)
      PROVE  CInv'
  BY <1>0, <1>2, WriterCInv DEF Route
<1>3. ASSUME NEW p \in Pid, OpenDoor(p) \/ CloseDoor(p)
      PROVE  CInv'
  BY <1>0, <1>3, WriterCInv DEF OpenDoor, CloseDoor
<1>4. QED
  BY <1>1, <1>2, <1>3 DEF Fronting

\* The table does not depend on more than it is made of.
LEMMA SameTable ==
  ASSUME UNCHANGED vars, UNCHANGED routes
  PROVE  File' = File /\ TableFrom(File)' = TableFrom(File)
BY DEF File, TableFrom, Mapping, Effective, Merge, vars, routes

LEMMA DaemonCInv ==
  ASSUME CInv, (\E force \in BOOLEAN : Stamp(force)) \/ ReadRegistry \/ Build
  PROVE  CInv'
<1>1. UNCHANGED vars /\ UNCHANGED routes
  BY DEF Stamp, ReadRegistry, Build, routes
<1>2. Inv'
  BY <1>1 DEF CInv, Inv, TypeOK, OwnPorts, OwnEntry, vars
<1>3. CASE \E force \in BOOLEAN : Stamp(force)
  <2>1. read' = [Idle EXCEPT !.at = "stamped"] /\ read'.at = "stamped" /\ read' # Idle
    BY <1>3 DEF Stamp, Idle
  <2>2. ReadOK' /\ Fresh'
    BY <1>1, <2>1 DEF CInv, ReadOK, Fresh, Idle, Empty, Good, OwnEntry, routes
  <2>3. QED
    BY <1>2, <1>3, <2>2 DEF CInv, Stamp, OwnMapping
<1>4. CASE ReadRegistry
  <2>1. read' = [at |-> "read", file |-> File] /\ read' # Idle
    BY <1>4 DEF ReadRegistry, Idle
  <2>2. (\A n \in Name : Good(reg[n])) /\ door \in Doors \cup {None}
    BY DEF CInv, ReadOK, Inv, TypeOK, OwnPorts, Good
  <2>3. ReadOK'
    BY <1>1, <2>1, <2>2 DEF ReadOK, Idle, File, Good, OwnEntry, routes
  <2>4. Fresh'
    BY <1>1, <2>1, SameTable DEF Fresh, Idle, Empty
  <2>5. QED
    BY <1>2, <1>4, <2>3, <2>4 DEF CInv, ReadRegistry, OwnMapping
<1>5. CASE Build
  <2>1. table' = TableFrom(read.file) /\ read' = Idle /\ stale' = stale
    BY <1>5 DEF Build
  <2>2. ReadOK'
    BY <1>1, <2>1 DEF CInv, ReadOK, Idle, Empty, Good, OwnEntry, routes
  <2>3. \A m \in table' : OwnMapping(m)
    BY <2>1, TableIsOwn DEF CInv, ReadOK
  <2>4. Fresh'
    <3>1. ASSUME ~stale
          PROVE  {m \in table' : {m.pid, m.via} \subseteq alive} = TableFrom(File)
      <4>1. table' = TableFrom(File)
        BY <1>5, <2>1, <3>1 DEF CInv, Fresh, Build
      <4>2. \A m \in TableFrom(File) : {m.pid, m.via} \subseteq alive
        BY TableHas DEF Listed, Served, AtDoor, FromDoor, Mapping, Mapped
      <4>3. QED
        BY <4>1, <4>2
    <3>2. TableFrom(File)' = TableFrom(File)
      BY <1>1, SameTable
    <3>3. read'.at # "read"
      BY <2>1 DEF Idle
    <3>4. alive' = alive
      BY <1>1 DEF vars
    <3>5. QED
      BY <2>1, <3>1, <3>2, <3>3, <3>4 DEF Fresh
  <2>5. QED
    BY <1>2, <2>2, <2>3, <2>4 DEF CInv, OwnMapping
<1>6. QED
  BY <1>3, <1>4, <1>5

LEMMA StepCInv == CInv /\ [CNext]_cvars => CInv'
<1>1. ASSUME CInv, UNCHANGED cvars
      PROVE  CInv'
  <2>1. UNCHANGED vars /\ UNCHANGED routes /\ UNCHANGED daemon
    BY <1>1 DEF cvars
  <2>2. Inv'
    BY <1>1, <2>1, StepInv DEF CInv
  <2>3. File' = File /\ TableFrom(File)' = TableFrom(File) /\ alive' = alive
    BY <2>1, SameTable DEF vars
  <2>4. ReadOK'
    BY <1>1, <2>1 DEF CInv, ReadOK, Good, OwnEntry, daemon, routes, Idle, Empty
  <2>5. (\A m \in table : OwnMapping(m))'
    BY <1>1, <2>1 DEF CInv, OwnMapping, daemon
  <2>6. Fresh'
    BY <1>1, <2>1, <2>3 DEF CInv, Fresh, daemon, Idle, Empty
  <2>7. QED
    BY <2>2, <2>4, <2>5, <2>6 DEF CInv
<1>2. QED
  BY <1>1, ProgramCInv, DaemonCInv DEF CNext

LEMMA SpecCInv == CSpec => []CInv
<1>1. QED
  BY InitCInv, StepCInv, PTL DEF CSpec

-----------------------------------------------------------------------------
\* The ports of the two files stay their own programs' beside the daemon as well.
THEOREM DaemonNoForeignPorts == CSpec => []NoForeignPorts
<1>1. CInv => NoForeignPorts
  BY InvNoForeignPorts DEF CInv
<1>2. QED
  BY <1>1, SpecCInv, PTL

\* Between refreshes, with the stamp as it was, tableCache's table is the two files'
\* but for names of programs that died since.
THEOREM TableCurrentHolds == CSpec => []TableCurrent
<1>1. CInv => TableCurrent
  BY DEF CInv, Fresh, TableCurrent
<1>2. QED
  BY <1>1, SpecCInv, PTL

\* A mapping leads to a port of the program whose name the registry said it was, or to a
\* front door, though readPortTable reads the two files at two moments.
THEOREM TableOwnHolds == CSpec => []TableOwn
<1>1. CInv => TableOwn
  BY DEF CInv, OwnMapping, TableOwn
<1>2. QED
  BY <1>1, SpecCInv, PTL

-----------------------------------------------------------------------------
\* No two public ports of an address are forwarded to one private port: nothing could
\* tell the answers of the two apart.
OnePublic ==
  \A m, k \in table : m.ip = k.ip /\ m.private = k.private => m.public = k.public

LEMMA TurnedPacket ==
  ASSUME NEW a, NEW b, NEW c, NEW d, NEW f
  PROVE  Turned(Packet(a, b, c, d, f)) = Packet(c, b, a, d, f)
<1> DEFINE p == Packet(a, b, c, d, f)
<1>1. p.src = a /\ p.dst = c
  BY DEF Packet
<1>2. [p EXCEPT !.src = c] = Packet(c, b, c, d, f)
  BY DEF Packet
<1>3. [Packet(c, b, c, d, f) EXCEPT !.dst = a] = Packet(c, b, a, d, f)
  BY DEF Packet
<1>4. Turned(p) = [[p EXCEPT !.src = c] EXCEPT !.dst = a]
  BY <1>1 DEF Turned
<1>5. QED
  BY <1>2, <1>3, <1>4

\* A reset goes back to whoever sent the packet; none answers a reset.
LEMMA Refused ==
  ASSUME NEW a, NEW b, NEW c, NEW d, NEW f, NEW got \in Refuse(Packet(a, b, c, d, f))
  PROVE  "RST" \notin f /\ \E g \in {{"RST"}, {"RST", "ACK"}} : got = Packet(c, d, a, b, g)
<1> DEFINE p == Packet(a, b, c, d, f)
           t == Packet(c, b, a, d, f)
           g == IF "ACK" \in f THEN {"RST"} ELSE {"RST", "ACK"}
<1>1. p.sport = b /\ p.dport = d /\ p.flags = f
  BY DEF Packet
<1>2. "RST" \notin f /\ got = [Turned(p) EXCEPT !.sport = d, !.dport = b, !.flags = g]
  BY <1>1 DEF Refuse
<1>3. Turned(p) = t
  BY TurnedPacket
<1> HIDE DEF g
<1>4. [t EXCEPT !.sport = d] = Packet(c, d, a, d, f)
  BY DEF Packet
<1>5. [Packet(c, d, a, d, f) EXCEPT !.dport = b] = Packet(c, d, a, b, f)
  BY DEF Packet
<1>6. [Packet(c, d, a, b, f) EXCEPT !.flags = g] = Packet(c, d, a, b, g)
  BY DEF Packet
<1>7. got = Packet(c, d, a, b, g)
  <2>1. got = [[[t EXCEPT !.sport = d] EXCEPT !.dport = b] EXCEPT !.flags = g]
    BY <1>2, <1>3
  <2>2. QED
    BY <2>1, <1>4, <1>5, <1>6
<1>8. g \in {{"RST"}, {"RST", "ACK"}}
  BY DEF g
<1>9. QED
  BY <1>2, <1>7, <1>8

\* A client's packet, and the service's answer, as translate turns them round.
LEMMA ClientTurned ==
  ASSUME NEW v \in Ip, NEW u \in Public, NEW s, NEW flags, PublicOf(table, v, s) = {}
  PROVE  LET sent == Packet(Gateway, s, v, u, flags) IN
         Translate(table, sent) =
           IF PrivateOf(table, v, u) = {} THEN Refuse(sent)
           ELSE {Packet(v, s, Gateway, x, flags) : x \in PrivateOf(table, v, u)}
<1> DEFINE sent == Packet(Gateway, s, v, u, flags)
<1>1. PublicOf(table, v, s) = {}
  OBVIOUS
<1>2. sent.src = Gateway /\ sent.dst = v /\ sent.proto = "tcp" /\ sent.sport = s /\ sent.dport = u
  BY DEF Packet
<1>3. v # Gateway
  BY TableCacheAssumption
<1>4. Translate(table, sent) = Turn(table, sent)
  BY <1>2, <1>3 DEF Translate
<1>5. Turn(table, sent) =
        IF PrivateOf(table, v, u) = {} THEN Refuse(sent)
        ELSE {[Turned(sent) EXCEPT !.dport = x] : x \in PrivateOf(table, v, u)}
  BY <1>1, <1>2 DEF Turn
<1>6. ASSUME NEW x
      PROVE  [Turned(sent) EXCEPT !.dport = x] = Packet(v, s, Gateway, x, flags)
  <2>1. Turned(sent) = Packet(v, s, Gateway, u, flags)
    BY TurnedPacket
  <2>2. [Packet(v, s, Gateway, u, flags) EXCEPT !.dport = x] = Packet(v, s, Gateway, x, flags)
    BY DEF Packet
  <2>3. QED
    BY <2>1, <2>2
<1> HIDE DEF sent
<1>7. {[Turned(sent) EXCEPT !.dport = x] : x \in PrivateOf(table, v, u)} =
        {Packet(v, s, Gateway, x, flags) : x \in PrivateOf(table, v, u)}
  BY <1>6
<1>8. Translate(table, sent) =
        IF PrivateOf(table, v, u) = {} THEN Refuse(sent)
        ELSE {Packet(v, s, Gateway, x, flags) : x \in PrivateOf(table, v, u)}
  BY <1>4, <1>5, <1>7
<1>9. QED
  BY <1>8 DEF sent

LEMMA AnswerTurned ==
  ASSUME OnePublic, NEW v \in Ip, NEW u \in Public, NEW s, NEW x \in PrivateOf(table, v, u), NEW flags
  PROVE  Translate(table, Packet(Gateway, x, v, s, flags)) = {Packet(v, u, Gateway, s, flags)}
<1> DEFINE back == Packet(Gateway, x, v, s, flags)
<1>1. PublicOf(table, v, x) = {u}
  BY DEF OnePublic, PublicOf, PrivateOf
<1>2. back.src = Gateway /\ back.dst = v /\ back.proto = "tcp" /\ back.sport = x /\ back.dport = s
  BY DEF Packet
<1>3. v # Gateway
  BY TableCacheAssumption
<1>4. Translate(table, back) = Turn(table, back)
  BY <1>2, <1>3 DEF Translate
<1>5. Turn(table, back) = {[Turned(back) EXCEPT !.sport = u]}
  <2>1. Turn(table, back) = {[Turned(back) EXCEPT !.sport = y] : y \in PublicOf(table, v, x)}
    BY <1>1, <1>2 DEF Turn
  <2>2. QED
    BY <1>1, <2>1
<1>6. [Turned(back) EXCEPT !.sport = u] = Packet(v, u, Gateway, s, flags)
  <2>1. Turned(back) = Packet(v, x, Gateway, s, flags)
    BY TurnedPacket
  <2>2. [Packet(v, x, Gateway, s, flags) EXCEPT !.sport = u] = Packet(v, u, Gateway, s, flags)
    BY DEF Packet
  <2>3. QED
    BY <2>1, <2>2
<1>7. QED
  BY <1>4, <1>5, <1>6

LEMMA OnePublicReturns == OnePublic => AnswersReturn
<1> SUFFICES ASSUME OnePublic, NEW v \in Ip, NEW u \in Public, NEW s \in ClientPort,
                    NEW flags \in {{"SYN"}, {"ACK"}, {"RST"}}, PublicOf(table, v, s) = {},
                    NEW got \in Translate(table, Packet(Gateway, s, v, u, flags))
             PROVE  LET sent == Packet(Gateway, s, v, u, flags) IN
                    /\ got.dst = Gateway /\ Translate(table, got) = {}
                    /\ IF PrivateOf(table, v, u) = {}
                       THEN /\ "RST" \in got.flags \ flags
                            /\ got = Reply(sent, got.flags)
                       ELSE /\ got.dport \in PrivateOf(table, v, u)
                            /\ Translate(table, Reply(got, {"ACK"})) = {Reply(sent, {"ACK"})}
  BY DEF AnswersReturn
<1> DEFINE sent == Packet(Gateway, s, v, u, flags)
<1>1. v # Gateway
  BY TableCacheAssumption
<1>2. CASE PrivateOf(table, v, u) = {}
  <2>1. got \in Refuse(sent)
    BY <1>2, ClientTurned
  <2>2. "RST" \notin flags
    BY <2>1, Refused
  <2>3. PICK f \in {{"RST"}, {"RST", "ACK"}} : got = Packet(v, u, Gateway, s, f)
    BY <2>1, Refused
  <2>4. got.src = v /\ got.dst = Gateway /\ got.flags = f
    BY <2>3 DEF Packet
  <2>5. Translate(table, got) = {}
    BY <1>1, <2>4 DEF Translate
  <2>6. got = Reply(sent, got.flags)
    BY <2>3, <2>4 DEF Reply, Packet
  <2>7. QED
    BY <1>2, <2>2, <2>4, <2>5, <2>6
<1>3. CASE PrivateOf(table, v, u) # {}
  <2>1. PICK x \in PrivateOf(table, v, u) : got = Packet(v, s, Gateway, x, flags)
    BY <1>3, ClientTurned
  <2>2. got.src = v /\ got.dst = Gateway /\ got.dport = x
    BY <2>1 DEF Packet
  <2>3. Translate(table, got) = {}
    BY <1>1, <2>2 DEF Translate
  <2>4. Reply(got, {"ACK"}) = Packet(Gateway, x, v, s, {"ACK"})
    BY <2>1 DEF Reply, Packet
  <2>5. Reply(sent, {"ACK"}) = Packet(v, u, Gateway, s, {"ACK"})
    BY DEF Reply, Packet
  <2>6. Translate(table, Reply(got, {"ACK"})) = {Reply(sent, {"ACK"})}
    BY <2>4, <2>5, AnswerTurned
  <2>7. QED
    BY <1>3, <2>2, <2>3, <2>6
<1>4. QED
  BY <1>2, <1>3

\* As long as no two public ports of an address lead to one private port, a client's
\* packet to a name gets to a program that is mapped and the answer (translate, refuse)
\* gets back to the client from where it had been sent to.  It is so of every client
\* whose port the table does not have as a private one of that address, whatever public
\* ports, stale mappings and front doors the table has.
THEOREM AnswersReturnHolds == CSpec => [](OnePublic => AnswersReturn)
<1>1. QED
  BY OnePublicReturns, PTL

=============================================================================
