-------------------------------- MODULE Ports --------------------------------
(***************************************************************************)
(* The translated ports of the names (macOS): what a program keeps of them *)
(* in the registry (Entry.Ports), in the ports file beside it and in its   *)
(* own memory, and the healer that puts them back after a program of an    *)
(* older release has rewritten the registry without them: src/listen.go,   *)
(* src/portsfile.go, src/heal.go, and the parts of claim and Release       *)
(* (src/registry.go) that concern ports.                                   *)
(*                                                                         *)
(* An update of the registry is one step here: module Registry shows that  *)
(* it may be taken as one.  Within a program three threads run: a call of  *)
(* setPort (portMu admits one), a call of claim or Release, and the healer.*)
(***************************************************************************)
EXTENDS Naturals

CONSTANTS
  Pid,      \* the programs
  Name,     \* the names they claim
  Ip,       \* addresses of the pool
  Public,   \* public ports of a name
  Mine,     \* the private ports of each program
  MaxStrips,\* bound: how often an older program rewrites the registry
  MaxSets,  \* bound: how often each program changes a port
  Faults,   \* whether writing either file may fail
  None      \* no entry, no call

NoPort == 0
Private == UNION {Mine[p] : p \in Pid}

ASSUME PortsAssumption ==
  /\ Mine \in [Pid -> SUBSET (Nat \ {NoPort})]
  /\ \A p, q \in Pid : p # q => Mine[p] \cap Mine[q] = {}
  /\ MaxStrips \in Nat /\ MaxSets \in Nat /\ Faults \in BOOLEAN

VARIABLES
  alive,   \* the programs that run
  reg,     \* names.json: each name's entry
  side,    \* names.ports.json: each name's entry
  kept,    \* Registry.forwards of each program
  dirty,   \* the programs whose healer has not seen the registry as it is now
  set,     \* setPort's call in each program
  drop,    \* forget's call, after a claim elsewhere or a Release
  heal,    \* the healer of each program
  strips,  \* rewrites by an older program so far
  sets     \* calls of setPort so far

vars == <<alive, reg, side, kept, dirty, set, drop, heal, strips, sets>>

PortMap == [Public -> Private \cup {NoPort}]
NoPorts == [u \in Public |-> NoPort]
Nothing == [n \in Name |-> NoPorts]
Entry == [pid : Pid, ip : Ip, ports : PortMap]

TypeOK ==
  /\ alive \subseteq Pid /\ dirty \subseteq Pid
  /\ reg \in [Name -> Entry \cup {None}] /\ side \in [Name -> Entry \cup {None}]
  /\ kept \in [Pid -> [Name -> PortMap]]
  /\ set \in [Pid -> {None} \cup [at : {"remember", "write"}, name : Name, ip : Ip,
                public : Public, private : Private \cup {NoPort}, after : PortMap]]
  /\ drop \in [Pid -> {None} \cup [at : {"forget", "write"}, name : Name]]
  /\ heal \in [Pid -> [at : {"off", "tick", "stat", "update", "restat"},
                       want : [Name -> PortMap]]]
  /\ strips \in 0 .. MaxStrips /\ sets \in [Pid -> 0 .. MaxSets]

Off == [at |-> "off", want |-> Nothing]

Init ==
  /\ alive = Pid /\ dirty = {}
  /\ reg = [n \in Name |-> None] /\ side = [n \in Name |-> None]
  /\ kept = [p \in Pid |-> Nothing]
  /\ set = [p \in Pid |-> None] /\ drop = [p \in Pid |-> None]
  /\ heal = [p \in Pid |-> Off]
  /\ strips = 0 /\ sets = [p \in Pid |-> 0]

-----------------------------------------------------------------------------
HeldBy(p, e) == e # None /\ e.pid = p
Live(e) == IF e # None /\ e.pid \in alive THEN e ELSE None

\* The registry with the dead programs' entries dropped.
Pruned == [n \in Name |-> Live(reg[n])]

\* The ports of b over those of a.
Merge(a, b) == [u \in Public |-> IF b[u] # NoPort THEN b[u] ELSE a[u]]

\* Registry.update: the new file has a new time, which no healer has seen.
Write(r) == reg' = r /\ dirty' = Pid

\* Mutant: a name with no ports left keeps an entry.
SideAlways(p, n, ip, ports) ==
  [[m \in Name |-> Live(side[m])] EXCEPT ![n] = [pid |-> p, ip |-> ip, ports |-> ports]]

\* writePorts: a name with no ports left has no entry; other programs' ports are
\* dropped only when they are dead, or when this program has ports to put there.
SideWith(p, n, ip, ports) ==
  LET live == [m \in Name |-> Live(side[m])] IN
  IF ports # NoPorts
    THEN [live EXCEPT ![n] = [pid |-> p, ip |-> ip, ports |-> ports]]
    ELSE [live EXCEPT ![n] = IF HeldBy(p, @) THEN None ELSE @]

-----------------------------------------------------------------------------
\* claim, by the program that has the name or when nobody has: the ports stay if
\* the address does; if it does not, forget follows.
Claim(p, n, ip) ==
  /\ p \in alive /\ drop[p] = None
  /\ Pruned[n] # None => HeldBy(p, Pruned[n])
  /\ \A m \in Name \ {n} : Pruned[m] # None /\ Pruned[m].ip = ip => HeldBy(p, Pruned[m])
  /\ LET stays == Pruned[n] # None /\ Pruned[n].ip = ip
         moved == Pruned[n] # None /\ Pruned[n].ip # ip
     IN /\ Write([Pruned EXCEPT ![n] =
              [pid |-> p, ip |-> ip, ports |-> IF stays THEN @.ports ELSE NoPorts]])
        /\ drop' = [drop EXCEPT ![p] = IF moved THEN [at |-> "forget", name |-> n] ELSE @]
  /\ UNCHANGED <<alive, side, kept, set, heal, strips, sets>>

\* Lease.Release: of a name that is no longer the program's, the registry drops
\* nothing; nor does it when its update fails.  forget follows all the same.
Release(p, n) ==
  /\ p \in alive /\ drop[p] = None
  /\ \/ Write([Pruned EXCEPT ![n] = IF HeldBy(p, @) THEN None ELSE @])
     \/ Faults /\ UNCHANGED <<reg, dirty>>
  /\ drop' = [drop EXCEPT ![p] = [at |-> "forget", name |-> n]]
  /\ UNCHANGED <<alive, side, kept, set, heal, strips, sets>>

\* forget, first half: the program's own memory.
Forget(p) ==
  /\ drop[p] # None /\ drop[p].at = "forget"
  /\ kept' = [kept EXCEPT ![p][drop[p].name] = NoPorts]
  /\ drop' = [drop EXCEPT ![p] =
       IF kept[p][@.name] # NoPorts THEN [@ EXCEPT !.at = "write"] ELSE None]
  /\ UNCHANGED <<alive, reg, side, dirty, set, heal, strips, sets>>

\* forget, second half: the ports file.
ForgetSide(p) ==
  /\ drop[p] # None /\ drop[p].at = "write"
  /\ side' = SideWith(p, drop[p].name, None, NoPorts)
  /\ drop' = [drop EXCEPT ![p] = None]
  /\ UNCHANGED <<alive, reg, kept, dirty, set, heal, strips, sets>>

\* It fails: the error is dropped.
ForgetFails(p) ==
  /\ Faults /\ drop[p] # None /\ drop[p].at = "write"
  /\ drop' = [drop EXCEPT ![p] = None]
  /\ UNCHANGED <<alive, reg, side, kept, dirty, set, heal, strips, sets>>

-----------------------------------------------------------------------------
\* setPort's update of the registry: Forward to one of the program's ports, or
\* Unforward (NoPort).  Refused for a name that is not its own.  The lease it goes
\* through may be of an earlier claim, at another address (ip).
SetPort(p, n, ip, public, private) ==
  /\ p \in alive /\ set[p] = None /\ sets[p] < MaxSets
  /\ HeldBy(p, Pruned[n])
  /\ LET after == [Pruned[n].ports EXCEPT ![public] = private]
     IN /\ Write([Pruned EXCEPT ![n].ports = after])
        /\ set' = [set EXCEPT ![p] =
             [at |-> "remember", name |-> n, ip |-> ip,
              public |-> public, private |-> private, after |-> after]]
  /\ sets' = [sets EXCEPT ![p] = @ + 1]
  /\ UNCHANGED <<alive, side, kept, drop, heal, strips>>

\* Mutant: nothing starts the healer.
RememberOnly(p) ==
  /\ set[p] # None /\ set[p].at = "remember"
  /\ kept' = [kept EXCEPT ![p][set[p].name][set[p].public] = set[p].private]
  /\ set' = [set EXCEPT ![p].at = "write"]
  /\ UNCHANGED <<alive, reg, side, dirty, drop, heal, strips, sets>>

\* remember: the first port there is to keep starts the healer, which has not
\* seen any version of the registry.
Remember(p) ==
  /\ set[p] # None /\ set[p].at = "remember"
  /\ kept' = [kept EXCEPT ![p][set[p].name][set[p].public] = set[p].private]
  /\ IF set[p].private # NoPort /\ heal[p].at = "off"
       THEN /\ heal' = [heal EXCEPT ![p].at = "tick"]
            /\ dirty' = dirty \cup {p}
       ELSE UNCHANGED <<heal, dirty>>
  /\ set' = [set EXCEPT ![p].at = "write"]
  /\ UNCHANGED <<alive, reg, side, drop, strips, sets>>

\* setPort's write of the ports file: every port the registry had for the name.
WriteSide(p) ==
  /\ set[p] # None /\ set[p].at = "write"
  /\ side' = SideWith(p, set[p].name, set[p].ip, set[p].after)
  /\ set' = [set EXCEPT ![p] = None]
  /\ UNCHANGED <<alive, reg, kept, dirty, drop, heal, strips, sets>>

\* It fails, and setPort returns the error: the rest of what it did stays.
SideFails(p) ==
  /\ Faults /\ set[p] # None /\ set[p].at = "write"
  /\ set' = [set EXCEPT ![p] = None]
  /\ UNCHANGED <<alive, reg, side, kept, dirty, drop, heal, strips, sets>>

-----------------------------------------------------------------------------
\* The healer's turn, one step for each thing it looks at or writes.  It stops
\* when there is nothing to keep.
HealTick(p) ==
  /\ heal[p].at = "tick"
  /\ heal' = [heal EXCEPT ![p] =
       IF kept[p] = Nothing THEN Off ELSE [at |-> "stat", want |-> kept[p]]]
  /\ UNCHANGED <<alive, reg, side, kept, dirty, set, drop, strips, sets>>

HealStat(p) ==
  /\ heal[p].at = "stat"
  /\ heal' = [heal EXCEPT ![p] =
       IF p \in dirty THEN [@ EXCEPT !.at = "update"] ELSE [at |-> "tick", want |-> Nothing]]
  /\ dirty' = dirty \ {p}
  /\ UNCHANGED <<alive, reg, side, kept, set, drop, strips, sets>>

\* Mutant: onto the names whoever has them.
HealAnyone(p) ==
  /\ heal[p].at = "update"
  /\ Write([n \in Name |->
       IF Pruned[n] # None
         THEN [Pruned[n] EXCEPT !.ports = Merge(@, heal[p].want[n])] ELSE None])
  /\ heal' = [heal EXCEPT ![p].at = "restat"]
  /\ UNCHANGED <<alive, side, kept, set, drop, strips, sets>>

\* What was wanted at the tick goes onto the names the program has now.
HealUpdate(p) ==
  /\ heal[p].at = "update"
  /\ Write([n \in Name |->
       IF HeldBy(p, Pruned[n])
         THEN [Pruned[n] EXCEPT !.ports = Merge(@, heal[p].want[n])] ELSE Pruned[n]])
  /\ heal' = [heal EXCEPT ![p].at = "restat"]
  /\ UNCHANGED <<alive, side, kept, set, drop, strips, sets>>

\* The update fails, and its error is dropped: the version it was for counts as seen.
HealFails(p) ==
  /\ Faults /\ heal[p].at = "update"
  /\ heal' = [heal EXCEPT ![p].at = "restat"]
  /\ UNCHANGED <<alive, reg, side, kept, dirty, set, drop, strips, sets>>

\* Its own write is not to wake it again, nor is another's that fell before this look.
HealRestat(p) ==
  /\ heal[p].at = "restat"
  /\ dirty' = dirty \ {p}
  /\ heal' = [heal EXCEPT ![p] = [at |-> "tick", want |-> Nothing]]
  /\ UNCHANGED <<alive, reg, side, kept, set, drop, strips, sets>>

-----------------------------------------------------------------------------
\* Mutant: the ports file's, whichever program's they are.
EffectiveAnyone(r, n) ==
  IF side[n] # None /\ side[n].ip = r[n].ip
    THEN Merge(r[n].ports, side[n].ports) ELSE r[n].ports

\* readPortTable's ports of a name that the registry file r has: the ports file's
\* over the registry's, if they are of one program at one address.
Effective(r, n) ==
  IF side[n] # None /\ side[n].pid = r[n].pid /\ side[n].ip = r[n].ip
    THEN Merge(r[n].ports, side[n].ports) ELSE r[n].ports

\* Any other use of the registry: every read is an update.
Touch ==
  /\ Write(Pruned)
  /\ UNCHANGED <<alive, side, kept, set, drop, heal, strips, sets>>

\* A program built before Entry.Ports writes the entries without it.
Strip ==
  /\ strips < MaxStrips /\ strips' = strips + 1
  /\ Write([n \in Name |->
       IF Pruned[n] = None THEN None ELSE [Pruned[n] EXCEPT !.ports = NoPorts]])
  /\ UNCHANGED <<alive, side, kept, set, drop, heal, sets>>

Exit(p) ==
  /\ p \in alive /\ alive' = alive \ {p}
  /\ kept' = [kept EXCEPT ![p] = Nothing]
  /\ set' = [set EXCEPT ![p] = None] /\ drop' = [drop EXCEPT ![p] = None]
  /\ heal' = [heal EXCEPT ![p] = Off]
  /\ UNCHANGED <<reg, side, dirty, strips, sets>>

Healer(p) ==
  HealTick(p) \/ HealStat(p) \/ HealUpdate(p) \/ HealFails(p) \/ HealRestat(p)

Calls(p) ==
  \/ \E n \in Name, ip \in Ip : Claim(p, n, ip)
  \/ \E n \in Name : Release(p, n)
  \/ Forget(p) \/ ForgetSide(p) \/ ForgetFails(p)
  \/ \E n \in Name, ip \in Ip, u \in Public, v \in Mine[p] \cup {NoPort} :
       SetPort(p, n, ip, u, v)
  \/ Remember(p) \/ WriteSide(p) \/ SideFails(p)

Next ==
  \/ \E p \in Pid : Calls(p) \/ Healer(p) \/ Exit(p)
  \/ Touch \/ Strip

\* A call that has begun goes on, and the healer's timer ticks.
Fairness ==
  \A p \in Pid : /\ WF_vars(Healer(p))
                 /\ WF_vars(Forget(p) \/ ForgetSide(p) \/ ForgetFails(p))
                 /\ WF_vars(Remember(p) \/ WriteSide(p) \/ SideFails(p))

Spec == Init /\ [][Next]_vars /\ Fairness

\* The registry is used again and again, as the resolver looks names up in it, and the
\* healer's writes do not fail for ever.
BusySpec == Spec /\ WF_vars(Touch) /\ \A p \in Pid : SF_vars(HealUpdate(p))

-----------------------------------------------------------------------------
\* No name is ever given a port of another program, in either file, whatever was
\* released, claimed by another or died between a healer's look at its own
\* memory, or setPort's update, and the write that follows: the port would send
\* the name's clients to a program that does not serve it.
NoForeignPorts ==
  \A n \in Name : \A e \in {reg[n], side[n]} \ {None} :
    \A u \in Public : e.ports[u] \in Mine[e.pid] \cup {NoPort}

\* In a registry that is used, a port a program keeps for a name it has is
\* there at last, whatever older programs dropped, however their writes fell
\* between the healer's steps, and whichever writes failed meanwhile.
Kept(p, n, u) == kept[p][n][u] # NoPort /\ HeldBy(p, reg[n])

Healed ==
  \A p \in Pid, n \in Name, u \in Public :
    Kept(p, n, u) ~> (~Kept(p, n, u) \/ reg[n].ports[u] = kept[p][n][u])

=============================================================================
