--------------------------- MODULE RegistryProofs ---------------------------
(***************************************************************************)
(* Theorems about module Registry, for every pool, every set of programs   *)
(* and names, and every length of run.                                     *)
(***************************************************************************)
EXTENDS Registry, TLAPS

-----------------------------------------------------------------------------
\* Every slot's offset is an address of the block (slotOffset, src/pool.go).
LEMMA SlotOffsetIsAddress ==
  ASSUME NEW slot \in Slot
  PROVE  SlotOffset(slot) \in Address
<1> DEFINE q == slot \div PerThird
           r == slot % PerThird
<1>1. PerThird \in Nat /\ PerThird > 0 /\ Octet = PerThird + 2
  BY PoolAssumption DEF PerThird
<1>2. slot \in Nat /\ slot < BlockThirds * PerThird
  BY <1>1, PoolAssumption DEF Slot, BlockSlots
<1>3. q \in Nat /\ r \in 0 .. PerThird - 1 /\ slot = PerThird * q + r
  BY <1>1, <1>2
<1>4. q < BlockThirds
  <2>1. CASE q >= BlockThirds
    <3> HIDE DEF q, r
    <3>1. PerThird * q >= PerThird * BlockThirds
      BY <1>1, <1>3, <2>1, PoolAssumption
    <3>2. QED
      BY <3>1, <1>1, <1>2, <1>3, PoolAssumption
  <2>2. QED
    BY <2>1, <1>3, PoolAssumption
<1>5. q * Octet + r + 1 \in Nat /\ q * Octet + r + 1 < BlockThirds * Octet
  <2> HIDE DEF q, r
  <2>1. (q + 1) * Octet =< BlockThirds * Octet
    BY <1>1, <1>3, <1>4, PoolAssumption
  <2>2. q * Octet + Octet =< BlockThirds * Octet
    BY <2>1, <1>3, PoolAssumption
  <2>3. QED
    BY <2>2, <1>1, <1>3, PoolAssumption
<1>6. QED
  BY <1>5, PoolAssumption DEF SlotOffset, Address

\* addressFor returns an address of the block; a name of a stack is given a
\* dynamic one that no other name has.
LEMMA AddressForIsAddress ==
  ASSUME NEW n \in Name, NEW taken, NEW ip \in AddressFor(n, taken)
  PROVE  ip \in Address /\ (ip \in Dynamic => ip \notin taken)
<1>1. CASE n \in Apex
  <2>1. ip \in Address /\ ip < DynamicBase
    BY <1>1, PoolAssumption DEF AddressFor, Address
  <2>2. QED
    BY <2>1, PoolAssumption DEF Dynamic, Address
<1>2. CASE n \notin Apex
  <2>1. n \in Qualified /\ Hash[n] \in Slot
    BY <1>2, PoolAssumption DEF Name
  <2>2. PICK i \in Stop(Hash[n], taken) : ip = ProbeAt(Hash[n], i)
    BY <1>2 DEF AddressFor
  <2>3. (Hash[n] + i) % BlockSlots \in Slot
    <3>1. Hash[n] \in Nat /\ i \in Nat /\ BlockSlots \in Int
      BY <2>1, <2>2, PoolAssumption DEF Slot, Stop, BlockSlots, PerThird
    <3>2. BlockSlots > 0
      BY <3>1, <2>1 DEF Slot
    <3>3. QED
      BY <3>1, <3>2 DEF Slot
  <2>4. ip \in Address
    BY <2>2, <2>3, SlotOffsetIsAddress DEF ProbeAt
  <2>5. QED
    BY <2>2, <2>4 DEF Stop, Usable
<1>3. QED
  BY <1>1, <1>2

-----------------------------------------------------------------------------
\* The pruned file is a file, and its names are those of running programs.
LEMMA PrunedFile ==
  ASSUME TypeOK
  PROVE  /\ Pruned \in File
         /\ \A n \in Name : Pruned.name[n] = Live(file.name[n])
         /\ \A s \in Stack : Pruned.stack[s] = Live(file.stack[s])
         /\ Pruned.format = file.format
  BY DEF TypeOK, Pruned, Live, File

\* A file with one name changed is a file.
LEMMA FileWithName ==
  ASSUME NEW f \in File, NEW n \in Name, NEW e \in Entry \cup {None}
  PROVE  /\ [f EXCEPT !.name[n] = e] \in File
         /\ [f EXCEPT !.name[n] = e].name = [f.name EXCEPT ![n] = e]
  BY DEF File

\* A file with one stack changed is a file, with the same names.
LEMMA FileWithStack ==
  ASSUME NEW f \in File, NEW s \in Stack, NEW e \in StackEntry \cup {None}
  PROVE  /\ [f EXCEPT !.stack[s] = e] \in File
         /\ [f EXCEPT !.stack[s] = e].name = f.name
  BY DEF File

\* An update of well-typed parts leaves the state well-typed.
LEMMA UpdateType ==
  ASSUME TypeOK, NEW p \in Pid, NEW new \in File, NEW held \in Holdings,
         NEW owned \in SUBSET Stack, Update(p, new, held, owned),
         stacks' \in [Pid -> SUBSET Stack]
  PROVE  TypeOK'
<1>1. [new EXCEPT !.format = Version[p]] \in File
  BY RegistryAssumption DEF File
<1>2. [file |-> [new EXCEPT !.format = Version[p]], lease |-> held, stacks |-> owned]
        \in Pending
  BY <1>1 DEF Pending
<1>3. QED
  BY <1>2 DEF TypeOK, Update, Rewrite

\* What Assign writes is well-typed.
LEMMA AssignType ==
  ASSUME TypeOK, NEW p \in Pid, NEW n \in Name, NEW ip \in Address, Assign(p, n, ip)
  PROVE  TypeOK'
<1> DEFINE new == [Pruned EXCEPT !.name[n] = Reclaimed(p, n, ip)]
           held == [lease[p] EXCEPT ![n] = IF @ = None
                                      THEN [ip |-> ip, target |-> None, cert |-> None]
                                      ELSE [@ EXCEPT !.ip = ip]]
<1>1. Pruned.name[n] \in Entry \cup {None}
  BY PrunedFile DEF File
<1>2. Reclaimed(p, n, ip) \in Entry
  BY <1>1 DEF Reclaimed, HeldBy, Entry
<1>3. new \in File
  BY <1>2, PrunedFile, FileWithName
<1>4. held \in Holdings
  <2>1. lease[p] \in Holdings
    BY DEF TypeOK
  <2>2. lease[p][n] \in Claimed \cup {None}
    BY <2>1 DEF Holdings
  <2>3. [ip |-> ip, target |-> None, cert |-> None] \in Claimed
    BY DEF Claimed
  <2>4. lease[p][n] # None => [lease[p][n] EXCEPT !.ip = ip] \in Claimed
    BY <2>2 DEF Claimed
  <2>5. QED
    BY <2>1, <2>3, <2>4 DEF Holdings
<1>5. Update(p, new, held, stacks[p]) /\ stacks' = stacks
  BY DEF Assign, Enter, UpdateNames
<1>6. stacks[p] \in SUBSET Stack /\ stacks' \in [Pid -> SUBSET Stack]
  BY <1>5 DEF TypeOK
<1> HIDE DEF new, held
<1>7. QED
  BY <1>3, <1>4, <1>5, <1>6, UpdateType

\* Type correctness.
THEOREM TypeCorrect == Spec => []TypeOK
<1>1. Init => TypeOK
  BY DEF Init, TypeOK, File, NoLease, Holdings
<1>2. TypeOK /\ [Next]_vars => TypeOK'
  <2> SUFFICES ASSUME TypeOK, [Next]_vars
               PROVE  TypeOK'
    OBVIOUS
  <2>1. CASE UNCHANGED vars
    BY <2>1 DEF TypeOK, vars
  <2>2. ASSUME NEW p \in Pid, NEW n \in Name, Claim(p, n)
        PROVE  TypeOK'
    BY <2>2, AddressForIsAddress, AssignType DEF Claim
  <2>3. ASSUME NEW p \in Pid, NEW n \in Name, NEW ip \in Asked, ClaimAt(p, n, ip)
        PROVE  TypeOK'
    BY <2>3, AssignType, RegistryAssumption DEF ClaimAt
  <2>4. ASSUME NEW p \in Pid, NEW n \in Name, NEW m \in Name, Twin(p, n, m)
        PROVE  TypeOK'
    <3>1. lease[p][m].ip \in Address
      BY <2>4 DEF Twin, TypeOK, Holdings, Claimed
    <3>2. QED
      BY <2>4, <3>1, AssignType DEF Twin
  <2>5. ASSUME NEW p \in Pid, NEW n \in Name, NEW t \in Target, Route(p, n, t)
        PROVE  TypeOK'
    <3> DEFINE new == [Pruned EXCEPT !.name[n].target = t]
               held == [lease[p] EXCEPT ![n] = IF @ = None THEN None
                                                          ELSE [@ EXCEPT !.target = t]]
    <3>1. new \in File
      BY <2>5, PrunedFile DEF Route, HeldBy, File, Entry
    <3>2. held \in Holdings
      <4>1. lease[p] \in Holdings /\ lease[p][n] \in Claimed \cup {None}
        BY DEF TypeOK, Holdings
      <4>2. lease[p][n] # None => [lease[p][n] EXCEPT !.target = t] \in Claimed
        BY <4>1 DEF Claimed
      <4>3. QED
        BY <4>1, <4>2 DEF Holdings
    <3>3. Update(p, new, held, stacks[p]) /\ stacks' = stacks
      BY <2>5 DEF Route, UpdateNames
    <3> HIDE DEF new, held
    <3>4. QED
      BY <3>1, <3>2, <3>3, UpdateType DEF TypeOK
  <2>6. ASSUME NEW p \in Pid, NEW n \in Name, NEW c \in Cert, Certificate(p, n, c)
        PROVE  TypeOK'
    <3> DEFINE new == [Pruned EXCEPT !.name[n].cert = c]
               held == [lease[p] EXCEPT ![n].cert = c]
    <3>1. new \in File
      BY <2>6, PrunedFile DEF Certificate, HeldBy, File, Entry
    <3>2. held \in Holdings
      <4>1. lease[p] \in Holdings /\ lease[p][n] \in Claimed
        BY <2>6 DEF Certificate, TypeOK, Holdings
      <4>2. [lease[p][n] EXCEPT !.cert = c] \in Claimed
        BY <4>1 DEF Claimed
      <4>3. QED
        BY <4>1, <4>2 DEF Holdings
    <3>3. Update(p, new, held, stacks[p]) /\ stacks' = stacks
      BY <2>6 DEF Certificate, UpdateNames
    <3> HIDE DEF new, held
    <3>4. QED
      BY <3>1, <3>2, <3>3, UpdateType DEF TypeOK
  <2>7. ASSUME NEW p \in Pid, NEW n \in Name, Release(p, n)
        PROVE  TypeOK'
    <3> DEFINE new == IF HeldBy(p, Pruned.name[n])
                        THEN [Pruned EXCEPT !.name[n] = None] ELSE Pruned
               held == [lease[p] EXCEPT ![n] = None]
    <3>1. new \in File
      BY PrunedFile, FileWithName
    <3>2. held \in Holdings
      BY DEF TypeOK, Holdings
    <3>3. Update(p, new, held, stacks[p]) /\ stacks' = stacks
      BY <2>7 DEF Release, UpdateNames
    <3> HIDE DEF new, held
    <3>4. QED
      BY <3>1, <3>2, <3>3, UpdateType DEF TypeOK
  <2>8. ASSUME NEW p \in Pid, Snapshot(p)
        PROVE  TypeOK'
    BY <2>8, PrunedFile, UpdateType DEF Snapshot, UpdateNames, TypeOK
  <2>9. ASSUME NEW p \in Pid, NEW s \in Stack, ClaimStack(p, s)
        PROVE  TypeOK'
    <3> DEFINE new == [Pruned EXCEPT !.stack[s] = [pid |-> p, dir |-> Dir[p]]]
    <3>1. new \in File
      BY PrunedFile, FileWithStack DEF StackEntry
    <3>2. Update(p, new, lease[p], stacks[p] \cup {s}) /\ stacks' = stacks
      BY <2>9 DEF ClaimStack, EnterStack
    <3> HIDE DEF new
    <3>3. QED
      BY <3>1, <3>2, UpdateType DEF TypeOK
  <2>10. ASSUME NEW p \in Pid, NEW s \in Stack, ReleaseStack(p, s)
         PROVE  TypeOK'
    <3> DEFINE new == IF HeldBy(p, Pruned.stack[s])
                        THEN [Pruned EXCEPT !.stack[s] = None] ELSE Pruned
    <3>1. new \in File
      BY PrunedFile, FileWithStack
    <3>2. Update(p, new, lease[p], stacks[p] \ {s})
      BY <2>10 DEF ReleaseStack
    <3>3. stacks' \in [Pid -> SUBSET Stack]
      BY <2>10 DEF ReleaseStack, TypeOK
    <3> HIDE DEF new
    <3>4. QED
      BY <3>1, <3>2, <3>3, UpdateType DEF TypeOK
  <2>11. ASSUME NEW p \in Pid, Commit(p)
         PROVE  TypeOK'
    BY <2>11 DEF Commit, TypeOK, Pending
  <2>12. ASSUME NEW p \in Pid, Fail(p)
         PROVE  TypeOK'
    BY <2>12 DEF Fail, TypeOK
  <2>13. ASSUME NEW p \in Pid, Start(p) \/ Reuse(p)
         PROVE  TypeOK'
    BY <2>13 DEF Start, Reuse, TypeOK
  <2>14. ASSUME NEW p \in Pid, Exit(p)
         PROVE  TypeOK'
    BY <2>14 DEF Exit, TypeOK, NoLease, Holdings
  <2>15. QED
    BY <2>1, <2>2, <2>3, <2>4, <2>5, <2>6, <2>7, <2>8, <2>9, <2>10, <2>11,
       <2>12, <2>13, <2>14 DEF Next, Operation
<1>3. QED
  BY <1>1, <1>2, PTL DEF Spec

-----------------------------------------------------------------------------
(* What an operation may do to the names, whichever operation it is.         *)

\* Nothing, to the names or to what the program knows of them.
KeepsNames(p, new, held) == new.name = Pruned.name /\ held = lease[p]

\* All the names but n are as they were.
OthersSame(p, n, new, held) ==
  \A m \in Name \ {n} : new.name[m] = Pruned.name[m] /\ held[m] = lease[p][m]

\* n, if it was the program's, is nobody's.
Drops(p, n, new, held) ==
  /\ held[n] = None
  /\ \/ HeldBy(p, Pruned.name[n]) /\ new.name[n] = None
     \/ ~HeldBy(p, Pruned.name[n]) /\ new.name[n] = Pruned.name[n]

\* n, which was free or the program's, is the program's, at an address that no
\* other program's name has if it is a dynamic one.
Takes(p, n, new, held) ==
  /\ Pruned.name[n] # None => Pruned.name[n].pid = p
  /\ HeldBy(p, new.name[n])
  /\ Agrees(p, file, lease[p]) => /\ held[n] # None
                                  /\ new.name[n].ip = held[n].ip
                                  /\ new.name[n].target = held[n].target
  /\ new.name[n].ip \in Dynamic =>
       \A m \in Name \ {n} :
         Pruned.name[m] # None /\ Pruned.name[m].ip = new.name[n].ip
           => Pruned.name[m].pid = p
  /\ \/ new.name[n].target =
            IF HeldBy(p, Pruned.name[n]) THEN Pruned.name[n].target ELSE None
     \/ /\ HeldBy(p, Pruned.name[n]) /\ new.name[n].ip = Pruned.name[n].ip
        /\ new.name[n].target \in Target

Changes(p, new, held) ==
  \/ KeepsNames(p, new, held)
  \/ \E n \in Name : /\ OthersSame(p, n, new, held)
                     /\ Drops(p, n, new, held) \/ Takes(p, n, new, held)

\* Pruning brings no name under a new address.
LEMMA PrunedOwn ==
  ASSUME TypeOK, OwnAddress
  PROVE  Own(Pruned)
  BY PrunedFile DEF OwnAddress, Own, SamePool, Live

\* A running program has the same names in the pruned file.
LEMMA PrunedHeld ==
  ASSUME TypeOK, NEW p \in Pid, NEW n \in Name, Alive(p)
  PROVE  /\ HeldBy(p, Pruned.name[n]) <=> HeldBy(p, file.name[n])
         /\ HeldBy(p, file.name[n]) => Pruned.name[n] = file.name[n]
  BY PrunedFile DEF HeldBy, Live

\* Claim, ClaimAt and Twin, whose common end is Assign, take the name.
LEMMA AssignChanges ==
  ASSUME TypeOK, NEW p \in Pid, NEW n \in Name, NEW ip \in Address, Assign(p, n, ip),
         ip \in Dynamic =>
           \A m \in Name \ {n} :
             Pruned.name[m] # None /\ Pruned.name[m].ip = ip => Pruned.name[m].pid = p
  PROVE  \E new \in File, held \in Holdings :
           Update(p, new, held, stacks[p]) /\ Changes(p, new, held)
<1> DEFINE e == Reclaimed(p, n, ip)
           c == IF lease[p][n] = None THEN [ip |-> ip, target |-> None, cert |-> None]
                                      ELSE [lease[p][n] EXCEPT !.ip = ip]
           new == [Pruned EXCEPT !.name[n] = e]
           held == [lease[p] EXCEPT ![n] = c]
<1>1. lease[p] \in Holdings /\ lease[p][n] \in Claimed \cup {None}
  BY DEF TypeOK, Holdings
<1>2. Pruned.name[n] \in Entry \cup {None} /\ Pruned \in File
  BY PrunedFile DEF File
<1>3. e \in Entry /\ e.pid = p /\ e.ip = ip /\ e # None
  <2>1. e \in Entry
    BY <1>2 DEF Reclaimed, HeldBy, Entry
  <2>2. QED
    BY <2>1, NoneAssumption DEF Reclaimed
<1>4. c \in Claimed /\ c.ip = ip /\ c # None
  <2>1. CASE lease[p][n] = None
    <3>1. [ip |-> ip, target |-> None, cert |-> None] \in Claimed
      BY DEF Claimed
    <3>2. QED
      BY <2>1, <3>1, NoneAssumption
  <2>2. CASE lease[p][n] # None
    <3>1. [lease[p][n] EXCEPT !.ip = ip] \in Claimed /\ [lease[p][n] EXCEPT !.ip = ip].ip = ip
      BY <1>1, <2>2 DEF Claimed
    <3>2. QED
      BY <2>2, <3>1, NoneAssumption
  <2>3. QED
    BY <2>1, <2>2
<1>5. new \in File /\ new.name = [Pruned.name EXCEPT ![n] = e]
  BY <1>2, <1>3, FileWithName
<1>6. held \in Holdings
  BY <1>1, <1>4 DEF Holdings
<1>7. Alive(p) /\ Update(p, new, held, stacks[p])
  BY DEF Assign, Enter, UpdateNames, Update, Rewrite, Alive
<1>8. new.name[n] = e /\ held[n] = c
  BY <1>1, <1>2, <1>5 DEF File, Holdings
<1>9. Agrees(p, file, lease[p]) => e.target = c.target
  <2> SUFFICES ASSUME Agrees(p, file, lease[p])
               PROVE  e.target = c.target
    OBVIOUS
  <2>1. CASE lease[p][n] = None
    <3>1. ~HeldBy(p, Pruned.name[n])
      BY <2>1, <1>7, PrunedHeld DEF Agrees
    <3>2. QED
      BY <2>1, <3>1 DEF Reclaimed
  <2>2. CASE lease[p][n] # None
    <3>1. /\ HeldBy(p, Pruned.name[n])
          /\ Pruned.name[n].target = lease[p][n].target
      BY <2>2, <1>7, PrunedHeld DEF Agrees
    <3>2. c.target = lease[p][n].target
      BY <1>1, <2>2 DEF Claimed
    <3>3. QED
      BY <3>1, <3>2 DEF Reclaimed
  <2>3. QED
    BY <2>1, <2>2
<1>10. e.target = IF HeldBy(p, Pruned.name[n]) THEN Pruned.name[n].target ELSE None
  BY DEF Reclaimed
<1>11. Pruned.name[n] # None => Pruned.name[n].pid = p
  BY DEF Assign, Enter
<1>12. OthersSame(p, n, new, held)
  BY <1>1, <1>2, <1>5 DEF OthersSame, File, Holdings
<1> HIDE DEF new, held, e, c
<1>13. Takes(p, n, new, held)
  BY <1>3, <1>4, <1>8, <1>9, <1>10, <1>11 DEF Takes, HeldBy
<1>14. QED
  BY <1>5, <1>6, <1>7, <1>12, <1>13 DEF Changes

\* A dynamic address is one of the pool's.
LEMMA DynamicInPool ==
  ASSUME NEW ip \in Dynamic
  PROVE  InPool(ip)
  BY PoolAssumption DEF Dynamic, InPool, Address

\* Route and Certificate take the name, at the address it has.  The program has the
\* lease of a name it finds its own in the file.
LEMMA PublishChanges ==
  ASSUME TypeOK, OwnAddress, NEW p \in Pid, NEW n \in Name, proc[p] = "doze",
         HeldBy(p, Pruned.name[n]),
         NEW e \in Entry, NEW c \in Claimed \cup {None},
         e.pid = p, e.ip = Pruned.name[n].ip,
         e.target = Pruned.name[n].target \/ e.target \in Target,
         lease[p][n] = None => c = None,
         lease[p][n] # None =>
           /\ c # None /\ c.ip = lease[p][n].ip
           /\ \/ e.target = Pruned.name[n].target /\ c.target = lease[p][n].target
              \/ e.target \in Target /\ c.target = e.target,
         NEW new, new = [Pruned EXCEPT !.name[n] = e],
         NEW held, held = [lease[p] EXCEPT ![n] = c]
  PROVE  new \in File /\ held \in Holdings /\ Changes(p, new, held)
<1>1. lease[p] \in Holdings /\ Pruned \in File
  BY PrunedFile DEF TypeOK
<1>2. new \in File /\ new.name = [Pruned.name EXCEPT ![n] = e]
  BY <1>1, FileWithName
<1>3. held \in Holdings
  BY <1>1 DEF Holdings
<1>4. new.name[n] = e /\ held[n] = c /\ e # None
  BY <1>1, <1>2, NoneAssumption DEF File, Holdings
<1>5. OthersSame(p, n, new, held)
  BY <1>1, <1>2 DEF OthersSame, File, Holdings
<1>6. Agrees(p, file, lease[p]) => /\ lease[p][n] # None
                                   /\ Pruned.name[n].ip = lease[p][n].ip
                                   /\ Pruned.name[n].target = lease[p][n].target
  BY PrunedHeld DEF Agrees, Alive
<1>7. \A m \in Name \ {n} :
        Pruned.name[m] # None /\ Pruned.name[m].ip = e.ip /\ e.ip \in Dynamic
          => Pruned.name[m].pid = p
  BY PrunedOwn DEF Own, SamePool, HeldBy
<1>8. Takes(p, n, new, held)
  BY <1>4, <1>6, <1>7 DEF Takes, HeldBy
<1>9. QED
  BY <1>2, <1>3, <1>5, <1>8 DEF Changes

\* Every operation is an update that changes the names as Changes says.
LEMMA OperationChanges ==
  ASSUME TypeOK, OwnAddress, NEW p \in Pid, Operation(p)
  PROVE  \E new \in File, held \in Holdings, owned \in SUBSET Stack :
           Update(p, new, held, owned) /\ Changes(p, new, held)
<1> DEFINE Goal == \E new \in File, held \in Holdings, owned \in SUBSET Stack :
                     Update(p, new, held, owned) /\ Changes(p, new, held)
<1>0. stacks[p] \in SUBSET Stack /\ lease[p] \in Holdings /\ Pruned \in File
  BY PrunedFile DEF TypeOK
<1>1. ASSUME NEW n \in Name, Claim(p, n)
      PROVE  Goal
  <2>1. PICK ip \in AddressFor(n, Taken(n)) : Assign(p, n, ip)
    BY <1>1 DEF Claim
  <2>2. ip \in Address /\ (ip \in Dynamic => ip \notin Taken(n))
    BY <2>1, AddressForIsAddress
  <2>3. QED
    BY <1>0, <2>1, <2>2, AssignChanges DEF Taken
<1>2. ASSUME NEW n \in Name, NEW ip \in Asked, ClaimAt(p, n, ip)
      PROVE  Goal
  <2>1. ip \in Address /\ (ip \in Dynamic => ip \notin Taken(n))
    BY <1>2, RegistryAssumption, DynamicInPool DEF ClaimAt
  <2>2. QED
    BY <1>0, <1>2, <2>1, AssignChanges DEF Taken, ClaimAt
<1>3. ASSUME NEW n \in Name, NEW m \in Name, Twin(p, n, m)
      PROVE  Goal
  <2>1. lease[p][m].ip \in Address
    BY <1>3 DEF Twin, TypeOK, Holdings, Claimed
  <2>2. lease[p][m].ip \in Dynamic =>
          \A k \in Name \ {n} :
            Pruned.name[k] # None /\ Pruned.name[k].ip = lease[p][m].ip
              => Pruned.name[k].pid = p
    BY <1>3, DynamicInPool DEF Twin
  <2>3. QED
    BY <1>0, <1>3, <2>1, <2>2, AssignChanges DEF Twin
<1>4. ASSUME NEW n \in Name, NEW t \in Target, Route(p, n, t)
      PROVE  Goal
  <2> DEFINE new == [Pruned EXCEPT !.name[n].target = t]
             c == IF lease[p][n] = None THEN None ELSE [lease[p][n] EXCEPT !.target = t]
             held == [lease[p] EXCEPT ![n] = c]
             e == [Pruned.name[n] EXCEPT !.target = t]
  <2>1. /\ Update(p, new, held, stacks[p]) /\ proc[p] = "doze"
        /\ HeldBy(p, Pruned.name[n])
    BY <1>4 DEF Route, UpdateNames, Update, Rewrite
  <2>2. Pruned.name[n] \in Entry /\ lease[p][n] \in Claimed \cup {None}
    BY <1>0, <2>1 DEF HeldBy, File, Holdings
  <2>3. e \in Entry /\ e.pid = p /\ e.ip = Pruned.name[n].ip /\ e.target = t
    BY <2>1, <2>2 DEF Entry, HeldBy
  <2>4. /\ c \in Claimed \cup {None} /\ (lease[p][n] = None => c = None)
        /\ lease[p][n] # None => c # None /\ c.ip = lease[p][n].ip /\ c.target = t
    <3>1. lease[p][n] # None =>
            /\ [lease[p][n] EXCEPT !.target = t] \in Claimed
            /\ [lease[p][n] EXCEPT !.target = t].ip = lease[p][n].ip
            /\ [lease[p][n] EXCEPT !.target = t].target = t
      BY <2>2 DEF Claimed
    <3>2. QED
      BY <3>1, NoneAssumption
  <2>5. new = [Pruned EXCEPT !.name[n] = e] /\ held = [lease[p] EXCEPT ![n] = c]
    OBVIOUS
  <2> HIDE DEF new, held, e, c
  <2>6. new \in File /\ held \in Holdings /\ Changes(p, new, held)
    BY <2>1, <2>3, <2>4, <2>5, PublishChanges
  <2>7. QED
    BY <1>0, <2>1, <2>6
<1>5. ASSUME NEW n \in Name, NEW x \in Cert, Certificate(p, n, x)
      PROVE  Goal
  <2> DEFINE new == [Pruned EXCEPT !.name[n].cert = x]
             held == [lease[p] EXCEPT ![n].cert = x]
             e == [Pruned.name[n] EXCEPT !.cert = x]
             c == [lease[p][n] EXCEPT !.cert = x]
  <2>1. /\ Update(p, new, held, stacks[p]) /\ proc[p] = "doze"
        /\ HeldBy(p, Pruned.name[n]) /\ lease[p][n] # None
    BY <1>5 DEF Certificate, UpdateNames, Update, Rewrite
  <2>2. Pruned.name[n] \in Entry /\ lease[p][n] \in Claimed
    BY <1>0, <2>1 DEF HeldBy, File, Holdings
  <2>3. /\ e \in Entry /\ e.pid = p /\ e.ip = Pruned.name[n].ip
        /\ e.target = Pruned.name[n].target
    BY <2>1, <2>2 DEF Entry, HeldBy
  <2>4. /\ c \in Claimed /\ c # None
        /\ c.ip = lease[p][n].ip /\ c.target = lease[p][n].target
    BY <2>2, NoneAssumption DEF Claimed
  <2>5. new = [Pruned EXCEPT !.name[n] = e] /\ held = [lease[p] EXCEPT ![n] = c]
    OBVIOUS
  <2> HIDE DEF new, held, e, c
  <2>6. new \in File /\ held \in Holdings /\ Changes(p, new, held)
    BY <2>1, <2>3, <2>4, <2>5, PublishChanges
  <2>7. QED
    BY <1>0, <2>1, <2>6
<1>6. ASSUME NEW n \in Name, Release(p, n)
      PROVE  Goal
  <2> DEFINE new == IF HeldBy(p, Pruned.name[n])
                      THEN [Pruned EXCEPT !.name[n] = None] ELSE Pruned
             held == [lease[p] EXCEPT ![n] = None]
  <2>1. Update(p, new, held, stacks[p])
    BY <1>6 DEF Release, UpdateNames
  <2>2. new \in File /\ held \in Holdings
    BY <1>0, FileWithName DEF Holdings
  <2>3. OthersSame(p, n, new, held)
    BY <1>0, FileWithName DEF OthersSame, Holdings, File
  <2>4. Drops(p, n, new, held)
    BY <1>0, FileWithName DEF Drops, Holdings, File
  <2> HIDE DEF new, held
  <2>5. QED
    BY <1>0, <2>1, <2>2, <2>3, <2>4 DEF Changes
<1>7. ASSUME Snapshot(p)
      PROVE  Goal
  BY <1>0, <1>7 DEF Snapshot, UpdateNames, Changes, KeepsNames
<1>8. ASSUME NEW s \in Stack, ClaimStack(p, s)
      PROVE  Goal
  <2> DEFINE new == [Pruned EXCEPT !.stack[s] = [pid |-> p, dir |-> Dir[p]]]
  <2>1. Update(p, new, lease[p], stacks[p] \cup {s})
    BY <1>8 DEF ClaimStack, EnterStack
  <2>2. new \in File /\ new.name = Pruned.name
    BY <1>0, FileWithStack DEF StackEntry
  <2> HIDE DEF new
  <2>3. QED
    BY <1>0, <2>1, <2>2 DEF Changes, KeepsNames
<1>9. ASSUME NEW s \in Stack, ReleaseStack(p, s)
      PROVE  Goal
  <2> DEFINE new == IF HeldBy(p, Pruned.stack[s])
                      THEN [Pruned EXCEPT !.stack[s] = None] ELSE Pruned
  <2>1. Update(p, new, lease[p], stacks[p] \ {s})
    BY <1>9 DEF ReleaseStack
  <2>2. new \in File /\ new.name = Pruned.name
    BY <1>0, FileWithStack
  <2> HIDE DEF new
  <2>3. QED
    BY <1>0, <2>1, <2>2 DEF Changes, KeepsNames
<1>10. QED
  BY <1>1, <1>2, <1>3, <1>4, <1>5, <1>6, <1>7, <1>8, <1>9 DEF Operation

-----------------------------------------------------------------------------
\* Pruned file or new file: what Changes makes of a file with no shared dynamic
\* address has none.
LEMMA ChangesOwn ==
  ASSUME TypeOK, OwnAddress, NEW p \in Pid, NEW new \in File, NEW held \in Holdings,
         Changes(p, new, held)
  PROVE  Own(new)
<1>1. Own(Pruned) /\ Pruned \in File
  BY PrunedOwn, PrunedFile
<1>2. CASE KeepsNames(p, new, held)
  BY <1>1, <1>2 DEF KeepsNames, Own, SamePool
<1>3. ASSUME NEW n \in Name, OthersSame(p, n, new, held), Drops(p, n, new, held)
      PROVE  Own(new)
  BY <1>1, <1>3 DEF OthersSame, Drops, Own, SamePool
<1>4. ASSUME NEW n \in Name, OthersSame(p, n, new, held), Takes(p, n, new, held)
      PROVE  Own(new)
  <2>1. \A m \in Name \ {n} : new.name[m] = Pruned.name[m]
    BY <1>4 DEF OthersSame
  <2>2. \A m \in Name \ {n} :
          SamePool(new, n, m, Dynamic) \/ SamePool(new, m, n, Dynamic)
            => new.name[m].pid = p /\ new.name[n].pid = p
    BY <1>4, <2>1 DEF Takes, SamePool, HeldBy
  <2>3. \A k, m \in Name \ {n} :
          SamePool(new, k, m, Dynamic) => new.name[k].pid = new.name[m].pid
    BY <1>1, <2>1 DEF Own, SamePool
  <2>4. \A k \in Name : ~SamePool(new, k, k, Dynamic)
    BY DEF SamePool
  <2>5. QED
    BY <2>2, <2>3, <2>4 DEF Own
<1>5. QED
  BY <1>2, <1>3, <1>4 DEF Changes

\* The file in place and the files about to be renamed over it.
OwnEverywhere ==
  OwnAddress /\ \A p \in Pid : pending[p] # None => Own(pending[p].file)

\* However the programs interleave, crash and come back, under whatever pids:
\* no dynamic address is ever that of two programs.
THEOREM OwnAddressHolds == Spec => []OwnAddress
<1>1. Init => OwnEverywhere
  BY DEF Init, OwnEverywhere, OwnAddress, Own, SamePool, NoLease
<1>2. TypeOK /\ OwnEverywhere /\ [Next]_vars => OwnEverywhere'
  <2> SUFFICES ASSUME TypeOK, OwnEverywhere, [Next]_vars
               PROVE  OwnEverywhere'
    OBVIOUS
  <2>1. CASE UNCHANGED vars
    BY <2>1 DEF OwnEverywhere, OwnAddress, Own, SamePool, vars
  <2>2. ASSUME NEW p \in Pid, Operation(p)
        PROVE  OwnEverywhere'
    <3>1. PICK new \in File, held \in Holdings, owned \in SUBSET Stack :
            Update(p, new, held, owned) /\ Changes(p, new, held)
      BY <2>2, OperationChanges DEF OwnEverywhere
    <3>2. Own(new)
      BY <3>1, ChangesOwn DEF OwnEverywhere
    <3>3. Own([new EXCEPT !.format = Version[p]])
      BY <3>2 DEF Own, SamePool, File
    <3>4. OwnAddress'
      BY <3>1 DEF Update, Rewrite, OwnEverywhere, OwnAddress, Own, SamePool
    <3>5. ASSUME NEW q \in Pid, pending'[q] # None
          PROVE  Own(pending'[q].file)
      <4>1. CASE q = p
        BY <3>1, <3>3, <4>1 DEF Update, Rewrite, TypeOK
      <4>2. CASE q # p
        BY <3>1, <3>5, <4>2 DEF Update, Rewrite, TypeOK, OwnEverywhere
      <4>3. QED
        BY <4>1, <4>2
    <3>6. QED
      BY <3>4, <3>5 DEF OwnEverywhere, Own, SamePool
  <2>3. ASSUME NEW p \in Pid, Commit(p)
        PROVE  OwnEverywhere'
    BY <2>3 DEF Commit, TypeOK, OwnEverywhere, OwnAddress, Own, SamePool
  <2>4. ASSUME NEW p \in Pid, Fail(p) \/ Exit(p)
        PROVE  OwnEverywhere'
    BY <2>4 DEF Fail, Exit, TypeOK, OwnEverywhere, OwnAddress, Own, SamePool
  <2>5. ASSUME NEW p \in Pid, Start(p) \/ Reuse(p)
        PROVE  OwnEverywhere'
    BY <2>5 DEF Start, Reuse, OwnEverywhere, OwnAddress, Own, SamePool
  <2>6. QED
    BY <2>1, <2>2, <2>3, <2>4, <2>5 DEF Next
<1>3. OwnEverywhere => OwnAddress
  BY DEF OwnEverywhere
<1>4. QED
  BY <1>1, <1>2, <1>3, TypeCorrect, PTL DEF Spec

-----------------------------------------------------------------------------
(* ViewAgrees is not inductive: a commit may break it unless the file under   *)
(* the lock is right (UpdateSafe), and a start unless the file says nothing   *)
(* of a pid that was never used.                                              *)

NewHasNothing ==
  \A p \in Pid, n \in Name : proc[p] = "new" => ~HeldBy(p, file.name[n])

Inv == TypeOK /\ OwnAddress /\ ViewAgrees /\ UpdateSafe /\ NewHasNothing

\* An operation leaves its program's view and the new file in agreement.
LEMMA ChangesAgree ==
  ASSUME TypeOK, NEW p \in Pid, NEW new \in File, NEW held \in Holdings,
         Alive(p), Agrees(p, file, lease[p]), Changes(p, new, held)
  PROVE  Agrees(p, new, held)
<1>1. \A n \in Name : /\ HeldBy(p, Pruned.name[n]) <=> HeldBy(p, file.name[n])
                      /\ HeldBy(p, file.name[n]) => Pruned.name[n] = file.name[n]
  BY PrunedHeld
<1>2. Agrees(p, Pruned, lease[p])
  BY <1>1 DEF Agrees
<1>3. CASE KeepsNames(p, new, held)
  BY <1>2, <1>3 DEF KeepsNames, Agrees
<1>4. ASSUME NEW n \in Name, OthersSame(p, n, new, held), Drops(p, n, new, held)
      PROVE  Agrees(p, new, held)
  BY <1>2, <1>4 DEF OthersSame, Drops, Agrees, HeldBy
<1>5. ASSUME NEW n \in Name, OthersSame(p, n, new, held), Takes(p, n, new, held)
      PROVE  Agrees(p, new, held)
  BY <1>2, <1>5 DEF OthersSame, Takes, Agrees
<1>6. QED
  BY <1>3, <1>4, <1>5 DEF Changes

\* An operation leaves the names of the other running programs alone.
LEMMA ChangesSpare ==
  ASSUME TypeOK, NewHasNothing, NEW p \in Pid, NEW new \in File, NEW held \in Holdings,
         Changes(p, new, held), NEW q \in Pid \ {p}, NEW n \in Name,
         proc[q] # "gone", HeldBy(q, new.name[n]) \/ HeldBy(q, file.name[n])
  PROVE  new.name[n] = file.name[n]
<1>1. Pruned.name[n] = Live(file.name[n])
  BY PrunedFile
<1>2. HeldBy(q, Pruned.name[n]) \/ HeldBy(q, file.name[n]) => Pruned.name[n] = file.name[n]
  BY <1>1 DEF Live, HeldBy, Alive, NewHasNothing, TypeOK
<1>3. CASE KeepsNames(p, new, held)
  BY <1>2, <1>3 DEF KeepsNames
<1>4. ASSUME NEW m \in Name, OthersSame(p, m, new, held), Drops(p, m, new, held)
      PROVE  new.name[n] = file.name[n]
  BY <1>2, <1>4 DEF OthersSame, Drops, HeldBy
<1>5. ASSUME NEW m \in Name, OthersSame(p, m, new, held), Takes(p, m, new, held)
      PROVE  new.name[n] = file.name[n]
  BY <1>2, <1>5 DEF OthersSame, Takes, HeldBy
<1>6. QED
  BY <1>3, <1>4, <1>5 DEF Changes

\* What is to be shown of the lock and the pending file after a step.
LEMMA UpdateSafeNext ==
  ASSUME \A p \in Pid : pending'[p] # None =>
           /\ proc'[p] = "doze"
           /\ \A q \in Pid : pending'[q] # None => q = p
           /\ Own(pending'[p].file)
           /\ Agrees(p, pending'[p].file, pending'[p].lease)
           /\ \A q \in Pid \ {p}, n \in Name :
                proc'[q] # "gone" /\ (HeldBy(q, pending'[p].file.name[n]) \/ HeldBy(q, file'.name[n]))
                  => pending'[p].file.name[n] = file'.name[n]
  PROVE  UpdateSafe'
BY DEF UpdateSafe, Own, SamePool, Agrees, HeldBy

\* A step of one operation keeps the invariant.
LEMMA UpdateInv ==
  ASSUME Inv, NEW p \in Pid, NEW new \in File, NEW held \in Holdings,
         NEW owned \in SUBSET Stack, Update(p, new, held, owned), Changes(p, new, held)
  PROVE  ViewAgrees' /\ UpdateSafe' /\ NewHasNothing'
<1> USE DEF Inv
<1>1. proc[p] = "doze" /\ UNCHANGED <<proc, file, lease>>
  BY DEF Update, Rewrite
<1>2. ViewAgrees' /\ NewHasNothing'
  BY <1>1 DEF ViewAgrees, Agrees, NewHasNothing, HeldBy
<1>3. \A q \in Pid : pending'[q] # None => q = p
  BY DEF Update, Rewrite, Unlocked, TypeOK
<1>4. pending'[p].file.name = new.name /\ pending'[p].lease = held
  BY DEF Update, Rewrite, TypeOK, File
<1>5. Own(pending'[p].file)
  BY <1>4, ChangesOwn DEF Own, SamePool
<1>6. Agrees(p, pending'[p].file, pending'[p].lease)
  <2>1. Agrees(p, new, held)
    BY <1>1, ChangesAgree DEF ViewAgrees, Alive
  <2>2. QED
    BY <1>4, <2>1 DEF Agrees
<1>7. ASSUME NEW q \in Pid \ {p}, NEW n \in Name, proc[q] # "gone",
             HeldBy(q, pending'[p].file.name[n]) \/ HeldBy(q, file.name[n])
      PROVE  pending'[p].file.name[n] = file.name[n]
  BY <1>4, <1>7, ChangesSpare
<1>8. UpdateSafe'
  BY <1>1, <1>3, <1>5, <1>6, <1>7, UpdateSafeNext
<1>9. QED
  BY <1>2, <1>8

\* So does its end.
LEMMA CommitInv ==
  ASSUME Inv, NEW p \in Pid, Commit(p)
  PROVE  ViewAgrees' /\ UpdateSafe' /\ NewHasNothing'
<1> USE DEF Inv
<1>1. /\ pending[p] # None /\ proc' = proc /\ file' = pending[p].file
      /\ lease' = [lease EXCEPT ![p] = pending[p].lease]
      /\ pending' = [pending EXCEPT ![p] = None]
  BY DEF Commit
<1>2. /\ proc[p] = "doze"
      /\ \A q \in Pid : pending[q] # None => q = p
      /\ Agrees(p, pending[p].file, pending[p].lease)
      /\ \A q \in Pid \ {p}, n \in Name :
           proc[q] # "gone" /\ (HeldBy(q, pending[p].file.name[n]) \/ HeldBy(q, file.name[n]))
             => pending[p].file.name[n] = file.name[n]
  BY <1>1 DEF UpdateSafe
<1>3. UpdateSafe'
  BY <1>1, <1>2 DEF UpdateSafe, TypeOK
<1>4. NewHasNothing'
  BY <1>1, <1>2 DEF NewHasNothing, HeldBy
<1>5. ASSUME NEW q \in Pid
      PROVE  IF proc[q] = "doze" THEN Agrees(q, file', lease'[q]) ELSE lease'[q] = NoLease
  <2>1. CASE q = p
    BY <1>1, <1>2, <2>1 DEF TypeOK
  <2>2. CASE q # p /\ proc[q] = "doze"
    <3>1. Agrees(q, file, lease[q]) /\ lease'[q] = lease[q]
      BY <1>1, <2>2 DEF ViewAgrees, TypeOK
    <3>2. QED
      BY <1>1, <1>2, <2>2, <3>1 DEF Agrees
  <2>3. CASE q # p /\ proc[q] # "doze"
    BY <1>1, <2>3 DEF ViewAgrees, TypeOK
  <2>4. QED
    BY <2>1, <2>2, <2>3
<1>6. QED
  BY <1>1, <1>3, <1>4, <1>5 DEF ViewAgrees, Agrees, NoLease

\* The invariant holds if the system gives no pid out twice.
LEMMA InvHolds ==
  ASSUME Recycled = {}
  PROVE  Spec => []Inv
<1>1. Init => ViewAgrees /\ UpdateSafe /\ NewHasNothing
  BY DEF Init, ViewAgrees, UpdateSafe, NewHasNothing, NoLease, HeldBy
<1>2. Inv /\ [Next]_vars => (ViewAgrees /\ UpdateSafe /\ NewHasNothing)'
  <2> SUFFICES ASSUME Inv, [Next]_vars
               PROVE  (ViewAgrees /\ UpdateSafe /\ NewHasNothing)'
    OBVIOUS
  <2> USE DEF Inv
  <2>1. CASE UNCHANGED vars
    <3>1. UNCHANGED <<proc, file, pending, lease>>
      BY <2>1 DEF vars
    <3>2. ViewAgrees' /\ NewHasNothing'
      BY <3>1 DEF ViewAgrees, NewHasNothing, Agrees, HeldBy
    <3>3. UpdateSafe'
      BY <3>1, UpdateSafeNext DEF UpdateSafe
    <3>4. QED
      BY <3>2, <3>3
  <2>2. ASSUME NEW p \in Pid, Operation(p)
        PROVE  (ViewAgrees /\ UpdateSafe /\ NewHasNothing)'
    BY <2>2, OperationChanges, UpdateInv
  <2>3. ASSUME NEW p \in Pid, Commit(p)
        PROVE  (ViewAgrees /\ UpdateSafe /\ NewHasNothing)'
    BY <2>3, CommitInv
  <2>4. ASSUME NEW p \in Pid, Fail(p)
        PROVE  (ViewAgrees /\ UpdateSafe /\ NewHasNothing)'
    <3>1. ViewAgrees' /\ NewHasNothing'
      BY <2>4 DEF Fail, ViewAgrees, NewHasNothing, Agrees, HeldBy
    <3>2. \A q \in Pid : pending'[q] # None => pending'[q] = pending[q] /\ pending[q] # None
      BY <2>4 DEF Fail, TypeOK
    <3>3. UpdateSafe'
      <4>1. proc' = proc /\ file' = file
        BY <2>4 DEF Fail
      <4>2. QED
        BY <3>2, <4>1, UpdateSafeNext DEF UpdateSafe
    <3>4. QED
      BY <3>1, <3>3
  <2>5. ASSUME NEW p \in Pid, Start(p)
        PROVE  (ViewAgrees /\ UpdateSafe /\ NewHasNothing)'
    <3>1. /\ proc[p] = "new" /\ UNCHANGED <<file, pending, lease>>
          /\ proc' = [proc EXCEPT ![p] = "doze"]
      BY <2>5 DEF Start
    <3>2. Agrees(p, file, lease[p])
      BY <3>1 DEF ViewAgrees, NewHasNothing, Agrees, NoLease
    <3>3. ViewAgrees'
      BY <3>1, <3>2 DEF ViewAgrees, TypeOK, Agrees, HeldBy
    <3>4. NewHasNothing'
      BY <3>1 DEF NewHasNothing, TypeOK, HeldBy
    <3>5. UpdateSafe'
      BY <3>1, UpdateSafeNext DEF UpdateSafe, TypeOK
    <3>6. QED
      BY <3>3, <3>4, <3>5
  <2>6. ASSUME NEW p \in Pid, Exit(p)
        PROVE  (ViewAgrees /\ UpdateSafe /\ NewHasNothing)'
    <3>1. /\ proc' = [proc EXCEPT ![p] = "gone"] /\ file' = file
          /\ pending' = [pending EXCEPT ![p] = None]
          /\ lease' = [lease EXCEPT ![p] = NoLease]
      BY <2>6 DEF Exit
    <3>2. ViewAgrees'
      BY <3>1 DEF ViewAgrees, TypeOK, Agrees, HeldBy, NoLease
    <3>3. NewHasNothing'
      BY <3>1 DEF NewHasNothing, TypeOK, HeldBy
    <3>4. UpdateSafe'
      <4>1. \A q \in Pid : pending'[q] # None => pending'[q] = pending[q] /\ q # p
        BY <3>1 DEF TypeOK
      <4>2. \A q \in Pid : q # p => proc'[q] = proc[q]
        BY <3>1 DEF TypeOK
      <4>3. proc'[p] = "gone"
        BY <3>1 DEF TypeOK
      <4>4. QED
        BY <3>1, <4>1, <4>2, <4>3, UpdateSafeNext DEF UpdateSafe
    <3>5. QED
      BY <3>2, <3>3, <3>4
  <2>7. QED
    BY <2>1, <2>2, <2>3, <2>4, <2>5, <2>6 DEF Next, Reuse
<1>3. QED
  BY <1>1, <1>2, TypeCorrect, OwnAddressHolds, PTL DEF Spec, Inv

\* If the system gives no pid out twice, then what each running program was told
\* it holds is what the file says.
THEOREM ViewAgreesHolds ==
  ASSUME Recycled = {}
  PROVE  Spec => []ViewAgrees
<1>1. Inv => ViewAgrees
  BY DEF Inv
<1>2. QED
  BY <1>1, InvHolds, PTL

\* The file about to be renamed into place takes nothing from a peer that runs, gives
\* it nothing it does not have, and is what its own caller will be told.
THEOREM UpdateSafeHolds ==
  ASSUME Recycled = {}
  PROVE  Spec => []UpdateSafe
<1>1. Inv => UpdateSafe
  BY DEF Inv
<1>2. QED
  BY <1>1, InvHolds, PTL

-----------------------------------------------------------------------------
\* Who has the lock has it alone, and writes no lower format than it read.
Formats ==
  \A p \in Pid : pending[p] # None =>
    /\ \A q \in Pid : pending[q] # None => q = p
    /\ pending[p].file.format >= file.format

\* Among programs that know formats, whatever their releases, no update ever lowers
\* the file's format: the newest program to have written it is heeded by all older ones.
THEOREM FormatNeverLoweredHolds ==
  ASSUME \A p \in Pid : Version[p] # 0
  PROVE  Spec => FormatNeverLowered
<1>1. Init => Formats
  BY DEF Init, Formats
<1>2. TypeOK /\ OwnAddress /\ Formats /\ [Next]_vars => Formats' /\ (file'.format >= file.format \/ UNCHANGED vars)
  <2> SUFFICES ASSUME TypeOK, OwnAddress, Formats, [Next]_vars
               PROVE  Formats' /\ (file'.format >= file.format \/ UNCHANGED vars)
    OBVIOUS
  <2>0. file.format \in Nat /\ file.format >= file.format
    BY DEF TypeOK, File
  <2>1. CASE UNCHANGED vars
    BY <2>1 DEF vars, Formats
  <2>2. ASSUME NEW p \in Pid, Operation(p)
        PROVE  Formats' /\ file'.format >= file.format
    <3>1. PICK new \in File, held \in Holdings, owned \in SUBSET Stack : Update(p, new, held, owned)
      BY <2>2, OperationChanges
    <3>2. file' = file /\ file.format <= Version[p] /\ Version[p] \in Nat
      BY <3>1, RegistryAssumption DEF Update, Rewrite
    <3>3. \A q \in Pid : pending'[q] # None => q = p
      BY <3>1 DEF Update, Rewrite, Unlocked, TypeOK
    <3>4. pending'[p].file.format = Version[p]
      BY <3>1 DEF Update, Rewrite, TypeOK, File
    <3>5. QED
      BY <2>0, <3>2, <3>3, <3>4 DEF Formats
  <2>3. ASSUME NEW p \in Pid, Commit(p)
        PROVE  Formats' /\ file'.format >= file.format
    <3>1. pending[p] # None /\ file' = pending[p].file /\ pending' = [pending EXCEPT ![p] = None]
      BY <2>3 DEF Commit
    <3>2. \A q \in Pid : pending'[q] = None
      BY <3>1 DEF Formats, TypeOK
    <3>3. QED
      BY <3>1, <3>2 DEF Formats
  <2>4. ASSUME NEW p \in Pid, Fail(p) \/ Exit(p) \/ Start(p) \/ Reuse(p)
        PROVE  Formats' /\ file'.format >= file.format
    <3>1. file' = file /\ \A q \in Pid : pending'[q] # None => pending[q] # None /\ pending'[q] = pending[q]
      BY <2>4 DEF Fail, Exit, Start, Reuse, TypeOK
    <3>2. QED
      BY <2>0, <3>1 DEF Formats
  <2>5. QED
    BY <2>1, <2>2, <2>3, <2>4 DEF Next
<1>3. TypeOK /\ OwnAddress /\ Formats /\ [Next]_vars => Formats'
  BY <1>2
<1>4. TypeOK /\ OwnAddress /\ Formats /\ [Next]_vars => [file'.format >= file.format]_vars
  BY <1>2
<1>5. QED
  BY <1>1, <1>3, <1>4, TypeCorrect, OwnAddressHolds, PTL DEF Spec, FormatNeverLowered

-----------------------------------------------------------------------------
(* Stacks.  That two programs were given one is seen only by whoever compares *)
(* what they were told: each must find its own entry in the file, and in the  *)
(* file that is about to replace it.                                          *)

\* Each entry is of the project its program serves.
OwnDirs(f) == \A s \in Stack : f.stack[s] # None => f.stack[s].dir = Dir[f.stack[s].pid]

StacksKept ==
  /\ OwnDirs(file)
  /\ \A p \in Pid : \A s \in stacks[p] : proc[p] = "doze" /\ HeldBy(p, file.stack[s])
  /\ \A p \in Pid : pending[p] # None =>
       /\ \A q \in Pid : pending[q] # None => q = p
       /\ OwnDirs(pending[p].file)
       /\ \A s \in pending[p].stacks : proc[p] = "doze" /\ HeldBy(p, pending[p].file.stack[s])
       /\ \A q \in Pid \ {p} : \A s \in stacks[q] : HeldBy(q, pending[p].file.stack[s])

\* What an operation may do to the stacks: nothing, enter one that no other project
\* has, or take an entry of its own out.
StackChanges(p, new, owned) ==
  \/ new.stack = Pruned.stack /\ owned = stacks[p] /\ stacks' = stacks
  \/ \E s \in Stack :
       /\ Pruned.stack[s] # None => Pruned.stack[s].pid = p \/ Pruned.stack[s].dir = Dir[p]
       /\ new.stack = [Pruned.stack EXCEPT ![s] = [pid |-> p, dir |-> Dir[p]]]
       /\ owned = stacks[p] \cup {s} /\ stacks' = stacks
  \/ \E s \in Stack :
       /\ new.stack = IF HeldBy(p, Pruned.stack[s]) THEN [Pruned.stack EXCEPT ![s] = None]
                                                    ELSE Pruned.stack
       /\ owned = stacks[p] \ {s} /\ stacks' = [stacks EXCEPT ![p] = @ \ {s}]

LEMMA OperationStacks ==
  ASSUME TypeOK, NEW p \in Pid, Operation(p)
  PROVE  \E new \in File : \E held, owned : Update(p, new, held, owned) /\ StackChanges(p, new, owned)
<1> DEFINE Goal == \E new \in File : \E held, owned : Update(p, new, held, owned) /\ StackChanges(p, new, owned)
<1>0. Pruned \in File
  BY PrunedFile
<1>1. ASSUME NEW new \in File, NEW held, UpdateNames(p, new, held), new.stack = Pruned.stack
      PROVE  Goal
  BY <1>1 DEF UpdateNames, StackChanges
<1>2. ASSUME NEW n \in Name, NEW ip \in Address, Assign(p, n, ip)
      PROVE  Goal
  <2> DEFINE new == [Pruned EXCEPT !.name[n] = Reclaimed(p, n, ip)]
  <2>1. Reclaimed(p, n, ip) \in Entry
    BY <1>0 DEF Reclaimed, HeldBy, Entry, File
  <2>2. new \in File /\ new.stack = Pruned.stack
    BY <1>0, <2>1 DEF File
  <2>3. \E held : UpdateNames(p, new, held)
    BY <1>2 DEF Assign, Enter
  <2> HIDE DEF new
  <2>4. QED
    BY <1>1, <2>2, <2>3
<1>3. ASSUME NEW n \in Name, Claim(p, n)
      PROVE  Goal
  BY <1>2, <1>3, AddressForIsAddress DEF Claim
<1>4. ASSUME NEW n \in Name, NEW ip \in Asked, ClaimAt(p, n, ip)
      PROVE  Goal
  BY <1>2, <1>4, RegistryAssumption DEF ClaimAt
<1>5. ASSUME NEW n \in Name, NEW m \in Name, Twin(p, n, m)
      PROVE  Goal
  <2>1. lease[p][m].ip \in Address
    BY <1>5 DEF Twin, TypeOK, Holdings, Claimed
  <2>2. QED
    BY <1>2, <1>5, <2>1 DEF Twin
<1>6. ASSUME NEW n \in Name, NEW e \in Entry \cup {None}
      PROVE  [Pruned EXCEPT !.name[n] = e] \in File /\ [Pruned EXCEPT !.name[n] = e].stack = Pruned.stack
  BY <1>0 DEF File
<1>7. ASSUME NEW n \in Name, NEW t \in Target, Route(p, n, t)
      PROVE  Goal
  <2>1. Pruned.name[n] \in Entry
    BY <1>0, <1>7 DEF Route, HeldBy, File
  <2>2. [Pruned.name[n] EXCEPT !.target = t] \in Entry
    BY <2>1 DEF Entry
  <2>3. [Pruned EXCEPT !.name[n].target = t] = [Pruned EXCEPT !.name[n] = [Pruned.name[n] EXCEPT !.target = t]]
    OBVIOUS
  <2>4. QED
    BY <1>1, <1>6, <1>7, <2>2, <2>3 DEF Route
<1>8. ASSUME NEW n \in Name, NEW c \in Cert, Certificate(p, n, c)
      PROVE  Goal
  <2>1. Pruned.name[n] \in Entry
    BY <1>0, <1>8 DEF Certificate, HeldBy, File
  <2>2. [Pruned.name[n] EXCEPT !.cert = c] \in Entry
    BY <2>1 DEF Entry
  <2>3. [Pruned EXCEPT !.name[n].cert = c] = [Pruned EXCEPT !.name[n] = [Pruned.name[n] EXCEPT !.cert = c]]
    OBVIOUS
  <2>4. QED
    BY <1>1, <1>6, <1>8, <2>2, <2>3 DEF Certificate
<1>9. ASSUME NEW n \in Name, Release(p, n)
      PROVE  Goal
  BY <1>0, <1>1, <1>6, <1>9 DEF Release
<1>10. ASSUME Snapshot(p)
       PROVE  Goal
  BY <1>0, <1>1, <1>10 DEF Snapshot
<1>11. ASSUME NEW s \in Stack, ClaimStack(p, s)
       PROVE  Goal
  <2> DEFINE new == [Pruned EXCEPT !.stack[s] = [pid |-> p, dir |-> Dir[p]]]
  <2>1. new \in File /\ new.stack = [Pruned.stack EXCEPT ![s] = [pid |-> p, dir |-> Dir[p]]]
    BY <1>0 DEF File, StackEntry
  <2>2. Update(p, new, lease[p], stacks[p] \cup {s}) /\ stacks' = stacks
    BY <1>11 DEF ClaimStack, EnterStack
  <2> HIDE DEF new
  <2>3. QED
    BY <1>11, <2>1, <2>2 DEF ClaimStack, StackChanges
<1>12. ASSUME NEW s \in Stack, ReleaseStack(p, s)
       PROVE  Goal
  <2> DEFINE new == IF HeldBy(p, Pruned.stack[s]) THEN [Pruned EXCEPT !.stack[s] = None] ELSE Pruned
  <2>1. /\ new \in File
        /\ new.stack = IF HeldBy(p, Pruned.stack[s]) THEN [Pruned.stack EXCEPT ![s] = None]
                                                     ELSE Pruned.stack
    BY <1>0 DEF File
  <2>2. /\ Update(p, new, lease[p], stacks[p] \ {s})
        /\ stacks' = [stacks EXCEPT ![p] = @ \ {s}]
    BY <1>12 DEF ReleaseStack
  <2> HIDE DEF new
  <2>3. QED
    BY <2>1, <2>2 DEF StackChanges
<1>13. QED
  BY <1>3, <1>4, <1>5, <1>7, <1>8, <1>9, <1>10, <1>11, <1>12 DEF Operation

OneProgramEach == \A p, q \in Pid : Dir[p] = Dir[q] => p = q

LEMMA UpdateStacks ==
  ASSUME OneProgramEach, TypeOK, StacksKept, NEW p \in Pid, NEW new \in File, NEW held, NEW owned,
         Update(p, new, held, owned), StackChanges(p, new, owned)
  PROVE  StacksKept'
<1>1. proc[p] = "doze" /\ UNCHANGED <<proc, file>>
  BY DEF Update, Rewrite
<1>2. \A q \in Pid : pending'[q] # None => q = p
  BY DEF Update, Rewrite, Unlocked, TypeOK
<1>3. pending'[p].file.stack = new.stack /\ pending'[p].stacks = owned
  BY DEF Update, Rewrite, TypeOK, File
<1>4. /\ \A q \in Pid, s \in Stack : s \in stacks[q] => proc[q] = "doze" /\ HeldBy(q, Pruned.stack[s])
      /\ \A q \in Pid : stacks[q] \subseteq Stack
      /\ OwnDirs(Pruned) /\ \A s \in Stack : Pruned.stack[s] \in StackEntry \cup {None}
  BY PrunedFile DEF StacksKept, OwnDirs, TypeOK, HeldBy, Live, Alive, File
<1>5. \A q \in Pid : stacks'[q] \subseteq stacks[q]
  BY DEF StackChanges, TypeOK
<1>6. /\ OwnDirs(new) /\ \A s \in owned : HeldBy(p, new.stack[s])
      /\ \A q \in Pid \ {p} : \A s \in stacks[q] : HeldBy(q, new.stack[s])
  <2>0. \A s \in Stack : Pruned.stack \in [Stack -> StackEntry \cup {None}]
    BY PrunedFile DEF File
  <2>1. CASE new.stack = Pruned.stack /\ owned = stacks[p]
    BY <1>4, <2>1 DEF OwnDirs
  <2>2. ASSUME NEW s \in Stack,
               Pruned.stack[s] # None => Pruned.stack[s].pid = p \/ Pruned.stack[s].dir = Dir[p],
               new.stack = [Pruned.stack EXCEPT ![s] = [pid |-> p, dir |-> Dir[p]]],
               owned = stacks[p] \cup {s}
        PROVE  /\ OwnDirs(new) /\ \A t \in owned : HeldBy(p, new.stack[t])
               /\ \A q \in Pid \ {p} : \A t \in stacks[q] : HeldBy(q, new.stack[t])
    <3>1. Pruned.stack[s] # None => Pruned.stack[s].pid = p
      BY <1>4, <2>2 DEF OwnDirs, OneProgramEach, StackEntry
    <3>2. \A q \in Pid \ {p} : s \notin stacks[q]
      BY <1>4, <3>1 DEF HeldBy
    <3>3. new.stack[s] = [pid |-> p, dir |-> Dir[p]] /\ new.stack[s] # None
      BY <2>0, <2>2, NoneAssumption DEF StackEntry
    <3>4. \A t \in Stack \ {s} : new.stack[t] = Pruned.stack[t]
      BY <2>0, <2>2
    <3>5. QED
      BY <1>4, <2>2, <3>2, <3>3, <3>4 DEF OwnDirs, HeldBy
  <2>3. ASSUME NEW s \in Stack,
               new.stack = IF HeldBy(p, Pruned.stack[s]) THEN [Pruned.stack EXCEPT ![s] = None]
                                                        ELSE Pruned.stack,
               owned = stacks[p] \ {s}
        PROVE  /\ OwnDirs(new) /\ \A t \in owned : HeldBy(p, new.stack[t])
               /\ \A q \in Pid \ {p} : \A t \in stacks[q] : HeldBy(q, new.stack[t])
    BY <1>4, <2>0, <2>3 DEF OwnDirs, HeldBy
  <2>4. QED
    BY <2>1, <2>2, <2>3 DEF StackChanges
<1>7. QED
  BY <1>1, <1>2, <1>3, <1>5, <1>6 DEF StacksKept, OwnDirs, HeldBy

\* Where no two programs serve one project, no two that were given a stack name serve
\* two: ClaimStack refuses, whatever died, failed or was claimed at the same time.
THEOREM StackOneProjectHolds ==
  ASSUME OneProgramEach
  PROVE  Spec => []StackOneProject
<1>1. Init => StacksKept
  BY DEF Init, StacksKept, OwnDirs
<1>2. TypeOK /\ StacksKept /\ [Next]_vars => StacksKept'
  <2> SUFFICES ASSUME TypeOK, StacksKept, [Next]_vars
               PROVE  StacksKept'
    OBVIOUS
  <2>1. CASE UNCHANGED vars
    BY <2>1 DEF vars, StacksKept, OwnDirs, HeldBy
  <2>2. ASSUME NEW p \in Pid, Operation(p)
        PROVE  StacksKept'
    BY <2>2, OperationStacks, UpdateStacks
  <2>3. ASSUME NEW p \in Pid, Commit(p)
        PROVE  StacksKept'
    <3>1. /\ pending[p] # None /\ proc' = proc /\ file' = pending[p].file
          /\ stacks' = [stacks EXCEPT ![p] = pending[p].stacks]
          /\ pending' = [pending EXCEPT ![p] = None]
      BY <2>3 DEF Commit
    <3>2. \A q \in Pid : pending'[q] = None
      BY <3>1 DEF StacksKept, TypeOK
    <3>3. stacks'[p] = pending[p].stacks /\ \A q \in Pid \ {p} : stacks'[q] = stacks[q]
      BY <3>1 DEF TypeOK
    <3>4. QED
      <4>1. OwnDirs(file)'
        BY <3>1 DEF StacksKept, OwnDirs
      <4>2. ASSUME NEW q \in Pid, NEW t \in stacks'[q]
            PROVE  proc'[q] = "doze" /\ HeldBy(q, file'.stack[t])
        BY <3>1, <3>3, <4>2 DEF StacksKept
      <4>3. QED
        BY <3>2, <4>1, <4>2 DEF StacksKept, HeldBy
  <2>4. ASSUME NEW p \in Pid, Fail(p) \/ Exit(p)
        PROVE  StacksKept'
    <3>1. /\ file' = file
          /\ \A q \in Pid : /\ pending'[q] # None => pending[q] # None /\ pending'[q] = pending[q] /\ proc'[q] = proc[q]
                            /\ stacks'[q] # {} => stacks'[q] = stacks[q] /\ proc'[q] = proc[q]
      <4>1. CASE Fail(p)
        BY <4>1 DEF Fail, TypeOK
      <4>2. CASE Exit(p)
        BY <4>2 DEF Exit, TypeOK
      <4>3. QED
        BY <2>4, <4>1, <4>2
    <3>2. QED
      BY <3>1 DEF StacksKept, OwnDirs, HeldBy
  <2>5. ASSUME NEW p \in Pid, Start(p) \/ Reuse(p)
        PROVE  StacksKept'
    <3>1. /\ UNCHANGED <<file, pending, stacks>> /\ proc[p] # "doze"
          /\ \A q \in Pid \ {p} : proc'[q] = proc[q]
      BY <2>5 DEF Start, Reuse, TypeOK
    <3>2. QED
      BY <3>1 DEF StacksKept, OwnDirs, HeldBy
  <2>6. QED
    BY <2>1, <2>2, <2>3, <2>4, <2>5 DEF Next
<1>3. StacksKept => StackOneProject
  BY DEF StacksKept, StackOneProject, HeldBy
<1>4. QED
  BY <1>1, <1>2, <1>3, TypeCorrect, PTL DEF Spec

\* Where projects have several programs, a stack may leave the hands of one that
\* was given it, and what stays is the project.  The file under the lock has to
\* say so of every program before it is renamed into place.
Remains(p, s, f) == f.stack[s] # None /\ f.stack[s].dir = Dir[p]

StackSafe ==
  /\ OwnDirs(file)
  /\ \A p \in Pid : stacks[p] # {} => proc[p] = "doze"
  /\ \A q \in Pid : pending[q] # None =>
       /\ proc[q] = "doze"
       /\ \A p \in Pid : pending[p] # None => p = q
       /\ OwnDirs(pending[q].file)
       /\ \A p \in Pid : \A s \in stacks[p] :
            HeldBy(p, file.stack[s]) => Remains(p, s, pending[q].file)

\* An operation computes such a file.
LEMMA UpdateStackSafe ==
  ASSUME TypeOK, StackSafe, NEW p \in Pid, NEW new \in File, NEW held, NEW owned,
         Update(p, new, held, owned), StackChanges(p, new, owned)
  PROVE  StackSafe'
<1>1. proc[p] = "doze" /\ UNCHANGED <<proc, file>>
  BY DEF Update, Rewrite
<1>2. \A q \in Pid : pending'[q] # None => q = p
  BY DEF Update, Rewrite, Unlocked, TypeOK
<1>3. pending'[p].file.stack = new.stack
  BY DEF Update, Rewrite, TypeOK, File
<1>4. /\ \A s \in Stack : Pruned.stack[s] \in StackEntry \cup {None}
      /\ Pruned.stack \in [Stack -> StackEntry \cup {None}]
      /\ OwnDirs(Pruned)
  BY PrunedFile DEF StackSafe, OwnDirs, Live, File
<1>5. \A q \in Pid : stacks'[q] \subseteq stacks[q] /\ stacks[q] \subseteq Stack
  BY DEF StackChanges, TypeOK
<1>6. ASSUME NEW q \in Pid, NEW s \in stacks[q], HeldBy(q, file.stack[s])
      PROVE  s \in Stack /\ Pruned.stack[s] = file.stack[s] /\ HeldBy(q, Pruned.stack[s])
             /\ Remains(q, s, Pruned)
  <2>1. s \in Stack /\ proc[q] = "doze"
    BY <1>5 DEF StackSafe
  <2>2. Pruned.stack[s] = file.stack[s]
    BY <1>6, <2>1, PrunedFile DEF Live, Alive, HeldBy
  <2>3. QED
    BY <1>4, <1>6, <2>1, <2>2 DEF HeldBy, Remains, OwnDirs
<1>7. /\ OwnDirs(new)
      /\ \A q \in Pid : \A s \in stacks'[q] :
           HeldBy(q, file.stack[s]) => Remains(q, s, new)
  <2>1. CASE new.stack = Pruned.stack
    BY <1>4, <1>5, <1>6, <2>1 DEF OwnDirs, Remains
  <2>2. ASSUME NEW s \in Stack,
               Pruned.stack[s] # None => Pruned.stack[s].pid = p \/ Pruned.stack[s].dir = Dir[p],
               new.stack = [Pruned.stack EXCEPT ![s] = [pid |-> p, dir |-> Dir[p]]]
        PROVE  /\ OwnDirs(new)
               /\ \A q \in Pid : \A t \in stacks'[q] :
                    HeldBy(q, file.stack[t]) => Remains(q, t, new)
    <3>1. new.stack[s] = [pid |-> p, dir |-> Dir[p]] /\ new.stack[s] # None
      BY <1>4, <2>2, NoneAssumption DEF StackEntry
    <3>2. \A t \in Stack \ {s} : new.stack[t] = Pruned.stack[t]
      BY <1>4, <2>2
    <3>3. OwnDirs(new)
      BY <1>4, <3>1, <3>2 DEF OwnDirs
    <3>4. ASSUME NEW q \in Pid, NEW t \in stacks'[q], HeldBy(q, file.stack[t])
          PROVE  Remains(q, t, new)
      <4>1. /\ t \in Stack /\ HeldBy(q, Pruned.stack[t]) /\ Remains(q, t, Pruned)
        BY <1>5, <1>6, <3>4
      <4>2. CASE t = s
        BY <2>2, <3>1, <4>1, <4>2 DEF HeldBy, Remains
      <4>3. CASE t # s
        BY <3>2, <4>1, <4>3 DEF Remains
      <4>4. QED
        BY <4>2, <4>3
    <3>5. QED
      BY <3>3, <3>4
  <2>3. ASSUME NEW s \in Stack,
               new.stack = IF HeldBy(p, Pruned.stack[s]) THEN [Pruned.stack EXCEPT ![s] = None]
                                                        ELSE Pruned.stack,
               stacks' = [stacks EXCEPT ![p] = @ \ {s}]
        PROVE  /\ OwnDirs(new)
               /\ \A q \in Pid : \A t \in stacks'[q] :
                    HeldBy(q, file.stack[t]) => Remains(q, t, new)
    <3>1. OwnDirs(new)
      BY <1>4, <2>3 DEF OwnDirs
    <3>2. ASSUME NEW q \in Pid, NEW t \in stacks'[q], HeldBy(q, file.stack[t])
          PROVE  Remains(q, t, new)
      <4>1. /\ t \in Stack /\ HeldBy(q, Pruned.stack[t]) /\ Remains(q, t, Pruned)
        BY <1>5, <1>6, <3>2
      <4>2. t = s => q # p
        BY <2>3, <3>2 DEF TypeOK
      <4>3. new.stack[t] = Pruned.stack[t]
        BY <1>4, <2>3, <4>1, <4>2 DEF HeldBy
      <4>4. QED
        BY <4>1, <4>3 DEF Remains
    <3>3. QED
      BY <3>1, <3>2
  <2>4. QED
    BY <2>1, <2>2, <2>3 DEF StackChanges
<1>8. \A q \in Pid : stacks'[q] # {} => proc'[q] = "doze"
  BY <1>1, <1>5 DEF StackSafe
<1>9. QED
  <2>1. OwnDirs(pending'[p].file)
    BY <1>3, <1>7 DEF OwnDirs
  <2>2. \A q \in Pid : \A s \in stacks'[q] :
          HeldBy(q, file'.stack[s]) => Remains(q, s, pending'[p].file)
    BY <1>1, <1>3, <1>7 DEF Remains
  <2>3. OwnDirs(file)'
    BY <1>1 DEF StackSafe, OwnDirs
  <2>4. QED
    BY <1>1, <1>2, <1>8, <2>1, <2>2, <2>3 DEF StackSafe, OwnDirs, HeldBy, Remains

\* However many programs a project has, and however they claim, release, die and
\* come back under one pid: a stack that a program is on file for, and has not
\* released, stays with its project.
THEOREM StackStaysHolds == Spec => StackStays
<1>1. Init => StackSafe
  BY DEF Init, StackSafe, OwnDirs
<1>2. TypeOK /\ StackSafe /\ [Next]_vars =>
        /\ StackSafe'
        /\ \/ UNCHANGED vars
           \/ \A p \in Pid : \A s \in stacks[p] : HeldBy(p, file.stack[s]) => Remains(p, s, file')
  <2> SUFFICES ASSUME TypeOK, StackSafe, [Next]_vars
               PROVE  /\ StackSafe'
                      /\ \/ UNCHANGED vars
                         \/ \A p \in Pid : \A s \in stacks[p] :
                              HeldBy(p, file.stack[s]) => Remains(p, s, file')
    OBVIOUS
  <2>0. ASSUME file' = file
        PROVE  \A p \in Pid : \A s \in stacks[p] : HeldBy(p, file.stack[s]) => Remains(p, s, file')
    BY <2>0 DEF StackSafe, OwnDirs, HeldBy, Remains, TypeOK
  <2>1. CASE UNCHANGED vars
    BY <2>1 DEF vars, StackSafe, OwnDirs, HeldBy, Remains
  <2>2. ASSUME NEW p \in Pid, Operation(p)
        PROVE  StackSafe' /\ file' = file
    <3>1. PICK new \in File : \E held, owned :
            Update(p, new, held, owned) /\ StackChanges(p, new, owned)
      BY <2>2, OperationStacks
    <3>2. file' = file
      BY <3>1 DEF Update, Rewrite
    <3>3. QED
      BY <3>1, <3>2, UpdateStackSafe
  <2>3. ASSUME NEW q \in Pid, Commit(q)
        PROVE  /\ StackSafe'
               /\ \A p \in Pid : \A s \in stacks[p] :
                    HeldBy(p, file.stack[s]) => Remains(p, s, file')
    <3>1. /\ pending[q] # None /\ proc' = proc /\ file' = pending[q].file
          /\ stacks' = [stacks EXCEPT ![q] = pending[q].stacks]
          /\ pending' = [pending EXCEPT ![q] = None]
      BY <2>3 DEF Commit
    <3>2. \A p \in Pid : pending'[p] = None
      BY <3>1 DEF StackSafe, TypeOK
    <3>3. OwnDirs(file)'
      BY <3>1 DEF StackSafe, OwnDirs
    <3>4. \A p \in Pid : stacks'[p] # {} => proc'[p] = "doze"
      BY <3>1 DEF StackSafe, TypeOK
    <3>5. QED
      BY <3>1, <3>2, <3>3, <3>4 DEF StackSafe, Remains
  <2>4. ASSUME NEW p \in Pid, Fail(p) \/ Exit(p)
        PROVE  StackSafe' /\ file' = file
    <3>1. /\ file' = file
          /\ \A q \in Pid : /\ pending'[q] # None => pending[q] # None /\ pending'[q] = pending[q] /\ proc'[q] = proc[q]
                            /\ stacks'[q] # {} => stacks'[q] = stacks[q] /\ proc'[q] = proc[q]
      <4>1. CASE Fail(p)
        BY <4>1 DEF Fail, TypeOK
      <4>2. CASE Exit(p)
        BY <4>2 DEF Exit, TypeOK
      <4>3. QED
        BY <2>4, <4>1, <4>2
    <3>2. OwnDirs(file)'
      BY <3>1 DEF StackSafe, OwnDirs
    <3>3. \A q \in Pid : stacks'[q] # {} => proc'[q] = "doze"
      BY <3>1 DEF StackSafe
    <3>4. ASSUME NEW q \in Pid, pending'[q] # None
          PROVE  /\ proc'[q] = "doze"
                 /\ \A k \in Pid : pending'[k] # None => k = q
                 /\ OwnDirs(pending'[q].file)
                 /\ \A k \in Pid : \A s \in stacks'[k] :
                      HeldBy(k, file'.stack[s]) => Remains(k, s, pending'[q].file)
      <4>1. pending[q] # None /\ pending'[q] = pending[q] /\ proc'[q] = proc[q]
        BY <3>1, <3>4
      <4>2. \A k \in Pid : \A s \in stacks'[k] : s \in stacks[k]
        BY <3>1
      <4>3. QED
        BY <3>1, <4>1, <4>2 DEF StackSafe
    <3>5. QED
      BY <3>1, <3>2, <3>3, <3>4 DEF StackSafe, OwnDirs, HeldBy, Remains
  <2>5. ASSUME NEW p \in Pid, Start(p) \/ Reuse(p)
        PROVE  StackSafe' /\ file' = file
    <3>1. /\ UNCHANGED <<file, pending, stacks>> /\ proc[p] # "doze"
          /\ \A q \in Pid \ {p} : proc'[q] = proc[q]
      BY <2>5 DEF Start, Reuse, TypeOK
    <3>2. QED
      BY <3>1 DEF StackSafe, OwnDirs, HeldBy, Remains
  <2>6. QED
    BY <2>0, <2>1, <2>2, <2>3, <2>4, <2>5 DEF Next
<1>3. TypeOK /\ StackSafe /\ [Next]_vars => StackSafe'
  BY <1>2
<1>4. TypeOK /\ StackSafe /\ [Next]_vars =>
        [\A p \in Pid : \A s \in stacks[p] :
           HeldBy(p, file.stack[s]) => /\ file'.stack[s] # None
                                       /\ file'.stack[s].dir = Dir[p]]_vars
  BY <1>2 DEF Remains
<1>5. QED
  BY <1>1, <1>3, <1>4, TypeCorrect, PTL DEF Spec, StackStays

-----------------------------------------------------------------------------
(* Registry implements Zone: the file, its lock and the pruning of dead      *)
(* programs' entries are the table of names that Zone promises.              *)

\* What Zone's variables are here.
running == {p \in Pid : Alive(p)}
zone == [n \in Name |-> Seen(n)]

-----------------------------------------------------------------------------
\* What a file under the lock changes for those who read names: nothing, or one name,
\* which the program drops, or takes as Zone's Grant and Publish say.
Same(f, n) == Live(f.name[n]) = Live(file.name[n])

Drop(p, n, f) == HeldBy(p, file.name[n]) /\ f.name[n] = None

Take(p, n, f) ==
  /\ Live(file.name[n]) # None => HeldBy(p, file.name[n])
  /\ HeldBy(p, f.name[n])
  /\ f.name[n].ip \in Dynamic =>
       \A m \in Name \ {n} :
         Live(file.name[m]) # None /\ file.name[m].ip = f.name[n].ip => HeldBy(p, file.name[m])
  /\ \/ f.name[n].target = IF HeldBy(p, file.name[n]) THEN file.name[n].target ELSE None
     \/ /\ HeldBy(p, file.name[n]) /\ f.name[n].ip = file.name[n].ip
        /\ f.name[n].target \in Target

OneChange(p, f) ==
  \/ \A n \in Name : Same(f, n)
  \/ \E n \in Name : /\ \A m \in Name \ {n} : Same(f, m)
                     /\ Drop(p, n, f) \/ Take(p, n, f)

\* It still is one change at its rename, though meanwhile peers start and exit: that is
\* what makes the rename the moment at which the operation takes effect.
ZoneInv == Inv /\ \A p \in Pid : pending[p] # None => OneChange(p, pending[p].file)

-----------------------------------------------------------------------------
LEMMA SeenIs ==
  ASSUME TypeOK, NEW n \in Name
  PROVE  /\ Seen(n) = None <=> Live(file.name[n]) = None
         /\ Live(file.name[n]) # None =>
              /\ Live(file.name[n]) = file.name[n] /\ file.name[n] \in Entry
              /\ Seen(n) = [pid |-> file.name[n].pid, ip |-> file.name[n].ip,
                            target |-> file.name[n].target]
<1>1. Live(file.name[n]) # None => Live(file.name[n]) = file.name[n] /\ file.name[n] \in Entry
  BY DEF Live, TypeOK, File
<1>2. Live(file.name[n]) # None =>
        [pid |-> file.name[n].pid, ip |-> file.name[n].ip, target |-> file.name[n].target] \in Shown
  BY <1>1 DEF Shown, Entry
<1>3. QED
  BY <1>1, <1>2, NoneAssumption DEF Seen

LEMMA ZoneHas ==
  ASSUME TypeOK, NEW p \in Pid, NEW n \in Name, Alive(p)
  PROVE  Promised!Has(p, n) <=> HeldBy(p, file.name[n])
BY SeenIs DEF Promised!Has, HeldBy, Live

LEMMA ZoneVars == Promised!vars = <<running, zone>>
BY DEF Promised!vars, running, zone

\* A name whose live entry stays is seen as it was.
LEMMA SameSeen ==
  ASSUME TypeOK, TypeOK', proc' = proc, NEW n \in Name, Live(file'.name[n]) = Live(file.name[n])
  PROVE  Seen(n)' = Seen(n)
<1>1. Live(file.name[n])' = Live(file'.name[n])
  BY DEF Live, Alive
<1>2. QED
  BY <1>1, SeenIs DEF Seen, Live, Alive

-----------------------------------------------------------------------------
\* An update under the lock is one change.
LEMMA UpdateOneChange ==
  ASSUME Inv, NEW p \in Pid, NEW new \in File, NEW held \in Holdings, Alive(p),
         Changes(p, new, held)
  PROVE  OneChange(p, new)
<1>1. \A n \in Name : /\ Pruned.name[n] = Live(file.name[n])
                      /\ Live(Pruned.name[n]) = Live(file.name[n])
                      /\ HeldBy(p, Pruned.name[n]) <=> HeldBy(p, file.name[n])
                      /\ HeldBy(p, file.name[n]) => Pruned.name[n] = file.name[n]
  BY PrunedFile, PrunedHeld DEF Inv, Live
<1>2. \A n \in Name : new.name[n] = Pruned.name[n] => Same(new, n)
  BY <1>1 DEF Same
<1>3. CASE KeepsNames(p, new, held)
  BY <1>2, <1>3 DEF KeepsNames, OneChange
<1>4. ASSUME NEW n \in Name, OthersSame(p, n, new, held), Drops(p, n, new, held)
      PROVE  OneChange(p, new)
  <2>1. \A m \in Name \ {n} : Same(new, m)
    BY <1>2, <1>4 DEF OthersSame
  <2>2. Drop(p, n, new) \/ Same(new, n)
    BY <1>1, <1>2, <1>4 DEF Drops, Drop
  <2>3. QED
    BY <2>1, <2>2 DEF OneChange
<1>5. ASSUME NEW n \in Name, OthersSame(p, n, new, held), Takes(p, n, new, held)
      PROVE  OneChange(p, new)
  <2>1. \A m \in Name \ {n} : Same(new, m)
    BY <1>2, <1>5 DEF OthersSame
  <2>2. \A m \in Name : Pruned.name[m] # None => Pruned.name[m] = file.name[m]
    BY <1>1 DEF Live
  <2>3. Take(p, n, new)
    BY <1>1, <1>5, <2>2 DEF Takes, Take, HeldBy
  <2>4. QED
    BY <2>1, <2>3 DEF OneChange
<1>6. QED
  BY <1>3, <1>4, <1>5 DEF Changes

\* It stays one while a peer exits or a new program starts.
LEMMA PeerOneChange ==
  ASSUME Inv, NEW p \in Pid, NEW f \in File, OneChange(p, f), Alive(p), Alive(p)', file' = file,
         \A e \in Entry : (\E n \in Name : e = file.name[n] \/ e = f.name[n]) =>
           (Alive(e.pid)' => Alive(e.pid))
  PROVE  OneChange(p, f)'
<1>1. \A n \in Name : file.name[n] \in Entry \cup {None} /\ f.name[n] \in Entry \cup {None}
  BY DEF Inv, TypeOK, File
<1>2. ASSUME NEW n \in Name
      PROVE  /\ Live(file.name[n])' # None => Live(file.name[n]) # None /\ Alive(file.name[n].pid)'
             /\ Live(file.name[n])' = IF file.name[n] # None /\ Alive(file.name[n].pid)' THEN file.name[n] ELSE None
             /\ Live(f.name[n])' = IF f.name[n] # None /\ Alive(f.name[n].pid)' THEN f.name[n] ELSE None
             /\ Live(f.name[n])' # None => Live(f.name[n]) # None
  BY <1>1 DEF Live, Alive
<1>3. ASSUME NEW n \in Name, Same(f, n)
      PROVE  Same(f, n)'
  <2>1. CASE Live(f.name[n]) = None
    BY <1>2, <1>3, <2>1 DEF Same
  <2>2. CASE Live(f.name[n]) # None
    <3>1. f.name[n] = file.name[n]
      BY <1>3, <2>2 DEF Same, Live
    <3>2. QED
      BY <1>2, <3>1 DEF Same
  <2>3. QED
    BY <2>1, <2>2
<1>4. ASSUME NEW n \in Name, Drop(p, n, f)
      PROVE  Drop(p, n, f)'
  BY <1>4 DEF Drop, HeldBy
<1>5. ASSUME NEW n \in Name, Take(p, n, f)
      PROVE  Take(p, n, f)'
  BY <1>2, <1>5 DEF Take, HeldBy
<1>6. QED
  BY <1>3, <1>4, <1>5 DEF OneChange
-----------------------------------------------------------------------------
\* Whether a file is one change depends on its names and on what is live, only.
LEMMA OneChangeNext ==
  ASSUME NEW p, NEW f, UNCHANGED <<file, proc>>, pending'[p].file.name = f.name, OneChange(p, f)
  PROVE  OneChange(p, pending[p].file)'
<1>1. \A e : Live(e)' = Live(e)
  BY DEF Live, Alive
<1>2. ASSUME NEW n \in Name
      PROVE  /\ Same(pending[p].file, n)' <=> Same(f, n)
             /\ Drop(p, n, pending[p].file)' <=> Drop(p, n, f)
             /\ Take(p, n, pending[p].file)' <=> Take(p, n, f)
  BY <1>1 DEF Same, Drop, Take, HeldBy, Live, Alive
<1>3. QED
  BY <1>2 DEF OneChange

LEMMA StepZoneInv ==
  ASSUME Recycled = {}, ZoneInv, Inv', [Next]_vars
  PROVE  ZoneInv'
<1> SUFFICES ASSUME NEW p \in Pid, pending'[p] # None
             PROVE  OneChange(p, pending[p].file)'
  BY DEF ZoneInv
<1> USE DEF ZoneInv
<1>1. TypeOK /\ TypeOK'
  BY DEF Inv
<1>2. ASSUME file' = file, proc' = proc, pending'[p] = pending[p]
      PROVE  OneChange(p, pending[p].file)'
  BY <1>2, OneChangeNext
<1>3. ASSUME NEW q \in Pid, Operation(q)
      PROVE  OneChange(p, pending[p].file)'
  <2>1. PICK new \in File, held \in Holdings, owned \in SUBSET Stack :
          Update(q, new, held, owned) /\ Changes(q, new, held)
    BY <1>3, OperationChanges DEF Inv
  <2>2. p = q /\ Alive(p) /\ UNCHANGED <<file, proc>>
    BY <1>1, <2>1 DEF Update, Rewrite, Unlocked, TypeOK, Alive
  <2>3. pending'[p].file.name = new.name
    BY <1>1, <2>1, <2>2 DEF Update, Rewrite, TypeOK, File
  <2>4. OneChange(p, new)
    BY <2>1, <2>2, UpdateOneChange
  <2>5. QED
    BY <2>2, <2>3, <2>4, OneChangeNext
<1>4. ASSUME NEW q \in Pid, Commit(q)
      PROVE  FALSE
  BY <1>1, <1>4 DEF Commit, Inv, UpdateSafe, TypeOK
<1>5. ASSUME NEW q \in Pid, Fail(q)
      PROVE  OneChange(p, pending[p].file)'
  BY <1>1, <1>2, <1>5 DEF Fail, TypeOK
<1>6. ASSUME NEW q \in Pid, Start(q) \/ Exit(q)
      PROVE  OneChange(p, pending[p].file)'
  <2>1. /\ file' = file /\ pending'[p] = pending[p] /\ pending[p] # None
        /\ OneChange(p, pending[p].file) /\ pending[p].file \in File
    <3>1. file' = file /\ pending'[p] = pending[p]
      BY <1>1, <1>6 DEF Start, Exit, TypeOK
    <3>2. QED
      BY <1>1, <3>1 DEF TypeOK, Pending
  <2>2. Alive(p) /\ Alive(p)'
    BY <2>1 DEF Inv, UpdateSafe, Alive
  <2>f. PICK f \in File : f = pending[p].file
    BY <2>1
  <2>3. ASSUME NEW n \in Name, NEW e \in Entry, e = file.name[n] \/ e = f.name[n], Alive(e.pid)'
        PROVE  Alive(e.pid)
    <3>1. e.pid \in Pid /\ e # None
      BY NoneAssumption DEF Entry
    <3>2. CASE Exit(q)
      BY <1>1, <2>3, <3>1, <3>2 DEF Exit, Alive, TypeOK
    <3>3. CASE Start(q)
      <4>1. proc[q] = "new" /\ proc' = [proc EXCEPT ![q] = "doze"]
        BY <3>3 DEF Start
      <4>2. ~HeldBy(q, file.name[n])
        BY <4>1 DEF Inv, NewHasNothing
      <4>3. q # p
        BY <2>2, <4>1 DEF Alive
      <4>4. ~HeldBy(q, f.name[n])
        BY <2>1, <2>f, <4>1, <4>2, <4>3 DEF Inv, UpdateSafe
      <4>5. e.pid # q
        BY <2>3, <3>1, <4>2, <4>4 DEF HeldBy
      <4>6. QED
        BY <1>1, <2>3, <3>1, <4>1, <4>5 DEF Alive, TypeOK
    <3>4. QED
      BY <1>6, <3>2, <3>3
  <2>4. OneChange(p, f)
    BY <2>1, <2>f
  <2>5. \A e \in Entry : (\E n \in Name : e = file.name[n] \/ e = f.name[n]) =>
          (Alive(e.pid)' => Alive(e.pid))
    BY <2>3
  <2>6. OneChange(p, f)'
    BY <2>1, <2>2, <2>4, <2>5, PeerOneChange
  <2>7. pending'[p].file = f
    BY <2>1, <2>f
  <2>8. QED
    <3>1. ASSUME NEW n \in Name
          PROVE  /\ Same(pending[p].file, n)' <=> Same(f, n)'
                 /\ Drop(p, n, pending[p].file)' <=> Drop(p, n, f)'
                 /\ Take(p, n, pending[p].file)' <=> Take(p, n, f)'
      BY <2>7 DEF Same, Drop, Take, HeldBy, Live
    <3>2. QED
      BY <2>6, <3>1 DEF OneChange
<1>7. QED
  BY <1>2, <1>3, <1>4, <1>5, <1>6 DEF Next, Reuse, vars

-----------------------------------------------------------------------------
(* Each step is a step of Zone, or changes nothing there.                    *)

LEMMA StartMaps ==
  ASSUME Inv, NEW p \in Pid, proc[p] = "new", Start(p)
  PROVE  Promised!Arrive(p)
<1>1. TypeOK /\ proc' = [proc EXCEPT ![p] = "doze"] /\ file' = file
  BY DEF Start, Inv
<1>2. p \notin running /\ running' = running \cup {p}
  BY <1>1 DEF running, Alive, TypeOK
<1>3. ASSUME NEW n \in Name
      PROVE  Seen(n)' = Seen(n)
  <2>1. file.name[n] # None => file.name[n] \in Entry /\ file.name[n].pid # p
    BY <1>1 DEF Inv, NewHasNothing, HeldBy, TypeOK, File
  <2>2. Live(file.name[n])' = Live(file.name[n])
    BY <1>1, <2>1 DEF Live, Alive, TypeOK, Entry
  <2>3. QED
    BY <1>1, <2>2 DEF Seen
<1>4. zone' = zone
  BY <1>3 DEF zone
<1>5. QED
  BY <1>2, <1>4 DEF Promised!Arrive, running, zone

LEMMA ExitMaps ==
  ASSUME Inv, NEW p \in Pid, Exit(p)
  PROVE  Promised!Depart(p)
<1>1. TypeOK /\ Alive(p) /\ proc' = [proc EXCEPT ![p] = "gone"] /\ file' = file
  BY DEF Exit, Inv
<1>2. p \in running /\ running' = running \ {p}
  BY <1>1 DEF running, Alive, TypeOK
<1>3. ASSUME NEW n \in Name
      PROVE  Seen(n)' = IF Promised!Has(p, n) THEN None ELSE Seen(n)
  <2>1. file.name[n] # None => file.name[n] \in Entry
    BY <1>1 DEF TypeOK, File
  <2>2. Live(file.name[n])' = IF HeldBy(p, file.name[n]) THEN None ELSE Live(file.name[n])
    BY <1>1, <2>1 DEF Live, HeldBy, Alive, TypeOK, Entry
  <2>3. QED
    BY <1>1, <2>2, ZoneHas DEF Seen
<1>4. zone' = [n \in Name |-> IF Promised!Has(p, n) THEN None ELSE zone[n]]
  BY <1>3 DEF zone
<1>5. QED
  BY <1>2, <1>4 DEF Promised!Depart, running, zone

LEMMA CommitMaps ==
  ASSUME ZoneInv, Inv', NEW p \in Pid, Commit(p)
  PROVE  UNCHANGED <<running, zone>> \/
         \E n \in Name : \/ Promised!Yield(p, n)
                         \/ \E ip \in Address : Promised!Grant(p, n, ip)
                         \/ \E t \in Target : Promised!Publish(p, n, t)
<1> DEFINE f == pending[p].file
<1>1. /\ TypeOK /\ TypeOK' /\ pending[p] # None /\ proc' = proc /\ file' = f
      /\ f \in File /\ OneChange(p, f)
  BY DEF ZoneInv, Inv, Commit, TypeOK, Pending
<1>2. Alive(p) /\ p \in running /\ running' = running
  BY <1>1 DEF ZoneInv, Inv, UpdateSafe, Alive, running
<1> HIDE DEF f
<1>3. ASSUME NEW n \in Name, Same(f, n)
      PROVE  Seen(n)' = Seen(n)
  BY <1>1, <1>3, SameSeen DEF Same
<1>4. ASSUME \A n \in Name : Same(f, n)
      PROVE  running' = running /\ zone' = zone
  BY <1>2, <1>3, <1>4 DEF zone
<1>5. ASSUME NEW n \in Name, \A m \in Name \ {n} : Same(f, m), Drop(p, n, f)
      PROVE  Promised!Yield(p, n)
  <2>1. Seen(n)' = None
    BY <1>1, <1>5 DEF Drop, Seen, Live
  <2>2. zone' = [zone EXCEPT ![n] = None]
    BY <1>3, <1>5, <2>1 DEF zone
  <2>3. Promised!Has(p, n)
    BY <1>1, <1>2, <1>5, ZoneHas DEF Drop
  <2>4. QED
    BY <1>2, <2>2, <2>3 DEF Promised!Yield, running, zone
<1>6. ASSUME NEW n \in Name, \A m \in Name \ {n} : Same(f, m), Take(p, n, f)
      PROVE  \/ \E ip \in Address : Promised!Grant(p, n, ip)
             \/ \E t \in Target : Promised!Publish(p, n, t)
  <2> DEFINE e == f.name[n]
             seen == [pid |-> p, ip |-> e.ip, target |-> e.target]
  <2>1. e \in Entry /\ e # None /\ e.pid = p
    BY <1>1, <1>6 DEF Take, HeldBy, File
  <2>2. Seen(n)' = seen
    BY <1>1, <1>2, <2>1 DEF Seen, Live, Alive
  <2>3. zone' = [zone EXCEPT ![n] = seen]
    BY <1>3, <1>6, <2>2 DEF zone
  <2>4. Promised!Has(p, n) <=> HeldBy(p, file.name[n])
    BY <1>1, <1>2, ZoneHas
  <2>5. HeldBy(p, file.name[n]) =>
          /\ Live(file.name[n]) # None
          /\ zone[n] = [pid |-> p, ip |-> file.name[n].ip, target |-> file.name[n].target]
    BY <1>1, <1>2, SeenIs DEF HeldBy, Live, zone
  <2>6. CASE e.target = IF HeldBy(p, file.name[n]) THEN file.name[n].target ELSE None
    <3>1. zone[n] # None => Promised!Has(p, n)
      BY <1>1, <1>6, <2>4, SeenIs DEF Take, zone
    <3>2. e.ip \in Dynamic =>
            \A m \in Name \ {n} : zone[m] # None /\ zone[m].ip = e.ip => Promised!Has(p, m)
      BY <1>1, <1>2, <1>6, SeenIs, ZoneHas DEF Take, zone
    <3>3. seen = [pid |-> p, ip |-> e.ip,
                  target |-> IF Promised!Has(p, n) THEN zone[n].target ELSE None]
      BY <2>4, <2>5, <2>6
    <3>4. e.ip \in Address
      BY <2>1 DEF Entry
    <3>5. Promised!Grant(p, n, e.ip)
      BY <1>2, <2>3, <3>1, <3>2, <3>3 DEF Promised!Grant, running, zone
    <3>6. QED
      BY <3>4, <3>5
  <2>7. CASE HeldBy(p, file.name[n]) /\ e.ip = file.name[n].ip /\ e.target \in Target
    <3>1. Promised!Has(p, n)
      BY <2>4, <2>7
    <3>2. [zone EXCEPT ![n].target = e.target] = [zone EXCEPT ![n] = seen]
      <4>1. [zone[n] EXCEPT !.target = e.target] = seen
        BY <2>5, <2>7
      <4>2. QED
        BY <4>1
    <3>3. Promised!Publish(p, n, e.target)
      BY <1>2, <2>3, <3>1, <3>2 DEF Promised!Publish, running, zone
    <3>4. QED
      BY <2>7, <3>3
  <2>8. QED
    BY <1>6, <2>6, <2>7 DEF Take
<1>7. ASSUME NEW n \in Name, \A m \in Name \ {n} : Same(f, m), Drop(p, n, f) \/ Take(p, n, f)
      PROVE  \/ Promised!Yield(p, n)
             \/ \E ip \in Address : Promised!Grant(p, n, ip)
             \/ \E t \in Target : Promised!Publish(p, n, t)
  <2>1. CASE Drop(p, n, f)
    BY <1>5, <1>7, <2>1
  <2>2. CASE Take(p, n, f)
    BY <1>6, <1>7, <2>2
  <2>3. QED
    BY <1>7, <2>1, <2>2
<1>8. ASSUME ~ \A n \in Name : Same(f, n)
      PROVE  \E n \in Name : \/ Promised!Yield(p, n)
                             \/ \E ip \in Address : Promised!Grant(p, n, ip)
                             \/ \E t \in Target : Promised!Publish(p, n, t)
  <2>1. PICK n \in Name : /\ \A m \in Name \ {n} : Same(f, m)
                          /\ Drop(p, n, f) \/ Take(p, n, f)
    BY <1>1, <1>8 DEF OneChange
  <2>2. \/ Promised!Yield(p, n)
        \/ \E ip \in Address : Promised!Grant(p, n, ip)
        \/ \E t \in Target : Promised!Publish(p, n, t)
    BY <1>7, <2>1
  <2>3. QED
    BY <2>1, <2>2
<1>9. QED
  BY <1>4, <1>8

LEMMA StepMaps ==
  ASSUME Recycled = {}, ZoneInv, Inv', [Next]_vars
  PROVE  [Promised!Next]_(Promised!vars)
<1>1. ASSUME UNCHANGED <<file, proc>>
      PROVE  UNCHANGED <<running, zone>>
  BY <1>1 DEF running, zone, Seen, Live, Alive
<1>2. CASE UNCHANGED vars
  BY <1>1, <1>2, ZoneVars DEF vars, running, zone, Promised!vars
<1>3. ASSUME NEW p \in Pid, Operation(p)
      PROVE  UNCHANGED <<running, zone>>
  <2>1. \E new \in File, held \in Holdings, owned \in SUBSET Stack : Update(p, new, held, owned)
    BY <1>3, OperationChanges DEF ZoneInv, Inv
  <2>2. QED
    BY <1>1, <2>1 DEF Update, Rewrite
<1>4. ASSUME NEW p \in Pid, Fail(p)
      PROVE  UNCHANGED <<running, zone>>
  BY <1>1, <1>4 DEF Fail
<1>5. ASSUME NEW p \in Pid, Start(p)
      PROVE  Promised!Next
  BY <1>5, StartMaps DEF Start, ZoneInv, Promised!Next
<1>6. ASSUME NEW p \in Pid, Exit(p)
      PROVE  Promised!Next
  BY <1>6, ExitMaps DEF ZoneInv, Promised!Next
<1>7. ASSUME NEW p \in Pid, Commit(p)
      PROVE  Promised!Next \/ UNCHANGED <<running, zone>>
  BY <1>7, CommitMaps DEF Promised!Next
<1>8. UNCHANGED <<running, zone>> => UNCHANGED Promised!vars
  BY DEF Promised!vars, running, zone
<1>9. QED
  BY <1>2, <1>3, <1>4, <1>5, <1>6, <1>7, <1>8 DEF Next, Reuse

\* The registry implements the table that Zone promises, if the system gives no pid out
\* twice: an operation takes effect whole at its rename, and a program's names are gone
\* the moment it is.
THEOREM ImplementsZoneHolds ==
  ASSUME Recycled = {}
  PROVE  Spec => ImplementsZone
<1>1. Init => Promised!Init
  BY DEF Init, Promised!Init, Seen, Live, Alive, NoLease
<1>2. Init => \A p \in Pid : pending[p] # None => OneChange(p, pending[p].file)
  BY DEF Init
<1>3. Inv /\ Inv' /\ (\A p \in Pid : pending[p] # None => OneChange(p, pending[p].file)) /\ [Next]_vars
        => (\A p \in Pid : pending[p] # None => OneChange(p, pending[p].file))'
  BY StepZoneInv DEF ZoneInv
<1>4. ZoneInv /\ Inv' /\ [Next]_vars => [Promised!Next]_(Promised!vars)
  BY StepMaps
<1>5. Spec => []Inv
  BY InvHolds
<1>6. QED
  BY <1>1, <1>2, <1>3, <1>4, <1>5, PTL DEF Spec, ZoneInv, ImplementsZone, Promised!Spec

=============================================================================
