--------------------------- MODULE AuthorityProofs ---------------------------
(***************************************************************************)
(* Theorems about module Authority, for every number of programs, calls,   *)
(* certificates and faults.                                                *)
(***************************************************************************)
EXTENDS Authority, FiniteSetTheorems, TLAPS

LoaderAt == {"off", "key", "lock", "key again", "write key", "write cert", "clean",
             "done", "failed"}
RotatorAt == {"off", "key", "old", "write key", "write cert", "clean", "remember"}
DoorAt == {"off", "cert", "key", "leaf key", "mint", "write crt"}

\* Which steps are whose.
Roles ==
  /\ \A p \in Loader : at[p] \in LoaderAt
  /\ \A p \in Rotator : at[p] \in RotatorAt
  /\ \A d \in Door : at[d] \in DoorAt

\* The calls that may yet make a root.  Counting them shows that there is a number for
\* every root that is made.
Owed == {p \in Loader \cup Rotator : at[p] \in {"key", "lock", "key again", "old", "write key"}}

Counted == IsFiniteSet(Owed) /\ made + Cardinality(Owed) <= starts + rotations

\* A leaf is looked for, and minted, for an authority that was loaded; what has been
\* minted is of its root.
Loaded ==
  \A d \in Door :
    /\ at[d] \in {"leaf key", "mint", "write crt"} => ca[d] \in CA /\ ca[d] \notin {None, Broken}
    /\ at[d] = "write crt" => hand[d].crt.by = ca[d].cert

Inv == TypeOK /\ Roles /\ Counted /\ Loaded /\ ServedVerifies

-----------------------------------------------------------------------------
LEMMA Bounds == MaxCalls \in Nat /\ MaxLeafs \in Nat /\ MaxFaults \in Nat
BY AuthorityAssumption

\* The bounds leave room for what they guard.
LEMMA CountersOK ==
  ASSUME TypeOK
  PROVE  /\ minted < MaxLeafs => minted + 1 \in Pair /\ minted + 1 \in 0 .. MaxLeafs
         /\ faults < MaxFaults => faults + 1 \in 0 .. MaxFaults
         /\ \A fails \in Fails : (IF fails THEN faults + 1 ELSE faults) \in 0 .. MaxFaults
<1>1. minted \in 0 .. MaxLeafs /\ faults \in 0 .. MaxFaults
  BY DEF TypeOK
<1>2. faults < MaxFaults => faults + 1 \in 0 .. MaxFaults
  BY <1>1, Bounds
<1>3. minted < MaxLeafs => minted + 1 \in Pair /\ minted + 1 \in 0 .. MaxLeafs
  BY <1>1, Bounds DEF Pair
<1>4. \A fails \in Fails : (IF fails THEN faults + 1 ELSE faults) \in 0 .. MaxFaults
  BY <1>1, <1>2 DEF Fails
<1>5. QED
  BY <1>2, <1>3, <1>4

LEMMA OwedFewer ==
  ASSUME Counted, TypeOK, Owed' \subseteq Owed
  PROVE  /\ IsFiniteSet(Owed') /\ Cardinality(Owed') \in Nat /\ Cardinality(Owed) \in Nat
         /\ Cardinality(Owed') <= Cardinality(Owed)
         /\ \A p \in Owed : p \notin Owed' => Cardinality(Owed') + 1 <= Cardinality(Owed)
<1>1. /\ IsFiniteSet(Owed') /\ IsFiniteSet(Owed) /\ Cardinality(Owed') <= Cardinality(Owed)
      /\ Cardinality(Owed') \in Nat /\ Cardinality(Owed) \in Nat
  BY FS_Subset, FS_CardinalityType DEF Counted
<1>2. ASSUME NEW p \in Owed, p \notin Owed'
      PROVE  Cardinality(Owed') + 1 <= Cardinality(Owed)
  <2>1. IsFiniteSet(Owed \ {p}) /\ Cardinality(Owed \ {p}) = Cardinality(Owed) - 1
    BY <1>1, FS_RemoveElement
  <2>2. Cardinality(Owed') <= Cardinality(Owed \ {p}) /\ Cardinality(Owed \ {p}) \in Nat
    BY <1>2, <2>1, FS_Subset, FS_CardinalityType
  <2>3. QED
    BY <1>1, <2>1, <2>2
<1>3. QED
  BY <1>1, <1>2

\* A step that begins no call makes a root, if it does, for one that was owed.
LEMMA CountedGoesOn ==
  ASSUME Counted, TypeOK, Owed' \subseteq Owed, starts' + rotations' = starts + rotations,
         made' = made \/ (made' = made + 1 /\ \E p \in Owed : p \notin Owed')
  PROVE  Counted'
<1>1. made \in Nat /\ starts + rotations \in Nat
  BY DEF TypeOK
<1>2. made' + Cardinality(Owed') <= starts' + rotations'
  BY <1>1, OwedFewer DEF Counted
<1>3. QED
  BY <1>2, OwedFewer DEF Counted

LEMMA CountedBegins ==
  ASSUME Counted, TypeOK, NEW p, Owed' \subseteq Owed \cup {p},
         starts' + rotations' = starts + rotations + 1, made' = made
  PROVE  Counted'
<1>1. made \in Nat /\ starts + rotations \in Nat
  BY DEF TypeOK
<1>2. /\ IsFiniteSet(Owed \cup {p}) /\ Cardinality(Owed \cup {p}) <= Cardinality(Owed) + 1
      /\ Cardinality(Owed \cup {p}) \in Nat /\ Cardinality(Owed) \in Nat
  <2>1. IsFiniteSet(Owed)
    BY DEF Counted
  <2>2. /\ IsFiniteSet(Owed \cup {p})
        /\ Cardinality(Owed \cup {p}) = IF p \in Owed THEN Cardinality(Owed) ELSE Cardinality(Owed) + 1
    BY <2>1, FS_AddElement
  <2>3. Cardinality(Owed \cup {p}) \in Nat /\ Cardinality(Owed) \in Nat
    BY <2>1, <2>2, FS_CardinalityType
  <2>4. QED
    BY <2>2, <2>3
<1>3. /\ IsFiniteSet(Owed') /\ Cardinality(Owed') <= Cardinality(Owed \cup {p})
      /\ Cardinality(Owed') \in Nat
  BY <1>2, FS_Subset, FS_CardinalityType
<1>4. made' + Cardinality(Owed') <= starts' + rotations'
  BY <1>1, <1>2, <1>3 DEF Counted
<1>5. QED
  BY <1>3, <1>4 DEF Counted

\* There is a number left for the root a call is about to make.
LEMMA RootLeft ==
  ASSUME Counted, TypeOK, NEW p \in Owed
  PROVE  made + 1 \in Root /\ made + 1 \in 0 .. MaxCalls
<1>1. /\ made \in Nat /\ starts + rotations \in Nat /\ starts + rotations <= MaxCalls
      /\ MaxCalls \in Nat
  BY AuthorityAssumption DEF TypeOK
<1>2. Cardinality(Owed) \in Nat /\ Cardinality(Owed) >= 1
  BY FS_EmptySet, FS_CardinalityType DEF Counted
<1>3. QED
  BY <1>1, <1>2 DEF Counted, Root
-----------------------------------------------------------------------------
\* The steps of a call of LoadOrCreateCA or RotateCA are not a door's.
Calls(p) ==
  \/ Start(p) \/ Load(p) \/ Lock(p) \/ LoadLocked(p)
  \/ Rotate(p) \/ OpenToRotate(p) \/ ReadOld(p) \/ Remember(p)
  \/ WriteKey(p) \/ WriteCert(p) \/ Clean(p)

Handles(d) == See(d) \/ LookAgain(d) \/ Reload(d) \/ ReadCrt(d) \/ Take(d) \/ Refuse(d)
                \/ MintNothing(d) \/ Mint(d) \/ WriteCrt(d)

\* Where a step of a program leads, and which of its two roles it has.
LEMMA CallsGo ==
  ASSUME Inv, NEW p \in Program, Calls(p)
  PROVE  /\ p \in Loader \cup Rotator /\ p \notin Door
         /\ UNCHANGED <<ca, id, minted, faults>>
         /\ hand' = hand \/ \E h \in Hand : hand' = [hand EXCEPT ![p] = h]
         /\ \E to \in Where :
              /\ at' = [at EXCEPT ![p] = to]
              /\ p \in Loader => to \in LoaderAt
              /\ p \in Rotator => to \in RotatorAt
<1> USE DEF Go
<1>1. /\ hand[p] \in Hand /\ cert \in Root \cup {None} /\ prev \subseteq Root
      /\ Empty \in Hand
  BY DEF Inv, TypeOK, Hand, Empty
<1>2. /\ p \in Loader => at[p] \in LoaderAt /\ p \notin Rotator /\ p \notin Door
      /\ p \in Rotator => at[p] \in RotatorAt /\ p \notin Loader /\ p \notin Door
      /\ p \in Door => at[p] \in DoorAt /\ p \notin Loader /\ p \notin Rotator
  BY AuthorityAssumption DEF Inv, Roles
<1>3. CASE Start(p)
  BY <1>1, <1>2, <1>3 DEF Start, ReadCert, Hand, Where, LoaderAt
<1>4. CASE Load(p)
  BY <1>1, <1>2, <1>4 DEF Load, Forget, Where, LoaderAt, counts
<1>5. CASE Lock(p)
  BY <1>1, <1>2, <1>5 DEF Lock, ReadCert, Hand, Where, LoaderAt, RotatorAt, DoorAt, Program, counts
<1>6. CASE LoadLocked(p)
  BY <1>1, <1>2, <1>6 DEF LoadLocked, Forget, Where, LoaderAt, RotatorAt, DoorAt, Program, counts
<1>7. CASE Rotate(p)
  BY <1>1, <1>2, <1>7 DEF Rotate, ReadCert, Hand, Where, RotatorAt
<1>8. CASE OpenToRotate(p)
  <2>1. [hand[p] EXCEPT !.cert = None, !.old = hand[p].cert, !.prev = prev] \in Hand
    BY <1>1 DEF Hand
  <2>2. QED
    BY <1>2, <1>8, <2>1 DEF OpenToRotate, Where, RotatorAt, counts
<1>9. CASE ReadOld(p)
  BY <1>1, <1>2, <1>9 DEF ReadOld, Hand, Where, LoaderAt, RotatorAt, DoorAt, Program, counts
<1>10. CASE Remember(p)
  BY <1>1, <1>2, <1>10 DEF Remember, Forget, Where, LoaderAt, RotatorAt, DoorAt, Program
<1>11. CASE WriteKey(p)
  <2>1. p \in Owed
    BY <1>2, <1>11 DEF WriteKey, Owed, DoorAt, Program
  <2>2. [hand[p] EXCEPT !.cert = made'] \in Hand
    BY <1>1, <1>11, <2>1, RootLeft DEF WriteKey, Hand, Inv
  <2>3. QED
    BY <1>2, <1>11, <2>2 DEF WriteKey, Where, LoaderAt, RotatorAt, DoorAt, Program
<1>12. CASE WriteCert(p)
  BY <1>1, <1>2, <1>12 DEF WriteCert, Where, LoaderAt, RotatorAt, DoorAt, Program, counts
<1>13. CASE Clean(p)
  BY <1>1, <1>2, <1>13 DEF Clean, Hand, Where, LoaderAt, RotatorAt, DoorAt, Program, counts
<1>14. QED
  BY <1>3, <1>4, <1>5, <1>6, <1>7, <1>8, <1>9, <1>10, <1>11, <1>12, <1>13 DEF Calls
LEMMA CallsTypeOK ==
  ASSUME Inv, NEW p \in Program, Calls(p)
  PROVE  TypeOK'
<1>1. /\ at' \in [Program -> Where] /\ hand' \in [Program -> Hand]
      /\ ca' \in [Door -> CA \cup {None, Broken}] /\ id' \in [Door -> Root \cup {None}]
      /\ minted' \in 0 .. MaxLeafs /\ faults' \in 0 .. MaxFaults
  <2>1. hand' \in [Program -> Hand]
    BY CallsGo DEF Inv, TypeOK
  <2>2. at' \in [Program -> Where]
    BY CallsGo DEF Inv, TypeOK
  <2>3. QED
    BY <2>1, <2>2, CallsGo DEF Inv, TypeOK
<1>2. /\ cert' \in Root \cup {None} /\ key' \in Root \cup {None} /\ prev' \subseteq Root
      /\ leaf' \in [crt : Crt \cup {None}, key : Pair \cup {None}]
      /\ lock' \in Loader \cup {None} /\ rotated' \subseteq Root
      /\ made' \in 0 .. MaxCalls
  <2> USE DEF Inv, TypeOK
  <2>1. hand[p] \in Hand
    OBVIOUS
  <2>2. CASE Start(p) \/ Load(p) \/ Rotate(p) \/ OpenToRotate(p) \/ ReadOld(p)
    BY <2>2 DEF Start, Load, Rotate, OpenToRotate, ReadOld, files, counts
  <2>3. CASE Lock(p) \/ LoadLocked(p)
    <3>1. p \in Loader
      BY <2>3, AuthorityAssumption DEF Lock, LoadLocked, Go, Roles, RotatorAt, DoorAt, Program
    <3>2. QED
      BY <2>3, <3>1 DEF Lock, LoadLocked, counts
  <2>4. CASE Remember(p)
    BY <2>1, <2>4 DEF Remember, Hand
  <2>5. CASE WriteKey(p)
    <3>1. p \in Owed
      BY <2>5, CallsGo DEF WriteKey, Owed, Go
    <3>2. QED
      BY <2>5, <3>1, RootLeft DEF WriteKey
  <2>6. CASE WriteCert(p)
    BY <2>1, <2>6 DEF WriteCert, Hand, counts
  <2>7. CASE Clean(p)
    BY <2>7 DEF Clean, counts
  <2>8. QED
    BY <2>2, <2>3, <2>4, <2>5, <2>6, <2>7 DEF Calls
<1>3. starts' \in Nat /\ rotations' \in Nat /\ starts' + rotations' <= MaxCalls
  <2>1. starts \in Nat /\ rotations \in Nat /\ starts + rotations <= MaxCalls
    BY DEF Inv, TypeOK
  <2>2. \/ UNCHANGED <<starts, rotations>>
        \/ starts' = starts + 1 /\ rotations' = rotations /\ starts + rotations < MaxCalls
        \/ starts' = starts /\ rotations' = rotations + 1 /\ starts + rotations < MaxCalls
    BY DEF Calls, Start, Load, Lock, LoadLocked, Rotate, OpenToRotate, ReadOld, Remember,
           WriteKey, WriteCert, Clean, counts
  <2>3. QED
    BY <2>1, <2>2, Bounds
<1>4. QED
  BY <1>1, <1>2, <1>3 DEF TypeOK

LEMMA CallsCounted ==
  ASSUME Inv, NEW p \in Program, Calls(p)
  PROVE  Counted'
<1>1. PICK to \in Where : at' = [at EXCEPT ![p] = to]
  BY CallsGo
<1>2. /\ to \notin {"key", "lock", "key again", "old", "write key"} => Owed' = Owed \ {p}
      /\ p \in Owed => Owed' \subseteq Owed
      /\ Owed' \subseteq Owed \cup {p}
  BY <1>1 DEF Owed, Inv, TypeOK, Program
<1>3. /\ starts \in Nat /\ rotations \in Nat /\ at[p] \in Where
      /\ p \in Loader \cup Rotator
  BY CallsGo DEF Inv, TypeOK
<1>4. CASE Start(p) \/ Rotate(p)
  <2>1. starts' + rotations' = starts + rotations + 1 /\ made' = made
    BY <1>3, <1>4 DEF Start, Rotate
  <2>2. QED
    BY <1>2, <2>1, CountedBegins DEF Inv
<1>5. CASE Load(p) \/ Lock(p) \/ LoadLocked(p) \/ OpenToRotate(p) \/ ReadOld(p)
  <2>1. p \in Owed /\ UNCHANGED <<starts, rotations, made>>
    BY <1>3, <1>5 DEF Load, Lock, LoadLocked, OpenToRotate, ReadOld, Go, Owed, counts
  <2>2. QED
    BY <1>2, <2>1, CountedGoesOn DEF Inv
<1>6. CASE WriteKey(p)
  <2>1. /\ p \in Owed /\ UNCHANGED <<starts, rotations>> /\ made' = made + 1
        /\ to = "write cert"
    BY <1>1, <1>3, <1>6 DEF WriteKey, Go, Owed, Inv, TypeOK
  <2>2. QED
    BY <1>2, <2>1, CountedGoesOn DEF Inv
<1>7. CASE WriteCert(p) \/ Clean(p) \/ Remember(p)
  <2>1. /\ UNCHANGED <<starts, rotations, made>>
        /\ to \in {"clean", "done", "remember", "off"}
    BY <1>1, <1>7 DEF WriteCert, Clean, Remember, Go, counts, Inv, TypeOK
  <2>2. QED
    BY <1>2, <2>1, CountedGoesOn DEF Inv
<1>8. QED
  BY <1>4, <1>5, <1>6, <1>7 DEF Calls

LEMMA CallsInv ==
  ASSUME Inv, NEW p \in Program, Calls(p)
  PROVE  Inv'
<1>1. Roles'
  BY CallsGo, AuthorityAssumption DEF Inv, TypeOK, Roles, Program
<1>2. \A d \in Door : at'[d] = at[d] /\ hand'[d] = hand[d] /\ ca'[d] = ca[d]
  BY CallsGo DEF Inv, TypeOK, Program
<1>3. Loaded' /\ ServedVerifies'
  BY <1>2 DEF Inv, Loaded, ServedVerifies
<1>4. QED
  BY <1>1, <1>3, CallsTypeOK, CallsCounted DEF Inv

-----------------------------------------------------------------------------
LEMMA HandlesGo ==
  ASSUME Inv, NEW d \in Program, Handles(d)
  PROVE  /\ d \in Door
         /\ UNCHANGED <<cert, key, prev, lock, made, starts, rotations, rotated>>
         /\ hand' = hand \/ \E h \in Hand : hand' = [hand EXCEPT ![d] = h]
         /\ \E to \in DoorAt : at' = [at EXCEPT ![d] = to]
<1> USE DEF Go, files, counts
<1>1. /\ hand[d] \in Hand /\ cert \in Root \cup {None} /\ Empty \in Hand
      /\ leaf.crt \in Crt \cup {None}
  BY DEF Inv, TypeOK, Hand, Empty
<1>2. d \notin Door => at[d] \in LoaderAt \cup RotatorAt
  BY DEF Inv, Roles, Program
<1>3. CASE See(d)
  BY <1>3 DEF See, DoorAt
<1>4. CASE LookAgain(d)
  BY <1>1, <1>4 DEF LookAgain, ReadCert, DoorAt, Hand
<1>5. CASE Reload(d)
  BY <1>1, <1>5 DEF Reload, Forget, DoorAt
<1>6. CASE ReadCrt(d)
  <2>1. [hand[d] EXCEPT !.crt = leaf.crt] \in Hand
    BY <1>1 DEF Hand
  <2>2. QED
    BY <1>6, <2>1 DEF ReadCrt, DoorAt
<1>7. CASE Take(d)
  BY <1>1, <1>2, <1>7 DEF Take, Forget, LoaderAt, RotatorAt, DoorAt
<1>8. CASE Refuse(d)
  BY <1>2, <1>8 DEF Refuse, LoaderAt, RotatorAt, DoorAt
<1>9. CASE MintNothing(d)
  BY <1>1, <1>2, <1>9 DEF MintNothing, Forget, LoaderAt, RotatorAt, DoorAt
<1>10. CASE Mint(d)
  <2>1. d \in Door
    BY <1>2, <1>10 DEF Mint, LoaderAt, RotatorAt
  <2>2. ca[d] \in CA
    BY <1>10, <2>1 DEF Mint, Inv, Loaded
  <2>3. minted' \in Pair
    BY <1>10, CountersOK DEF Mint, Inv
  <2>4. [hand[d] EXCEPT !.crt = [by |-> ca[d].key, pair |-> minted']] \in Hand
    BY <1>1, <2>2, <2>3 DEF Hand, CA, Crt
  <2>5. QED
    BY <1>10, <2>1, <2>4 DEF Mint, DoorAt
<1>11. CASE WriteCrt(d)
  BY <1>1, <1>2, <1>11 DEF WriteCrt, Forget, LoaderAt, RotatorAt, DoorAt
<1>12. QED
  BY <1>3, <1>4, <1>5, <1>6, <1>7, <1>8, <1>9, <1>10, <1>11 DEF Handles

LEMMA HandlesTypeOK ==
  ASSUME Inv, NEW d \in Program, Handles(d)
  PROVE  TypeOK'
<1>1. d \in Door
  BY HandlesGo
<1>2. hand[d] \in Hand /\ key \in Root \cup {None}
  BY DEF Inv, TypeOK
<1>3. /\ leaf' \in [crt : Crt \cup {None}, key : Pair \cup {None}]
      /\ ca' \in [Door -> CA \cup {None, Broken}] /\ id' \in [Door -> Root \cup {None}]
      /\ minted' \in 0 .. MaxLeafs /\ faults' \in 0 .. MaxFaults
  <2> USE DEF Inv, TypeOK
  <2>1. CASE See(d)
    BY <2>1 DEF See, files, counts
  <2>2. CASE LookAgain(d) \/ ReadCrt(d) \/ Refuse(d) \/ MintNothing(d)
    BY <2>2 DEF LookAgain, ReadCrt, Refuse, MintNothing, files, counts
  <2>3. CASE Reload(d)
    <3>1. Opened(d) \in CA \cup {None, Broken}
      BY <1>2 DEF Opened, Usable, Absent, CA, Hand
    <3>2. QED
      BY <2>3, <3>1 DEF Reload, files, counts
  <2>4. CASE Take(d)
    <3>1. ca[d] \in CA
      BY <1>1, <2>4 DEF Take, Loaded, Go
    <3>2. [ca[d] EXCEPT !.leaf = hand[d].crt] \in CA
      BY <1>2, <3>1 DEF CA, Hand
    <3>3. QED
      BY <2>4, <3>2 DEF Take, files, counts
  <2>5. CASE Mint(d)
    <3>1. minted' \in Pair /\ minted' \in 0 .. MaxLeafs
      BY <2>5, CountersOK DEF Mint
    <3>2. PICK fails \in Fails : /\ leaf' = [leaf EXCEPT !.key = IF fails THEN @ ELSE minted']
                                 /\ faults' = IF fails THEN faults + 1 ELSE faults
      BY <2>5 DEF Mint
    <3>3. faults' \in 0 .. MaxFaults
      BY <3>2, CountersOK
    <3>4. QED
      BY <2>5, <3>1, <3>2, <3>3 DEF Mint
  <2>6. CASE WriteCrt(d)
    <3>1. ca[d] \in CA
      BY <1>1, <2>6 DEF WriteCrt, Loaded, Go
    <3>2. [ca[d] EXCEPT !.leaf = hand[d].crt] \in CA
      BY <1>2, <3>1 DEF CA, Hand
    <3>3. PICK fails \in Fails : /\ leaf' = [leaf EXCEPT !.crt = IF fails THEN @ ELSE hand[d].crt]
                                 /\ faults' = IF fails THEN faults + 1 ELSE faults
      BY <2>6 DEF WriteCrt
    <3>4. faults' \in 0 .. MaxFaults
      BY <3>3, CountersOK
    <3>5. leaf' \in [crt : Crt \cup {None}, key : Pair \cup {None}]
      BY <1>2, <3>3 DEF Hand
    <3>6. QED
      BY <2>6, <3>2, <3>4, <3>5 DEF WriteCrt
  <2>7. QED
    BY <2>1, <2>2, <2>3, <2>4, <2>5, <2>6 DEF Handles
<1>4. hand' \in [Program -> Hand]
  BY HandlesGo DEF Inv, TypeOK
<1>5. at' \in [Program -> Where]
  BY HandlesGo DEF Inv, TypeOK, DoorAt, Where
<1>6. QED
  BY <1>3, <1>4, <1>5, HandlesGo DEF Inv, TypeOK

\* What a handshake leaves of the door's authority.
LEMMA HandlesLoaded ==
  ASSUME Inv, NEW d \in Program, Handles(d)
  PROVE  Loaded' /\ ServedVerifies'
<1>1. d \in Door /\ at[d] \in DoorAt
  BY HandlesGo DEF Inv, Roles
<1>2. \A e \in Door \ {d} : at'[e] = at[e] /\ hand'[e] = hand[e] /\ ca'[e] = ca[e]
  <2>1. ca' = ca \/ \E x : ca' = [ca EXCEPT ![d] = x]
    BY DEF Handles, See, LookAgain, Reload, ReadCrt, Take, Refuse, MintNothing, Mint, WriteCrt
  <2>2. QED
    BY <2>1, HandlesGo DEF Inv, TypeOK, Program
<1>3. /\ at'[d] \in {"leaf key", "mint", "write crt"} => ca'[d] \in CA /\ ca'[d] \notin {None, Broken}
      /\ at'[d] = "write crt" => hand'[d].crt.by = ca'[d].cert
      /\ ca'[d] \notin {None, Broken} /\ ca'[d].leaf # None => ca'[d].leaf.by = ca'[d].cert
  <2> USE <1>1 DEF Go, Inv, TypeOK
  <2>1. CASE See(d) \/ LookAgain(d)
    BY <2>1 DEF See, LookAgain, ServedVerifies
  <2>2. CASE Reload(d)
    <3>1. at'[d] = "off" /\ ca'[d] = Opened(d)
      BY <2>2 DEF Reload
    <3>2. ca'[d] \notin {None, Broken} => ca'[d].leaf = None
      BY <3>1 DEF Opened
    <3>3. QED
      BY <3>1, <3>2
  <2>3. CASE ReadCrt(d) \/ Refuse(d) \/ MintNothing(d)
    BY <2>3 DEF ReadCrt, Refuse, MintNothing, ServedVerifies, Loaded
  <2>4. CASE Take(d)
    <3>1. ca[d] \in CA /\ hand[d] \in Hand
      BY <2>4 DEF Take, Loaded
    <3>2. /\ ca'[d] = [ca[d] EXCEPT !.leaf = hand[d].crt] /\ at'[d] = "off"
          /\ hand[d].crt.by = ca[d].cert
      BY <2>4 DEF Take, Good
    <3>3. QED
      BY <3>1, <3>2 DEF CA
  <2>5. CASE Mint(d)
    <3>1. ca[d] \in CA /\ ca[d] \notin {None, Broken} /\ ca[d].cert = ca[d].key
      BY <2>5 DEF Mint, Loaded
    <3>2. hand'[d] = [hand[d] EXCEPT !.crt = [by |-> ca[d].key, pair |-> minted']]
      BY <2>5 DEF Mint
    <3>3. ca'[d] = ca[d] /\ hand'[d].crt.by = ca[d].key
      <4>1. hand[d] \in Hand
        OBVIOUS
      <4>2. hand'[d].crt = [by |-> ca[d].key, pair |-> minted']
        BY <3>2, <4>1 DEF Hand
      <4>3. ca' = ca
        BY <2>5 DEF Mint
      <4>4. QED
        BY <4>2, <4>3
    <3>4. QED
      BY <3>1, <3>3 DEF ServedVerifies
  <2>6. CASE WriteCrt(d)
    <3>1. ca[d] \in CA /\ hand[d].crt.by = ca[d].cert
      BY <2>6 DEF WriteCrt, Loaded
    <3>2. ca'[d] = [ca[d] EXCEPT !.leaf = hand[d].crt] /\ at'[d] = "off"
      BY <2>6 DEF WriteCrt
    <3>3. QED
      BY <3>1, <3>2 DEF CA
  <2>7. QED
    BY <2>1, <2>2, <2>3, <2>4, <2>5, <2>6 DEF Handles
<1>4. QED
  BY <1>2, <1>3 DEF Inv, Loaded, ServedVerifies

LEMMA HandlesInv ==
  ASSUME Inv, NEW d \in Program, Handles(d)
  PROVE  Inv'
<1>1. \A p \in Loader \cup Rotator : at'[p] = at[p]
  BY HandlesGo, AuthorityAssumption DEF Inv, TypeOK, Program
<1>2. Roles'
  BY <1>1, HandlesGo DEF Inv, TypeOK, Roles, Program
<1>3. Owed' = Owed
  BY <1>1 DEF Owed
<1>4. Counted'
  BY <1>3, HandlesGo DEF Inv, Counted
<1>5. QED
  BY <1>2, <1>4, HandlesTypeOK, HandlesLoaded DEF Inv

-----------------------------------------------------------------------------
LEMMA FaultInv ==
  ASSUME Inv, NEW p \in Program, Fault(p)
  PROVE  Inv'
<1>1. Empty \in Hand
  BY DEF Empty, Hand
<1>2. PICK to \in {"off", "failed"} :
        /\ at' = [at EXCEPT ![p] = to]
        /\ to = "failed" => p \in Loader
  BY DEF Fault
<1>3. TypeOK'
  <2>1. faults' \in 0 .. MaxFaults
    BY CountersOK DEF Inv, Fault
  <2>2. at' \in [Program -> Where] /\ hand' \in [Program -> Hand]
    BY <1>1, <1>2 DEF Inv, TypeOK, Fault, Forget, Where
  <2>3. ca' \in [Door -> CA \cup {None, Broken}] /\ id' \in [Door -> Root \cup {None}]
    BY DEF Inv, TypeOK, Fault
  <2>4. QED
    BY <2>1, <2>2, <2>3 DEF Inv, TypeOK, Fault
<1>4. Roles'
  <2>1. \A q \in Program \ {p} : at'[q] = at[q]
    BY <1>2 DEF Inv, TypeOK
  <2>2. at'[p] = to
    BY <1>2 DEF Inv, TypeOK
  <2>3. to = "off" \/ (to = "failed" /\ p \notin Rotator /\ p \notin Door)
    BY <1>2, AuthorityAssumption
  <2>4. QED
    BY <2>1, <2>2, <2>3 DEF Inv, Roles, LoaderAt, RotatorAt, DoorAt, Program
<1>5. Owed' \subseteq Owed
  BY <1>2 DEF Inv, TypeOK, Owed, Program
<1>6. Counted'
  BY <1>5, CountedGoesOn DEF Inv, Fault
<1>7. Loaded' /\ ServedVerifies'
  <2>1. \A d \in Door \ {p} : at'[d] = at[d] /\ hand'[d] = hand[d] /\ ca'[d] = ca[d]
    BY <1>2 DEF Inv, TypeOK, Fault, Forget, Program
  <2>2. p \in Door => at'[p] = "off" /\ ca'[p] = None
    BY <1>2, AuthorityAssumption DEF Inv, TypeOK, Fault, Program
  <2>3. QED
    BY <2>1, <2>2 DEF Inv, Loaded, ServedVerifies
<1>8. QED
  BY <1>3, <1>4, <1>6, <1>7 DEF Inv

LEMMA InitInv == Init => Inv
<1> SUFFICES ASSUME Init
             PROVE  Inv
  OBVIOUS
<1>1. Owed = {}
  BY DEF Init, Owed, Program
<1>2. Counted
  BY <1>1, FS_EmptySet DEF Init, Counted
<1>3. Empty \in Hand
  BY DEF Empty, Hand
<1>4. TypeOK
  BY <1>3, AuthorityAssumption DEF Init, TypeOK, Where
<1>5. QED
  BY <1>2, <1>4 DEF Init, Inv, Roles, Loaded, ServedVerifies, LoaderAt, RotatorAt, DoorAt, Program

LEMMA NextCases ==
  ASSUME Next
  PROVE  \E p \in Program : Calls(p) \/ Handles(p) \/ Fault(p)
BY DEF Next, Creates, Serves, Calls, Handles

LEMMA StepInv == Inv /\ [Next]_vars => Inv'
<1>1. ASSUME Inv, UNCHANGED vars
      PROVE  Inv'
  BY <1>1 DEF vars, files, counts, Inv, TypeOK, Roles, Counted, Owed, Loaded, ServedVerifies
<1>2. QED
  BY <1>1, NextCases, CallsInv, HandlesInv, FaultInv

LEMMA SpecInv == Spec => []Inv
<1>1. QED
  BY InitInv, StepInv, PTL DEF Spec

\* The state has the type the module says; in particular every root has a number.
THEOREM AuthorityTypeOKHolds == Spec => []TypeOK
<1>1. Inv => TypeOK
  BY DEF Inv
<1>2. QED
  BY <1>1, SpecInv, PTL

\* What a door serves (Leaf) verifies under the root it has loaded, whatever older
\* roots' certificates are in the folder, written late or left.
THEOREM ServedVerifiesHolds == Spec => []ServedVerifies
<1>1. Inv => ServedVerifies
  BY DEF Inv
<1>2. QED
  BY <1>1, SpecInv, PTL

-----------------------------------------------------------------------------
\* RotateCA reads previous.json before it writes it: what it has read is what is there
\* as long as nobody else rotates meanwhile.
OneRotator == \A p, q \in Rotator : p = q

Reading == {"old", "write key", "write cert", "clean", "remember"}

PrevRead == \A p \in Rotator : at[p] \in Reading => hand[p].prev = prev

PrevInv == Inv /\ PrevRead /\ RotatedRemembered

LEMMA CallsPrev ==
  ASSUME OneRotator, PrevInv, NEW p \in Program, Calls(p)
  PROVE  PrevRead' /\ RotatedRemembered'
<1>1. p \in Loader \/ p \in Rotator
  BY CallsGo DEF PrevInv
<1>2. CASE p \in Loader
  <2>1. UNCHANGED <<prev, rotated>>
    BY <1>2, AuthorityAssumption DEF PrevInv, Inv, Roles, LoaderAt, Calls, Start, Load, Lock, LoadLocked,
       Rotate, OpenToRotate, ReadOld, Remember, WriteKey, WriteCert, Clean, Go, files, counts
  <2>2. \A q \in Rotator : at'[q] = at[q] /\ hand'[q] = hand[q]
    BY <1>2, CallsGo, AuthorityAssumption DEF PrevInv, Inv, TypeOK, Program
  <2>3. QED
    BY <2>1, <2>2 DEF PrevInv, PrevRead, RotatedRemembered
<1>3. CASE p \in Rotator
  <2> USE DEF Go
  <2>1. /\ at[p] \in RotatorAt /\ hand[p] \in Hand
        /\ at \in [Program -> Where] /\ hand \in [Program -> Hand]
        /\ at[p] \in Reading => hand[p].prev = prev
        /\ rotated \subseteq prev
        /\ p \notin Loader
    BY <1>3, AuthorityAssumption DEF PrevInv, PrevRead, RotatedRemembered, Inv, TypeOK, Roles
  <2>2. SUFFICES (at'[p] \in Reading => hand'[p].prev = prev') /\ rotated' \subseteq prev'
    BY <1>3 DEF OneRotator, PrevRead, RotatedRemembered
  <2>3. CASE Rotate(p)
    BY <2>1, <2>3 DEF Rotate, files, Reading
  <2>4. CASE OpenToRotate(p)
    <3>1. hand'[p] = [hand[p] EXCEPT !.cert = None, !.old = hand[p].cert, !.prev = prev]
      BY <2>1, <2>4 DEF OpenToRotate
    <3>2. hand'[p].prev = prev
      BY <2>1, <3>1 DEF Hand
    <3>3. QED
      BY <2>1, <2>4, <3>2 DEF OpenToRotate, files, counts
  <2>5. CASE ReadOld(p)
    BY <2>1, <2>5 DEF ReadOld, files, counts, Hand, Reading
  <2>6. CASE Remember(p)
    <3>1. at'[p] = "off" /\ hand[p].prev = prev
      BY <2>1, <2>6 DEF Remember, Reading
    <3>2. /\ prev' = (prev \cup {hand[p].old}) \ {None}
          /\ rotated' = (rotated \cup {hand[p].old}) \ {None}
      BY <2>6, <3>1 DEF Remember
    <3>3. QED
      BY <2>1, <3>1, <3>2 DEF Reading
  <2>7. CASE WriteKey(p)
    BY <2>1, <2>7 DEF WriteKey, Hand, Reading
  <2>8. CASE WriteCert(p)
    BY <2>1, <2>8 DEF WriteCert, counts, Reading
  <2>9. CASE Clean(p)
    BY <2>1, <2>9 DEF Clean, Hand, counts, Reading
  <2>10. QED
    BY <2>1, <2>3, <2>4, <2>5, <2>6, <2>7, <2>8, <2>9 DEF Calls, Start, Load, Lock, LoadLocked, RotatorAt
<1>4. QED
  BY <1>1, <1>2, <1>3

LEMMA StepPrev == OneRotator /\ PrevInv /\ [Next]_vars => PrevInv'
<1> SUFFICES ASSUME OneRotator, PrevInv, [Next]_vars
             PROVE  PrevInv'
  OBVIOUS
<1>1. Inv'
  BY StepInv DEF PrevInv
<1>2. ASSUME NEW d \in Program, Handles(d)
      PROVE  PrevRead' /\ RotatedRemembered'
  <2>1. \A p \in Rotator : at'[p] = at[p] /\ hand'[p] = hand[p]
    BY <1>2, HandlesGo, AuthorityAssumption DEF PrevInv, Inv, TypeOK, Program
  <2>2. QED
    BY <1>2, <2>1, HandlesGo DEF PrevInv, PrevRead, RotatedRemembered
<1>3. ASSUME NEW p \in Program, Fault(p)
      PROVE  PrevRead' /\ RotatedRemembered'
  <2>1. \A q \in Program \ {p} : at'[q] = at[q] /\ hand'[q] = hand[q]
    BY <1>3 DEF PrevInv, Inv, TypeOK, Fault, Forget
  <2>2. at'[p] \notin Reading
    BY <1>3 DEF PrevInv, Inv, TypeOK, Fault, Reading
  <2>3. QED
    BY <1>3, <2>1, <2>2 DEF PrevInv, PrevRead, RotatedRemembered, Fault, Program
<1>4. CASE UNCHANGED vars
  BY <1>1, <1>4 DEF PrevInv, PrevRead, RotatedRemembered, vars, files, counts
<1>5. QED
  BY <1>1, <1>2, <1>3, <1>4, NextCases, CallsPrev DEF PrevInv

\* With one person rotating at a time, a root whose RotateCA has returned stays in
\* previous.json, whatever failed or died in later rotations.
THEOREM RotatedRememberedHolds ==
  ASSUME OneRotator
  PROVE  Spec => []RotatedRemembered
<1>1. Init => PrevInv
  BY InitInv DEF Init, PrevInv, PrevRead, RotatedRemembered, Reading, Program
<1>2. PrevInv /\ [Next]_vars => PrevInv'
  BY StepPrev
<1>3. PrevInv => RotatedRemembered
  BY DEF PrevInv
<1>4. QED
  BY <1>1, <1>2, <1>3, PTL DEF Spec

-----------------------------------------------------------------------------
\* Until something is rotated: who is creating has the lock, and had seen under the
\* lock that there is no root.
Creating ==
  rotations = 0 =>
    /\ \A p \in Rotator : at[p] = "off"
    /\ \A p \in Loader :
         /\ at[p] \in {"key again", "write key", "write cert"} => lock = p
         /\ at[p] = "key again" => hand[p].cert = cert
         /\ at[p] \in {"write key", "write cert"} => cert = None

CreateInv == Inv /\ Creating

LEMMA CallsCreating ==
  ASSUME CreateInv, NEW p \in Program, Calls(p)
  PROVE  /\ Creating'
         /\ rotations = 0 /\ cert # None => cert' = cert /\ key' = key
<1>1. CASE p \in Rotator
  <2>1. CASE Rotate(p)
    <3>1. rotations' # 0
      BY <2>1 DEF CreateInv, Inv, TypeOK, Rotate
    <3>2. QED
      BY <2>1, <3>1 DEF Creating, Rotate, files
  <2>2. CASE ~Rotate(p)
    <3>1. rotations # 0
      BY <1>1, <2>2, AuthorityAssumption DEF CreateInv, Creating, Calls, Start, Load, Lock, LoadLocked,
         OpenToRotate, ReadOld, Remember, WriteKey, WriteCert, Clean, Go
    <3>2. rotations' = rotations
      BY <1>1, <2>2 DEF Calls, Start, Load, Lock, LoadLocked, OpenToRotate, ReadOld, Remember,
         WriteKey, WriteCert, Clean, counts
    <3>3. QED
      BY <3>1, <3>2 DEF Creating
  <2>3. QED
    BY <2>1, <2>2
<1>2. CASE p \in Loader
  <2> USE DEF Go
  <2>1. /\ at[p] \in LoaderAt /\ p \notin Rotator /\ p # None
        /\ at \in [Program -> Where] /\ hand \in [Program -> Hand]
        /\ p \in Program
    BY <1>2, AuthorityAssumption DEF CreateInv, Inv, TypeOK, Roles, Program
  <2>2. rotations' = rotations
    BY <2>1 DEF Calls, Start, Load, Lock, LoadLocked, Rotate, OpenToRotate, ReadOld, Remember,
       WriteKey, WriteCert, Clean, counts
  <2>3. SUFFICES ASSUME rotations = 0
                 PROVE  /\ Creating'
                        /\ cert # None => cert' = cert /\ key' = key
    BY <2>2 DEF Creating
  <2>4. /\ \A q \in Rotator : at[q] = "off"
        /\ \A q \in Loader :
             /\ at[q] \in {"key again", "write key", "write cert"} => lock = q
             /\ at[q] = "key again" => hand[q].cert = cert
             /\ at[q] \in {"write key", "write cert"} => cert = None
    BY <2>3 DEF CreateInv, Creating
  <2>5. /\ \A q \in Rotator : at'[q] = "off"
        /\ \A q \in Loader \ {p} : at'[q] = at[q] /\ hand'[q] = hand[q]
    BY <1>2, <2>1, <2>4, CallsGo DEF CreateInv, Program
  <2>6. SUFFICES /\ \A q \in Loader :
                      /\ at'[q] \in {"key again", "write key", "write cert"} => lock' = q
                      /\ at'[q] = "key again" => hand'[q].cert = cert'
                      /\ at'[q] \in {"write key", "write cert"} => cert' = None
                 /\ cert # None => cert' = cert /\ key' = key
    BY <2>5 DEF Creating
  <2>7. CASE Start(p) \/ Load(p)
    <3>1. at'[p] \notin {"key again", "write key", "write cert"} /\ UNCHANGED files
      BY <2>1, <2>7 DEF Start, Load
    <3>2. QED
      BY <2>4, <2>5, <3>1 DEF files
  <2>8. CASE Lock(p)
    <3>1. at'[p] = "key again" /\ hand'[p].cert = cert /\ lock = None /\ lock' = p
          /\ UNCHANGED <<cert, key>>
      BY <2>1, <2>8 DEF Lock, ReadCert, Hand
    <3>2. \A q \in Loader : at[q] \notin {"key again", "write key", "write cert"}
      BY <2>4, <3>1, AuthorityAssumption DEF Program
    <3>3. QED
      BY <2>5, <3>1, <3>2
  <2>9. CASE LoadLocked(p)
    <3>1. /\ at[p] = "key again" /\ UNCHANGED <<cert, key>>
          /\ at'[p] = IF Usable(p) THEN "done" ELSE IF Absent(p) THEN "write key" ELSE "failed"
          /\ lock' = IF Absent(p) THEN p ELSE None
      BY <2>1, <2>9 DEF LoadLocked
    <3>2. \A q \in Loader \ {p} : at[q] \notin {"key again", "write key", "write cert"}
      BY <1>2, <2>4, <3>1
    <3>3. at'[p] = "write key" => lock' = p /\ cert = None
      BY <1>2, <2>4, <3>1 DEF Absent
    <3>4. QED
      BY <2>5, <3>1, <3>2, <3>3
  <2>10. CASE WriteKey(p)
    <3>1. /\ at[p] = "write key" /\ at'[p] = "write cert" /\ UNCHANGED <<cert, lock>>
      BY <2>1, <2>10 DEF WriteKey
    <3>2. cert = None
      BY <1>2, <2>4, <3>1
    <3>3. QED
      BY <1>2, <2>4, <2>5, <3>1, <3>2
  <2>11. CASE WriteCert(p)
    <3>1. at[p] = "write cert" /\ at'[p] = "clean" /\ UNCHANGED <<key, lock>>
      BY <2>1, <2>11 DEF WriteCert
    <3>2. \A q \in Loader \ {p} : at[q] \notin {"key again", "write key", "write cert"}
      BY <1>2, <2>4, <3>1
    <3>3. cert = None
      BY <1>2, <2>4, <3>1
    <3>4. QED
      BY <2>5, <3>1, <3>2, <3>3
  <2>12. CASE Clean(p)
    <3>1. /\ at'[p] = "done" /\ UNCHANGED <<cert, key>>
          /\ lock' = IF lock = p THEN None ELSE lock
      BY <1>2, <2>1, <2>12 DEF Clean
    <3>2. QED
      BY <2>4, <2>5, <3>1
  <2>13. QED
    BY <2>1, <2>7, <2>8, <2>9, <2>10, <2>11, <2>12 DEF Calls, Rotate, OpenToRotate, ReadOld, Remember, LoaderAt
<1>3. QED
  BY <1>1, <1>2, CallsGo DEF CreateInv

LEMMA StepCreating ==
  ASSUME CreateInv, [Next]_vars
  PROVE  /\ CreateInv'
         /\ rotations = 0 /\ cert # None => cert' = cert /\ key' = key
<1>1. Inv'
  BY StepInv DEF CreateInv
<1>2. ASSUME NEW d \in Program, Handles(d)
      PROVE  Creating' /\ cert' = cert /\ key' = key
  <2>1. \A p \in Rotator \cup Loader : at'[p] = at[p] /\ hand'[p] = hand[p]
    BY <1>2, HandlesGo, AuthorityAssumption DEF CreateInv, Inv, TypeOK, Program
  <2>2. QED
    BY <1>2, <2>1, HandlesGo DEF CreateInv, Creating
<1>3. ASSUME NEW p \in Program, Fault(p)
      PROVE  Creating' /\ cert' = cert /\ key' = key
  <2>1. \A q \in Program \ {p} : at'[q] = at[q] /\ hand'[q] = hand[q]
    BY <1>3 DEF CreateInv, Inv, TypeOK, Fault, Forget
  <2>2. at'[p] \in {"off", "failed"} /\ (p \in Rotator => at'[p] = "off")
    BY <1>3, AuthorityAssumption DEF CreateInv, Inv, TypeOK, Fault
  <2>3. UNCHANGED <<cert, key, rotations>> /\ lock' = IF lock = p THEN None ELSE lock
    BY <1>3 DEF Fault
  <2>4. QED
    BY <2>1, <2>2, <2>3 DEF CreateInv, Creating, Program
<1>4. CASE UNCHANGED vars
  BY <1>1, <1>4 DEF CreateInv, Creating, vars, files, counts
<1>5. QED
  BY <1>1, <1>2, <1>3, <1>4, NextCases, CallsCreating DEF CreateInv

\* As long as nobody has begun to rotate, programs that start together (LoadOrCreateCA)
\* never replace a root that is there, nor its key.
THEOREM NeverReplacedHolds == Spec => NeverReplaced
<1>1. Init => CreateInv
  BY InitInv DEF Init, CreateInv, Creating, Program
<1>2. CreateInv /\ [Next]_vars => CreateInv'
  BY StepCreating
<1>3. CreateInv /\ [Next]_vars => [rotations = 0 /\ cert # None => cert' = cert /\ key' = key]_vars
  BY StepCreating
<1>4. QED
  BY <1>1, <1>2, <1>3, PTL DEF Spec, NeverReplaced

=============================================================================
