--------------------------- MODULE PoolLoopProofs ---------------------------
(***************************************************************************)
(* Theorems about module PoolLoop, for every block, every set of names and *)
(* their hashes, and every set of addresses in use.                        *)
(***************************************************************************)
EXTENDS PoolLoop, TLAPS

-----------------------------------------------------------------------------
(* The arithmetic of the block.                                              *)

\* Division with a remainder is unique.
LEMMA Remainder ==
  ASSUME NEW d \in Nat, d > 0, NEW q \in Int, NEW r \in 0 .. d - 1
  PROVE  (q * d + r) % d = r
<1> DEFINE a == q * d + r
           b == a \div d
           s == a % d
<1>1. a \in Int /\ b \in Int /\ s \in 0 .. d - 1 /\ a = d * b + s
  BY SMT
<1> HIDE DEF b, s
<1>2. d * (q - b) = s - r
  BY <1>1, SMT
<1>3. CASE q - b >= 1
  <2>1. d * (q - b) >= d
    BY <1>1, <1>3, SMT
  <2>2. QED
    BY <1>1, <1>2, <2>1, SMT
<1>4. CASE q - b =< -1
  <2>1. d * (q - b) =< -d
    BY <1>1, <1>4, SMT
  <2>2. QED
    BY <1>1, <1>2, <2>1, SMT
<1>5. CASE q = b
  <2>1. s = r
    BY <1>1, <1>2, <1>5, SMT
  <2>2. QED
    BY <2>1 DEF s
<1>6. QED
  BY <1>1, <1>3, <1>4, <1>5, SMT

LEMMA Block ==
  /\ PerThird \in Nat /\ PerThird > 0 /\ Octet = PerThird + 2
  /\ BlockThirds \in Nat /\ BlockThirds > 0
  /\ BlockSlots \in Nat /\ BlockSlots > 0 /\ Slot = 0 .. BlockSlots - 1
<1>1. PerThird \in Nat /\ PerThird > 0 /\ Octet = PerThird + 2
  BY PoolAssumption DEF PerThird
<1>2. BlockThirds \in Nat /\ BlockThirds > 0
  BY PoolAssumption
<1>3. BlockSlots \in Nat /\ BlockSlots > 0
  BY <1>1, <1>2, SMT DEF BlockSlots
<1>4. QED
  BY <1>1, <1>2, <1>3 DEF Slot

\* slotOffset gives an address of the block, whose last octet is neither 0 nor the
\* highest.
LEMMA SlotIsHost ==
  ASSUME NEW slot \in Slot
  PROVE  SlotOffset(slot) \in Address /\ SlotOffset(slot) % Octet \in 1 .. Octet - 2
<1> DEFINE q == slot \div PerThird
           r == slot % PerThird
<1>1. slot \in Nat /\ slot < BlockThirds * PerThird
  BY Block DEF Slot, BlockSlots
<1>2. q \in Nat /\ r \in 0 .. PerThird - 1 /\ slot = PerThird * q + r
  BY <1>1, Block
<1>3. SlotOffset(slot) = q * Octet + (r + 1)
  BY <1>2, Block DEF SlotOffset
<1> HIDE DEF q, r
<1>4. q < BlockThirds
  <2>1. CASE q >= BlockThirds
    <3>1. PerThird * q >= PerThird * BlockThirds
      BY <1>2, <2>1, Block
    <3>2. QED
      BY <3>1, <1>1, <1>2, Block
  <2>2. QED
    BY <2>1, <1>2, Block
<1>5. q * Octet + Octet =< BlockThirds * Octet
  <2>1. (q + 1) * Octet =< BlockThirds * Octet
    BY <1>2, <1>4, Block
  <2>2. QED
    BY <2>1, <1>2, Block
<1>6. SlotOffset(slot) \in Address
  BY <1>2, <1>3, <1>5, Block DEF Address
<1>7. SlotOffset(slot) % Octet = r + 1
  <2>1. r + 1 \in 0 .. Octet - 1 /\ q \in Int /\ Octet \in Nat /\ Octet > 0
    BY <1>2, Block
  <2>2. QED
    BY <1>3, <2>1, Remainder
<1>8. QED
  BY <1>2, <1>6, <1>7, Block

\* Each turn tries an address of a slot.
LEMMA ProbeIsHost ==
  ASSUME NEW start \in Slot, NEW j \in Nat
  PROVE  (start + j) % BlockSlots \in Slot /\ ProbeAt(start, j) \in Host
<1>1. (start + j) % BlockSlots \in Slot
  BY Block
<1>2. QED
  BY <1>1 DEF ProbeAt, Host

\* From wherever the loop starts, it gets to every slot.
LEMMA EverySlotIsTried ==
  ASSUME NEW start \in Slot, NEW slot \in Slot
  PROVE  \E j \in Slot : (start + j) % BlockSlots = slot
<1>1. CASE slot >= start
  <2>1. slot - start \in Slot /\ start + (slot - start) = 0 * BlockSlots + slot
    BY <1>1, Block
  <2>2. (0 * BlockSlots + slot) % BlockSlots = slot
    BY Block, Remainder
  <2>3. QED
    BY <2>1, <2>2
<1>2. CASE slot < start
  <2>1. BlockSlots + slot - start \in Slot
        /\ start + (BlockSlots + slot - start) = 1 * BlockSlots + slot
    BY <1>2, Block
  <2>2. (1 * BlockSlots + slot) % BlockSlots = slot
    BY Block, Remainder
  <2>3. QED
    BY <2>1, <2>2
<1>3. QED
  BY <1>1, <1>2, Block

-----------------------------------------------------------------------------
\* No turn before this one found an address it could return; what the loop has returned
\* is what this one tried.
Inv ==
  /\ name \in Qualified /\ taken \subseteq Host /\ i \in 0 .. BlockSlots
  /\ \A j \in Slot : j < i => ~Usable(ProbeAt(Hash[name], j), taken)
  /\ ip # NoAddress => /\ i \in Slot /\ ip = ProbeAt(Hash[name], i)
                       /\ Usable(ip, taken)

LEMMA InitInv == Init => Inv
BY Block DEF Init, Inv

LEMMA StepInv == Inv /\ [Probe]_vars => Inv'
<1> SUFFICES ASSUME Inv, Probe
             PROVE  Inv'
  BY DEF Inv, vars
<1>1. Hash[name] \in Slot /\ i \in Slot /\ ip = NoAddress
  BY Block, PoolAssumption DEF Inv, Probe, Turn, Running
<1>2. Off = ProbeAt(Hash[name], i)
  BY DEF Off, ProbeAt
<1>3. Off >= DynamicBase /\ Off \notin taken <=> Usable(Off, taken)
  BY DEF Usable
<1>4. CASE Usable(Off, taken)
  <2>1. ip' = Off /\ i' = i /\ UNCHANGED <<name, taken>>
    BY <1>3, <1>4 DEF Probe, Turn
  <2>2. QED
    BY <1>1, <1>2, <1>4, <2>1 DEF Inv
<1>5. CASE ~Usable(Off, taken)
  <2>1. ip' = NoAddress /\ i' = i + 1 /\ UNCHANGED <<name, taken>>
    BY <1>3, <1>5 DEF Probe, Turn
  <2>2. i' \in 0 .. BlockSlots
    BY <1>1, <2>1, Block
  <2>3. \A j \in Slot : j < i' => ~Usable(ProbeAt(Hash[name], j), taken)
    <3>1. \A j \in Slot : j < i' => j < i \/ j = i
      BY <1>1, <2>1, Block
    <3>2. QED
      BY <1>2, <1>5, <3>1 DEF Inv
  <2>4. QED
    BY <2>1, <2>2, <2>3 DEF Inv
<1>6. QED
  BY <1>4, <1>5

LEMMA SpecInv == Spec => []Inv
<1>1. QED
  BY InitInv, StepInv, PTL DEF Spec

-----------------------------------------------------------------------------
\* The loop of addressFor returns what the operator says that the registry's
\* specification uses for the whole of it, and an error when that is nothing.
THEOREM LoopIsAddressForHolds == Spec => []LoopIsAddressFor
<1>1. ASSUME Inv, ~Running
      PROVE  AddressFor(name, taken) = {ip} \ {NoAddress}
  <2> DEFINE h == Hash[name]
  <2>1. h \in Slot /\ name \notin Apex
    BY <1>1, PoolAssumption DEF Inv
  <2>2. AddressFor(name, taken) = {ProbeAt(h, j) : j \in Stop(h, taken)}
    BY <2>1 DEF AddressFor
  <2>3. CASE ip = NoAddress
    <3>1. i = BlockSlots
      BY <1>1, <2>3, Block DEF Running, Inv
    <3>2. \A j \in Slot : j < i
      BY <3>1, Block
    <3>3. Stop(h, taken) = {}
      BY <1>1, <3>2 DEF Inv, Stop
    <3>4. QED
      BY <2>2, <2>3, <3>3
  <2>4. CASE ip # NoAddress
    <3>1. i \in Slot /\ ip = ProbeAt(h, i) /\ Usable(ProbeAt(h, i), taken)
      BY <1>1, <2>4 DEF Inv
    <3>2. i \in Stop(h, taken)
      BY <1>1, <3>1 DEF Inv, Stop
    <3>3. ASSUME NEW j \in Stop(h, taken)
          PROVE  j = i
      <4>1. j \in Slot /\ Usable(ProbeAt(h, j), taken) /\ ~(i < j)
        BY <3>1, <3>3 DEF Stop
      <4>2. ~(j < i)
        BY <1>1, <4>1 DEF Inv
      <4>3. QED
        BY <3>1, <4>1, <4>2, Block
    <3>4. Stop(h, taken) = {i}
      BY <3>2, <3>3
    <3>5. QED
      BY <2>2, <2>4, <3>1, <3>4
  <2>5. QED
    BY <2>3, <2>4
<1>2. Inv => LoopIsAddressFor
  BY <1>1 DEF LoopIsAddressFor
<1>3. QED
  BY <1>2, SpecInv, PTL

\* addressFor gives up only when every address that a hash may give is another name's:
\* from wherever it starts, its turns cover the block.
THEOREM GivesUpOnlyWhenFullHolds == Spec => []GivesUpOnlyWhenFull
<1>1. ASSUME Inv, ~Running, ip = NoAddress, NEW off \in Host, off >= DynamicBase
      PROVE  off \in taken
  <2> DEFINE h == Hash[name]
  <2>1. h \in Slot
    BY <1>1, PoolAssumption DEF Inv
  <2>2. PICK slot \in Slot : off = SlotOffset(slot)
    BY DEF Host
  <2>3. PICK j \in Slot : (h + j) % BlockSlots = slot
    BY <2>1, EverySlotIsTried
  <2>4. off = ProbeAt(h, j)
    BY <2>2, <2>3 DEF ProbeAt
  <2>5. j < i
    BY <1>1, Block DEF Running, Inv
  <2>6. ~Usable(off, taken)
    BY <1>1, <2>4, <2>5 DEF Inv
  <2>7. QED
    BY <1>1, <2>6 DEF Usable
<1>2. Inv => GivesUpOnlyWhenFull
  BY <1>1 DEF GivesUpOnlyWhenFull
<1>3. QED
  BY <1>2, SpecInv, PTL

\* What addressFor hands out has no last octet of 0 or 255, and is not the fixed
\* address of a well-known service.
THEOREM HandsOutHostsHolds == Spec => []HandsOutHosts
<1>1. ASSUME Inv, ip # NoAddress
      PROVE  /\ ip % Octet \in 1 .. Octet - 2
             /\ InPool(ip) /\ ip \notin {ApexOffset[x] : x \in DOMAIN ApexOffset}
  <2>1. Hash[name] \in Slot /\ i \in Nat
    BY <1>1, Block, PoolAssumption DEF Inv
  <2>2. PICK slot \in Slot : ip = SlotOffset(slot)
    BY <1>1, <2>1, ProbeIsHost DEF Inv, Host
  <2>3. ip \in Address /\ ip % Octet \in 1 .. Octet - 2
    BY <2>2, SlotIsHost
  <2>4. ip >= DynamicBase
    BY <1>1 DEF Inv, Usable
  <2>5. InPool(ip)
    BY <2>3, <2>4, PoolAssumption DEF InPool, Address
  <2>6. \A x \in DOMAIN ApexOffset : ApexOffset[x] # ip
    BY <2>3, <2>4, PoolAssumption DEF Address
  <2>7. QED
    BY <2>3, <2>5, <2>6
<1>2. Inv => HandsOutHosts
  BY <1>1 DEF HandsOutHosts
<1>3. QED
  BY <1>2, SpecInv, PTL

=============================================================================
