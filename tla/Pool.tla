-------------------------------- MODULE Pool --------------------------------
(***************************************************************************)
(* The pool of addresses the registry hands out: src/pool.go.              *)
(*                                                                         *)
(* An address is its offset into the block (network.offset): third octet * *)
(* Octet + last octet.  The block's size is a parameter, so that a small   *)
(* instance can fill it; Go's values are Octet = 256, BlockThirds = 128,   *)
(* ApexBase = 2, DynamicBase = 10.                                         *)
(***************************************************************************)
EXTENDS Integers

CONSTANTS
  Octet,         \* values of one octet of an address
  BlockThirds,   \* third octets of the block
  ApexBase,      \* the first offset that is the pool's
  DynamicBase,   \* the first offset a hash may give
  Apex,          \* the machine-wide names: aws.doze, kafka.doze
  Qualified,     \* the names of a stack: db.shop.doze
  ApexOffset,    \* the fixed offset of each well-known service
  Hash           \* the FNV hash of each qualified name, modulo BlockSlots

PerThird == Octet - 2
BlockSlots == BlockThirds * PerThird
Slot == 0 .. BlockSlots - 1
Name == Apex \cup Qualified

\* Every offset of the block, and the offset 1 that stands for an address
\* outside the pool which everything shares: 127.0.0.1.
Address == 0 .. BlockThirds * Octet - 1
Shared == 1

ASSUME PoolAssumption ==
  /\ Octet \in Nat /\ Octet > 2
  /\ BlockThirds \in Nat \ {0}
  /\ ApexBase \in Nat /\ ApexBase > Shared
  /\ DynamicBase \in Nat /\ DynamicBase >= ApexBase
  /\ Apex \cap Qualified = {}
  /\ DOMAIN ApexOffset \subseteq Apex
  /\ \A x \in DOMAIN ApexOffset :
       ApexOffset[x] \in Address /\ ApexOffset[x] \in ApexBase .. DynamicBase - 1
  /\ Hash \in [Qualified -> Slot]

\* Mutant: the third octet is one too high.
SlotOffsetHigh(slot) == (slot \div PerThird + 1) * Octet + (slot % PerThird) + 1

\* slotOffset: no last octet is 0 or 255.
SlotOffset(slot) == (slot \div PerThird) * Octet + (slot % PerThird) + 1

InPool(ip) == ip \in Address /\ ip >= ApexBase

\* Every name but a well-known service's is to have one of these to itself.
Dynamic == {ip \in Address : ip >= DynamicBase}

\* The i-th address addressFor's loop tries, starting from the name's hash.
ProbeAt(start, i) == SlotOffset((start + i) % BlockSlots)

\* Whether the loop stops there: not one of the fixed addresses, not taken.
Usable(ip, taken) == ip >= DynamicBase /\ ip \notin taken

\* Where the loop stops: at most one step, none when every address is in use.
Stop(start, taken) ==
  {i \in Slot : /\ Usable(ProbeAt(start, i), taken)
                /\ \A j \in Slot : j < i => ~Usable(ProbeAt(start, j), taken)}

\* addressFor: the address it returns, the empty set when it returns an error.
\* The fixed address of an apex name is returned taken or not.
AddressFor(n, taken) ==
  IF n \in Apex THEN {ApexOffset[x] : x \in {n} \cap DOMAIN ApexOffset}
                ELSE {ProbeAt(Hash[n], i) : i \in Stop(Hash[n], taken)}

=============================================================================
