------------------------------ MODULE PoolLoop ------------------------------
(***************************************************************************)
(* addressFor's loop (src/pool.go), one step per probe, against the        *)
(* operator AddressFor of module Pool that the registry's specification    *)
(* uses for the whole loop.                                                *)
(***************************************************************************)
EXTENDS Pool, FiniteSets

CONSTANT NoAddress  \* the loop is still running, or has returned an error

VARIABLES
  name,   \* the qualified name that asks
  taken,  \* the addresses of the other live names
  i,      \* probes made
  ip      \* what the loop has returned

vars == <<name, taken, i, ip>>

\* The addresses a slot can be at.
Host == {SlotOffset(s) : s \in Slot}

Init ==
  /\ name \in Qualified /\ taken \in SUBSET Host
  /\ i = 0 /\ ip = NoAddress

\* Mutant: the last slot is never tried.
RunningShort == ip = NoAddress /\ i < BlockSlots - 1

Running == ip = NoAddress /\ i < BlockSlots

\* The address the next turn tries, and the turn that returns it if "give" holds.
Off == SlotOffset((Hash[name] + i) % BlockSlots)

Turn(give, next) ==
  /\ Running
  /\ ip' = IF give THEN Off ELSE NoAddress
  /\ i' = IF give THEN i ELSE next
  /\ UNCHANGED <<name, taken>>

\* Mutants: the fixed addresses are given too; the first dynamic one is not.
ProbeFixed == Turn(Off \notin taken, i + 1)
ProbeAbove == Turn(Off > DynamicBase /\ Off \notin taken, i + 1)

\* One turn of the loop: return the address, or go on to the next.
Probe == Turn(Off >= DynamicBase /\ Off \notin taken, i + 1)

Spec == Init /\ [][Probe]_vars

-----------------------------------------------------------------------------
\* The loop returns what AddressFor says, and an error when that is empty.
LoopIsAddressFor ==
  ~Running => AddressFor(name, taken) = {ip} \ {NoAddress}

\* The loop gives up only when every address it may give is another name's.
GivesUpOnlyWhenFull ==
  ~Running /\ ip = NoAddress => {off \in Host : off >= DynamicBase} \subseteq taken

\* No last octet is 0 or 255, and none of the fixed addresses is handed out.
HandsOutHosts ==
  ip # NoAddress => /\ ip % Octet \in 1 .. Octet - 2
                    /\ InPool(ip) /\ ip \notin {ApexOffset[x] : x \in DOMAIN ApexOffset}

=============================================================================
