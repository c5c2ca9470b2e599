-------------------------------- MODULE Zone --------------------------------
(***************************************************************************)
(* What the registry promises the programs that share a zone, with no      *)
(* file, no lock and no dead entries: a table of the running programs'     *)
(* names, in which a program changes its own names only, one at a time,    *)
(* each change at once, and from which a program's names vanish at the     *)
(* instant it ends.  Registry implements this (property ImplementsZone).   *)
(***************************************************************************)
CONSTANTS Pid, Name, Address, Dynamic, Target, None

VARIABLES
  running,  \* the programs that run
  zone      \* who has each name, where it resolves to, where it is routed

vars == <<running, zone>>

Init == running = {} /\ zone = [n \in Name |-> None]

Has(p, n) == zone[n] # None /\ zone[n].pid = p

\* A name that is free, or the program's own, at an address that is not
\* another program's; the route of a name granted again stays.
Grant(p, n, ip) ==
  /\ p \in running
  /\ zone[n] # None => Has(p, n)
  /\ ip \in Dynamic => \A m \in Name \ {n} : zone[m] # None /\ zone[m].ip = ip => Has(p, m)
  /\ zone' = [zone EXCEPT ![n] =
       [pid |-> p, ip |-> ip, target |-> IF Has(p, n) THEN zone[n].target ELSE None]]
  /\ UNCHANGED running

Publish(p, n, t) ==
  /\ p \in running /\ Has(p, n)
  /\ zone' = [zone EXCEPT ![n].target = t]
  /\ UNCHANGED running

Yield(p, n) ==
  /\ p \in running /\ Has(p, n)
  /\ zone' = [zone EXCEPT ![n] = None]
  /\ UNCHANGED running

Arrive(p) ==
  /\ p \notin running
  /\ running' = running \cup {p}
  /\ UNCHANGED zone

Depart(p) ==
  /\ p \in running
  /\ running' = running \ {p}
  /\ zone' = [n \in Name |-> IF Has(p, n) THEN None ELSE zone[n]]

Next ==
  \E p \in Pid :
    \/ Arrive(p)
    \/ Depart(p)
    \/ \E n \in Name :
         \/ Yield(p, n)
         \/ \E ip \in Address : Grant(p, n, ip)
         \/ \E t \in Target : Publish(p, n, t)

Spec == Init /\ [][Next]_vars

=============================================================================
