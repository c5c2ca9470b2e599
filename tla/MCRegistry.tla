----------------------------- MODULE MCRegistry -----------------------------
(* Instances of Registry for TLC: a block of four addresses, 1, 2, 5 and 6, *)
(* of which 2 is the well-known service's and 5 and 6 are given by hash.    *)
EXTENDS Registry, TLC

CONSTANTS p1, p2, p3, aws, db, web

SmallApexOffset == aws :> 2

\* Both names hash to one slot; the probe has to wrap round for the third.
Collide == [n \in Qualified |-> 3]

SameVersion == [p \in Pid |-> 2]
OneEach == [p \in Pid |-> p]
TwoShare == [p \in Pid |-> IF p = p3 THEN p2 ELSE p]
WithNewer == [p \in Pid |-> IF p = p1 THEN 3 ELSE 2]

Programs == Permutations(Pid)

=============================================================================
