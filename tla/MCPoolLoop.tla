----------------------------- MODULE MCPoolLoop -----------------------------
(* Six slots, at 1, 2, 3, 6, 7 and 8.  Names are numbers: 0 to 5 hash to    *)
(* the slot of that number, 6 is a well-known service.                      *)
EXTENDS PoolLoop, TLC

SmallApexOffset == 6 :> 2
EverySlot == [n \in Qualified |-> n]

=============================================================================
