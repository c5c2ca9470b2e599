----------------------------- MODULE MCTableCache -----------------------------
(* Instances of TableCache for TLC.                                           *)
EXTENDS TableCache, TLC

CONSTANTS p1, p2

\* One program that listens, and one with a front door.
OneListens == p1 :> {11} @@ p2 :> {}

=============================================================================
