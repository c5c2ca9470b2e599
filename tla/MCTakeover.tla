----------------------------- MODULE MCTakeover -----------------------------
(* Instances of Takeover for TLC.                                           *)
EXTENDS Takeover, TLC

CONSTANTS p1, p2, p3

=============================================================================
