---------------------------- MODULE MCAuthority ----------------------------
(* Instances of Authority for TLC.                                         *)
EXTENDS Authority

CONSTANTS d1, d2, r, door

=============================================================================
