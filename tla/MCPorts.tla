------------------------------- MODULE MCPorts -------------------------------
(* Instances of Ports for TLC.                                              *)
EXTENDS Ports, TLC

CONSTANTS p1, p2

\* One program that has two private ports.
TwoAlone == p1 :> {11, 12}

=============================================================================
