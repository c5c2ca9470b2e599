------------------------------- MODULE MCSetup -------------------------------
(* Instances of Setup for TLC.                                                *)
EXTENDS Setup

Files == {<<>>, <<"localhost">>, <<"localhost", Nl>>}
WithDirective == {<<"localhost", Nl, "fe80::1%lo0", Nl>>}

=============================================================================
