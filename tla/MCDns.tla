-------------------------------- MODULE MCDns --------------------------------
(* An instance of Dns for TLC.                                             *)
EXTENDS Dns

CONSTANTS q1, q2, a1, a2

=============================================================================
