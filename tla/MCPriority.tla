------------------------------ MODULE MCPriority ------------------------------
(* An instance of Priority for TLC.                                        *)
EXTENDS Priority, TLC

CONSTANTS q1, q2, q3, q4, o1, o2

MCOriginOf == (q1 :> o1) @@ (q2 :> o1) @@ (q3 :> o1) @@ (q4 :> o2)

=============================================================================
