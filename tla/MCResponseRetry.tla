--------------------------- MODULE MCResponseRetry ---------------------------
(* Instances of ResponseRetry for TLC.                                     *)
EXTENDS ResponseRetry, TLC

CONSTANTS r1, r2, r3

MCReps == {r1, r2, r3}

(* r1 has three units; r2 and the empty r3 may replace it between attempts.*)
MCLength == (r1 :> 3) @@ (r2 :> 1) @@ (r3 :> 0)

=============================================================================
