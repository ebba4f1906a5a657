---------------------------- MODULE MCPublication ----------------------------
(* Small instances of Publication: two runs of one target, a clean batch and *)
(* one that fails a critical check.                                          *)
EXTENDS Publication

CONSTANTS r1, r2, t, good, bad, c1, c2

MCTargetOf == [r \in Runs |-> t]
MCFails == [b \in Batches |-> IF b = bad THEN {c1} ELSE {}]
=============================================================================
