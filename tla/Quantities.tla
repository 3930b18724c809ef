------------------------------ MODULE Quantities ------------------------------
(* Arithmetic the SQL and the services do on quantities: GREATEST, LEAST   *)
(* and SUM, here the sum of the values of a function.                      *)
EXTENDS Integers, Functions

Maximum(a, b) == IF a >= b THEN a ELSE b
Minimum(a, b) == IF a <= b THEN a ELSE b
Total(f) == FoldFunction(LAMBDA n, t : n + t, 0, f)
=============================================================================
