-------------------------------- MODULE Powers --------------------------------
(***************************************************************************)
(* Powers of natural numbers, by repeated multiplication.                  *)
(***************************************************************************)
EXTENDS Integers

Power(n, k) ==
  LET power[i \in Nat] == IF i = 0 THEN 1 ELSE n * power[i - 1] IN power[k]
=============================================================================
