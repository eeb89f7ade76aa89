--------------------------- MODULE MCBloomExchange ---------------------------
(***************************************************************************)
(* A child and its parent with three more neighbours, filters of seven bits *)
(* for two tuples and sizes of 16 values, so that filters of both tables   *)
(* may be too long for their size and tuples may collide.                  *)
(***************************************************************************)
EXTENDS BloomExchange

Data == [a \in Addresses |-> IF a \in {1, 4} THEN "low" ELSE "high"]

Packets ==
  [a \in Addresses |->
     [evaluator |-> a,
      votes |-> [i \in 1..(a % 3) |-> <<i, IF i = 1 THEN "Negative" ELSE "Positive">>],
      signature |-> [i \in 1..(a % 4) |-> a]]]

Hash(k, t) ==
  3 * k * t.one + (k * k + 1) * t.other + 5 * k * (IF t.infoOne = "low" THEN 1 ELSE 2)
  + (IF t.infoOther = "low" THEN 0 ELSE 11 * k)

SevenForTwo(n) == Ceil(7 * n, 2)
=============================================================================
