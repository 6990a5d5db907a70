------------------------------- MODULE MCBanker -------------------------------
(* An instance of Banker for TLC: three customers and two resources. *)
EXTENDS Banker

Vector(x, y) == [j \in 0 .. 1 |-> IF j = 0 THEN x ELSE y]

(* Enough for everybody at once, scarce, and too little for some demands. *)
SmallSupplies == {Vector(3, 2), Vector(2, 2), Vector(1, 2)}
SmallDemands  == {Vector(2, 1), Vector(1, 2), Vector(0, 1)}
=============================================================================
