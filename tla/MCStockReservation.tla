------------------------ MODULE MCStockReservation ------------------------
(* Two products and two orders.  One order wants two units of a product    *)
(* that has one, and one of a product that has none, until the stock API   *)
(* adds some; the other order competes for the last unit.                  *)
EXTENDS StockReservation, TLC

CONSTANTS p1, p2, o1, o2

MCWanted == (o1 :> ((p1 :> 2) @@ (p2 :> 1))) @@ (o2 :> ((p1 :> 1) @@ (p2 :> 0)))

MCSupplied == (p1 :> 1) @@ (p2 :> 0)

MCOneWanted == o1 :> (p1 :> 2)

MCOneSupplied == p1 :> 2

Symmetry == Permutations(Workers)
=============================================================================
