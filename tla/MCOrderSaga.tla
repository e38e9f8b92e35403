---------------------------- MODULE MCOrderSaga ----------------------------
(***************************************************************************)
(* The saga of one order on a pool of workers.  The workers and shipments  *)
(* are interchangeable, but TLC's symmetry reduction is not sound for the  *)
(* liveness property of the run, so it declares none.                      *)
(***************************************************************************)
EXTENDS OrderSaga, TLC
=============================================================================
