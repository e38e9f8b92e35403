------------------------- MODULE MCOrderProjection -------------------------
(* One order, alone and with the command that closes its row watched.      *)
EXTENDS OrderClosing
=============================================================================
