------------------------- MODULE MCContractTransfer -------------------------
(* ContractTransfer for TLC.                                               *)
EXTENDS ContractTransfer

CONSTANTS w1, w2

(* One for the row, one for each worker that has held it, and a fresh one. *)
MCTokens == {"t1", "t2", "t3"}

=============================================================================
