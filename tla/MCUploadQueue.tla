--------------------------- MODULE MCUploadQueue ---------------------------
(* Two large files for two slots, in one batch or in two: one has to wait   *)
(* for the other while a slot is free, through two losses of the network.   *)
EXTENDS UploadQueue

MCTwoLarge == {1, 2}
=============================================================================
