--------------------------- MODULE MCChangeWatch ---------------------------
(* The screen-change watch with two wake scripts and short counts. *)
EXTENDS ChangeWatch

=============================================================================
