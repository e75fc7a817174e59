--------------------------- MODULE MCPcbleRecovery ---------------------------
(***************************************************************************)
(* PcbleRecovery on small instances; helper processes are interchangeable. *)
(***************************************************************************)
EXTENDS PcbleRecovery, TLC

SlotSymmetry == Permutations(Slots)

=============================================================================
