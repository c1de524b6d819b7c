-------------------------- MODULE MCSubVaultLedger --------------------------
(* Small instances of SubVaultLedger.  Depositors are interchangeable.     *)
EXTENDS SubVaultLedger, TLC

DepositorSymmetry == Permutations(Depositors)

=============================================================================
