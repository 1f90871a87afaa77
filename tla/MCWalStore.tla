----------------------------- MODULE MCWalStore -----------------------------
(***************************************************************************)
(* Instances of WalStore for TLC.                                          *)
(***************************************************************************)
EXTENDS WalStore

\* Keys are only compared.
Symmetry == Permutations(Keys)

=============================================================================
