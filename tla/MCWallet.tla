------------------------------ MODULE MCWallet ------------------------------
(***************************************************************************)
(* Small instances of Wallet.                                               *)
(***************************************************************************)
EXTENDS Wallet

\* A correction either way, and the zero every kind refuses.
Corrections == {-1, 0, 1}
=============================================================================
