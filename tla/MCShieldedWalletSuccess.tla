----------------------- MODULE MCShieldedWalletSuccess -----------------------
(***************************************************************************)
(* The shielded wallet alone, with three notes of three: what a report of  *)
(* success says of the payment it is given for.                            *)
(***************************************************************************)
EXTENDS ShieldedWallet

MCHoldings == <<3, 3, 3>>
=============================================================================
