--------------------------- MODULE MCCreditWallet ---------------------------
(* Small instances of CreditWallet for TLC. *)
EXTENDS CreditWallet, TLC

MCAdjustments == {-1, 1}

SessionSymmetry == Permutations(Sessions)
=============================================================================
