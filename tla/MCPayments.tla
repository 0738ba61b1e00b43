----------------------------- MODULE MCPayments -----------------------------
(***************************************************************************)
(* Payments for TLC: which provider a payment goes through is fixed when   *)
(* its row is created, so that one payment stands for both kinds.          *)
(***************************************************************************)
EXTENDS Payments

EitherKind == {"manual", "online"}
OnlineOnly == {"online"}
=============================================================================
