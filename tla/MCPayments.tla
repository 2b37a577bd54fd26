----------------------------- MODULE MCPayments -------------------------------
(***************************************************************************)
(* One checkout event that pays the whole invoice, while another client    *)
(* may pay half of it and the owner locks and opens the day of the charge. *)
(***************************************************************************)
EXTENDS Payments, TLC

CONSTANTS e1

MCAmount == e1 :> 2

MCDate == e1 :> 1
=============================================================================
