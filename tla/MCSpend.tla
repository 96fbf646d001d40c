------------------------------ MODULE MCSpend ------------------------------
(***************************************************************************)
(* Two workers on one file, a month that turns once, two failures and one  *)
(* restart.  Charges of one and two units against a budget of two, so that *)
(* a budget is overshot, enough of them for both workers to do so, or for  *)
(* one of them to do so again after its restart.                           *)
(***************************************************************************)
EXTENDS Spend, TLC

Symmetry == Permutations(Workers)
=============================================================================
