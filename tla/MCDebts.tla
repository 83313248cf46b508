------------------------------- MODULE MCDebts ------------------------------
(***************************************************************************)
(* The instance of Debts that TLC checks.  The constants are given in the  *)
(* configurations.                                                         *)
(***************************************************************************)
EXTENDS Debts
=============================================================================
