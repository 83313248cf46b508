------------------------------ MODULE MCLedger ------------------------------
(***************************************************************************)
(* The instance of Ledger that TLC checks.  The constants are given in the *)
(* configurations.                                                         *)
(***************************************************************************)
EXTENDS Ledger
=============================================================================
