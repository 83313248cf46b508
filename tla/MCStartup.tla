------------------------------ MODULE MCStartup -----------------------------
(***************************************************************************)
(* The instance of Startup that TLC checks: a process of one worker and    *)
(* one window that is started, stopped and started again.  The constants   *)
(* are given in the configuration.                                         *)
(***************************************************************************)
EXTENDS Startup
=============================================================================
