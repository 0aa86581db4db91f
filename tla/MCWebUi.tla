------------------------------ MODULE MCWebUi ------------------------------
(***************************************************************************)
(* A small instance of WebUi.                                              *)
(***************************************************************************)
EXTENDS WebUi, TLC

CONSTANTS t1, t2
=============================================================================
