------------------------------ MODULE MCApiManager ------------------------------
(* An instance of ApiManager for TLC.                                      *)
EXTENDS ApiManager
=============================================================================
