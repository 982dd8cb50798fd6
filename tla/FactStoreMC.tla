---------------------------- MODULE FactStoreMC ----------------------------
(* The instance of FactStore that TLC checks.                              *)
EXTENDS FactStore
=============================================================================
