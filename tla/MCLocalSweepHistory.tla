-------------------------- MODULE MCLocalSweepHistory --------------------------
(***************************************************************************)
(* The instances of MCLocalStorage, for LocalSweepHistory.                 *)
(***************************************************************************)
EXTENDS LocalSweepHistory, MCLocalStorage
===============================================================================
