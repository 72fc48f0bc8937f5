------------------------- MODULE MCLocalStorageHistory -------------------------
(***************************************************************************)
(* The instances of MCLocalStorage, for LocalStorageHistory.               *)
(***************************************************************************)
EXTENDS LocalStorageHistory, MCLocalStorage
===============================================================================
