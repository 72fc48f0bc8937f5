----------------------------- MODULE MCDiskReserve -----------------------------
(***************************************************************************)
(* Small instances of DiskReserve.                                         *)
(***************************************************************************)
EXTENDS DiskReserve, TLC

UploadSymmetry == Permutations(Uploads)
===============================================================================
