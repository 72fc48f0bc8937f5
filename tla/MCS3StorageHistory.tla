--------------------------- MODULE MCS3StorageHistory ---------------------------
(***************************************************************************)
(* The instances of MCS3Storage, for S3StorageHistory.                     *)
(***************************************************************************)
EXTENDS S3StorageHistory, MCS3Storage
===============================================================================
