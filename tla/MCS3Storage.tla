------------------------------ MODULE MCS3Storage ------------------------------
(***************************************************************************)
(* Small instances of S3Storage: one file "a" whose multipart uploads have *)
(* two parts or more.                                                      *)
(***************************************************************************)
EXTENDS S3Storage, TLC

MCFiles == {"a"}
TwoFiles == {"a", "b"}

Save(sizes, overwrites) ==
    [op : {"save"}, file : MCFiles, overwrite : overwrites, size : sizes]
Do(ops) == [op : ops, file : MCFiles, overwrite : {FALSE}, size : {0}]

EveryCall      == Save({1, 2, 3}, BOOLEAN) \union Do({"read", "meta", "download", "delete"})
SmallWrites    == Save({1, 2}, BOOLEAN)
BigOverwrites  == Save({2}, {TRUE})

RequestSymmetry == Permutations(Requests)
===============================================================================
