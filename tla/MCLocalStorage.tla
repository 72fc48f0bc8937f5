---------------------------- MODULE MCLocalStorage ----------------------------
(***************************************************************************)
(* Small instances of LocalStorage: one file "a" and its v1.0.0 name.      *)
(* The requests are model values; runs that check no liveness use their    *)
(* symmetry.                                                               *)
(***************************************************************************)
EXTENDS LocalStorage, TLC

MCFiles      == {"a"}
MCHashedName == [f \in MCFiles |-> "a.v1"]

OneSlot    == {"a"}
LegacySlot == {"a.v1"}
AllSlots   == {"a", "a.v1"}

Save(sizes, overwrites) ==
    [op : {"save"}, file : MCFiles, overwrite : overwrites, size : sizes]
Do(ops) == [op : ops, file : MCFiles, overwrite : {FALSE}, size : {0}]

\* An upload over the limit never comes to the commit, where overwrite matters most:
\* one kind of it is enough.
EveryCall ==
    Save({1}, BOOLEAN) \union Save({2}, {TRUE})
        \union Do({"read", "meta", "download", "delete"})
EmptyOverwrites == Save({0}, {TRUE})
Overwrites      == Save({1}, {TRUE})
OverwriteRead   == Save({1}, {TRUE}) \union Do({"read"})

RequestSymmetry == Permutations(Requests)
===============================================================================
