------------------------------ MODULE DiskReserve ------------------------------
(***************************************************************************)
(* The free space of the local disk under concurrent uploads: before every *)
(* chunk LocalStorageBackend asks the operating system how much is free    *)
(* and only then, after an await, writes the chunk.  The uploads of a      *)
(* process check and write in any order.                                   *)
(*                                                                         *)
(* Space is counted in chunks of the upload loop.  Other users of the disk *)
(* are not modelled.                                                       *)
(***************************************************************************)
EXTENDS Integers, FiniteSets

CONSTANTS
    Uploads,        \* uploads that may run, concurrently or one after another
    Sizes,          \* sizes clients upload
    DiskSize,       \* free space at the start is at most this
    Reserve         \* MIN_FREE_DISK_SPACE_MB, in chunks; 0 switches the check off

ASSUME DiskAssumption ==
    /\ IsFiniteSet(Uploads)
    /\ Uploads # {}
    /\ Sizes \subseteq Nat
    /\ DiskSize \in Nat
    /\ Reserve \in Nat

VARIABLES
    free,           \* what disk_usage reports
    size,           \* size[u]: what the client sends
    taken,          \* taken[u]: the space the file of u takes
    pc              \* pc[u]: what upload u does next, or how it ended

vars == <<free, size, taken, pc>>

Labels == {"check", "write", "discard", "stored", "refused", "orphan", "removed"}

TypeOK ==
    /\ free \in 0..DiskSize
    /\ size \in [Uploads -> Sizes]
    /\ taken \in [Uploads -> Nat]
    /\ pc \in [Uploads -> Labels]

Init ==
    /\ free \in Reserve..DiskSize
    /\ size \in [Uploads -> Sizes]
    /\ taken = [u \in Uploads |-> 0]
    /\ pc = [u \in Uploads |-> "check"]

Goto(u, label) == pc' = [pc EXCEPT ![u] = label]

HasCapacityNow == Reserve <= 0 \/ ~(free < Reserve)    \* mutant: forgets the chunk

\* _ensure_storage_capacity for one more chunk.
HasCapacity == Reserve <= 0 \/ ~(free - 1 < Reserve)

CheckPasses(u) ==
    /\ pc[u] = "check"
    /\ taken[u] < size[u]
    /\ HasCapacity
    /\ Goto(u, "write")
    /\ UNCHANGED <<free, size, taken>>

\* InsufficientStorageError: the upload unwinds.
CheckFails(u) ==
    /\ pc[u] = "check"
    /\ taken[u] < size[u]
    /\ ~HasCapacity
    /\ Goto(u, "discard")
    /\ UNCHANGED <<free, size, taken>>

Write(u) ==
    /\ pc[u] = "write"
    /\ free > 0
    /\ free' = free - 1
    /\ taken' = [taken EXCEPT ![u] = @ + 1]
    /\ Goto(u, "check")
    /\ UNCHANGED size

\* ENOSPC, or any other failure of the write.
WriteFails(u) ==
    /\ pc[u] = "write"
    /\ Goto(u, "discard")
    /\ UNCHANGED <<free, size, taken>>

Commit(u) ==
    /\ pc[u] = "check"
    /\ taken[u] = size[u]
    /\ Goto(u, "stored")
    /\ UNCHANGED <<free, size, taken>>

\* Mutant: gives back what the client announced, not what was written.
ReleaseAll(u) ==
    /\ free' = free + size[u]
    /\ taken' = [taken EXCEPT ![u] = 0]

Release(u) ==
    /\ free' = free + taken[u]
    /\ taken' = [taken EXCEPT ![u] = 0]

\* The temporary file is unlinked before the exception goes on.
Discard(u) ==
    /\ pc[u] = "discard"
    /\ Release(u)
    /\ Goto(u, "refused")
    /\ UNCHANGED size

\* The server dies and leaves the temporary files of its uploads.
Crash ==
    /\ pc' = [u \in Uploads |->
                IF \/ pc[u] \in {"write", "discard"}
                   \/ pc[u] = "check" /\ taken[u] > 0
                THEN "orphan" ELSE pc[u]]
    /\ pc' # pc
    /\ UNCHANGED <<free, size, taken>>

\* A stored file is deleted, replaced or expires, an orphan expires.
Remove(u) ==
    /\ pc[u] \in {"stored", "orphan"}
    /\ Release(u)
    /\ Goto(u, "removed")
    /\ UNCHANGED size

Next ==
    \/ \E u \in Uploads :
          \/ CheckPasses(u) \/ CheckFails(u)
          \/ Write(u) \/ WriteFails(u)
          \/ Commit(u) \/ Discard(u) \/ Remove(u)
    \/ Crash

Spec == Init /\ [][Next]_vars

-------------------------------------------------------------------------------

Writing == {u \in Uploads : pc[u] = "write"}

\* README.md promises that uploads preserve MIN_FREE_DISK_SPACE_MB.  With one
\* upload at a time they do.  Concurrent uploads that have been let through and
\* have not written yet can eat into the reserve, one chunk for every upload but
\* the one that was let through last.
OvershootIsBounded ==
    Reserve > 0 => free >= Reserve - (Cardinality(Uploads) - 1)
===============================================================================
