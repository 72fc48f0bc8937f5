------------------------------- MODULE FileStore -------------------------------
(***************************************************************************)
(* What StorageBackend (app/storage/base.py) promises its callers about    *)
(* the files of one logical folder, whichever backend is behind it: every  *)
(* request takes effect at one moment between its arrival and its answer,  *)
(* or not at all, and retention may take a file away at any moment.        *)
(***************************************************************************)
EXTENDS Naturals

CONSTANTS
    Requests, Files, Calls,
    Initial,        \* content that may be there at the start
    MaxSize,        \* MAX_FILE_SIZE_MB, in chunks
    FallibleOps,    \* the calls that may fail for a reason of the backend's own
    DeleteIsIdempotent, \* a delete may succeed on a file that is not there
    UploadsRepeat,  \* an upload may take effect more than once
    NoFile

VARIABLES
    store,          \* store[f]: the upload whose content file f holds, or NoFile
    arg,            \* arg[r]: the call that request r makes
    outcome         \* outcome[r]: what request r did, "none" before

vars == <<store, arg, outcome>>

\* Outcomes that are not the content of a file.
Verdicts == {"none", "stored", "conflict", "failed", "deleted", "missing"}

Init ==
    /\ store \in [Files -> Initial \union {NoFile}]
    /\ arg \in [Requests -> Calls]
    /\ outcome = [r \in Requests |-> "none"]

Held(r) == store[arg[r].file]

Decide(r, ops, result) ==
    /\ outcome[r] = "none"
    /\ arg[r].op \in ops
    /\ outcome' = [outcome EXCEPT ![r] = result]
    /\ UNCHANGED arg

\* An upload within the size limit becomes the file's content; a create-only
\* upload does so only where there is no file.
Upload(r) ==
    /\ Decide(r, {"save"}, "stored")
    /\ arg[r].size <= MaxSize
    /\ arg[r].overwrite \/ Held(r) = NoFile
    /\ store' = [store EXCEPT ![arg[r].file] = r]

Conflict(r) ==
    /\ Decide(r, {"save"}, "conflict")
    /\ ~arg[r].overwrite
    /\ Held(r) # NoFile
    /\ UNCHANGED store

Fail(r) ==
    /\ Decide(r, FallibleOps, "failed")
    /\ UNCHANGED store

Read(r) ==
    /\ Held(r) # NoFile
    /\ Decide(r, {"read", "meta", "download"}, Held(r))
    /\ UNCHANGED store

Miss(r) ==
    /\ Held(r) = NoFile
    /\ Decide(r, {"read", "meta", "download", "delete"}, "missing")
    /\ UNCHANGED store

Delete(r) ==
    /\ Held(r) # NoFile
    /\ Decide(r, {"delete"}, "deleted")
    /\ store' = [store EXCEPT ![arg[r].file] = NoFile]

DeleteNothing(r) ==
    /\ DeleteIsIdempotent
    /\ Held(r) = NoFile
    /\ Decide(r, {"delete"}, "deleted")
    /\ UNCHANGED store

\* The repetition of an upload obeys the same rule as the upload.
Repeat(r) ==
    /\ UploadsRepeat
    /\ outcome[r] = "stored"
    /\ arg[r].overwrite \/ Held(r) = NoFile
    /\ store' = [store EXCEPT ![arg[r].file] = r]
    /\ UNCHANGED <<arg, outcome>>

\* Retention, which may take several files at once, or the repetition of a delete.
Evict(F) ==
    /\ store' = [f \in Files |-> IF f \in F THEN NoFile ELSE store[f]]
    /\ UNCHANGED <<arg, outcome>>

Next ==
    \/ \E r \in Requests :
          \/ Upload(r) \/ Repeat(r) \/ Conflict(r) \/ Fail(r)
          \/ Read(r) \/ Miss(r) \/ Delete(r) \/ DeleteNothing(r)
    \/ \E F \in SUBSET Files : Evict(F)

Spec == Init /\ [][Next]_vars
===============================================================================
