-------------------------- MODULE LocalStorageHistory --------------------------
(***************************************************************************)
(* LocalStorage seen by its clients: the refinement of FileStore, and a    *)
(* history variable that remembers which requests ran at a moment when     *)
(* their file was not there.                                               *)
(***************************************************************************)
EXTENDS LocalStorage

VARIABLE absent     \* requests during which their file was once absent

hvars == <<vars, absent>>

Present(f) == Exists(f) \/ Exists(HashedName[f])

Track == absent' = absent \union {r \in Requests : (Started(r) /\ ~Present(Final(r)))'}

HInit == Init /\ absent = {}
HNext == Next /\ Track
HSpec == HInit /\ [][HNext]_hvars

\* get_file.py documents 404 as "File or folder not found", and README.md says
\* that reads and deletes stay compatible with v1.0.0 names: a request that
\* finds no file ran at a moment when there was none, under either name.
NoFalseMiss ==
    \A r \in Requests :
        (arg[r].op # "save" /\ resp[r] \in {404, 500, Aborted}) => r \in absent

-------------------------------------------------------------------------------
(***************************************************************************)
(* The refinement.  An upload takes effect when its commit puts the inode  *)
(* in place; it is decided against when its exception is raised.  A        *)
(* request that dies in a crash keeps its label, so what it had done by    *)
(* then stays done.                                                        *)
(***************************************************************************)

Published(r) ==
    /\ pend[r] = "none"
    /\ \/ pc[r] \in {"temp_exists", "temp_unlink", "purge_exists", "purge_unlink"}
       \/ resp[r] \in {201, 500}

SaveOutcome(r) ==
    IF Published(r) THEN "stored"
    ELSE IF pend[r] = "FileExistsError" \/ resp[r] = 409 THEN "conflict"
    ELSE IF pend[r] # "none" THEN "failed"
    ELSE "none"

\* A delete that has looked at the file's name and found nothing, or lost a race.
DeleteMissed(r) ==
    /\ ~deleted[r]
    /\ \/ resp[r] # 0
       \/ pc[r] = "delete_probe" /\ Final(r) \notin todo[r]

DeleteOutcome(r) ==
    IF deleted[r] THEN "deleted" ELSE IF DeleteMissed(r) THEN "missing" ELSE "none"

ReadMissed(r) == got[r] = NoFile /\ (resp[r] # 0 \/ pc[r] = "legacy_lookup")

ReadOutcome(r) ==
    IF got[r] # NoFile THEN got[r] ELSE IF ReadMissed(r) THEN "missing" ELSE "none"

Outcome(r) ==
    IF arg[r].op = "save" THEN SaveOutcome(r)
    ELSE IF arg[r].op = "delete" THEN DeleteOutcome(r)
    ELSE ReadOutcome(r)

Store == INSTANCE FileStore WITH
    Initial            <- InitialSlots,
    FallibleOps        <- {"save"},
    DeleteIsIdempotent <- FALSE,
    UploadsRepeat      <- FALSE,
    store              <- [f \in Files |-> dir[f]],
    outcome            <- [r \in Requests |-> Outcome(r)]

\* With no v1.0.0 file around, uploads, reads and deletes of the local backend
\* are atomic: whatever the interleaving, the cleaner and crashes do, each takes
\* effect once, at one moment, and answers for the state of that moment.
ImplementsFileStore == Store!Spec

\* The answers are those of the atomic store: each says what its request did at the
\* moment when it took effect.  An upload that is answered 500 was stored, or failed.
AnswersAreTrue ==
    \A r \in Requests :
        /\ resp[r] = 201 => Outcome(r) = "stored"
        /\ resp[r] = 204 => Outcome(r) = "deleted"
        /\ resp[r] = 404 => Outcome(r) = "missing"
        /\ resp[r] \in {400, 507} => Outcome(r) = "failed"
        /\ resp[r] = 409 => Outcome(r) = "conflict"
        /\ resp[r] = 200 => Outcome(r) = got[r] /\ got[r] # NoFile
===============================================================================
