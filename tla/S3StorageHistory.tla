--------------------------- MODULE S3StorageHistory ---------------------------
(***************************************************************************)
(* S3Storage seen by its clients: the refinement of FileStore.  A history  *)
(* variable remembers when each request took effect, since its label and   *)
(* its answer do not tell: an upload or a delete may be answered 500       *)
(* though the object store did what it was asked to.                       *)
(***************************************************************************)
EXTENDS S3Storage

VARIABLE outcome

hvars == <<vars, outcome>>

\* What the step from this state to the next decides for request r.
SaveOutcome(r) ==
    IF obj'[File(r)] = r THEN "stored"
    ELSE IF pend'[r] = "FileExistsError" \/ resp'[r] = 409 THEN "conflict"
    ELSE IF pend'[r] # "none" \/ resp'[r] \in {400, 500} THEN "failed"
    ELSE "none"

DeleteOutcome(r) ==
    IF pc[r] = "delete" /\ (resp'[r] = 204 \/ obj' # obj) THEN "deleted"
    ELSE IF resp'[r] = 404 THEN "missing"
    ELSE IF resp'[r] = 500 THEN "failed"
    ELSE "none"

\* Metadata that is found is no outcome of the abstract store: its digest is that
\* of the tag, which may be wrong.
ReadOutcome(r) ==
    IF got'[r] # NoFile THEN IF arg[r].op = "meta" THEN "none" ELSE got'[r]
    ELSE IF resp'[r] = 404 THEN "missing"
    ELSE IF resp'[r] = 500 THEN "failed"
    ELSE "none"

Outcome(r) ==
    IF arg[r].op = "save" THEN SaveOutcome(r)
    ELSE IF arg[r].op = "delete" THEN DeleteOutcome(r)
    ELSE ReadOutcome(r)

Track ==
    outcome' = [r \in Requests |->
                  IF outcome[r] = "none" /\ Moves(r) THEN Outcome(r) ELSE outcome[r]]

HInit == Init /\ outcome = [r \in Requests |-> "none"]
HNext == Next /\ Track
HSpec == HInit /\ [][HNext]_hvars

Store == INSTANCE FileStore WITH
    Initial            <- InitialFiles,
    FallibleOps        <- Ops,
    DeleteIsIdempotent <- TRUE,
    UploadsRepeat      <- TRUE,
    store              <- obj

\* Uploads, reads, downloads and deletes of the S3 backend are atomic: whatever
\* the interleaving, the cleaner, crashes and failed calls do, each takes effect
\* at one moment or not at all and answers for the state of that moment, with two
\* exceptions: a delete may find the file gone after it has looked, and still
\* answers 204; and an upload or a delete whose calls boto3 sends again may take
\* effect again, but never against overwrite=false, and its answer is that of the
\* last attempt.
ImplementsFileStore == Store!Spec

\* The answers are those of the atomic store: each says what its request did at the
\* moment when it took effect.  A 500 says nothing: the call may have taken effect.
\* 409 may come for an upload that was stored, if its call was sent again.
AnswersAreTrue ==
    \A r \in Requests :
        /\ resp[r] = 201 => outcome[r] = "stored"
        /\ resp[r] = 204 => outcome[r] = "deleted"
        /\ resp[r] = 404 => outcome[r] = "missing"
        /\ resp[r] = 400 => outcome[r] = "failed"
        /\ resp[r] = 409 => outcome[r] = "conflict" \/ (outcome[r] = "stored" /\ resent[r] > 0)
        /\ resp[r] = 200 /\ arg[r].op # "meta" => outcome[r] = got[r] /\ got[r] # NoFile
===============================================================================
