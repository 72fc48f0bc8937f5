------------------------------- MODULE S3Storage -------------------------------
(***************************************************************************)
(* S3StorageBackend (app/storage/s3.py) on one logical folder: the API     *)
(* server, the cleanup worker, the clock, crashes, and calls to the object *)
(* store that fail.                                                        *)
(*                                                                         *)
(* The object store is external: one call of its API is one step, and a    *)
(* step sees the result of every step before it (S3 is strongly            *)
(* consistent).  One call runs in a worker thread while the event loop     *)
(* serves other requests, so calls of different requests interleave.       *)
(*                                                                         *)
(* An object's content is named after the upload that wrote it, an object  *)
(* that was there at the start after its key.  Sizes are counted in parts  *)
(* (S3_MULTIPART_CHUNK_SIZE_MB).                                           *)
(***************************************************************************)
EXTENDS Naturals, ApiStatus

CONSTANTS
    Requests,       \* the requests the server may receive
    Files,          \* logical file names, which are the keys of one folder
    InitialFiles,   \* files that may already be there at the start
    Calls,          \* the calls clients make
    Threshold,      \* S3_MULTIPART_THRESHOLD_MB, in parts
    MaxSize,        \* MAX_FILE_SIZE_MB, in parts
    MaxAge,         \* MAX_FILE_AGE_HOURS, in ticks
    FaultKinds,     \* how a call to the object store may fail
    MaxFaults,      \* bound on the calls that fail
    MaxClock,       \* bound on the clock
    MaxCrashes,     \* bound on the crashes of server and cleaner together
    NoFile          \* the key has no object, or the object no digest tag

Contents == Requests \union Files

Ops == {"save", "read", "meta", "download", "delete"}

ASSUME FilesAssumption ==
    /\ InitialFiles \subseteq Files
    /\ Requests \intersect Files = {}
    /\ NoFile \notin Contents

ASSUME CallsAssumption ==
    Calls \subseteq [op : Ops, file : Files, overwrite : BOOLEAN, size : Nat]

\* "refused": the store answers with an error, which boto3 raises as ClientError.
\* "lost": the call never reaches the store; "late": it does, but the answer
\* never comes back.  For both boto3 raises a BotoCoreError, no ClientError.
\* "again": the call takes effect, its answer does not come back, and boto3 sends
\* it a second time (the client is built with the retries that are the default).
ASSUME FaultsAssumption == FaultKinds \subseteq {"refused", "lost", "late", "again"}

ASSUME BoundsAssumption ==
    /\ Threshold \in Nat \ {0}
    /\ {MaxSize, MaxAge, MaxFaults, MaxClock, MaxCrashes} \subseteq Nat

VARIABLES
    obj,        \* obj[f]: the content of the object of file f, or NoFile
    tag,        \* tag[f]: the content its sha256 tag was computed from, or NoFile
    mtime,      \* mtime[f]: its LastModified
    open,       \* uploads with a multipart upload that is neither complete nor aborted
    logged,     \* uploads for which "Failed to abort" was logged
    orphans,    \* uploads with a multipart upload whose id nobody was told
    clock,
    arg,        \* arg[r]: the call request r makes
    pc,         \* pc[r]: the call to the store request r does next
    pend,       \* pend[r]: the exception request r is unwinding with
    resp,       \* resp[r]: the status sent to the client, 0 before
    sent,       \* sent[r]: parts uploaded
    got,        \* got[r]: the content that was read, or whose digest was
    resent,     \* resent[r]: calls of r that took effect and were sent again
    dead,       \* requests that were in flight when the server crashed
    crashes,
    faults,     \* calls that failed so far
    sweep       \* the cleanup worker: its label and local variables

bucket  == <<obj, tag, mtime>>
uploads == <<open, logged, orphans>>
local   == <<pc, pend, resp, sent, got, resent>>
vars    == <<bucket, uploads, local, clock, arg, dead, crashes, faults, sweep>>

Labels == {"exists", "buffer", "put", "create", "part", "abort", "tag", "get",
           "head", "get_tag", "get_digest", "probe", "delete", "done"}

Failures == {"FileExistsError", "FileSizeError", "OSError", "BotoCoreError"}

TypeOK ==
    /\ obj \in [Files -> Contents \union {NoFile}]
    /\ tag \in [Files -> Contents \union {NoFile}]
    /\ mtime \in [Files -> 0..MaxClock]
    /\ open \subseteq Requests
    /\ logged \subseteq Requests
    /\ orphans \subseteq Requests
    /\ clock \in 0..MaxClock
    /\ arg \in [Requests -> Calls]
    /\ pc \in [Requests -> Labels]
    /\ pend \in [Requests -> Failures \union {"none"}]
    /\ resp \in [Requests -> Codes \union {0}]
    /\ sent \in [Requests -> 0..MaxSize]
    /\ got \in [Requests -> Contents \union {NoFile}]
    /\ resent \in [Requests -> 0..MaxFaults]
    /\ dead \subseteq Requests
    /\ crashes \in 0..MaxCrashes
    /\ faults \in 0..MaxFaults
    /\ sweep \in [pc : {"sleep", "list", "delete"},
                  cutoff : 0..MaxClock,
                  rest : SUBSET Files,
                  keys : SUBSET Files]

-------------------------------------------------------------------------------

Exists(f) == obj[f] # NoFile
File(r)   == arg[r].file

FirstLabel(call) ==
    CASE call.op = "save"                 -> IF call.overwrite THEN "buffer" ELSE "exists"
      [] call.op \in {"read", "download"} -> "get"
      [] call.op = "meta"                 -> "head"
      [] call.op = "delete"               -> "probe"

Started(r) == pc[r] # FirstLabel(arg[r])

\* An object stored with tagging permissions absent has no digest tag.
Init ==
    /\ obj \in {o \in [Files -> Files \union {NoFile}] :
                    \A f \in Files : o[f] \in ({f} \intersect InitialFiles) \union {NoFile}}
    /\ tag \in {t \in [Files -> Files \union {NoFile}] :
                    \A f \in Files : t[f] \in {obj[f], NoFile}}
    /\ mtime = [f \in Files |-> 0]
    /\ open = {}
    /\ logged = {}
    /\ orphans = {}
    /\ clock = 0
    /\ arg \in [Requests -> Calls]
    /\ pc = [r \in Requests |-> FirstLabel(arg[r])]
    /\ pend = [r \in Requests |-> "none"]
    /\ resp = [r \in Requests |-> 0]
    /\ sent = [r \in Requests |-> 0]
    /\ got = [r \in Requests |-> NoFile]
    /\ resent = [r \in Requests |-> 0]
    /\ dead = {}
    /\ crashes = 0
    /\ faults = 0
    /\ sweep = [pc |-> "sleep", cutoff |-> 0, rest |-> {}, keys |-> {}]

Goto(r, label) ==
    /\ pc' = [pc EXCEPT ![r] = label]
    /\ UNCHANGED resp

Reply(r, code) ==
    /\ pc' = [pc EXCEPT ![r] = "done"]
    /\ resp' = [resp EXCEPT ![r] = code]

FaultOf(kinds) ==
    /\ kinds \intersect FaultKinds # {}
    /\ faults < MaxFaults
    /\ faults' = faults + 1

Fault(kinds) == FaultOf(kinds) /\ UNCHANGED resent

\* The SDK sends the call of request r again, which still waits for it.
SentAgain(r) ==
    /\ FaultOf({"again"})
    /\ resent' = [resent EXCEPT ![r] = @ + 1]
    /\ UNCHANGED <<pc, resp>>

Answered == UNCHANGED <<faults, resent>>

\* What the store does.
StoreObject(f, content, digest) ==
    /\ obj' = [obj EXCEPT ![f] = content]
    /\ tag' = [tag EXCEPT ![f] = digest]
    /\ mtime' = [mtime EXCEPT ![f] = clock]

DeleteObjects(F) ==
    /\ obj' = [f \in Files |-> IF f \in F THEN NoFile ELSE obj[f]]
    /\ tag' = [f \in Files |-> IF f \in F THEN NoFile ELSE tag[f]]
    /\ UNCHANGED mtime

-------------------------------------------------------------------------------
\* save_file.

\* _object_exists, for create-only uploads.
CheckExists(r) ==
    /\ pc[r] = "exists"
    /\ \/ Answered /\ Exists(File(r)) /\ Reply(r, UploadStatus["FileExistsError"])
       \/ Answered /\ ~Exists(File(r)) /\ Goto(r, "buffer")
       \/ Fault({"refused"}) /\ Reply(r, UploadStatus["ClientError"])
       \/ Fault({"lost", "late"}) /\ Reply(r, UploadStatus["BotoCoreError"])
    /\ UNCHANGED <<bucket, uploads, pend, sent, got>>

\* The loop that reads up to the multipart threshold into memory.
InitialSize(r) == IF arg[r].size < Threshold THEN arg[r].size ELSE Threshold

Buffer(r) ==
    /\ pc[r] = "buffer"
    /\ IF InitialSize(r) > MaxSize
       THEN Reply(r, UploadStatus["FileSizeError"])
       ELSE Goto(r, IF arg[r].size < Threshold THEN "put" ELSE "create")
    /\ Answered
    /\ UNCHANGED <<bucket, uploads, pend, sent, got>>

PreconditionDropped(r) == TRUE    \* mutant: no IfNoneMatch

\* IfNoneMatch="*": the store takes a create-only upload only where there is no
\* object, in the same step.
Precondition(r) == arg[r].overwrite \/ ~Exists(File(r))

PutUntagged(r) == StoreObject(File(r), r, tag[File(r)])    \* mutant: keeps the old tag

\* put_object carries the digest tag with the content.
PutObject(r) == StoreObject(File(r), r, r)

Put(r) ==
    /\ pc[r] = "put"
    /\ \/ Answered /\ Precondition(r) /\ PutObject(r) /\ Reply(r, UploadStatus["none"])
       \/ /\ Answered
          /\ ~Precondition(r)
          /\ UNCHANGED bucket
          /\ Reply(r, UploadStatus["FileExistsError"])
       \/ Fault({"refused"}) /\ UNCHANGED bucket /\ Reply(r, UploadStatus["OSError"])
       \/ Fault({"lost"}) /\ UNCHANGED bucket /\ Reply(r, UploadStatus["BotoCoreError"])
       \/ /\ Fault({"late"})
          /\ Precondition(r)
          /\ PutObject(r)
          /\ Reply(r, UploadStatus["BotoCoreError"])
       \/ SentAgain(r) /\ Precondition(r) /\ PutObject(r)
    /\ UNCHANGED <<uploads, pend, sent, got>>

\* create_multipart_upload is called before the try: when it fails, even late,
\* nothing is aborted.
CreateMultipart(r) ==
    /\ pc[r] = "create"
    /\ \/ /\ Answered
          /\ open' = open \union {r}
          /\ UNCHANGED orphans
          /\ Goto(r, "part")
       \/ /\ \/ Fault({"refused"}) /\ Reply(r, UploadStatus["OSError"])
             \/ Fault({"lost"}) /\ Reply(r, UploadStatus["BotoCoreError"])
          /\ UNCHANGED <<open, orphans>>
       \/ /\ \/ Fault({"late"}) /\ Reply(r, UploadStatus["BotoCoreError"])
             \/ SentAgain(r)
          /\ orphans' = orphans \union {r}
          /\ UNCHANGED open
    /\ UNCHANGED <<bucket, logged, pend, sent, got>>

Raise(r, exception) ==
    /\ pend' = [pend EXCEPT ![r] = exception]
    /\ Goto(r, "abort")

TooLargeLate(r) == sent[r] > MaxSize          \* mutant: counts the part afterwards
TooLarge(r) == sent[r] + 1 > MaxSize

\* The parts that a failed upload_part leaves with the store go away with the
\* multipart upload and are not modelled; the same part sent again replaces
\* itself.
UploadPart(r) ==
    /\ pc[r] = "part"
    /\ sent[r] < arg[r].size
    /\ ~TooLarge(r)
    /\ \/ Answered /\ sent' = [sent EXCEPT ![r] = @ + 1] /\ UNCHANGED <<pc, pend, resp>>
       \/ Fault({"refused"}) /\ UNCHANGED sent /\ Raise(r, "OSError")
       \/ Fault({"lost", "late"}) /\ UNCHANGED sent /\ Raise(r, "BotoCoreError")
    /\ UNCHANGED <<bucket, uploads, got>>

\* Mutant: the size error leaves the multipart upload open.
RejectSizeUnaborted(r) ==
    /\ pc[r] = "part"
    /\ sent[r] < arg[r].size
    /\ TooLarge(r)
    /\ Reply(r, UploadStatus["FileSizeError"])
    /\ Answered
    /\ UNCHANGED <<bucket, uploads, pend, sent, got>>

RejectSize(r) ==
    /\ pc[r] = "part"
    /\ sent[r] < arg[r].size
    /\ TooLarge(r)
    /\ Raise(r, "FileSizeError")
    /\ Answered
    /\ UNCHANGED <<bucket, uploads, sent, got>>

\* complete_multipart_upload: the object has no tag until put_object_tagging.
CompleteObject(r) ==
    /\ StoreObject(File(r), r, NoFile)
    /\ open' = open \ {r}

\* Mutant: the last, short part is forgotten.
CompleteEarly(r) ==
    /\ pc[r] = "part"
    /\ sent[r] + 1 = arg[r].size
    /\ Precondition(r)
    /\ CompleteObject(r)
    /\ Goto(r, "tag")
    /\ Answered
    /\ UNCHANGED <<pend, logged, orphans, sent, got>>

Complete(r) == r \in open /\ Precondition(r) /\ CompleteObject(r)

\* complete_multipart_upload for an upload that is complete, since the call was
\* sent again: stores answer 200 or NoSuchUpload.
CompleteTwice(r) ==
    /\ Answered
    /\ r \notin open
    /\ \/ Goto(r, "tag") /\ UNCHANGED pend
       \/ Raise(r, "OSError")

CompleteMultipart(r) ==
    /\ pc[r] = "part"
    /\ sent[r] = arg[r].size
    /\ \/ Answered /\ Complete(r) /\ Goto(r, "tag") /\ UNCHANGED pend
       \/ Fault({"late"}) /\ Complete(r) /\ Raise(r, "BotoCoreError")
       \/ SentAgain(r) /\ Complete(r) /\ UNCHANGED pend
       \/ /\ \/ Answered /\ ~Precondition(r) /\ Raise(r, "FileExistsError")
             \/ CompleteTwice(r)
             \/ Fault({"refused"}) /\ Raise(r, "OSError")
             \/ Fault({"lost"}) /\ Raise(r, "BotoCoreError")
          /\ UNCHANGED <<bucket, open>>
    /\ UNCHANGED <<logged, orphans, sent, got>>

\* abort_multipart_upload, on the way out of the exception: a failure of its own
\* is logged and dropped, and so is the NoSuchUpload of an upload that is
\* complete, or whose abort is sent again.
AbortUpload(r) ==
    \/ Answered /\ r \in open /\ open' = open \ {r} /\ UNCHANGED logged
    \/ Answered /\ r \notin open /\ logged' = logged \union {r} /\ UNCHANGED open
    \/ Fault({"refused", "lost"}) /\ logged' = logged \union {r} /\ UNCHANGED open
    \/ Fault({"late", "again"}) /\ logged' = logged \union {r} /\ open' = open \ {r}

\* Mutant: the exception ends with the abort.
AbortSwallows(r) ==
    /\ pc[r] = "abort"
    /\ AbortUpload(r)
    /\ Reply(r, UploadStatus["none"])
    /\ UNCHANGED <<bucket, orphans, pend, sent, got>>

AbortMultipart(r) ==
    /\ pc[r] = "abort"
    /\ AbortUpload(r)
    /\ Reply(r, UploadStatus[pend[r]])
    /\ UNCHANGED <<bucket, orphans, pend, sent, got>>

\* _set_sha256_tag tags whatever object has the key now; a ClientError (it has
\* none, or tagging is not permitted) is dropped.
TagObject(r) ==
    /\ tag' = [tag EXCEPT ![File(r)] = IF Exists(File(r)) THEN r ELSE NoFile]
    /\ UNCHANGED <<obj, mtime>>

SetTag(r) ==
    /\ pc[r] = "tag"
    /\ \/ Answered /\ TagObject(r) /\ Reply(r, UploadStatus["none"])
       \/ Fault({"refused"}) /\ UNCHANGED bucket /\ Reply(r, UploadStatus["none"])
       \/ Fault({"lost"}) /\ UNCHANGED bucket /\ Reply(r, UploadStatus["BotoCoreError"])
       \/ Fault({"late"}) /\ TagObject(r) /\ Reply(r, UploadStatus["BotoCoreError"])
       \/ SentAgain(r) /\ TagObject(r)
    /\ UNCHANGED <<uploads, pend, sent, got>>

-------------------------------------------------------------------------------
\* read_file, get_download, get_file_metadata, delete_file.

ReadFails(r) ==
    \/ Fault({"refused"}) /\ Reply(r, ReadStatus["ClientError"])
    \/ Fault({"lost", "late"}) /\ Reply(r, ReadStatus["BotoCoreError"])

\* Mutant: every error code means that there is no object.
NotFoundOnAnyError(r) ==
    /\ \/ Answered /\ ~Exists(File(r))
       \/ Fault({"refused"})
    /\ Reply(r, ReadStatus["FileNotFoundError"])

NotFound(r) == Answered /\ ~Exists(File(r)) /\ Reply(r, ReadStatus["FileNotFoundError"])

\* get_object and the reading of its body: what comes back is one object, whatever
\* happens to the key later.  When the connection breaks in the body, a download has
\* sent its headers and what it got; the other calls have read all or fail.
GetObject(r) ==
    /\ pc[r] \in {"get", "get_digest"}
    /\ \/ /\ Answered
          /\ Exists(File(r))
          /\ got' = [got EXCEPT ![r] = obj[File(r)]]
          /\ Reply(r, ReadStatus["none"])
       \/ /\ Fault({"late"})
          /\ arg[r].op = "download"
          /\ Exists(File(r))
          /\ got' = [got EXCEPT ![r] = obj[File(r)]]
          /\ Reply(r, Aborted)
       \/ NotFound(r) /\ UNCHANGED got
       \/ ReadFails(r) /\ UNCHANGED got
    /\ UNCHANGED <<bucket, uploads, pend, sent>>

\* What head_object says of the object may be of another version than the digest.
HeadObject(r) ==
    /\ pc[r] = "head"
    /\ \/ Answered /\ Exists(File(r)) /\ Goto(r, "get_tag")
       \/ NotFound(r)
       \/ ReadFails(r)
    /\ UNCHANGED <<bucket, uploads, pend, sent, got>>

\* get_object_tagging: any ClientError means that there is no tag.
GetTag(r) ==
    /\ pc[r] = "get_tag"
    /\ \/ /\ Answered
          /\ tag[File(r)] # NoFile
          /\ got' = [got EXCEPT ![r] = tag[File(r)]]
          /\ Reply(r, ReadStatus["none"])
       \/ /\ \/ Answered /\ tag[File(r)] = NoFile
             \/ Fault({"refused"})
          /\ Goto(r, "get_digest")
          /\ UNCHANGED got
       \/ Fault({"lost", "late"}) /\ Reply(r, ReadStatus["BotoCoreError"]) /\ UNCHANGED got
    /\ UNCHANGED <<bucket, uploads, pend, sent>>

Probe(r) ==
    /\ pc[r] = "probe"
    /\ \/ Answered /\ Exists(File(r)) /\ Goto(r, "delete")
       \/ Answered /\ ~Exists(File(r)) /\ Reply(r, DeleteStatus["FileNotFoundError"])
       \/ Fault({"refused"}) /\ Reply(r, DeleteStatus["ClientError"])
       \/ Fault({"lost", "late"}) /\ Reply(r, DeleteStatus["BotoCoreError"])
    /\ UNCHANGED <<bucket, uploads, pend, sent, got>>

\* delete_object succeeds whether or not there is an object.
DeleteObject(r) ==
    /\ pc[r] = "delete"
    /\ \/ Answered /\ DeleteObjects({File(r)}) /\ Reply(r, DeleteStatus["none"])
       \/ Fault({"refused"}) /\ UNCHANGED bucket /\ Reply(r, DeleteStatus["ClientError"])
       \/ Fault({"lost"}) /\ UNCHANGED bucket /\ Reply(r, DeleteStatus["BotoCoreError"])
       \/ /\ Fault({"late"})
          /\ DeleteObjects({File(r)})
          /\ Reply(r, DeleteStatus["BotoCoreError"])
       \/ SentAgain(r) /\ DeleteObjects({File(r)})
    /\ UNCHANGED <<uploads, pend, sent, got>>

RequestStep(r) ==
    /\ r \notin dead
    /\ \/ CheckExists(r) \/ Buffer(r) \/ Put(r)
       \/ CreateMultipart(r) \/ UploadPart(r) \/ RejectSize(r)
       \/ CompleteMultipart(r) \/ AbortMultipart(r) \/ SetTag(r)
       \/ GetObject(r) \/ HeadObject(r) \/ GetTag(r)
       \/ Probe(r) \/ DeleteObject(r)
    /\ UNCHANGED <<clock, arg, dead, crashes, sweep>>

-------------------------------------------------------------------------------
(***************************************************************************)
(* cleanup_old_files: list every page, then delete what was expired in     *)
(* batches.  A call that fails ends the cycle.                             *)
(***************************************************************************)

SweepBegin ==
    /\ sweep.pc = "sleep"
    /\ sweep' = [pc |-> "list", cutoff |-> clock, rest |-> Files, keys |-> {}]
    /\ UNCHANGED <<bucket, faults>>

Sleep == sweep' = [sweep EXCEPT !.pc = "sleep", !.rest = {}, !.keys = {}]

ExpiredIgnoringAge(f) == Exists(f) /\ mtime[f] < sweep.cutoff      \* mutant

Expired(f) == Exists(f) /\ mtime[f] + MaxAge < sweep.cutoff

\* Mutant: the continuation token is ignored.
SweepFirstPage ==
    /\ sweep.pc = "list"
    /\ \E page \in SUBSET sweep.rest :
          /\ page # {}
          /\ sweep' = [sweep EXCEPT !.pc = "delete",
                                   !.rest = {},
                                   !.keys = {f \in page : Expired(f)}]
    /\ UNCHANGED <<bucket, faults>>

\* One list_objects_v2, and the expired among the objects of the page.
SweepList ==
    /\ sweep.pc = "list"
    /\ \E page \in SUBSET sweep.rest :
          /\ page # {}
          /\ sweep' = [sweep EXCEPT
                !.pc = IF page = sweep.rest THEN "delete" ELSE "list",
                !.rest = @ \ page,
                !.keys = @ \union {f \in page : Expired(f)}]
    /\ UNCHANGED <<bucket, faults>>

\* One delete_objects.  Errors for single keys are reported, not raised.
SweepDelete ==
    /\ sweep.pc = "delete"
    /\ \E batch \in SUBSET sweep.keys :
          /\ batch # {}
          /\ sweep' = [sweep EXCEPT !.keys = @ \ batch]
          /\ \/ Answered /\ DeleteObjects(batch)
             \/ \E kept \in SUBSET batch :
                   /\ kept # {}
                   /\ Fault({"refused"})
                   /\ DeleteObjects(batch \ kept)

\* Which keys make a batch is left open, also for the one that is sent again.
SweepAgain ==
    /\ sweep.pc = "delete"
    /\ Fault({"again"})
    /\ \E batch \in SUBSET sweep.keys : DeleteObjects(batch)
    /\ UNCHANGED sweep

SweepEnd ==
    /\ sweep.pc = "delete"
    /\ sweep.keys = {}
    /\ Sleep
    /\ UNCHANGED <<bucket, faults>>

SweepFails ==
    /\ sweep.pc \in {"list", "delete"}
    /\ sweep.pc = "delete" => sweep.keys # {}
    /\ Sleep
    /\ \/ Fault({"refused", "lost"}) /\ UNCHANGED bucket
       \/ /\ Fault({"late"})
          /\ \E batch \in SUBSET sweep.keys :
                DeleteObjects(IF sweep.pc = "delete" THEN batch ELSE {})

SweepStep ==
    /\ SweepBegin \/ SweepList \/ SweepDelete \/ SweepAgain \/ SweepEnd \/ SweepFails
    /\ UNCHANGED <<uploads, local, clock, arg, dead, crashes>>

-------------------------------------------------------------------------------

Tick ==
    /\ clock < MaxClock
    /\ clock' = clock + 1
    /\ UNCHANGED <<bucket, uploads, local, arg, dead, crashes, faults, sweep>>

ServerCrash ==
    /\ crashes < MaxCrashes
    /\ crashes' = crashes + 1
    /\ dead' = dead \union {r \in Requests : Started(r) /\ pc[r] # "done"}
    /\ UNCHANGED <<bucket, uploads, local, clock, arg, faults, sweep>>

CleanerCrash ==
    /\ crashes < MaxCrashes
    /\ crashes' = crashes + 1
    /\ Sleep
    /\ UNCHANGED <<bucket, uploads, local, clock, arg, dead, faults>>

Next ==
    \/ \E r \in Requests : RequestStep(r)
    \/ SweepStep
    \/ Tick
    \/ ServerCrash
    \/ CleanerCrash

\* As for the local backend; the faults are bounded, so a fault cannot be what
\* keeps the cleaner from its work forever.
Fairness ==
    /\ \A r \in Requests : WF_vars(RequestStep(r))
    /\ WF_vars(SweepStep)
    /\ WF_vars(Tick)

Spec     == Init /\ [][Next]_vars
FairSpec == Spec /\ Fairness

-------------------------------------------------------------------------------

IsMultipart(r) == arg[r].op = "save" /\ arg[r].size >= Threshold

\* An object is a whole upload to its key that the size limit admits, and a
\* multipart upload that is visible is no longer open.
VisibleIsComplete ==
    \A f \in Files, r \in Requests :
        obj[f] = r => /\ arg[r].op = "save"
                      /\ f = File(r)
                      /\ arg[r].size <= MaxSize
                      /\ IsMultipart(r) => sent[r] = arg[r].size /\ r \notin open

\* An upload answered 400 or 409 stored nothing, unless boto3 sent a call again
\* and the store refused to store the same object twice.  An upload that was
\* answered leaves no multipart upload behind, which nothing would ever remove,
\* unless its abort failed and was logged, or nobody was told its id.
NoMultipartLeft ==
    \A r \in Requests :
        /\ resp[r] \in {400, 409} =>
              \A f \in Files : obj[f] = r => resp[r] = 409 /\ ~arg[r].overwrite /\ resent[r] > 0
        /\ resp[r] # 0 /\ r \in open => r \in logged
        /\ r \in orphans => resp[r] = 500 \/ resent[r] > 0

\* What a client was sent is a whole upload to the file it asked for, within the size
\* limit, and one that is never answered as refused, however long the answers of the
\* two are apart; a create-only upload whose own repetition was refused excepted.
ServedIsStored ==
    \A r, u \in Requests :
        (arg[r].op \in {"read", "download"} /\ got[r] = u)
            => /\ arg[u].op = "save"
               /\ File(u) = File(r)
               /\ arg[u].size <= MaxSize
               /\ IsMultipart(u) => sent[u] = arg[u].size
               /\ resp[u] \in {400, 409} => resp[u] = 409 /\ ~arg[u].overwrite /\ resent[u] > 0

\* The steps of request r.
Moves(r) == <<pc[r], resent[r]>> # <<pc'[r], resent'[r]>>

\* overwrite=false never costs anyone a file, also when its calls are sent again:
\* a step of a create-only upload leaves every object that was there as it was.
CreateOnlyNeverDestroys ==
    [][\A r \in Requests, f \in Files :
          (arg[r].op = "save" /\ ~arg[r].overwrite /\ Moves(r))
              => obj[f] \in {NoFile, obj'[f]}]_vars

\* A digest tag that is not that of the object's content was set by a multipart
\* upload, after the fact.  The tag that put_object carries is always right.
OnlyLateTagsAreWrong ==
    \A f \in Files :
        tag[f] \notin {NoFile, obj[f]} => \E r \in Requests : tag[f] = r /\ IsMultipart(r)

\* test_s3_storage.py, test_s3_large_upload_uses_multipart_and_preserves_sha256:
\* the tag of a stored object is the digest of its content.  Checked for objects
\* whose uploads have all been answered.
TagDescribesContent ==
    \A f \in Files :
        tag[f] \notin {NoFile, obj[f]}
            => \E r \in Requests : arg[r].op = "save" /\ File(r) = f /\ resp[r] = 0

\* What the cleaner still has to remove within the bound on the clock.
Outdated(f) == Exists(f) /\ mtime[f] + MaxAge < MaxClock

\* The cleaner's delete hits whatever has the key by then, and may hit it twice.
\* An object that was there when the cycle began and had not expired survives it.
FreshSurvives ==
    [][\A f \in Files :
          (sweep.pc = "delete" /\ Exists(f) /\ ~Exists(f)' /\ UNCHANGED local)
              => mtime[f] + MaxAge < sweep.cutoff \/ sweep.cutoff <= mtime[f]]_vars

\* A cycle that no failure and no crash cuts short is thorough, on however many pages
\* and batches the objects come: what had expired when it began stays on the list
\* or among the keys to delete until it is gone.
OnlyFailuresSkip ==
    [][\A f \in sweep.rest \union sweep.keys :
          (UNCHANGED <<faults, crashes>> /\ Expired(f)')
              => f \in sweep'.rest \union sweep'.keys]_vars

\* Retention is enforced for every object, though calls fail and cycles are cut
\* short.
RetentionIsEnforced == \A f \in Files : Outdated(f) ~> ~Outdated(f)
===============================================================================
