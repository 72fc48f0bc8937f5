--------------------------- MODULE S3RefinementProofs ---------------------------
(***************************************************************************)
(* The S3 backend implements FileStore, for any requests, files, calls,    *)
(* sizes, any kinds of faults and any bounds: every step is one step of    *)
(* the abstract store, or none, and answers say what was done.             *)
(***************************************************************************)
EXTENDS S3StorageHistory, S3StorageProofs

-------------------------------------------------------------------------------
(***************************************************************************)
(* The invariant: what has been decided at which label.                    *)
(***************************************************************************)

EarlyLabels == {"exists", "buffer", "put", "create", "part"}
ReadLabels  == {"get", "head", "get_tag", "get_digest"}

\* A request that reads or deletes is at a label of its own, and has read nothing
\* while it reads.
Reading(r) ==
    /\ pc[r] = "get" => arg[r].op \in {"read", "download"}
    /\ pc[r] \in {"head", "get_tag", "get_digest"} => arg[r].op = "meta"
    /\ pc[r] \in {"probe", "delete"} => arg[r].op = "delete"
    /\ pc[r] \in ReadLabels => got[r] = NoFile

\* An upload that goes on is undecided, or was stored by a call that is sent again;
\* one that has completed or unwinds is decided.
Deciding(r) ==
    /\ pc[r] = "exists" => ~arg[r].overwrite
    /\ pc[r] \in EarlyLabels => outcome[r] \in {"none", "stored"}
    /\ pc[r] \in {"abort", "tag"} => outcome[r] # "none"
    /\ pc[r] = "part" /\ r \notin open => outcome[r] = "stored"
    /\ \A f \in Files : obj[f] = r => outcome[r] = "stored"

HInv ==
    /\ outcome = [r \in Requests |-> outcome[r]]
    /\ \A r \in Requests : Reading(r) /\ Deciding(r)

\* One step of the abstract store, or none.
Simulated == [Store!Next]_(Store!vars)

-------------------------------------------------------------------------------
\* Only the request that moves can be decided.
LEMMA OneDecides ==
    ASSUME Inv, HInv, NEW r \in Requests, RequestStep(r), Track
    PROVE  /\ outcome' = [outcome EXCEPT ![r] = outcome'[r]]
           /\ outcome' = [q \in Requests |-> outcome'[q]]
           /\ outcome'[r] = IF outcome[r] = "none" /\ Moves(r) THEN Outcome(r) ELSE outcome[r]
           /\ arg' = arg
<1>1. \A q \in Requests : q # r => ~Moves(q)
  BY OthersUnmoved DEF Unmoved, Moves
<1> DEFINE decided(q) == IF outcome[q] = "none" /\ Moves(q) THEN Outcome(q) ELSE outcome[q]
<1>2. outcome' = [q \in Requests |-> decided(q)]
  BY DEF Track
<1>3. \A q \in Requests : q # r => decided(q) = outcome[q]
  BY <1>1
<1>4. arg' = arg
  BY DEF RequestStep
<1>5. outcome'[r] = decided(r)
  BY <1>2
<1>6. outcome = [q \in Requests |-> outcome[q]]
  BY DEF HInv
<1> HIDE DEF decided
<1>7. outcome' = [outcome EXCEPT ![r] = outcome'[r]]
  BY <1>2, <1>3, <1>5, <1>6
<1>8. outcome' = [q \in Requests |-> outcome'[q]]
  BY <1>2
<1> QED
  BY <1>4, <1>5, <1>7, <1>8 DEF decided

\* What request r has read stays as it is when another request moves.
LEMMA OthersRead ==
    ASSUME TypeOK, NEW r \in Requests, RequestStep(r), NEW q \in Requests, q # r
    PROVE  got'[q] = got[q]
<1> USE DEF RequestStep
<1>1. CASE CheckExists(r) \/ Buffer(r) \/ Put(r) \/ CreateMultipart(r) \/ UploadPart(r)
           \/ RejectSize(r) \/ CompleteMultipart(r) \/ AbortMultipart(r) \/ SetTag(r)
           \/ HeadObject(r) \/ Probe(r) \/ DeleteObject(r)
  BY <1>1 DEF CheckExists, Buffer, Put, CreateMultipart, UploadPart, RejectSize,
              CompleteMultipart, AbortMultipart, SetTag, HeadObject, Probe, DeleteObject
<1>2. CASE GetObject(r) \/ GetTag(r)
  BY <1>2 DEF GetObject, GetTag, TypeOK
<1> QED
  BY <1>1, <1>2

\* A request whose step stores its object: an upload, or its repetition.
LEMMA WriteSimulates ==
    ASSUME Inv, Inv', HInv, NEW r \in Requests, RequestStep(r), Track, Moves(r),
           arg[r].op = "save", pc[r] \in EarlyLabels, pc'[r] # "exists", Precondition(r),
           obj' = [obj EXCEPT ![File(r)] = r]
    PROVE  Simulated /\ Deciding(r)'
<1>0. File(r) \in Files /\ obj'[File(r)] = r /\ arg' = arg
  BY CallTypes DEF Inv, TypeOK, RequestStep
<1>1. outcome[r] \in {"none", "stored"}
  BY DEF HInv, Deciding
<1>2. outcome'[r] = "stored" /\ outcome' = [outcome EXCEPT ![r] = "stored"]
  BY <1>0, <1>1, OneDecides DEF Outcome, SaveOutcome
<1>3. arg[r].size <= MaxSize
  BY <1>0 DEF Inv, Request, Stored
<1>4. CASE outcome[r] = "none"
  <2>1. Store!Upload(r)
    BY <1>0, <1>2, <1>3, <1>4 DEF Store!Upload, Store!Decide, Store!Held, Precondition, Exists, File
  <2> QED
    BY <1>2, <2>1 DEF Simulated, Store!Next, Deciding
<1>5. CASE outcome[r] = "stored"
  <2>1. outcome' = outcome
    BY <1>2, <1>5 DEF HInv
  <2>2. Store!Repeat(r)
    BY <1>0, <1>5, <2>1 DEF Store!Repeat, Store!Held, Precondition, Exists, File
  <2> QED
    BY <1>2, <2>2 DEF Simulated, Store!Next, Deciding
<1> QED
  BY <1>1, <1>4, <1>5

\* An upload's step that stores nothing: it goes on, or is decided against.
LEMMA KeepSimulates ==
    ASSUME Inv, Inv', HInv, NEW r \in Requests, RequestStep(r), Track,
           arg[r].op = "save", obj' = obj, pc'[r] # "exists",
           outcome[r] = "none" /\ (pend'[r] = "FileExistsError" \/ resp'[r] = 409)
              => ~arg[r].overwrite /\ Exists(File(r)),
           pc'[r] \in EarlyLabels => pc[r] \in EarlyLabels,
           pc'[r] \in {"abort", "tag"} => outcome[r] # "none" \/ (Moves(r) /\ pend'[r] # "none"),
           pc'[r] = "part" /\ r \notin open' => outcome[r] = "stored"
    PROVE  Simulated /\ Deciding(r)'
<1>0. File(r) \in Files /\ arg' = arg
  BY CallTypes DEF Inv, RequestStep
<1>1. outcome = [q \in Requests |-> outcome[q]] /\ Deciding(r)
  BY DEF HInv
<1>2. CASE outcome'[r] = outcome[r]
  <2>1. outcome' = outcome
    BY <1>1, <1>2, OneDecides
  <2>2. outcome[r] = "none" /\ Moves(r) => Outcome(r) = "none"
    BY <1>2, OneDecides
  <2>3. pc'[r] \in {"abort", "tag"} => outcome'[r] # "none"
    BY <1>0, <1>1, <1>2, <2>2 DEF Outcome, SaveOutcome, Deciding
  <2> QED
    BY <1>0, <1>1, <1>2, <2>1, <2>3 DEF Simulated, Store!vars, Deciding
<1>3. CASE outcome'[r] # outcome[r]
  <2>1. outcome[r] = "none" /\ outcome'[r] = Outcome(r) /\ obj'[File(r)] # r
    BY <1>0, <1>1, <1>3, OneDecides DEF Deciding
  <2>2. outcome' = [outcome EXCEPT ![r] = Outcome(r)]
    BY <2>1, OneDecides
  <2>3. pend'[r] # "none" \/ resp'[r] # 0
    BY <1>3, <2>1 DEF Outcome, SaveOutcome
  <2>4. pc'[r] \notin EarlyLabels
    BY <2>3 DEF Inv, Request, Control, EarlyLabels
  <2>5. Deciding(r)'
    BY <1>0, <1>1, <1>3, <2>1, <2>4 DEF Deciding, EarlyLabels
  <2>6. CASE pend'[r] = "FileExistsError" \/ resp'[r] = 409
    <3>1. Outcome(r) = "conflict"
      BY <2>1, <2>6 DEF Outcome, SaveOutcome
    <3>2. Store!Conflict(r)
      BY <1>0, <2>1, <2>2, <2>6, <3>1
      DEF Store!Conflict, Store!Decide, Store!Held, Exists, File
    <3> QED
      BY <2>5, <3>2 DEF Simulated, Store!Next
  <2>7. CASE ~ (pend'[r] = "FileExistsError" \/ resp'[r] = 409)
    <3>1. Outcome(r) = "failed"
      BY <1>3, <2>1, <2>7 DEF Outcome, SaveOutcome
    <3>2. Store!Fail(r)
      BY <1>0, <2>1, <2>2, <3>1 DEF Store!Fail, Store!Decide, Ops
    <3> QED
      BY <2>5, <3>2 DEF Simulated, Store!Next
  <2> QED
    BY <2>6, <2>7
<1> QED
  BY <1>2, <1>3

\* What Goto, Reply and Raise do to the request.
LEMMA Moved ==
    ASSUME TypeOK, NEW r \in Requests
    PROVE  /\ \A label : Goto(r, label) => pc'[r] = label /\ resp'[r] = resp[r]
           /\ \A code : Reply(r, code) => pc'[r] = "done" /\ resp'[r] = code
           /\ \A e : Raise(r, e) => pc'[r] = "abort" /\ resp'[r] = resp[r] /\ pend'[r] = e
           /\ SentAgain(r) => pc'[r] = pc[r] /\ resp'[r] = resp[r] /\ Moves(r)
<1>1. resent[r] \in Nat /\ resent \in [Requests -> 0..MaxFaults]
  BY BoundsAssumption DEF TypeOK
<1>2. SentAgain(r) => Moves(r)
  BY <1>1 DEF SentAgain, Moves
<1> QED
  BY <1>2 DEF Goto, Reply, Raise, SentAgain, TypeOK

LEMMA SaveSimulates ==
    ASSUME Inv, Inv', HInv, NEW r \in Requests, RequestStep(r), Track, arg[r].op = "save"
    PROVE  Simulated /\ Deciding(r)'
<1> DEFINE Writes == /\ Moves(r) /\ pc[r] \in EarlyLabels /\ pc'[r] # "exists" /\ Precondition(r)
                     /\ obj' = [obj EXCEPT ![File(r)] = r]
           Keeps == /\ obj' = obj /\ pc'[r] # "exists"
                    /\ outcome[r] = "none" /\ (pend'[r] = "FileExistsError" \/ resp'[r] = 409)
                         => ~arg[r].overwrite /\ Exists(File(r))
                    /\ pc'[r] \in EarlyLabels => pc[r] \in EarlyLabels
                    /\ pc'[r] \in {"abort", "tag"}
                         => outcome[r] # "none" \/ (Moves(r) /\ pend'[r] # "none")
                    /\ pc'[r] = "part" /\ r \notin open' => outcome[r] = "stored"
<1> USE DEF RequestStep
<1>0. /\ TypeOK /\ Reading(r) /\ Deciding(r) /\ Control(r)
  BY DEF Inv, Request, HInv
<1>s. SUFFICES Writes \/ Keeps
  BY WriteSimulates, KeepSimulates
<1>1. CASE CheckExists(r)
  <2>1. obj' = obj /\ pend' = pend /\ pc[r] = "exists" /\ pend[r] = "none" /\ resp[r] = 0
    BY <1>0, <1>1 DEF CheckExists, bucket, Control
  <2>2. ~arg[r].overwrite
    BY <1>0, <2>1 DEF Deciding
  <2>3. pc'[r] \in {"done", "buffer"}
    BY <1>0, <1>1, Moved DEF CheckExists
  <2>4. resp'[r] = 409 => Exists(File(r))
    BY <1>0, <1>1, <2>1, Moved, StatusTypes DEF CheckExists
  <2> QED
    BY <2>1, <2>2, <2>3, <2>4 DEF EarlyLabels
<1>2. CASE Buffer(r)
  <2>1. obj' = obj /\ pend' = pend /\ pc[r] = "buffer" /\ pend[r] = "none" /\ resp[r] = 0
    BY <1>0, <1>2 DEF Buffer, bucket, Control
  <2>2. pc'[r] \in {"done", "put", "create"} /\ resp'[r] # 409
    BY <1>0, <1>2, <2>1, Moved, StatusTypes DEF Buffer
  <2> QED
    BY <2>1, <2>2 DEF EarlyLabels
<1>3. CASE Put(r)
  <2>1. pend' = pend /\ pc[r] = "put" /\ pend[r] = "none" /\ resp[r] = 0 /\ open' = open
    BY <1>0, <1>3 DEF Put, uploads, Control
  <2>2. CASE Precondition(r) /\ PutObject(r) /\ ((\E code : Reply(r, code)) \/ SentAgain(r))
    <3>1. Moves(r) /\ pc'[r] \in {"put", "done"}
      BY <1>0, <2>1, <2>2, Moved DEF Moves
    <3> QED
      BY <2>1, <2>2, <3>1 DEF PutObject, StoreObject, EarlyLabels
  <2>3. CASE /\ UNCHANGED bucket
             /\ \/ ~Precondition(r) /\ Reply(r, UploadStatus["FileExistsError"])
                \/ Reply(r, UploadStatus["OSError"]) \/ Reply(r, UploadStatus["BotoCoreError"])
    <3>1. obj' = obj
      BY <2>3 DEF bucket
    <3>2. pc'[r] = "done" /\ (resp'[r] = 409 => ~Precondition(r))
      BY <1>0, <2>3, Moved, StatusTypes
    <3> QED
      BY <2>1, <3>1, <3>2 DEF Precondition, EarlyLabels
  <2> QED
    BY <1>3, <2>2, <2>3 DEF Put
<1>4. CASE CreateMultipart(r)
  <2>1. obj' = obj /\ pend' = pend /\ pc[r] = "create" /\ pend[r] = "none" /\ resp[r] = 0
    BY <1>0, <1>4 DEF CreateMultipart, bucket, Control
  <2>2. /\ pc'[r] \in {"done", "part", "create"} /\ resp'[r] # 409
        /\ pc'[r] = "part" => r \in open'
    BY <1>0, <1>4, <2>1, Moved, StatusTypes DEF CreateMultipart
  <2> QED
    BY <2>1, <2>2 DEF EarlyLabels
<1>5. CASE UploadPart(r) \/ RejectSize(r)
  <2>1. obj' = obj /\ pc[r] = "part" /\ pend[r] = "none" /\ resp[r] = 0 /\ open' = open
    BY <1>0, <1>5 DEF UploadPart, RejectSize, bucket, uploads, Control
  <2>2. resp'[r] = 0 /\ \/ pc'[r] = "part" /\ pend'[r] = "none"
                        \/ pc'[r] = "abort" /\ pend'[r] \in {"OSError", "BotoCoreError", "FileSizeError"}
    BY <1>0, <1>5, <2>1, Moved DEF UploadPart, RejectSize
  <2>3. pc'[r] = "abort" => Moves(r)
    BY <2>1 DEF Moves
  <2>4. r \notin open => outcome[r] = "stored"
    BY <1>0, <2>1 DEF Deciding
  <2> QED
    BY <2>1, <2>2, <2>3, <2>4 DEF EarlyLabels
<1>6. CASE CompleteMultipart(r)
  <2>1. pc[r] = "part" /\ pend[r] = "none" /\ resp[r] = 0
    BY <1>0, <1>6 DEF CompleteMultipart, Control
  <2>2. CASE Complete(r) /\ (Goto(r, "tag") \/ Raise(r, "BotoCoreError") \/ SentAgain(r))
    <3>1. Moves(r) /\ pc'[r] \in {"tag", "abort", "part"}
      BY <1>0, <2>1, <2>2, Moved DEF Moves
    <3> QED
      BY <2>1, <2>2, <3>1 DEF Complete, CompleteObject, StoreObject, EarlyLabels
  <2>3. CASE UNCHANGED <<bucket, open>> /\ CompleteTwice(r)
    <3>1. outcome[r] = "stored"
      BY <1>0, <2>1, <2>3 DEF CompleteTwice, Deciding
    <3>2. pc'[r] \in {"tag", "abort"} /\ resp'[r] = 0 /\ obj' = obj
      BY <1>0, <2>1, <2>3, Moved DEF CompleteTwice, bucket
    <3> QED
      BY <3>1, <3>2 DEF EarlyLabels
  <2>4. CASE /\ UNCHANGED <<bucket, open>>
             /\ \/ ~Precondition(r) /\ Raise(r, "FileExistsError")
                \/ Raise(r, "OSError") \/ Raise(r, "BotoCoreError")
    <3>1. /\ obj' = obj /\ pc'[r] = "abort" /\ resp'[r] = 0 /\ pend'[r] # "none"
          /\ pend'[r] = "FileExistsError" => ~Precondition(r)
      BY <1>0, <2>1, <2>4, Moved DEF bucket
    <3> QED
      BY <2>1, <3>1 DEF Precondition, Moves, EarlyLabels
  <2> QED
    BY <1>6, <2>2, <2>3, <2>4 DEF CompleteMultipart
<1>7. CASE AbortMultipart(r) \/ SetTag(r)
  <2>1. obj' = obj /\ pc[r] \in {"abort", "tag"}
    BY <1>7 DEF AbortMultipart, SetTag, TagObject, bucket
  <2>2. outcome[r] # "none"
    BY <1>0, <2>1 DEF Deciding
  <2>3. pc'[r] \in {"done", "tag"}
    BY <1>0, <1>7, <2>1, Moved DEF AbortMultipart, SetTag
  <2> QED
    BY <2>1, <2>2, <2>3 DEF EarlyLabels
<1>8. CASE GetObject(r) \/ HeadObject(r) \/ GetTag(r) \/ Probe(r) \/ DeleteObject(r)
  BY <1>0, <1>8 DEF GetObject, HeadObject, GetTag, Probe, DeleteObject, Reading
<1> QED
  BY <1>1, <1>2, <1>3, <1>4, <1>5, <1>6, <1>7, <1>8

\* A read answers for the object it finds, or for the key it finds empty.
LEMMA ReadSimulates ==
    ASSUME Inv, Inv', HInv, NEW r \in Requests, RequestStep(r), Track, pc[r] \in ReadLabels
    PROVE  Simulated /\ Reading(r)'
<1> USE DEF RequestStep
<1>0. /\ TypeOK /\ Control(r) /\ arg[r].op \in {"read", "download", "meta"} /\ got[r] = NoFile
      /\ File(r) \in Files /\ arg' = arg /\ resp[r] = 0
      /\ outcome = [q \in Requests |-> outcome[q]]
  BY CallTypes DEF Inv, Request, Control, HInv, Reading, ReadLabels
<1>1. GetObject(r) \/ HeadObject(r) \/ GetTag(r)
  BY DEF CheckExists, Buffer, Put, CreateMultipart, UploadPart, RejectSize, CompleteMultipart,
         AbortMultipart, SetTag, Probe, DeleteObject, ReadLabels
<1>2. obj' = obj
  BY <1>1 DEF GetObject, HeadObject, GetTag, bucket
<1>3. Reading(r)'
  <2>1. pc'[r] \in {"done", "get_tag", "get_digest"}
    BY <1>0, <1>1, Moved DEF GetObject, HeadObject, GetTag, NotFound, ReadFails
  <2>2. pc'[r] # "done" => arg[r].op = "meta" /\ got' = got
    BY <1>0, <1>1, Moved DEF GetObject, HeadObject, GetTag, NotFound, ReadFails, HInv, Reading
  <2> QED
    BY <1>0, <2>1, <2>2 DEF Reading, ReadLabels
<1>4. CASE outcome'[r] = outcome[r]
  BY <1>0, <1>2, <1>3, <1>4, OneDecides DEF Simulated, Store!vars
<1>5. CASE outcome'[r] # outcome[r]
  <2>1. /\ outcome[r] = "none" /\ outcome'[r] = ReadOutcome(r) /\ ReadOutcome(r) # "none"
        /\ outcome' = [outcome EXCEPT ![r] = ReadOutcome(r)]
    BY <1>0, <1>5, OneDecides DEF Outcome
  <2>2. CASE got'[r] # NoFile
    <3>1. arg[r].op \in {"read", "download"} /\ ReadOutcome(r) = got'[r]
      BY <1>0, <2>1, <2>2 DEF ReadOutcome
    <3>2. Exists(File(r)) /\ got'[r] = obj[File(r)]
      BY <1>0, <1>1, <2>2, <3>1 DEF GetObject, HeadObject, GetTag, TypeOK, HInv, Reading
    <3>3. Store!Read(r)
      BY <1>0, <1>2, <2>1, <3>1, <3>2 DEF Store!Read, Store!Decide, Store!Held, Exists, File
    <3> QED
      BY <1>3, <3>3 DEF Simulated, Store!Next
  <2>3. CASE got'[r] = NoFile /\ resp'[r] = 404
    <3>1. ReadOutcome(r) = "missing"
      BY <2>3 DEF ReadOutcome
    <3>2. ~Exists(File(r))
      BY <1>0, <1>1, <2>3, Moved, StatusTypes
      DEF GetObject, HeadObject, GetTag, NotFound, ReadFails, Aborted
    <3>3. Store!Miss(r)
      BY <1>0, <1>2, <2>1, <3>1, <3>2 DEF Store!Miss, Store!Decide, Store!Held, Exists, File
    <3> QED
      BY <1>3, <3>3 DEF Simulated, Store!Next
  <2>4. CASE got'[r] = NoFile /\ resp'[r] # 404
    <3>1. ReadOutcome(r) = "failed"
      BY <2>1, <2>4 DEF ReadOutcome
    <3>2. Store!Fail(r)
      BY <1>0, <1>2, <2>1, <3>1 DEF Store!Fail, Store!Decide, Ops
    <3> QED
      BY <1>3, <3>2 DEF Simulated, Store!Next
  <2> QED
    BY <2>2, <2>3, <2>4
<1> QED
  BY <1>4, <1>5

\* A delete looks, and then takes away whatever is there.
LEMMA DeleteSimulates ==
    ASSUME Inv, Inv', HInv, NEW r \in Requests, RequestStep(r), Track,
           pc[r] \in {"probe", "delete"}
    PROVE  Simulated /\ Reading(r)'
<1> USE DEF RequestStep
<1>0. /\ TypeOK /\ Control(r) /\ arg[r].op = "delete" /\ File(r) \in Files /\ arg' = arg
      /\ resp[r] = 0 /\ outcome = [q \in Requests |-> outcome[q]]
      /\ obj = [f \in Files |-> obj[f]]
  BY CallTypes DEF Inv, Request, Control, HInv, Reading, TypeOK
<1>1. Probe(r) \/ DeleteObject(r)
  BY DEF CheckExists, Buffer, Put, CreateMultipart, UploadPart, RejectSize, CompleteMultipart,
         AbortMultipart, SetTag, GetObject, HeadObject, GetTag
<1>2. pc'[r] \in {"delete", "done"}
  BY <1>0, <1>1, Moved DEF Probe, DeleteObject
<1>3. Reading(r)'
  BY <1>0, <1>2 DEF Reading, ReadLabels
<1>4. outcome'[r] \in {outcome[r], DeleteOutcome(r)}
      /\ (outcome'[r] # outcome[r] => outcome[r] = "none")
  BY <1>0, OneDecides DEF Outcome
<1>5. \/ obj' = obj
      \/ pc[r] = "delete" /\ Moves(r) /\ obj' = [obj EXCEPT ![File(r)] = NoFile]
  <2>1. DeleteObjects({File(r)}) => obj' = [obj EXCEPT ![File(r)] = NoFile]
    BY <1>0 DEF DeleteObjects
  <2>2. CASE (\E code : Reply(r, code)) \/ SentAgain(r)
    <3>1. pc'[r] = "done" \/ Moves(r)
      BY <1>0, <2>2, Moved
    <3> QED
      BY <1>0, <1>1, <2>1, <2>2, <3>1 DEF Probe, DeleteObject, bucket, Moves
  <2> QED
    BY <1>1, <2>2 DEF Probe, DeleteObject, bucket
<1>6. CASE obj' # obj
  <2>1. /\ pc[r] = "delete" /\ Moves(r) /\ obj' = [obj EXCEPT ![File(r)] = NoFile]
        /\ Exists(File(r))
    BY <1>0, <1>5, <1>6 DEF Exists
  <2>2. CASE outcome[r] = "none"
    <3>1. outcome' = [outcome EXCEPT ![r] = "deleted"]
      BY <1>0, <1>6, <2>1, <2>2, OneDecides DEF Outcome, DeleteOutcome
    <3>2. Store!Delete(r)
      BY <1>0, <2>1, <2>2, <3>1 DEF Store!Delete, Store!Decide, Store!Held, Exists, File
    <3> QED
      BY <1>3, <3>2 DEF Simulated, Store!Next
  <2>3. CASE outcome[r] # "none"
    <3>1. outcome' = outcome
      BY <1>0, <2>3, OneDecides
    <3>2. Store!Evict({File(r)})
      BY <1>0, <2>1, <3>1 DEF Store!Evict
    <3>3. {File(r)} \in SUBSET Files
      BY <1>0
    <3> QED
      BY <1>3, <3>2, <3>3 DEF Simulated, Store!Next
  <2> QED
    BY <2>2, <2>3
<1>7. CASE obj' = obj
  <2>1. CASE outcome'[r] = outcome[r]
    BY <1>0, <1>3, <1>7, <2>1, OneDecides DEF Simulated, Store!vars
  <2>2. CASE outcome'[r] # outcome[r]
    <3>1. /\ outcome[r] = "none" /\ DeleteOutcome(r) # "none"
          /\ outcome' = [outcome EXCEPT ![r] = DeleteOutcome(r)]
      BY <1>0, <1>4, <2>2, OneDecides
    <3>2. CASE pc[r] = "delete" /\ resp'[r] = 204
      <4>1. DeleteOutcome(r) = "deleted"
        BY <3>2 DEF DeleteOutcome
      <4>2. DeleteObjects({File(r)})
        BY <1>0, <1>1, <3>2, Moved, StatusTypes DEF Probe, DeleteObject
      <4>3. obj[File(r)] = NoFile
        BY <1>0, <1>7, <4>2 DEF DeleteObjects
      <4>4. Store!DeleteNothing(r)
        BY <1>0, <1>7, <3>1, <4>1, <4>3
        DEF Store!DeleteNothing, Store!Decide, Store!Held, File
      <4> QED
        BY <1>3, <4>4 DEF Simulated, Store!Next
    <3>3. CASE ~ (pc[r] = "delete" /\ resp'[r] = 204) /\ resp'[r] = 404
      <4>1. DeleteOutcome(r) = "missing"
        BY <1>7, <3>3 DEF DeleteOutcome
      <4>2. ~Exists(File(r))
        BY <1>0, <1>1, <3>3, Moved, StatusTypes DEF Probe, DeleteObject
      <4>3. Store!Miss(r)
        BY <1>0, <1>7, <3>1, <4>1, <4>2 DEF Store!Miss, Store!Decide, Store!Held, Exists, File
      <4> QED
        BY <1>3, <4>3 DEF Simulated, Store!Next
    <3>4. CASE ~ (pc[r] = "delete" /\ resp'[r] = 204) /\ resp'[r] # 404
      <4>1. DeleteOutcome(r) = "failed"
        BY <1>7, <3>1, <3>4 DEF DeleteOutcome
      <4>2. Store!Fail(r)
        BY <1>0, <1>7, <3>1, <4>1 DEF Store!Fail, Store!Decide, Ops
      <4> QED
        BY <1>3, <4>2 DEF Simulated, Store!Next
    <3> QED
      BY <3>2, <3>3, <3>4
  <2> QED
    BY <2>1, <2>2
<1> QED
  BY <1>6, <1>7

\* A request that does not move.
LEMMA UnmovedHistory ==
    ASSUME HInv, NEW r \in Requests, Unmoved(r), got'[r] = got[r], outcome'[r] = outcome[r]
    PROVE  Reading(r)' /\ Deciding(r)'
<1>1. Reading(r) /\ Deciding(r)
  BY DEF HInv
<1>2. Reading(r)'
  BY <1>1 DEF Unmoved, Reading
<1>3. Deciding(r)'
  BY <1>1 DEF Unmoved, Deciding
<1> QED
  BY <1>2, <1>3

LEMMA RequestSimulates ==
    ASSUME Inv, Inv', HInv, NEW r \in Requests, RequestStep(r), Track
    PROVE  Simulated /\ HInv'
<1>0. TypeOK /\ Control(r) /\ Control(r)' /\ arg' = arg
  BY DEF Inv, Request, RequestStep
<1>1. pc[r] \in SaveLabels \union ReadLabels \union {"probe", "delete"}
  BY DEF RequestStep, CheckExists, Buffer, Put, CreateMultipart, UploadPart, RejectSize,
         CompleteMultipart, AbortMultipart, SetTag, GetObject, HeadObject, GetTag, Probe,
         DeleteObject, SaveLabels, ReadLabels
<1>2. ASSUME NEW q \in Requests, q # r PROVE Reading(q)' /\ Deciding(q)'
  <2>1. Unmoved(q) /\ got'[q] = got[q]
    BY <1>0, <1>2, OthersUnmoved, OthersRead
  <2>2. outcome'[q] = outcome[q]
    BY <1>2, OneDecides DEF HInv
  <2> QED
    BY <2>1, <2>2, UnmovedHistory
<1>3. CASE pc[r] \in SaveLabels
  <2>1. arg[r].op = "save"
    BY <1>0, <1>3 DEF Control
  <2>2. Reading(r)'
    BY <1>0, <2>1 DEF Control, SaveLabels, Reading, ReadLabels
  <2> QED
    BY <1>2, <2>1, <2>2, SaveSimulates, OneDecides DEF HInv
<1>4. CASE pc[r] \in ReadLabels \union {"probe", "delete"}
  <2>1. arg[r].op # "save"
    BY <1>0, <1>4 DEF Control, SaveLabels, ReadLabels
  <2>2. Deciding(r)'
    <3>1. pc'[r] \notin SaveLabels /\ \A f \in Files : obj'[f] # r
      BY <1>0, <2>1 DEF Control, Inv, Request, Stored
    <3> QED
      BY <3>1 DEF Deciding, SaveLabels, EarlyLabels
  <2> QED
    BY <1>2, <1>4, <2>2, ReadSimulates, DeleteSimulates, OneDecides DEF HInv
<1> QED
  BY <1>1, <1>3, <1>4

\* What moves no request: the cleaner evicts, the others do nothing.
LEMMA OtherSimulates ==
    ASSUME Inv, Inv', HInv, SweepStep \/ Tick \/ ServerCrash \/ CleanerCrash, Track
    PROVE  Simulated /\ HInv'
<1>0. UNCHANGED <<uploads, local, arg>>
  BY DEF SweepStep, Tick, ServerCrash, CleanerCrash
<1>1. outcome' = outcome
  BY <1>0 DEF Track, Moves, local, HInv
<1>2. \/ obj' = obj
      \/ \E F \in SUBSET Files : obj' = [f \in Files |-> IF f \in F THEN NoFile ELSE obj[f]]
  <2>1. sweep.keys \in SUBSET Files
    BY DEF Inv, TypeOK
  <2>2. CASE SweepStep
    <3>1. UNCHANGED bucket \/ \E F \in SUBSET Files : DeleteObjects(F)
      BY <2>1, <2>2
      DEF SweepStep, SweepBegin, SweepList, SweepDelete, SweepAgain, SweepEnd, SweepFails
    <3> QED
      BY <3>1 DEF bucket, DeleteObjects
  <2>3. CASE Tick \/ ServerCrash \/ CleanerCrash
    BY <2>3 DEF Tick, ServerCrash, CleanerCrash, bucket
  <2> QED
    BY <2>2, <2>3
<1>3. Simulated
  <2>1. CASE obj' = obj
    BY <1>0, <1>1, <2>1 DEF Simulated, Store!vars
  <2>2. CASE \E F \in SUBSET Files : Store!Evict(F)
    BY <2>2 DEF Simulated, Store!Next
  <2> QED
    BY <1>0, <1>1, <1>2, <2>1, <2>2 DEF Store!Evict
<1>4. HInv'
  <2>1. ASSUME NEW f \in Files, NEW r \in Requests, obj'[f] = r PROVE obj[f] = r
    <3>1. r # NoFile
      BY FilesAssumption DEF Contents
    <3> QED
      BY <1>2, <2>1, <3>1
  <2>2. ASSUME NEW r \in Requests PROVE Reading(r)' /\ Deciding(r)'
    <3>1. Reading(r) /\ Deciding(r)
      BY DEF HInv
    <3>2. Reading(r)'
      BY <1>0, <3>1 DEF Reading, local
    <3>3. Deciding(r)'
      BY <1>0, <1>1, <2>1, <3>1 DEF Deciding, local, uploads
    <3> QED
      BY <3>2, <3>3
  <2> QED
    BY <1>1, <2>2 DEF HInv
<1> QED
  BY <1>3, <1>4

-------------------------------------------------------------------------------

LEMMA HistoryInit ==
    ASSUME HInit
    PROVE  Store!Init /\ HInv
<1>1. outcome = [r \in Requests |-> "none"] /\ Init
  BY DEF HInit
<1>2. Store!Init
  BY <1>1 DEF Store!Init, Init
<1>3. ASSUME NEW r \in Requests PROVE Reading(r) /\ Deciding(r)
  <2>1. pc[r] = FirstLabel(arg[r]) /\ got[r] = NoFile /\ outcome[r] = "none"
    BY <1>1 DEF Init
  <2>2. arg[r].op \in Ops /\ arg[r].overwrite \in BOOLEAN
    BY <1>1, CallsAssumption DEF Init
  <2>3. \A f \in Files : obj[f] # r
    BY <1>1, FilesAssumption DEF Init, Contents
  <2>4. Reading(r)
    BY <2>1, <2>2 DEF FirstLabel, Ops, Reading
  <2>5. pc[r] \in {"buffer", "exists", "get", "head", "probe"}
        /\ (pc[r] = "exists" => ~arg[r].overwrite)
    BY <2>1, <2>2 DEF FirstLabel, Ops
  <2>6. Deciding(r)
    BY <2>1, <2>3, <2>5 DEF Deciding
  <2> QED
    BY <2>4, <2>6
<1> QED
  BY <1>1, <1>2, <1>3 DEF HInv

LEMMA HistoryStep ==
    ASSUME Inv, Inv', HInv, [HNext]_hvars
    PROVE  Simulated /\ HInv'
<1>1. CASE HNext
  BY <1>1, RequestSimulates, OtherSimulates DEF HNext, Next
<1>2. CASE UNCHANGED hvars
  <2>1. UNCHANGED <<obj, arg, outcome, pc, got, open>>
    BY <1>2 DEF hvars, vars, bucket, local, uploads
  <2> QED
    BY <2>1 DEF Simulated, Store!vars, HInv, Reading, Deciding
<1> QED
  BY <1>1, <1>2

LEMMA HistoryInvariance == HSpec => [](Inv /\ HInv)
<1>1. HInit => Init /\ HInv
  BY HistoryInit DEF HInit
<1>2. [HNext]_hvars => [Next]_vars
  BY DEF HNext, hvars
<1>3. HSpec => Spec
  BY <1>1, <1>2, PTL DEF HSpec, Spec
<1>4. Inv /\ Inv' /\ HInv /\ [HNext]_hvars => HInv'
  BY HistoryStep
<1> QED
  BY <1>1, <1>3, <1>4, Invariance, PTL DEF HSpec

\* The S3 backend keeps the promise of StorageBackend, save_file to
\* cleanup_old_files: every step is one atomic step of the abstract store, or none.
THEOREM Refinement == HSpec => ImplementsFileStore
<1>1. HInit => Store!Init
  BY HistoryInit
<1>2. Inv /\ Inv' /\ HInv /\ [HNext]_hvars => [Store!Next]_(Store!vars)
  BY HistoryStep DEF Simulated
<1> QED
  BY <1>1, <1>2, HistoryInvariance, PTL DEF HSpec, ImplementsFileStore, Store!Spec

-------------------------------------------------------------------------------
(***************************************************************************)
(* The answers.  The refinement says when each request took effect; this   *)
(* says that its answer is the one for that effect.                        *)
(***************************************************************************)

\* The answer that a request has, or is about to have, is the one for its outcome.
Due(r) ==
    /\ pc[r] \in {"exists", "buffer", "create", "probe"} \union ReadLabels
          => outcome[r] = "none"
    /\ pc[r] \in {"put", "part"} /\ outcome[r] = "stored"
          => resent[r] > 0 /\ (pc[r] = "part" => sent[r] = arg[r].size)
    /\ pc[r] = "tag" => outcome[r] = "stored"
    /\ pc[r] = "delete" => outcome[r] \in {"none", "deleted"}
    /\ pc[r] = "abort" =>
          /\ pend[r] # "none"
          /\ pend[r] = "FileSizeError" => outcome[r] = "failed"
          /\ pend[r] = "FileExistsError"
                => outcome[r] = "conflict" \/ (outcome[r] = "stored" /\ resent[r] > 0)

Answer(r) ==
    /\ resp[r] = 201 => outcome[r] = "stored"
    /\ resp[r] = 204 => outcome[r] = "deleted"
    /\ resp[r] = 404 => outcome[r] = "missing"
    /\ resp[r] = 400 => outcome[r] = "failed"
    /\ resp[r] = 409 => outcome[r] = "conflict" \/ (outcome[r] = "stored" /\ resent[r] > 0)
    /\ resp[r] = 200 /\ arg[r].op # "meta" => outcome[r] = got[r] /\ got[r] # NoFile

LEMMA SaveAnswers ==
    ASSUME Inv, Inv', HInv, NEW r \in Requests, RequestStep(r), Track, Due(r), arg[r].op = "save"
    PROVE  Due(r)' /\ Answer(r)'
<1> USE DEF RequestStep
<1>0. /\ TypeOK /\ Deciding(r) /\ Control(r) /\ Reading(r) /\ arg' = arg /\ File(r) \in Files
      /\ obj \in [Files -> Contents \union {NoFile}]
      /\ resent \in [Requests -> 0..MaxFaults] /\ resent[r] \in Nat
  BY CallTypes, BoundsAssumption DEF Inv, Request, HInv, TypeOK
<1>d. outcome'[r] = IF outcome[r] = "none" /\ Moves(r) THEN SaveOutcome(r) ELSE outcome[r]
  BY OneDecides DEF Outcome
<1>n. outcome[r] = "none" => obj[File(r)] # r
  BY <1>0 DEF Deciding
<1>1. CASE CheckExists(r) \/ Buffer(r)
  <2>1. obj' = obj /\ pend'[r] = "none" /\ outcome[r] = "none" /\ resp[r] = 0
        /\ pc[r] \in {"exists", "buffer"}
    BY <1>0, <1>1 DEF CheckExists, Buffer, bucket, Control, Due
  <2>2. \/ pc'[r] = "done" /\ resp'[r] \in {400, 409, 500}
        \/ pc'[r] \in {"buffer", "put", "create"} /\ pc'[r] # pc[r] /\ resp'[r] = 0
    BY <1>0, <1>1, <2>1, Moved, StatusTypes DEF CheckExists, Buffer
  <2>3. outcome'[r] = IF resp'[r] = 409 THEN "conflict"
                      ELSE IF resp'[r] \in {400, 500} THEN "failed" ELSE "none"
    BY <1>d, <1>n, <2>1, <2>2 DEF Moves, SaveOutcome
  <2> QED
    BY <2>1, <2>2, <2>3 DEF Due, Answer, ReadLabels
<1>2. CASE Put(r)
  <2>1. pc[r] = "put" /\ pend'[r] = "none" /\ resp[r] = 0 /\ outcome[r] \in {"none", "stored"}
    BY <1>0, <1>2 DEF Put, Control, Deciding, EarlyLabels
  <2>2. CASE PutObject(r) /\ (Reply(r, 201) \/ Reply(r, 500) \/ SentAgain(r))
    <3>1. Moves(r) /\ obj'[File(r)] = r
      BY <1>0, <2>1, <2>2, Moved DEF PutObject, StoreObject, Moves
    <3>2. outcome'[r] = "stored"
      BY <1>d, <2>1, <3>1 DEF SaveOutcome
    <3>3. \/ pc'[r] = "done" /\ resp'[r] \in {201, 500}
          \/ pc'[r] = "put" /\ resp'[r] = 0 /\ resent'[r] > 0
      BY <1>0, <2>1, <2>2, Moved DEF SentAgain
    <3> QED
      BY <3>2, <3>3 DEF Due, Answer, ReadLabels
  <2>3. CASE UNCHANGED bucket /\ Answered /\ Reply(r, 409)
    <3>1. obj' = obj /\ resent' = resent /\ pc'[r] = "done" /\ resp'[r] = 409 /\ Moves(r)
      BY <1>0, <2>1, <2>3, Moved DEF bucket, Answered, Moves
    <3>2. outcome'[r] = "conflict" \/ (outcome'[r] = "stored" /\ resent'[r] > 0)
      BY <1>d, <1>n, <2>1, <3>1 DEF SaveOutcome, Due
    <3> QED
      BY <3>1, <3>2 DEF Due, Answer, ReadLabels
  <2>4. CASE Reply(r, 500)
    BY <1>0, <2>4, Moved DEF Due, Answer, ReadLabels
  <2> QED
    BY <1>2, <2>2, <2>3, <2>4, StatusTypes DEF Put
<1>3. CASE CreateMultipart(r)
  <2>1. /\ pc[r] = "create" /\ pend'[r] = "none" /\ resp[r] = 0 /\ outcome[r] = "none"
        /\ obj' = obj
    BY <1>0, <1>3 DEF CreateMultipart, Control, Due, bucket
  <2>2. \/ pc'[r] = "done" /\ resp'[r] = 500
        \/ pc'[r] \in {"create", "part"} /\ resp'[r] = 0
    BY <1>0, <1>3, <2>1, Moved, StatusTypes DEF CreateMultipart
  <2>3. resp'[r] = 0 => outcome'[r] = "none"
    BY <1>d, <1>n, <2>1 DEF SaveOutcome
  <2> QED
    BY <2>1, <2>2, <2>3 DEF Due, Answer, ReadLabels
<1>4. CASE UploadPart(r) \/ RejectSize(r)
  <2>1. /\ pc[r] = "part" /\ resp[r] = 0 /\ sent[r] < arg[r].size /\ obj' = obj
        /\ pend[r] = "none"
    BY <1>0, <1>4 DEF UploadPart, RejectSize, Control, bucket
  <2>2. outcome[r] = "none"
    BY <1>0, <2>1, CallTypes, BoundsAssumption DEF Due, Deciding, EarlyLabels, TypeOK
  <2>3. CASE RejectSize(r)
    <3>1. pc'[r] = "abort" /\ resp'[r] = 0 /\ pend'[r] = "FileSizeError" /\ Moves(r)
      BY <1>0, <2>1, <2>3, Moved DEF RejectSize, Moves
    <3>2. outcome'[r] = "failed"
      BY <1>d, <1>n, <2>1, <2>2, <3>1 DEF SaveOutcome
    <3> QED
      BY <3>1, <3>2 DEF Due, Answer, ReadLabels
  <2>4. CASE UploadPart(r) /\ \/ Raise(r, "OSError") \/ Raise(r, "BotoCoreError")
    <3>1. pc'[r] = "abort" /\ resp'[r] = 0 /\ pend'[r] \in {"OSError", "BotoCoreError"}
      BY <1>0, <2>1, <2>4, Moved
    <3> QED
      BY <3>1 DEF Due, Answer, ReadLabels
  <2>5. CASE Answered /\ UNCHANGED <<pc, pend, resp>>
    <3>1. outcome'[r] = "none"
      BY <1>d, <2>2, <2>5 DEF Answered, Moves
    <3> QED
      BY <2>1, <2>5, <3>1 DEF Due, Answer, ReadLabels
  <2> QED
    BY <1>4, <2>3, <2>4, <2>5 DEF UploadPart
<1>5. CASE CompleteMultipart(r)
  <2>1. /\ pc[r] = "part" /\ resp[r] = 0 /\ sent' = sent /\ sent[r] = arg[r].size
        /\ pend[r] = "none" /\ outcome[r] \in {"none", "stored"}
    BY <1>0, <1>5 DEF CompleteMultipart, Control, Deciding, EarlyLabels
  <2>2. CASE Complete(r) /\ (Goto(r, "tag") \/ Raise(r, "BotoCoreError") \/ SentAgain(r))
    <3>1. Moves(r) /\ obj'[File(r)] = r
      BY <1>0, <2>1, <2>2, Moved DEF Complete, CompleteObject, StoreObject, Moves
    <3>2. outcome'[r] = "stored"
      BY <1>d, <2>1, <3>1 DEF SaveOutcome
    <3>3. \/ pc'[r] = "tag" /\ resp'[r] = 0
          \/ pc'[r] = "abort" /\ resp'[r] = 0 /\ pend'[r] = "BotoCoreError"
          \/ pc'[r] = "part" /\ resp'[r] = 0 /\ resent'[r] > 0
      BY <1>0, <2>1, <2>2, Moved DEF SentAgain
    <3> QED
      BY <1>0, <2>1, <3>2, <3>3 DEF Due, Answer, ReadLabels
  <2>3. CASE UNCHANGED bucket /\ Answered /\ Raise(r, "FileExistsError")
    <3>1. /\ obj' = obj /\ resent' = resent /\ pc'[r] = "abort" /\ resp'[r] = 0 /\ Moves(r)
          /\ pend'[r] = "FileExistsError"
      BY <1>0, <2>1, <2>3, Moved DEF bucket, Answered, Moves
    <3>2. outcome'[r] = "conflict" \/ (outcome'[r] = "stored" /\ resent'[r] > 0)
      BY <1>d, <1>n, <2>1, <3>1 DEF SaveOutcome, Due
    <3> QED
      BY <3>1, <3>2 DEF Due, Answer, ReadLabels
  <2>4. CASE Raise(r, "OSError") \/ Raise(r, "BotoCoreError")
    <3>1. pc'[r] = "abort" /\ resp'[r] = 0 /\ pend'[r] \in {"OSError", "BotoCoreError"}
      BY <1>0, <2>1, <2>4, Moved
    <3> QED
      BY <3>1 DEF Due, Answer, ReadLabels
  <2>5. CASE CompleteTwice(r) /\ Goto(r, "tag")
    <3>1. pc'[r] = "tag" /\ resp'[r] = 0 /\ outcome'[r] = "stored"
      BY <1>0, <1>d, <2>1, <2>5, Moved DEF CompleteTwice, Deciding
    <3> QED
      BY <3>1 DEF Due, Answer, ReadLabels
  <2> QED
    BY <1>5, <2>2, <2>3, <2>4, <2>5 DEF CompleteMultipart, CompleteTwice
<1>6. CASE AbortMultipart(r)
  <2>1. pc[r] = "abort" /\ outcome'[r] = outcome[r] /\ resent' = resent
    BY <1>0, <1>6, <1>d DEF AbortMultipart, AbortUpload, Deciding, Answered, Fault
  <2>2. pc'[r] = "done" /\ resp'[r] = UploadStatus[pend[r]]
    BY <1>0, <1>6, Moved DEF AbortMultipart
  <2>3. pend[r] \in Failures /\ pend[r] # "none"
    BY <1>0, <2>1 DEF Due, TypeOK
  <2> QED
    BY <2>1, <2>2, <2>3, StatusTypes DEF Due, Answer, ReadLabels, Failures
<1>7. CASE SetTag(r)
  <2>1. pc[r] = "tag" /\ outcome'[r] = "stored" /\ resp[r] = 0
    BY <1>0, <1>7, <1>d DEF SetTag, Due, Control
  <2>2. \/ pc'[r] = "done" /\ resp'[r] \in {201, 500}
        \/ pc'[r] = "tag" /\ resp'[r] = 0
    BY <1>0, <1>7, <2>1, Moved, StatusTypes DEF SetTag
  <2> QED
    BY <2>1, <2>2 DEF Due, Answer, ReadLabels
<1> QED
  BY <1>0, <1>1, <1>2, <1>3, <1>4, <1>5, <1>6, <1>7
     DEF GetObject, HeadObject, GetTag, Probe, DeleteObject, Reading

LEMMA FindAnswers ==
    ASSUME Inv, Inv', HInv, NEW r \in Requests, RequestStep(r), Track, Due(r), arg[r].op # "save"
    PROVE  Due(r)' /\ Answer(r)'
<1> USE DEF RequestStep
<1>0. /\ TypeOK /\ Deciding(r) /\ Control(r) /\ Reading(r) /\ arg' = arg /\ File(r) \in Files
  BY CallTypes DEF Inv, Request, HInv
<1>d. outcome'[r] = IF outcome[r] = "none" /\ Moves(r) THEN Outcome(r) ELSE outcome[r]
  BY OneDecides
<1>1. CASE GetObject(r)
  <2>1. /\ pc[r] \in {"get", "get_digest"} /\ outcome[r] = "none" /\ got[r] = NoFile
        /\ arg[r].op \in {"read", "download", "meta"}
    BY <1>0, <1>1 DEF GetObject, Due, ReadLabels, Reading
  <2>2. /\ pc'[r] = "done"
        /\ \/ resp'[r] = 200 /\ got'[r] # NoFile
           \/ resp'[r] = Aborted /\ got'[r] # NoFile
           \/ resp'[r] \in {404, 500} /\ got'[r] = NoFile
    BY <1>0, <1>1, <2>1, Moved, StatusTypes
       DEF GetObject, NotFound, ReadFails, Exists, TypeOK
  <2>3. outcome'[r] = ReadOutcome(r)
    BY <1>d, <2>1, <2>2 DEF Moves, Outcome
  <2> QED
    BY <1>0, <2>1, <2>2, <2>3 DEF ReadOutcome, Due, Answer, ReadLabels, Aborted
<1>2. CASE HeadObject(r) \/ GetTag(r)
  <2>1. /\ pc[r] \in {"head", "get_tag"} /\ outcome[r] = "none" /\ got[r] = NoFile
        /\ arg[r].op = "meta" /\ resp[r] = 0
    BY <1>0, <1>2 DEF HeadObject, GetTag, Due, ReadLabels, Reading, Control
  <2>2. \/ pc'[r] \in {"get_tag", "get_digest"} /\ resp'[r] = 0 /\ got'[r] = NoFile
        \/ pc'[r] = "done" /\ resp'[r] \in {404, 500} /\ got'[r] = NoFile
        \/ pc'[r] = "done" /\ resp'[r] = 200
    BY <1>0, <1>2, <2>1, Moved, StatusTypes DEF HeadObject, GetTag, NotFound, ReadFails
  <2>3. outcome'[r] \in {"none", ReadOutcome(r)} /\ (pc'[r] = "done" => outcome'[r] = ReadOutcome(r))
    BY <1>d, <2>1 DEF Moves, Outcome
  <2> QED
    BY <1>0, <2>1, <2>2, <2>3 DEF ReadOutcome, Due, Answer, ReadLabels
<1>3. CASE Probe(r)
  <2>1. pc[r] = "probe" /\ outcome[r] = "none" /\ arg[r].op = "delete" /\ resp[r] = 0
        /\ obj' = obj
    BY <1>0, <1>3 DEF Probe, Due, Reading, Control, bucket
  <2>2. \/ pc'[r] = "delete" /\ resp'[r] = 0
        \/ pc'[r] = "done" /\ resp'[r] \in {404, 500}
    BY <1>0, <1>3, <2>1, Moved, StatusTypes DEF Probe
  <2>3. outcome'[r] = DeleteOutcome(r)
    BY <1>d, <2>1, <2>2 DEF Moves, Outcome
  <2> QED
    BY <2>1, <2>2, <2>3 DEF DeleteOutcome, Due, Answer, ReadLabels
<1>4. CASE DeleteObject(r)
  <2>1. pc[r] = "delete" /\ outcome[r] \in {"none", "deleted"} /\ arg[r].op = "delete"
        /\ resp[r] = 0
    BY <1>0, <1>4 DEF DeleteObject, Due, Reading, Control
  <2>2. \/ pc'[r] = "delete" /\ resp'[r] = 0
        \/ pc'[r] = "done" /\ resp'[r] \in {204, 500}
    BY <1>0, <1>4, <2>1, Moved, StatusTypes DEF DeleteObject
  <2>3. /\ outcome'[r] \in {"none", "deleted"} \/ outcome'[r] = DeleteOutcome(r)
        /\ resp'[r] = 204 => outcome'[r] = "deleted"
    BY <1>d, <2>1, <2>2 DEF Moves, Outcome, DeleteOutcome
  <2> QED
    BY <2>1, <2>2, <2>3 DEF DeleteOutcome, Due, Answer, ReadLabels
<1>5. pc[r] \notin SaveLabels
  BY <1>0 DEF Control
<1> QED
  BY <1>1, <1>2, <1>3, <1>4, <1>5
     DEF CheckExists, Buffer, Put, CreateMultipart, UploadPart, RejectSize, CompleteMultipart,
         AbortMultipart, SetTag, SaveLabels

LEMMA UnmovedAnswer ==
    ASSUME NEW r \in Requests, Due(r), Answer(r), Unmoved(r), got'[r] = got[r],
           outcome'[r] = outcome[r]
    PROVE  Due(r)' /\ Answer(r)'
BY DEF Unmoved, Due, Answer

Answers == \A r \in Requests : Due(r) /\ Answer(r)

LEMMA InitAnswers ==
    ASSUME HInit
    PROVE  Answers
<1>1. ASSUME NEW r \in Requests PROVE Due(r) /\ Answer(r)
  <2>1. pc[r] = FirstLabel(arg[r]) /\ resp[r] = 0 /\ outcome[r] = "none"
    BY DEF HInit, Init
  <2>2. pc[r] \in {"buffer", "exists", "get", "head", "probe"}
    BY <2>1, CallsAssumption DEF HInit, Init, FirstLabel, Ops
  <2> QED
    BY <2>1, <2>2 DEF Due, Answer
<1> QED
  BY <1>1 DEF Answers

LEMMA AnswersStep ==
    ASSUME Inv, Inv', HInv, Answers, [HNext]_hvars
    PROVE  Answers'
<1>1. ASSUME NEW r \in Requests, RequestStep(r), Track, NEW q \in Requests
      PROVE  Due(q)' /\ Answer(q)'
  <2>1. Due(q) /\ Answer(q)
    BY DEF Answers
  <2>2. CASE q = r
    BY <1>1, <2>1, <2>2, SaveAnswers, FindAnswers
  <2>3. CASE q # r
    <3>1. Unmoved(q) /\ got'[q] = got[q]
      BY <1>1, <2>3, OthersUnmoved, OthersRead DEF Inv
    <3>2. outcome'[q] = outcome[q]
      BY <1>1, <2>3, OneDecides DEF HInv
    <3> QED
      BY <2>1, <3>1, <3>2, UnmovedAnswer
  <2> QED
    BY <2>2, <2>3
<1>2. CASE UNCHANGED <<local, arg>> /\ outcome' = outcome
  BY <1>2 DEF Answers, Due, Answer, local
<1>3. SweepStep \/ Tick \/ ServerCrash \/ CleanerCrash => UNCHANGED <<local, arg>>
  BY DEF SweepStep, Tick, ServerCrash, CleanerCrash
<1>4. UNCHANGED local /\ Track => outcome' = outcome
  BY DEF Track, Moves, local, HInv
<1>5. UNCHANGED hvars => UNCHANGED <<local, arg>> /\ outcome' = outcome
  BY DEF hvars, vars
<1> QED
  BY <1>1, <1>2, <1>3, <1>4, <1>5 DEF Answers, HNext, Next

\* What is answered is what was done: 201 for an upload that was stored at one moment,
\* 409 for one that met an object, 404 for a key that was empty, and so on.
THEOREM AnswersDescribeOutcomes == HSpec => []AnswersAreTrue
<1>1. HInit => Answers
  BY InitAnswers
<1>2. Inv /\ Inv' /\ HInv /\ Answers /\ [HNext]_hvars => Answers'
  BY AnswersStep
<1>3. Answers => AnswersAreTrue
  BY DEF Answers, Answer, AnswersAreTrue
<1> QED
  BY <1>1, <1>2, <1>3, HistoryInvariance, PTL DEF HSpec
===============================================================================
