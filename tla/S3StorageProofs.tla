---------------------------- MODULE S3StorageProofs ----------------------------
(***************************************************************************)
(* Proofs about S3Storage, for any requests, files, calls and thresholds,  *)
(* any kinds of faults and any bounds.                                     *)
(***************************************************************************)
EXTENDS S3Storage, TLAPS

-------------------------------------------------------------------------------
\* The parts of the inductive invariant.

SaveLabels == {"exists", "buffer", "put", "create", "part", "abort", "tag"}

\* A request is at a label of its own operation and size, has an answer exactly
\* when it is done, and knows why it unwinds.
Control(r) ==
    /\ pc[r] \in SaveLabels => arg[r].op = "save"
    /\ arg[r].op = "save" => pc[r] \in SaveLabels \union {"done"}
    /\ pc[r] = "done" <=> resp[r] # 0
    /\ pc[r] = "put" => arg[r].size < Threshold /\ arg[r].size <= MaxSize
    /\ pc[r] \in {"create", "part", "abort", "tag"} => arg[r].size >= Threshold
    /\ pend[r] # "none" => pc[r] \in {"abort", "done"}
    /\ pend[r] = "FileSizeError" => sent[r] < arg[r].size
    /\ pend[r] = "FileExistsError" => ~arg[r].overwrite
    /\ resent[r] <= faults

\* What it means that the upload r is visible under f.
Stored(r, f) ==
    /\ arg[r].op = "save"
    /\ f = File(r)
    /\ arg[r].size <= MaxSize
    /\ IsMultipart(r) => /\ sent[r] = arg[r].size
                         /\ r \notin open
                         /\ pc[r] \in {"part", "abort", "tag", "done"}
    /\ ~IsMultipart(r) => pc[r] \in {"put", "done"}
    /\ \/ pc[r] \in {"put", "part"}
       \/ pc[r] = "abort" /\ pend[r] = "FileExistsError"
       => resent[r] > 0
    /\ resp[r] \in {400, 409} => resp[r] = 409 /\ ~arg[r].overwrite /\ resent[r] > 0

\* A multipart upload is open only while its request works on it, unless its
\* abort was logged; its id is unknown only where its creation failed.
Multipart(r) ==
    /\ r \in open => pc[r] \in {"part", "abort"} \/ r \in logged
    /\ r \in orphans => resp[r] = 500 \/ resent[r] > 0

Request(r) ==
    /\ Control(r)
    /\ \A f \in Files : obj[f] = r => Stored(r, f)
    /\ Multipart(r)

\* What the cleaner has marked was expired when it was listed, or has been
\* replaced since.
Marked ==
    /\ sweep.cutoff <= clock
    /\ \A f \in sweep.keys : mtime[f] + MaxAge < sweep.cutoff \/ sweep.cutoff <= mtime[f]

Inv ==
    /\ TypeOK
    /\ \A r \in Requests : Request(r)
    /\ OnlyLateTagsAreWrong
    /\ Marked
-------------------------------------------------------------------------------
\* Facts about calls and statuses.

LEMMA StatusTypes ==
    /\ UploadStatus["none"] = 201
    /\ UploadStatus["FileExistsError"] = 409
    /\ UploadStatus["FileSizeError"] = 400
    /\ UploadStatus["OSError"] = 500
    /\ UploadStatus["ClientError"] = 500
    /\ UploadStatus["BotoCoreError"] = 500
    /\ ReadStatus["none"] = 200
    /\ ReadStatus["FileNotFoundError"] = 404
    /\ ReadStatus["ClientError"] = 500
    /\ ReadStatus["BotoCoreError"] = 500
    /\ DeleteStatus["none"] = 204
    /\ DeleteStatus["FileNotFoundError"] = 404
    /\ DeleteStatus["ClientError"] = 500
    /\ DeleteStatus["BotoCoreError"] = 500
    /\ {200, 201, 204, 400, 404, 409, 500, Aborted} \subseteq Codes
    /\ {200, 201, 204, 400, 404, 409, 500, Aborted} \subseteq Nat \ {0}
<1>1. /\ UploadStatus["none"] = 201
      /\ UploadStatus["FileExistsError"] = 409
      /\ UploadStatus["FileSizeError"] = 400
      /\ UploadStatus["OSError"] = 500
      /\ UploadStatus["ClientError"] = 500
      /\ UploadStatus["BotoCoreError"] = 500
  BY DEF UploadStatus, UploadError, UploadCode
<1>2. /\ ReadStatus["none"] = 200
      /\ ReadStatus["FileNotFoundError"] = 404
      /\ ReadStatus["ClientError"] = 500
      /\ ReadStatus["BotoCoreError"] = 500
  BY DEF ReadStatus, LookupError, ReadCode
<1>3. /\ DeleteStatus["none"] = 204
      /\ DeleteStatus["FileNotFoundError"] = 404
      /\ DeleteStatus["ClientError"] = 500
      /\ DeleteStatus["BotoCoreError"] = 500
  BY DEF DeleteStatus, LookupError, DeleteCode
<1> QED
  BY <1>1, <1>2, <1>3 DEF Codes, Aborted

LEMMA CallTypes ==
    ASSUME TypeOK, NEW r \in Requests
    PROVE  /\ arg[r].op \in Ops
           /\ File(r) \in Files
           /\ arg[r].overwrite \in BOOLEAN
           /\ arg[r].size \in Nat
<1>1. arg[r] \in [op : Ops, file : Files, overwrite : BOOLEAN, size : Nat]
  BY CallsAssumption DEF TypeOK
<1> QED
  BY <1>1 DEF File

\* Where a request is done, or goes on, and what the call may have met.
LEMMA ReplyType ==
    ASSUME TypeOK, NEW r \in Requests, NEW code \in Codes, Reply(r, code)
    PROVE  /\ pc' \in [Requests -> Labels]
           /\ resp' \in [Requests -> Codes \union {0}]
BY DEF TypeOK, Reply, Labels

LEMMA GotoType ==
    ASSUME TypeOK, NEW r \in Requests, NEW label \in Labels, Goto(r, label)
    PROVE  /\ pc' \in [Requests -> Labels]
           /\ resp' \in [Requests -> Codes \union {0}]
BY DEF TypeOK, Goto

LEMMA FaultType ==
    ASSUME TypeOK, NEW r \in Requests, \A q \in Requests : resent[q] <= faults,
           \/ Answered
           \/ \E kinds \in SUBSET {"refused", "lost", "late", "again"} : Fault(kinds)
           \/ SentAgain(r)
    PROVE  /\ faults' \in 0..MaxFaults
           /\ resent' \in [Requests -> 0..MaxFaults]
           /\ faults <= faults'
           /\ resent'[r] <= faults'
           /\ \A q \in Requests : q # r => resent'[q] = resent[q]
<1>1. MaxFaults \in Nat
  BY BoundsAssumption
<1>2. CASE Answered
  BY <1>1, <1>2 DEF TypeOK, Answered
<1>3. CASE \E kinds \in SUBSET {"refused", "lost", "late", "again"} : Fault(kinds)
  BY <1>1, <1>3 DEF TypeOK, Fault, FaultOf
<1>4. CASE SentAgain(r)
  BY <1>1, <1>4 DEF TypeOK, SentAgain, FaultOf
<1> QED
  BY <1>2, <1>3, <1>4
-------------------------------------------------------------------------------
(***************************************************************************)
(* Type correctness of a request's step.                                   *)
(***************************************************************************)

\* The types of what a request's step changes.
BucketOK ==
    /\ obj \in [Files -> Contents \union {NoFile}]
    /\ tag \in [Files -> Contents \union {NoFile}]
    /\ mtime \in [Files -> 0..MaxClock]

UploadsOK == open \subseteq Requests /\ logged \subseteq Requests /\ orphans \subseteq Requests

CoroutinesOK ==
    /\ pc \in [Requests -> Labels]
    /\ pend \in [Requests -> Failures \union {"none"}]
    /\ resp \in [Requests -> Codes \union {0}]
    /\ sent \in [Requests -> 0..MaxSize]
    /\ got \in [Requests -> Contents \union {NoFile}]
    /\ resent \in [Requests -> 0..MaxFaults]
    /\ faults \in 0..MaxFaults

LEMMA StoreTypes ==
    ASSUME BucketOK, clock \in 0..MaxClock,
           NEW f \in Files, NEW content \in Contents, NEW digest \in Contents \union {NoFile}
    PROVE  /\ StoreObject(f, content, digest) => BucketOK'
           /\ \A F : DeleteObjects(F) => BucketOK'
BY DEF BucketOK, StoreObject, DeleteObjects

LEMMA BucketStep ==
    ASSUME TypeOK, NEW r \in Requests, RequestStep(r)
    PROVE  BucketOK'
<1> USE DEF RequestStep
<1>0. BucketOK /\ File(r) \in Files /\ r \in Contents /\ clock \in 0..MaxClock
  BY CallTypes DEF TypeOK, BucketOK, Contents
<1>1. CASE UNCHANGED bucket
  BY <1>0, <1>1 DEF bucket, BucketOK
<1>2. CASE StoreObject(File(r), r, r) \/ StoreObject(File(r), r, NoFile)
  BY <1>0, <1>2, StoreTypes
<1>3. CASE DeleteObjects({File(r)})
  BY <1>0, <1>3, StoreTypes
<1>4. CASE TagObject(r)
  BY <1>0, <1>4 DEF BucketOK, TagObject
<1>5. CASE Put(r)
  BY <1>1, <1>2, <1>5 DEF Put, PutObject
<1>6. CASE CompleteMultipart(r)
  BY <1>1, <1>2, <1>6 DEF CompleteMultipart, Complete, CompleteObject, bucket
<1>7. CASE SetTag(r)
  BY <1>1, <1>4, <1>7 DEF SetTag
<1>8. CASE DeleteObject(r)
  BY <1>1, <1>3, <1>8 DEF DeleteObject
<1>9. CASE CheckExists(r) \/ Buffer(r) \/ CreateMultipart(r) \/ UploadPart(r) \/ RejectSize(r)
           \/ AbortMultipart(r) \/ GetObject(r) \/ HeadObject(r) \/ GetTag(r) \/ Probe(r)
  BY <1>1, <1>9 DEF CheckExists, Buffer, CreateMultipart, UploadPart, RejectSize,
                    AbortMultipart, GetObject, HeadObject, GetTag, Probe
<1> QED
  BY <1>5, <1>6, <1>7, <1>8, <1>9

LEMMA UploadsStep ==
    ASSUME TypeOK, NEW r \in Requests, RequestStep(r)
    PROVE  UploadsOK'
<1> USE DEF RequestStep
<1>0. UploadsOK
  BY DEF TypeOK, UploadsOK
<1>1. CASE UNCHANGED uploads
  BY <1>0, <1>1 DEF uploads, UploadsOK
<1>2. CASE CreateMultipart(r)
  BY <1>0, <1>2 DEF CreateMultipart, UploadsOK
<1>3. CASE CompleteMultipart(r)
  BY <1>0, <1>3 DEF CompleteMultipart, Complete, CompleteObject, UploadsOK
<1>4. CASE AbortMultipart(r)
  BY <1>0, <1>4 DEF AbortMultipart, AbortUpload, UploadsOK
<1>5. CASE CheckExists(r) \/ Buffer(r) \/ Put(r) \/ UploadPart(r) \/ RejectSize(r) \/ SetTag(r)
           \/ GetObject(r) \/ HeadObject(r) \/ GetTag(r) \/ Probe(r) \/ DeleteObject(r)
  BY <1>1, <1>5 DEF CheckExists, Buffer, Put, UploadPart, RejectSize, SetTag,
                    GetObject, HeadObject, GetTag, Probe, DeleteObject
<1> QED
  BY <1>2, <1>3, <1>4, <1>5

\* Every step of a request has one of these outcomes, with the store having
\* answered or failed.
LEMMA CallOutcome ==
    ASSUME NEW r \in Requests, RequestStep(r)
    PROVE  \/ Answered
           \/ \E kinds \in SUBSET {"refused", "lost", "late", "again"} : Fault(kinds)
           \/ SentAgain(r)
<1> DEFINE Faults == {{"refused"}, {"lost"}, {"late"}, {"lost", "late"}, {"refused", "lost"},
                      {"late", "again"}}
<1> USE DEF RequestStep
<1>1. (\E kinds \in Faults : Fault(kinds))
         => \E kinds \in SUBSET {"refused", "lost", "late", "again"} : Fault(kinds)
  OBVIOUS
<1> SUFFICES Answered \/ SentAgain(r) \/ \E kinds \in Faults : Fault(kinds)
  BY <1>1
<1>2. CASE CheckExists(r) \/ Buffer(r) \/ Put(r)
  BY <1>2 DEF CheckExists, Buffer, Put
<1>3. CASE CreateMultipart(r) \/ UploadPart(r) \/ RejectSize(r)
  BY <1>3 DEF CreateMultipart, UploadPart, RejectSize
<1>4. CASE CompleteMultipart(r) \/ AbortMultipart(r) \/ SetTag(r)
  BY <1>4 DEF CompleteMultipart, CompleteTwice, AbortMultipart, AbortUpload, SetTag
<1>5. CASE GetObject(r) \/ HeadObject(r) \/ GetTag(r)
  BY <1>5 DEF GetObject, HeadObject, GetTag, NotFound, ReadFails
<1>6. CASE Probe(r) \/ DeleteObject(r)
  BY <1>6 DEF Probe, DeleteObject
<1> QED
  BY <1>2, <1>3, <1>4, <1>5, <1>6

\* What a step leaves of the label, the answer and the rest of the local state.
LEMMA CoroutinesStep ==
    ASSUME Inv, NEW r \in Requests, RequestStep(r)
    PROVE  CoroutinesOK'
<1> USE DEF RequestStep
<1>0. /\ TypeOK /\ r \in Contents /\ MaxSize \in Nat
      /\ \A q \in Requests : resent[q] <= faults
      /\ File(r) \in Files /\ arg[r].size \in Nat
  BY CallTypes, BoundsAssumption DEF Inv, Request, Control, Contents
<1>f. faults' \in 0..MaxFaults /\ resent' \in [Requests -> 0..MaxFaults]
  BY <1>0, CallOutcome, FaultType
<1> DEFINE Proceeds ==
              \/ UNCHANGED <<pc, resp>>
              \/ \E label \in Labels : Goto(r, label)
              \/ \E code \in Codes : Reply(r, code)
<1>p. ASSUME Proceeds
      PROVE  pc' \in [Requests -> Labels] /\ resp' \in [Requests -> Codes \union {0}]
  <2>1. CASE UNCHANGED <<pc, resp>>
    BY <1>0, <2>1 DEF TypeOK
  <2> QED
    BY <1>0, <1>p, <2>1, GotoType, ReplyType
<1> SUFFICES /\ Proceeds
             /\ pend' \in [Requests -> Failures \union {"none"}]
             /\ sent' \in [Requests -> 0..MaxSize]
             /\ got' \in [Requests -> Contents \union {NoFile}]
  BY <1>f, <1>p DEF CoroutinesOK
<1>k. UNCHANGED <<pend, sent, got>> =>
         /\ pend' \in [Requests -> Failures \union {"none"}]
         /\ sent' \in [Requests -> 0..MaxSize]
         /\ got' \in [Requests -> Contents \union {NoFile}]
  BY <1>0 DEF TypeOK
<1>1. CASE CheckExists(r)
  BY <1>1, <1>k, StatusTypes DEF CheckExists, Labels
<1>2. CASE Buffer(r)
  BY <1>2, <1>k, StatusTypes DEF Buffer, Labels
<1>3. CASE Put(r)
  BY <1>3, <1>k, StatusTypes DEF Put, SentAgain
<1>4. CASE CreateMultipart(r)
  BY <1>4, <1>k, StatusTypes DEF CreateMultipart, SentAgain, Labels
<1>r. ASSUME NEW e \in {"OSError", "BotoCoreError", "FileSizeError", "FileExistsError"}, Raise(r, e)
      PROVE  Proceeds /\ pend' \in [Requests -> Failures \union {"none"}]
  BY <1>0, <1>r DEF Raise, TypeOK, Labels, Failures
<1>5. CASE UploadPart(r)
  <2>1. sent' \in [Requests -> 0..MaxSize] /\ UNCHANGED got
    BY <1>0, <1>5 DEF UploadPart, TooLarge, TypeOK
  <2>2. Proceeds /\ pend' \in [Requests -> Failures \union {"none"}]
    <3>1. CASE UNCHANGED <<pc, pend, resp>>
      BY <1>0, <3>1 DEF TypeOK
    <3> QED
      BY <1>5, <1>r, <3>1 DEF UploadPart
  <2> QED
    BY <1>0, <2>1, <2>2 DEF TypeOK
<1>6. CASE RejectSize(r)
  BY <1>0, <1>6, <1>r DEF RejectSize, TypeOK
<1>7. CASE CompleteMultipart(r)
  <2>1. UNCHANGED <<sent, got>>
    BY <1>7 DEF CompleteMultipart
  <2>2. Proceeds /\ pend' \in [Requests -> Failures \union {"none"}]
    <3>1. CASE UNCHANGED pend /\ (Goto(r, "tag") \/ UNCHANGED <<pc, resp>>)
      BY <1>0, <3>1 DEF TypeOK, Labels
    <3> QED
      BY <1>7, <1>r, <3>1 DEF CompleteMultipart, CompleteTwice, SentAgain
  <2> QED
    BY <1>0, <2>1, <2>2 DEF TypeOK
<1>8. CASE AbortMultipart(r)
  <2>1. UploadStatus[pend[r]] \in Codes
    BY <1>0, StatusTypes DEF TypeOK, Failures
  <2> QED
    BY <1>8, <1>k, <2>1 DEF AbortMultipart
<1>9. CASE SetTag(r)
  BY <1>9, <1>k, StatusTypes DEF SetTag, SentAgain
<1>10. CASE GetObject(r)
  <2>1. got' \in [Requests -> Contents \union {NoFile}] /\ UNCHANGED <<pend, sent>>
    BY <1>0, <1>10 DEF GetObject, TypeOK
  <2> QED
    BY <1>0, <1>10, <2>1, StatusTypes DEF GetObject, NotFound, ReadFails, TypeOK
<1>11. CASE HeadObject(r)
  BY <1>11, <1>k, StatusTypes DEF HeadObject, NotFound, ReadFails, Labels
<1>12. CASE GetTag(r)
  <2>1. got' \in [Requests -> Contents \union {NoFile}] /\ UNCHANGED <<pend, sent>>
    BY <1>0, <1>12 DEF GetTag, TypeOK
  <2>2. Proceeds
    BY <1>12, StatusTypes DEF GetTag, Labels
  <2> QED
    BY <1>0, <2>1, <2>2 DEF TypeOK
<1>13. CASE Probe(r)
  BY <1>13, <1>k, StatusTypes DEF Probe, Labels
<1>14. CASE DeleteObject(r)
  BY <1>14, <1>k, StatusTypes DEF DeleteObject, SentAgain
<1> QED
  BY <1>1, <1>2, <1>3, <1>4, <1>5, <1>6, <1>7, <1>8, <1>9, <1>10, <1>11, <1>12, <1>13, <1>14

LEMMA TypeStep ==
    ASSUME Inv, NEW r \in Requests, RequestStep(r)
    PROVE  TypeOK'
<1>1. TypeOK
  BY DEF Inv
<1>2. BucketOK' /\ UploadsOK' /\ CoroutinesOK'
  BY <1>1, BucketStep, UploadsStep, CoroutinesStep
<1>3. UNCHANGED <<clock, arg, dead, crashes, sweep>>
  BY DEF RequestStep
<1> QED
  BY <1>1, <1>2, <1>3 DEF TypeOK, BucketOK, UploadsOK, CoroutinesOK
-------------------------------------------------------------------------------
(***************************************************************************)
(* What one request's step means for the others, for the digest tags, and  *)
(* for itself.                                                             *)
(***************************************************************************)

\* What a step does to the object, the tag and the time of a file f.
Kept(f)        == obj'[f] = obj[f] /\ tag'[f] = tag[f] /\ mtime'[f] = mtime[f]
Overwritten(r, f) ==
    /\ f = File(r) /\ obj'[f] = r /\ tag'[f] \in {r, NoFile} /\ mtime'[f] = clock
    /\ pc[r] \in {"put", "part"} /\ Precondition(r)
Removed(r, f)  ==
    /\ obj'[f] = NoFile /\ tag'[f] = NoFile /\ mtime'[f] = mtime[f]
    /\ pc[r] = "delete" /\ <<pc'[r], resent'[r]>> # <<pc[r], resent[r]>>
Tagged(r, f)   ==
    /\ obj'[f] = obj[f] /\ tag'[f] \in {r, NoFile} /\ mtime'[f] = mtime[f]
    /\ pc[r] = "tag"

LEMMA BucketChange ==
    ASSUME TypeOK, NEW r \in Requests, RequestStep(r), NEW f \in Files
    PROVE  Kept(f) \/ Overwritten(r, f) \/ Removed(r, f) \/ Tagged(r, f)
<1> USE DEF RequestStep
<1>0. /\ obj \in [Files -> Contents \union {NoFile}]
      /\ tag \in [Files -> Contents \union {NoFile}]
      /\ mtime \in [Files -> 0..MaxClock]
      /\ File(r) \in Files
  BY CallTypes DEF TypeOK
<1>1. UNCHANGED bucket => Kept(f)
  BY DEF bucket, Kept
<1>2. ASSUME StoreObject(File(r), r, r) \/ StoreObject(File(r), r, NoFile),
             pc[r] \in {"put", "part"}, Precondition(r)
      PROVE  Kept(f) \/ Overwritten(r, f)
  BY <1>0, <1>2 DEF StoreObject, Kept, Overwritten
<1>3. ASSUME DeleteObjects({File(r)}), pc[r] = "delete",
             <<pc'[r], resent'[r]>> # <<pc[r], resent[r]>>
      PROVE  Kept(f) \/ Removed(r, f)
  BY <1>0, <1>3 DEF DeleteObjects, Kept, Removed
<1>4. ASSUME TagObject(r), pc[r] = "tag" PROVE Kept(f) \/ Tagged(r, f)
  BY <1>0, <1>4 DEF TagObject, Kept, Tagged
<1>5. CASE Put(r)
  BY <1>1, <1>2, <1>5 DEF Put, PutObject
<1>6. CASE CompleteMultipart(r)
  BY <1>1, <1>2, <1>6 DEF CompleteMultipart, Complete, CompleteObject, bucket
<1>7. CASE SetTag(r)
  BY <1>1, <1>4, <1>7 DEF SetTag
<1>8. CASE DeleteObject(r)
  <2>1. ASSUME DeleteObjects({File(r)}) PROVE <<pc'[r], resent'[r]>> # <<pc[r], resent[r]>>
    <3>1. pc[r] = "delete" /\ pc \in [Requests -> Labels] /\ resent[r] \in Nat
          /\ resent \in [Requests -> 0..MaxFaults]
      BY <1>8, BoundsAssumption DEF DeleteObject, TypeOK
    <3>2. CASE \E code : Reply(r, code)
      BY <3>1, <3>2 DEF Reply
    <3>3. CASE SentAgain(r)
      BY <3>1, <3>3 DEF SentAgain
    <3>4. CASE UNCHANGED bucket
      BY <1>8, <3>2, <3>3 DEF DeleteObject
    <3> QED
      BY <1>8, <3>2, <3>3, <3>4 DEF DeleteObject
  <2> QED
    BY <1>1, <1>3, <1>8, <2>1 DEF DeleteObject
<1>9. CASE CheckExists(r) \/ Buffer(r) \/ CreateMultipart(r) \/ UploadPart(r) \/ RejectSize(r)
           \/ AbortMultipart(r) \/ GetObject(r) \/ HeadObject(r) \/ GetTag(r) \/ Probe(r)
  BY <1>1, <1>9 DEF CheckExists, Buffer, CreateMultipart, UploadPart, RejectSize,
                    AbortMultipart, GetObject, HeadObject, GetTag, Probe
<1> QED
  BY <1>5, <1>6, <1>7, <1>8, <1>9

\* A request that does not move.
Unmoved(r) ==
    /\ pc'[r] = pc[r] /\ pend'[r] = pend[r] /\ resp'[r] = resp[r]
    /\ sent'[r] = sent[r] /\ resent'[r] = resent[r] /\ arg'[r] = arg[r]
    /\ r \in open' <=> r \in open
    /\ r \in logged' <=> r \in logged
    /\ r \in orphans' <=> r \in orphans
    /\ \A f \in Files : obj'[f] = r => obj[f] = r
    /\ faults <= faults'

LEMMA UnmovedRequest ==
    ASSUME TypeOK, TypeOK', NEW r \in Requests, Request(r), Unmoved(r)
    PROVE  Request(r)'
<1>1. resent[r] \in Nat /\ faults \in Nat /\ faults' \in Nat
  BY BoundsAssumption DEF TypeOK
<1>2. Control(r)'
  BY <1>1 DEF Request, Control, Unmoved
<1>3. Multipart(r)'
  BY DEF Request, Multipart, Unmoved
<1>4. ASSUME NEW f \in Files, obj'[f] = r PROVE Stored(r, f)'
  BY <1>4 DEF Request, Stored, Unmoved, File, IsMultipart
<1> QED
  BY <1>2, <1>3, <1>4 DEF Request

LEMMA OthersUnmoved ==
    ASSUME Inv, NEW q \in Requests, RequestStep(q), NEW r \in Requests, r # q
    PROVE  Unmoved(r)
<1> USE DEF RequestStep
<1>0. /\ TypeOK /\ \A p \in Requests : resent[p] <= faults
      /\ NoFile # r
  BY FilesAssumption DEF Inv, Request, Control, Contents
<1>1. faults <= faults' /\ resent'[r] = resent[r]
  BY <1>0, CallOutcome, FaultType
<1>2. \A f \in Files : obj'[f] = r => obj[f] = r
  BY <1>0, BucketChange DEF Kept, Overwritten, Removed, Tagged
<1>3. arg' = arg
  OBVIOUS
<1>4. /\ \A label : Goto(q, label) => pc'[r] = pc[r] /\ resp'[r] = resp[r]
      /\ \A code : Reply(q, code) => pc'[r] = pc[r] /\ resp'[r] = resp[r]
      /\ SentAgain(q) => pc'[r] = pc[r] /\ resp'[r] = resp[r]
      /\ \A e : Raise(q, e) => pc'[r] = pc[r] /\ resp'[r] = resp[r] /\ pend'[r] = pend[r]
  BY <1>0 DEF Goto, Reply, SentAgain, Raise, TypeOK
<1> SUFFICES /\ pc'[r] = pc[r] /\ pend'[r] = pend[r] /\ resp'[r] = resp[r] /\ sent'[r] = sent[r]
             /\ r \in open' <=> r \in open
             /\ r \in logged' <=> r \in logged
             /\ r \in orphans' <=> r \in orphans
  BY <1>1, <1>2, <1>3 DEF Unmoved
<1>5. CASE CheckExists(q) \/ Buffer(q) \/ Put(q) \/ SetTag(q) \/ Probe(q) \/ DeleteObject(q)
  BY <1>4, <1>5 DEF CheckExists, Buffer, Put, SetTag, Probe, DeleteObject, uploads
<1>6. CASE CreateMultipart(q)
  BY <1>4, <1>6 DEF CreateMultipart
<1>7. CASE UploadPart(q) \/ RejectSize(q)
  BY <1>0, <1>4, <1>7 DEF UploadPart, RejectSize, uploads, TypeOK
<1>8. CASE CompleteMultipart(q)
  BY <1>4, <1>8 DEF CompleteMultipart, CompleteTwice, Complete, CompleteObject
<1>9. CASE AbortMultipart(q)
  BY <1>4, <1>9 DEF AbortMultipart, AbortUpload
<1>10. CASE GetObject(q) \/ HeadObject(q) \/ GetTag(q)
  BY <1>4, <1>10 DEF GetObject, HeadObject, GetTag, NotFound, ReadFails, uploads
<1> QED
  BY <1>5, <1>6, <1>7, <1>8, <1>9, <1>10

\* The request's own part of the invariant.  "stays" collects what its actions
\* have in common.
LEMMA OwnStep ==
    ASSUME Inv, TypeOK', NEW r \in Requests, RequestStep(r)
    PROVE  Request(r)'
<1> USE DEF RequestStep
<1>0. /\ TypeOK /\ Control(r) /\ Multipart(r)
      /\ \A f \in Files : obj[f] = r => Stored(r, f)
      /\ NoFile # r
  BY FilesAssumption DEF Inv, Request, Contents
<1>t. /\ arg' = arg /\ arg[r].size \in Nat /\ arg[r].op \in Ops /\ arg[r].overwrite \in BOOLEAN
      /\ resent[r] \in Nat /\ resent'[r] \in Nat /\ faults \in Nat /\ faults' \in Nat
      /\ sent[r] \in Nat /\ MaxSize \in Nat /\ Threshold \in Nat
      /\ pc[r] \in Labels /\ pend[r] \in Failures \union {"none"} /\ resp[r] \in Codes \union {0}
  BY <1>0, CallTypes, BoundsAssumption DEF TypeOK
<1>n. resent'[r] <= faults' /\ resent'[r] >= resent[r]
  <2>1. resent'[r] <= faults'
    BY <1>0, CallOutcome, FaultType DEF Inv, Request, Control
  <2>2. resent'[r] >= resent[r]
    BY <1>0, <1>t, CallOutcome DEF Answered, Fault, SentAgain, TypeOK
  <2> QED
    BY <2>1, <2>2
<1>g. /\ \A label : Goto(r, label) => pc'[r] = label /\ resp'[r] = resp[r]
      /\ \A code : Reply(r, code) => pc'[r] = "done" /\ resp'[r] = code
      /\ SentAgain(r) => /\ pc'[r] = pc[r] /\ resp'[r] = resp[r]
                         /\ resent'[r] > 0
      /\ \A e : Raise(r, e) => pc'[r] = "abort" /\ resp'[r] = resp[r] /\ pend'[r] = e
  BY <1>0, <1>t DEF Goto, Reply, SentAgain, Raise, TypeOK
<1>i. IsMultipart(r)' = IsMultipart(r) /\ File(r)' = File(r)
  BY DEF IsMultipart, File
<1>1. CASE CheckExists(r)
  <2>1. /\ pc[r] = "exists" /\ resp[r] = 0 /\ arg[r].op = "save"
        /\ UNCHANGED <<obj, open, orphans, pend, sent, logged>>
    BY <1>0, <1>1 DEF CheckExists, Control, SaveLabels, bucket, uploads
  <2>2. \A f \in Files : obj[f] # r
    BY <1>0, <2>1 DEF Stored
  <2>3. \/ pc'[r] = "buffer" /\ resp'[r] = 0
        \/ pc'[r] = "done" /\ resp'[r] # 0
    BY <1>1, <1>g, <2>1, StatusTypes DEF CheckExists
  <2>4. Control(r)'
    BY <1>0, <1>t, <1>n, <2>1, <2>3 DEF Control, SaveLabels
  <2>5. Multipart(r)'
    BY <1>0, <1>t, <1>n, <2>1, <2>3 DEF Multipart
  <2> QED
    BY <2>1, <2>2, <2>4, <2>5 DEF Request
<1>2. CASE Buffer(r)
  <2>1. /\ pc[r] = "buffer" /\ resp[r] = 0 /\ arg[r].op = "save"
        /\ UNCHANGED <<obj, open, orphans, pend, sent, logged>>
    BY <1>0, <1>2 DEF Buffer, Control, SaveLabels, bucket, uploads
  <2>2. \A f \in Files : obj[f] # r
    BY <1>0, <2>1 DEF Stored
  <2>3. \/ pc'[r] = "put" /\ resp'[r] = 0 /\ arg[r].size < Threshold /\ arg[r].size <= MaxSize
        \/ pc'[r] = "create" /\ resp'[r] = 0 /\ arg[r].size >= Threshold
        \/ pc'[r] = "done" /\ resp'[r] # 0
    BY <1>2, <1>g, <1>t, <2>1, StatusTypes DEF Buffer, InitialSize
  <2>4. Control(r)'
    BY <1>0, <1>t, <1>n, <2>1, <2>3 DEF Control, SaveLabels
  <2>5. Multipart(r)'
    BY <1>0, <1>t, <1>n, <2>1, <2>3 DEF Multipart
  <2> QED
    BY <2>1, <2>2, <2>4, <2>5 DEF Request
<1>3. CASE Put(r)
  <2>1. /\ pc[r] = "put" /\ resp[r] = 0 /\ arg[r].op = "save"
        /\ arg[r].size < Threshold /\ arg[r].size <= MaxSize
        /\ UNCHANGED <<open, orphans, pend, sent, logged>>
    BY <1>0, <1>3 DEF Put, Control, SaveLabels, uploads
  <2>2. ~IsMultipart(r)
    BY <1>t, <2>1 DEF IsMultipart
  <2>3. \/ pc'[r] = "put" /\ resp'[r] = 0 /\ resent'[r] > 0
        \/ pc'[r] = "done" /\ resp'[r] \in {201, 500}
        \/ pc'[r] = "done" /\ resp'[r] = 409 /\ ~Precondition(r) /\ obj' = obj
    BY <1>3, <1>g, <2>1, StatusTypes DEF Put, bucket
  <2>4. Control(r)'
    BY <1>0, <1>t, <1>n, <2>1, <2>3 DEF Control, SaveLabels
  <2>5. Multipart(r)'
    BY <1>0, <1>t, <1>n, <2>1, <2>3 DEF Multipart
  <2>6. ASSUME NEW f \in Files, obj'[f] = r PROVE Stored(r, f)'
    <3>1. f = File(r)
      <4>1. obj[f] = r \/ f = File(r)
        BY <1>0, <2>6, BucketChange DEF Kept, Overwritten, Removed, Tagged
      <4> QED
        BY <1>0, <4>1 DEF Stored
    <3>2. CASE pc'[r] = "done" /\ resp'[r] = 409 /\ ~Precondition(r) /\ obj' = obj
      <4>1. resent[r] > 0 /\ ~arg[r].overwrite
        BY <1>0, <2>1, <2>6, <3>2 DEF Stored, Precondition
      <4> QED
        BY <1>i, <1>t, <1>n, <2>1, <2>2, <3>1, <3>2, <4>1 DEF Stored
    <3> QED
      BY <1>i, <1>t, <2>1, <2>2, <2>3, <3>1, <3>2 DEF Stored
  <2> QED
    BY <2>4, <2>5, <2>6 DEF Request
<1>4. CASE CreateMultipart(r)
  <2>1. /\ pc[r] = "create" /\ resp[r] = 0 /\ arg[r].op = "save" /\ arg[r].size >= Threshold
        /\ UNCHANGED <<obj, pend, sent, logged>>
    BY <1>0, <1>4 DEF CreateMultipart, Control, SaveLabels, bucket
  <2>2. \A f \in Files : obj[f] # r
    BY <1>0, <1>t, <2>1 DEF Stored, IsMultipart
  <2>3. \/ pc'[r] = "part" /\ resp'[r] = 0 /\ UNCHANGED orphans
        \/ pc'[r] = "done" /\ resp'[r] = 500 /\ UNCHANGED open
        \/ pc'[r] = "create" /\ resp'[r] = 0 /\ resent'[r] > 0 /\ UNCHANGED open
    BY <1>4, <1>g, <2>1, StatusTypes DEF CreateMultipart
  <2>4. Control(r)'
    BY <1>0, <1>t, <1>n, <2>1, <2>3 DEF Control, SaveLabels
  <2>5. Multipart(r)'
    BY <1>0, <1>t, <1>n, <2>1, <2>3 DEF Multipart
  <2> QED
    BY <2>1, <2>2, <2>4, <2>5 DEF Request
<1> DEFINE Parting == /\ resp[r] = 0 /\ arg[r].op = "save" /\ arg[r].size >= Threshold
                      /\ IsMultipart(r)
<1>m. ASSUME pc[r] \in {"part", "abort", "tag"} PROVE Parting
  BY <1>0, <1>m DEF Control, SaveLabels, IsMultipart
<1>5. CASE UploadPart(r) \/ RejectSize(r)
  <2>1. /\ pc[r] = "part" /\ Parting /\ sent[r] < arg[r].size
        /\ UNCHANGED <<obj, open, orphans, logged>>
    BY <1>5, <1>m DEF UploadPart, RejectSize, bucket, uploads
  <2>2. \A f \in Files : obj[f] # r
    BY <1>0, <1>t, <2>1 DEF Stored
  <2>3. \/ pc'[r] = "part" /\ resp'[r] = 0 /\ pend'[r] = pend[r] /\ sent'[r] = sent[r] + 1
        \/ pc'[r] = "abort" /\ resp'[r] = 0 /\ sent'[r] = sent[r]
           /\ pend'[r] \in {"OSError", "BotoCoreError", "FileSizeError"}
    BY <1>0, <1>5, <1>g, <2>1 DEF UploadPart, RejectSize, TypeOK
  <2>4. Control(r)'
    BY <1>0, <1>t, <1>n, <2>1, <2>3 DEF Control, SaveLabels
  <2>5. Multipart(r)'
    BY <1>0, <1>t, <1>n, <2>1, <2>3 DEF Multipart
  <2> QED
    BY <2>1, <2>2, <2>4, <2>5 DEF Request
<1>6. CASE CompleteMultipart(r)
  <2>1. /\ pc[r] = "part" /\ Parting /\ sent[r] = arg[r].size /\ pend[r] = "none"
        /\ UNCHANGED <<sent, orphans, logged>>
    BY <1>0, <1>6, <1>m DEF CompleteMultipart, Control
  <2>2. resp'[r] = 0 /\ \/ pc'[r] = "tag" /\ pend'[r] = "none" /\ r \notin open'
                        \/ pc'[r] = "part" /\ pend'[r] = "none" /\ resent'[r] > 0
                        \/ pc'[r] = "abort" /\ pend'[r] \in {"OSError", "BotoCoreError"}
                        \/ pc'[r] = "abort" /\ pend'[r] = "FileExistsError"
                           /\ ~Precondition(r) /\ obj' = obj
    BY <1>6, <1>g, <2>1 DEF CompleteMultipart, CompleteTwice, Complete, CompleteObject, bucket
  <2>3. Control(r)'
    BY <1>0, <1>t, <1>n, <2>1, <2>2 DEF Control, SaveLabels, Precondition
  <2>4. Multipart(r)'
    <3>1. r \in open' => r \in open
      BY <1>6 DEF CompleteMultipart, CompleteTwice, Complete, CompleteObject
    <3> QED
      BY <1>0, <1>t, <1>n, <2>1, <2>2, <3>1 DEF Multipart
  <2>5. ASSUME NEW f \in Files, obj'[f] = r PROVE Stored(r, f)'
    <3>1. f = File(r)
      <4>1. obj[f] = r \/ f = File(r)
        BY <1>0, <2>5, BucketChange DEF Kept, Overwritten, Removed, Tagged
      <4> QED
        BY <1>0, <4>1 DEF Stored
    <3>2. r \notin open'
      <4>1. CASE obj' = obj
        BY <1>0, <1>6, <2>1, <2>5, <4>1
        DEF Stored, CompleteMultipart, CompleteTwice, Complete, CompleteObject
      <4>2. CASE CompleteObject(r)
        BY <4>2 DEF CompleteObject
      <4> QED
        BY <1>6, <4>1, <4>2 DEF CompleteMultipart, Complete, bucket
    <3>4. arg[r].size <= MaxSize
      BY <1>0, <1>t, <2>1 DEF TypeOK
    <3>3. CASE pend'[r] = "FileExistsError" /\ ~Precondition(r) /\ obj' = obj
      <4>1. resent[r] > 0
        BY <1>0, <2>1, <2>5, <3>3 DEF Stored
      <4> QED
        BY <1>i, <1>t, <1>n, <2>1, <2>2, <3>1, <3>2, <3>3, <3>4, <4>1 DEF Stored
    <3> QED
      BY <1>i, <1>t, <2>1, <2>2, <3>1, <3>2, <3>3, <3>4 DEF Stored
  <2> QED
    BY <2>3, <2>4, <2>5 DEF Request
<1>7. CASE AbortMultipart(r)
  <2>1. /\ pc[r] = "abort" /\ Parting
        /\ UNCHANGED <<obj, pend, sent, orphans>>
    BY <1>7, <1>m DEF AbortMultipart, bucket
  <2>2. pc'[r] = "done" /\ resp'[r] = UploadStatus[pend[r]]
    BY <1>7, <1>g DEF AbortMultipart
  <2>3. /\ resp'[r] # 0
        /\ resp'[r] = 400 => pend[r] = "FileSizeError"
        /\ resp'[r] = 409 => pend[r] = "FileExistsError"
    BY <1>t, <2>2, StatusTypes DEF Failures
  <2>4. Control(r)'
    BY <1>0, <1>t, <1>n, <2>1, <2>2, <2>3 DEF Control, SaveLabels
  <2>5. Multipart(r)'
    <3>1. r \in open' => r \in logged'
      BY <1>7 DEF AbortMultipart, AbortUpload
    <3>2. r \in orphans => resent[r] > 0
      BY <1>0, <2>1 DEF Multipart
    <3> QED
      BY <1>t, <1>n, <2>1, <3>1, <3>2 DEF Multipart
  <2>6. ASSUME NEW f \in Files, obj'[f] = r PROVE Stored(r, f)'
    <3>1. Stored(r, f)
      BY <1>0, <2>1, <2>6
    <3>2. r \notin open'
      BY <1>7, <2>1, <3>1 DEF Stored, AbortMultipart, AbortUpload
    <3>3. pend[r] # "FileSizeError"
      BY <1>0, <1>t, <2>1, <3>1 DEF Stored, Control
    <3>4. pend[r] = "FileExistsError" => resent[r] > 0 /\ ~arg[r].overwrite
      BY <1>0, <2>1, <3>1 DEF Stored, Control
    <3> QED
      BY <1>i, <1>t, <1>n, <2>1, <2>2, <2>3, <3>1, <3>2, <3>3, <3>4 DEF Stored
  <2> QED
    BY <2>4, <2>5, <2>6 DEF Request
<1>8. CASE SetTag(r)
  <2>1. /\ pc[r] = "tag" /\ Parting
        /\ UNCHANGED <<obj, pend, sent, open, logged, orphans>>
    BY <1>8, <1>m DEF SetTag, TagObject, bucket, uploads
  <2>2. \/ pc'[r] = "done" /\ resp'[r] \in {201, 500}
        \/ pc'[r] = "tag" /\ resp'[r] = 0
    BY <1>8, <1>g, <2>1, StatusTypes DEF SetTag
  <2>3. Control(r)'
    BY <1>0, <1>t, <1>n, <2>1, <2>2 DEF Control, SaveLabels
  <2>4. Multipart(r)'
    BY <1>0, <1>t, <1>n, <2>1, <2>2 DEF Multipart
  <2>5. ASSUME NEW f \in Files, obj'[f] = r PROVE Stored(r, f)'
    BY <1>0, <1>i, <1>t, <1>n, <2>1, <2>2, <2>5 DEF Stored
  <2> QED
    BY <2>3, <2>4, <2>5 DEF Request
<1>9. CASE GetObject(r) \/ HeadObject(r) \/ GetTag(r) \/ Probe(r) \/ DeleteObject(r)
  <2>1. /\ pc[r] \notin SaveLabels \union {"done"} /\ resp[r] = 0
        /\ UNCHANGED <<pend, sent, open, logged, orphans>>
    BY <1>0, <1>9
    DEF GetObject, HeadObject, GetTag, Probe, DeleteObject, Control, SaveLabels, uploads
  <2>2. arg[r].op # "save"
    BY <1>0, <2>1 DEF Control
  <2>3. \A f \in Files : obj'[f] # r
    <3>1. \A f \in Files : obj[f] # r
      BY <1>0, <2>2 DEF Stored
    <3> QED
      BY <1>0, <2>1, <3>1, BucketChange DEF Kept, Overwritten, Removed, Tagged, SaveLabels
  <2>4. \/ pc'[r] \notin SaveLabels \union {"done"} /\ resp'[r] = 0
        \/ pc'[r] = "done" /\ resp'[r] # 0
    BY <1>9, <1>g, <2>1, StatusTypes
    DEF GetObject, HeadObject, GetTag, Probe, DeleteObject, NotFound, ReadFails, SaveLabels
  <2>5. Control(r)'
    BY <1>0, <1>t, <1>n, <2>1, <2>2, <2>4 DEF Control, SaveLabels
  <2>6. Multipart(r)'
    BY <1>0, <1>t, <1>n, <2>1 DEF Multipart, SaveLabels
  <2> QED
    BY <2>3, <2>5, <2>6 DEF Request
<1> QED
  BY <1>1, <1>2, <1>3, <1>4, <1>5, <1>6, <1>7, <1>8, <1>9

\* A tag that is set is the one of a multipart upload, or goes with its content.
LEMMA TagsStep ==
    ASSUME Inv, NEW r \in Requests, RequestStep(r)
    PROVE  OnlyLateTagsAreWrong'
<1>0. TypeOK /\ Control(r) /\ OnlyLateTagsAreWrong /\ arg' = arg
  BY DEF Inv, Request, RequestStep
<1> SUFFICES ASSUME NEW f \in Files, tag'[f] \notin {NoFile, obj'[f]}
             PROVE  \E q \in Requests : tag'[f] = q /\ IsMultipart(q)
  BY <1>0 DEF OnlyLateTagsAreWrong, IsMultipart
<1>1. CASE Kept(f)
  BY <1>0, <1>1 DEF Kept, OnlyLateTagsAreWrong
<1>2. CASE Tagged(r, f)
  <2>1. IsMultipart(r)
    BY <1>0, <1>2 DEF Control, Tagged, SaveLabels, IsMultipart
  <2> QED
    BY <1>2, <2>1 DEF Tagged
<1>3. CASE Overwritten(r, f) \/ Removed(r, f)
  BY <1>3 DEF Overwritten, Removed
<1> QED
  BY <1>0, <1>1, <1>2, <1>3, BucketChange

LEMMA RequestPreserves ==
    ASSUME Inv, NEW q \in Requests, RequestStep(q)
    PROVE  Inv'
<1>1. TypeOK /\ TypeOK' /\ Marked
  BY TypeStep DEF Inv
<1>2. \A r \in Requests : Request(r)'
  <2> SUFFICES ASSUME NEW r \in Requests PROVE Request(r)'
    OBVIOUS
  <2>1. CASE r = q
    BY <1>1, <2>1, OwnStep
  <2>2. CASE r # q
    BY <1>1, <2>2, OthersUnmoved, UnmovedRequest DEF Inv
  <2> QED
    BY <2>1, <2>2
<1>3. OnlyLateTagsAreWrong'
  BY TagsStep
<1>4. Marked'
  <2>1. UNCHANGED <<clock, sweep>>
    BY DEF RequestStep
  <2>2. \A f \in Files : mtime'[f] \in {mtime[f], clock}
    BY <1>1, BucketChange DEF Kept, Overwritten, Removed, Tagged
  <2>3. sweep.keys \in SUBSET Files
    BY <1>1 DEF TypeOK
  <2> QED
    BY <1>1, <2>1, <2>2, <2>3 DEF Marked
<1> QED
  BY <1>1, <1>2, <1>3, <1>4 DEF Inv
-------------------------------------------------------------------------------
(***************************************************************************)
(* The cleaner, the clock and the crashes.                                 *)
(***************************************************************************)

\* What is left to show where no request moves and objects only go.
LEMMA QuietStep ==
    ASSUME Inv, TypeOK', UNCHANGED <<uploads, local, arg>>, faults <= faults',
           \A f \in Files : \/ obj'[f] = obj[f] /\ tag'[f] = tag[f]
                            \/ obj'[f] = NoFile /\ tag'[f] = NoFile,
           Marked'
    PROVE  Inv'
<1>1. TypeOK /\ NoFile \notin Requests
  BY FilesAssumption DEF Inv, Contents
<1>2. \A r \in Requests : Unmoved(r)
  BY <1>1 DEF uploads, local, Unmoved
<1>3. \A r \in Requests : Request(r)'
  BY <1>1, <1>2, UnmovedRequest DEF Inv
<1>4. OnlyLateTagsAreWrong'
  BY DEF Inv, OnlyLateTagsAreWrong, IsMultipart
<1> QED
  BY <1>3, <1>4 DEF Inv

LEMMA SweepPreserves ==
    ASSUME Inv, SweepStep
    PROVE  Inv'
<1>0. /\ TypeOK /\ Marked /\ UNCHANGED <<uploads, local, clock, arg, dead, crashes>>
      /\ clock \in 0..MaxClock /\ MaxClock \in Nat /\ MaxFaults \in Nat /\ MaxAge \in Nat
      /\ faults \in 0..MaxFaults
      /\ mtime \in [Files -> 0..MaxClock]
  BY BoundsAssumption DEF Inv, SweepStep, TypeOK
<1>s. /\ sweep.pc \in {"sleep", "list", "delete"} /\ sweep.cutoff \in 0..MaxClock
      /\ sweep.rest \in SUBSET Files /\ sweep.keys \in SUBSET Files
      /\ sweep \in [pc : {"sleep", "list", "delete"}, cutoff : 0..MaxClock,
                    rest : SUBSET Files, keys : SUBSET Files]
  BY <1>0 DEF TypeOK
<1> DEFINE Gone == \A f \in Files : \/ obj'[f] = obj[f] /\ tag'[f] = tag[f]
                                    \/ obj'[f] = NoFile /\ tag'[f] = NoFile
           Store == BucketOK' /\ Gone /\ UNCHANGED mtime
           Failing == faults' \in 0..MaxFaults /\ faults <= faults'
           Cycle == /\ sweep' \in [pc : {"sleep", "list", "delete"}, cutoff : 0..MaxClock,
                                   rest : SUBSET Files, keys : SUBSET Files]
                    /\ sweep'.cutoff <= clock
                    /\ \A f \in sweep'.keys : mtime[f] + MaxAge < sweep'.cutoff
                                              \/ sweep'.cutoff <= mtime[f]
<1>1. ASSUME Store, Failing, Cycle PROVE Inv'
  <2>1. TypeOK'
    BY <1>0, <1>1 DEF TypeOK, BucketOK, uploads, local
  <2>2. Marked'
    BY <1>0, <1>1 DEF Marked
  <2> QED
    BY <1>0, <1>1, <2>1, <2>2, QuietStep
<1>2. UNCHANGED bucket => Store
  BY <1>0 DEF bucket, BucketOK, TypeOK
<1>3. \A F : DeleteObjects(F) => Store
  <2> SUFFICES ASSUME NEW F, DeleteObjects(F) PROVE Store
    OBVIOUS
  <2>1. BucketOK
    BY <1>0 DEF TypeOK, BucketOK
  <2> QED
    BY <1>0, <2>1 DEF DeleteObjects, BucketOK
<1>4. /\ UNCHANGED faults => Failing
      /\ Answered => Failing
      /\ \A kinds : Fault(kinds) => Failing
  BY <1>0 DEF Answered, Fault, FaultOf
<1>5. UNCHANGED sweep => Cycle
  BY <1>0, <1>s DEF Marked
<1>6. Sleep => Cycle
  BY <1>0, <1>s DEF Sleep, Marked
<1> HIDE DEF Store, Failing, Cycle
<1>7. CASE SweepBegin
  <2>1. Cycle
    BY <1>0, <1>7 DEF SweepBegin, Cycle
  <2> QED
    BY <1>1, <1>2, <1>4, <1>7, <2>1 DEF SweepBegin
<1>8. CASE SweepList
  <2>1. Cycle
    BY <1>0, <1>s, <1>8 DEF SweepList, Cycle, Expired, Marked
  <2> QED
    BY <1>1, <1>2, <1>4, <1>8, <2>1 DEF SweepList
<1>9. CASE SweepDelete
  <2>1. Cycle
    BY <1>0, <1>s, <1>9 DEF SweepDelete, Cycle, Marked
  <2>2. Store /\ Failing
    BY <1>3, <1>4, <1>9 DEF SweepDelete
  <2> QED
    BY <1>1, <2>1, <2>2
<1>10. CASE SweepAgain
  BY <1>1, <1>3, <1>4, <1>5, <1>10 DEF SweepAgain
<1>11. CASE SweepEnd
  BY <1>1, <1>2, <1>4, <1>6, <1>11 DEF SweepEnd
<1>12. CASE SweepFails
  BY <1>1, <1>2, <1>3, <1>4, <1>6, <1>12 DEF SweepFails
<1> QED
  BY <1>7, <1>8, <1>9, <1>10, <1>11, <1>12 DEF SweepStep

LEMMA EnvironmentPreserves ==
    ASSUME Inv, Tick \/ ServerCrash \/ CleanerCrash \/ UNCHANGED vars
    PROVE  Inv'
<1>0. /\ TypeOK /\ Marked /\ MaxClock \in Nat /\ MaxCrashes \in Nat /\ MaxFaults \in Nat
      /\ clock \in Nat /\ sweep.cutoff \in Nat
  BY BoundsAssumption DEF Inv, TypeOK
<1>1. CASE Tick
  <2>1. TypeOK'
    BY <1>0, <1>1 DEF Tick, TypeOK, bucket, uploads, local
  <2>2. Marked'
    BY <1>0, <1>1 DEF Tick, Marked, bucket
  <2> QED
    BY <1>0, <1>1, <2>1, <2>2, QuietStep DEF Tick, bucket, TypeOK
<1>2. CASE ServerCrash
  <2>1. TypeOK'
    BY <1>0, <1>2 DEF ServerCrash, TypeOK, bucket, uploads, local
  <2>2. Marked'
    BY <1>0, <1>2 DEF ServerCrash, Marked, bucket
  <2> QED
    BY <1>0, <1>2, <2>1, <2>2, QuietStep DEF ServerCrash, bucket, TypeOK
<1>3. CASE CleanerCrash
  <2>1. TypeOK'
    <3>1. sweep' \in [pc : {"sleep", "list", "delete"}, cutoff : 0..MaxClock,
                      rest : SUBSET Files, keys : SUBSET Files]
      BY <1>0, <1>3 DEF CleanerCrash, Sleep, TypeOK
    <3>2. crashes' \in 0..MaxCrashes
      BY <1>0, <1>3 DEF CleanerCrash, TypeOK
    <3> QED
      BY <1>0, <1>3, <3>1, <3>2 DEF CleanerCrash, TypeOK, bucket, uploads, local
  <2>2. Marked'
    BY <1>0, <1>3 DEF CleanerCrash, Sleep, Marked, bucket, TypeOK
  <2> QED
    BY <1>0, <1>3, <2>1, <2>2, QuietStep DEF CleanerCrash, bucket, TypeOK
<1>4. CASE UNCHANGED vars
  <2>1. TypeOK'
    BY <1>0, <1>4 DEF vars, TypeOK, bucket, uploads, local
  <2>2. Marked'
    BY <1>0, <1>4 DEF vars, Marked, bucket
  <2> QED
    BY <1>0, <1>4, <2>1, <2>2, QuietStep DEF vars, bucket, TypeOK
<1> QED
  BY <1>1, <1>2, <1>3, <1>4

LEMMA InitInv ==
    ASSUME Init
    PROVE  Inv
<1>c. \A r \in Requests : arg[r] \in Calls /\ arg[r].op \in Ops
  BY CallsAssumption DEF Init
<1>l. \A r \in Requests :
         /\ FirstLabel(arg[r]) \in Labels \ {"done"}
         /\ FirstLabel(arg[r]) \in {"exists", "buffer"} <=> arg[r].op = "save"
         /\ FirstLabel(arg[r]) \in {"exists", "buffer", "get", "head", "probe"}
  BY <1>c DEF FirstLabel, Ops, Labels
<1>o. /\ obj \in [Files -> Files \union {NoFile}] /\ tag \in [Files -> Files \union {NoFile}]
      /\ \A f \in Files : tag[f] \in {obj[f], NoFile}
      /\ \A f \in Files, r \in Requests : obj[f] # r
  BY FilesAssumption DEF Init, Contents
<1>1. TypeOK
  BY <1>l, <1>o, BoundsAssumption DEF Init, TypeOK, Contents
<1>2. ASSUME NEW r \in Requests PROVE Request(r)
  <2>1. /\ pc[r] = FirstLabel(arg[r]) /\ pend[r] = "none" /\ resp[r] = 0 /\ sent[r] = 0
        /\ resent[r] = 0 /\ faults = 0 /\ open = {} /\ orphans = {}
    BY DEF Init
  <2>2. Control(r)
    BY <1>l, <2>1 DEF Control, SaveLabels
  <2>3. Multipart(r)
    BY <2>1 DEF Multipart
  <2> QED
    BY <1>o, <2>2, <2>3 DEF Request
<1>3. OnlyLateTagsAreWrong
  BY <1>o DEF OnlyLateTagsAreWrong
<1>4. Marked
  BY DEF Init, Marked
<1> QED
  BY <1>1, <1>2, <1>3, <1>4 DEF Inv

LEMMA Invariance == Spec => []Inv
<1>1. Inv /\ [Next]_vars => Inv'
  <2> SUFFICES ASSUME Inv, [Next]_vars PROVE Inv'
    OBVIOUS
  <2> QED
    BY RequestPreserves, SweepPreserves, EnvironmentPreserves DEF Next
<1> QED
  BY <1>1, InitInv, PTL DEF Spec
-------------------------------------------------------------------------------
\* Every variable keeps its type.
THEOREM TypeCorrectness == Spec => []TypeOK
<1>1. Inv => TypeOK
  BY DEF Inv
<1> QED
  BY <1>1, Invariance, PTL

\* save_file: an object is a whole upload that the size limit admits, and the
\* multipart upload it came from is not open.
THEOREM CompleteObjects == Spec => []VisibleIsComplete
<1>1. Inv => VisibleIsComplete
  BY DEF Inv, Request, Stored, VisibleIsComplete
<1> QED
  BY <1>1, Invariance, PTL

\* save_file, _multipart_upload: what a refused upload leaves behind.
THEOREM CleanRefusals == Spec => []NoMultipartLeft
<1>1. Inv => NoMultipartLeft
  <2> SUFFICES ASSUME Inv, NEW r \in Requests
               PROVE  /\ resp[r] \in {400, 409} =>
                            \A f \in Files : obj[f] = r =>
                               resp[r] = 409 /\ ~arg[r].overwrite /\ resent[r] > 0
                      /\ resp[r] # 0 /\ r \in open => r \in logged
                      /\ r \in orphans => resp[r] = 500 \/ resent[r] > 0
    BY DEF NoMultipartLeft
  <2>1. Control(r) /\ Multipart(r) /\ \A f \in Files : obj[f] = r => Stored(r, f)
    BY DEF Inv, Request
  <2>2. resp[r] # 0 => pc[r] = "done"
    BY <2>1 DEF Control
  <2> QED
    BY <2>1, <2>2 DEF Stored, Multipart
<1> QED
  BY <1>1, Invariance, PTL

\* _set_sha256_tag: only a multipart upload sets a tag that may be wrong.
THEOREM LateTags == Spec => []OnlyLateTagsAreWrong
<1>1. Inv => OnlyLateTagsAreWrong
  BY DEF Inv
<1> QED
  BY <1>1, Invariance, PTL

\* save_file with overwrite=false: IfNoneMatch protects every object, whatever
\* fails and is sent again.
THEOREM CreateOnlyIsSafe == Spec => CreateOnlyNeverDestroys
<1> DEFINE Safe == \A r \in Requests, f \in Files :
                      (arg[r].op = "save" /\ ~arg[r].overwrite /\ Moves(r))
                          => obj[f] \in {NoFile, obj'[f]}
<1>1. ASSUME Inv, [Next]_vars PROVE Safe \/ UNCHANGED vars
  <2>1. CASE \E q \in Requests : RequestStep(q)
    <3>1. PICK q \in Requests : RequestStep(q)
      BY <2>1
    <3>2. ASSUME NEW r \in Requests, NEW f \in Files,
                 arg[r].op = "save", ~arg[r].overwrite, Moves(r)
          PROVE  obj[f] \in {NoFile, obj'[f]}
      <4>1. r = q
        BY <1>1, <3>1, <3>2, OthersUnmoved DEF Unmoved, Moves
      <4>2. pc[r] # "delete"
        BY <1>1, <3>2 DEF Inv, Request, Control, SaveLabels
      <4>3. Kept(f) \/ Overwritten(r, f) \/ Tagged(r, f)
        BY <1>1, <3>1, <4>1, <4>2, BucketChange DEF Inv, Removed
      <4> QED
        BY <3>2, <4>3 DEF Kept, Overwritten, Tagged, Precondition, Exists
    <3> QED
      BY <3>2
  <2>2. CASE SweepStep \/ Tick \/ ServerCrash \/ CleanerCrash
    <3>1. UNCHANGED local
      BY <2>2 DEF SweepStep, Tick, ServerCrash, CleanerCrash
    <3> QED
      BY <3>1 DEF local, Moves
  <2> QED
    BY <1>1, <2>1, <2>2 DEF Next
<1> QED
  BY <1>1, Invariance, PTL DEF Spec, CreateOnlyNeverDestroys, Safe

\* cleanup_old_files: an object that was there when the cycle began and had not
\* expired survives the cycle.
THEOREM FreshFilesSurvive == Spec => FreshSurvives
<1> DEFINE Survives == \A f \in Files :
              (sweep.pc = "delete" /\ Exists(f) /\ ~Exists(f)' /\ UNCHANGED local)
                  => mtime[f] + MaxAge < sweep.cutoff \/ sweep.cutoff <= mtime[f]
<1>1. ASSUME Inv, [Next]_vars PROVE Survives \/ UNCHANGED vars
  <2>0. /\ TypeOK /\ Marked
        /\ sweep.keys \in SUBSET Files
    BY <1>1 DEF Inv, TypeOK
  <2> SUFFICES ASSUME NEW f \in Files,
                      sweep.pc = "delete", Exists(f), ~Exists(f)', UNCHANGED local
               PROVE  f \in sweep.keys
    BY <2>0 DEF Marked
  <2>1. CASE \E q \in Requests : RequestStep(q)
    <3>1. PICK q \in Requests : RequestStep(q)
      BY <2>1
    <3>2. Removed(q, f) \/ Kept(f) \/ Overwritten(q, f) \/ Tagged(q, f)
      BY <2>0, <3>1, BucketChange
    <3>3. q # NoFile
      BY FilesAssumption DEF Contents
    <3> QED
      BY <3>2, <3>3 DEF Removed, Kept, Overwritten, Tagged, Exists, local
  <2>2. CASE SweepStep
    <3>1. \/ UNCHANGED bucket
          \/ \E F \in SUBSET sweep.keys : DeleteObjects(F)
          \/ DeleteObjects({})
      BY <2>2
      DEF SweepStep, SweepBegin, SweepList, SweepDelete, SweepAgain, SweepEnd, SweepFails
    <3> QED
      BY <3>1 DEF bucket, DeleteObjects, Exists
  <2>3. CASE Tick \/ ServerCrash \/ CleanerCrash \/ UNCHANGED vars
    BY <2>3 DEF Tick, ServerCrash, CleanerCrash, vars, bucket, Exists
  <2> QED
    BY <1>1, <2>1, <2>2, <2>3 DEF Next
<1> QED
  BY <1>1, Invariance, PTL DEF Spec, FreshSurvives, Survives
-------------------------------------------------------------------------------
(***************************************************************************)
(* A cycle deletes everything it lists: once it deletes, no page is left.  *)
(***************************************************************************)

AllListed == sweep.pc = "delete" => sweep.rest = {}

LEMMA SweepIsListed == Spec => []AllListed
<1>1. Init => AllListed
  BY DEF Init, AllListed
<1>2. ASSUME Inv, AllListed, [Next]_vars PROVE AllListed'
  <2>0. sweep \in [pc : {"sleep", "list", "delete"}, cutoff : 0..MaxClock,
                   rest : SUBSET Files, keys : SUBSET Files]
    BY <1>2 DEF Inv, TypeOK
  <2>1. CASE SweepStep
    <3>1. CASE SweepBegin
      BY <3>1 DEF SweepBegin, AllListed
    <3>2. CASE SweepList
      BY <2>0, <3>2 DEF SweepList, AllListed
    <3>3. CASE SweepDelete
      BY <1>2, <2>0, <3>3 DEF SweepDelete, AllListed
    <3>4. CASE SweepAgain
      BY <1>2, <3>4 DEF SweepAgain, AllListed
    <3>5. CASE SweepEnd \/ SweepFails
      BY <2>0, <3>5 DEF SweepEnd, SweepFails, Sleep, AllListed
    <3> QED
      BY <2>1, <3>1, <3>2, <3>3, <3>4, <3>5 DEF SweepStep
  <2>2. CASE CleanerCrash
    BY <2>0, <2>2 DEF CleanerCrash, Sleep, AllListed
  <2>3. CASE UNCHANGED sweep
    BY <1>2, <2>3 DEF AllListed
  <2> QED
    BY <1>2, <2>1, <2>2, <2>3 DEF Next, RequestStep, Tick, ServerCrash, vars
<1> QED
  BY <1>1, <1>2, Invariance, PTL DEF Spec

\* cleanup_old_files: nothing that had expired drops off the list while no call fails
\* and nothing crashes.  An object that an upload replaces is not expired any more.
THEOREM CyclesAreThorough == Spec => OnlyFailuresSkip
<1> DEFINE NoneSkipped == \A f \in sweep.rest \union sweep.keys :
              (UNCHANGED <<faults, crashes>> /\ Expired(f)')
                  => f \in sweep'.rest \union sweep'.keys
<1>1. ASSUME Inv, AllListed, [Next]_vars PROVE NoneSkipped
  <2>0. /\ TypeOK /\ Marked /\ AllListed
        /\ faults \in Nat /\ MaxAge \in Nat /\ clock \in Nat
        /\ sweep \in [pc : {"sleep", "list", "delete"}, cutoff : 0..MaxClock,
                      rest : SUBSET Files, keys : SUBSET Files]
        /\ obj \in [Files -> Contents \union {NoFile}] /\ mtime \in [Files -> Nat]
    BY <1>1, BoundsAssumption DEF Inv, TypeOK
  <2> SUFFICES ASSUME NEW f \in sweep.rest \union sweep.keys,
                      UNCHANGED <<faults, crashes>>, Expired(f)'
               PROVE  f \in sweep'.rest \union sweep'.keys
    OBVIOUS
  <2>1. f \in Files
    BY <2>0
  <2>2. ASSUME NEW kinds, Fault(kinds) PROVE FALSE
    BY <2>0, <2>2 DEF Fault, FaultOf
  <2>3. CASE UNCHANGED sweep
    BY <2>3
  <2>4. CASE SweepBegin
    BY <2>1, <2>4 DEF SweepBegin
  <2>5. CASE SweepList
    <3>1. PICK page \in SUBSET sweep.rest :
             sweep' = [sweep EXCEPT
                         !.pc = IF page = sweep.rest THEN "delete" ELSE "list",
                         !.rest = @ \ page,
                         !.keys = @ \union {g \in page : Expired(g)}]
      BY <2>5 DEF SweepList
    <3>2. /\ sweep'.rest = sweep.rest \ page
          /\ sweep'.keys = sweep.keys \union {g \in page : Expired(g)}
          /\ sweep'.cutoff = sweep.cutoff
      BY <2>0, <3>1
    <3>3. Expired(f)
      BY <2>5, <3>2 DEF SweepList, Expired, Exists, bucket
    <3> QED
      BY <3>2, <3>3
  <2>6. CASE SweepDelete
    <3>1. PICK batch \in SUBSET sweep.keys :
             sweep' = [sweep EXCEPT !.keys = @ \ batch] /\ DeleteObjects(batch)
      BY <2>2, <2>6 DEF SweepDelete
    <3>2. sweep'.rest = sweep.rest /\ sweep'.keys = sweep.keys \ batch
      BY <2>0, <3>1
    <3>3. f \notin batch
      BY <2>0, <2>1, <3>1 DEF DeleteObjects, Expired, Exists
    <3> QED
      BY <3>2, <3>3
  <2>7. CASE SweepEnd
    BY <2>0, <2>7 DEF SweepEnd, AllListed
  <2>8. CASE SweepAgain \/ SweepFails
    BY <2>2, <2>8 DEF SweepAgain, SweepFails
  <2>9. CASE CleanerCrash
    BY <1>1, <2>0, <2>9, BoundsAssumption DEF CleanerCrash, Inv, TypeOK
  <2> QED
    BY <1>1, <2>3, <2>4, <2>5, <2>6, <2>7, <2>8, <2>9
    DEF Next, RequestStep, SweepStep, Tick, ServerCrash, vars
<1> QED
  BY <1>1, Invariance, SweepIsListed, PTL DEF Spec, OnlyFailuresSkip
-------------------------------------------------------------------------------
(***************************************************************************)
(* What clients are sent.                                                  *)
(***************************************************************************)

\* What an upload that has once been visible is allowed to become does not depend on
\* whether it still is.
LEMMA StaysStored ==
    ASSUME Inv, Inv', [Next]_vars, NEW u \in Requests, NEW f \in Files, Stored(u, f)
    PROVE  Stored(u, f)'
<1>0. /\ TypeOK /\ Control(u) /\ Control(u)' /\ arg[u].size \in Nat /\ sent[u] \in Nat
      /\ resent[u] \in Nat
  BY CallTypes, BoundsAssumption DEF Inv, Request, TypeOK
<1>1. arg' = arg /\ IsMultipart(u)' = IsMultipart(u) /\ File(u)' = File(u)
  BY DEF Next, RequestStep, SweepStep, Tick, ServerCrash, CleanerCrash, vars, IsMultipart, File
<1>2. CASE Unmoved(u)
  BY <1>1, <1>2 DEF Stored, Unmoved
<1>3. CASE RequestStep(u)
  <2>1. /\ \A label : Goto(u, label) => pc'[u] = label /\ resp'[u] = resp[u]
        /\ \A code : Reply(u, code) => pc'[u] = "done" /\ resp'[u] = code
        /\ \A e : Raise(u, e) => pc'[u] = "abort" /\ resp'[u] = resp[u] /\ pend'[u] = e
        /\ SentAgain(u) => pc'[u] = pc[u] /\ resp'[u] = resp[u] /\ resent'[u] > 0
    BY <1>0 DEF Goto, Reply, Raise, SentAgain, TypeOK
  <2>2. resent'[u] >= resent[u] /\ resent'[u] \in Nat
    BY <1>0, <1>3, CallOutcome, BoundsAssumption DEF Answered, Fault, SentAgain, TypeOK
  <2>3. pc[u] \in {"put", "part", "abort", "tag"}
    BY <1>3 DEF Stored, RequestStep, CheckExists, Buffer, Put, CreateMultipart, UploadPart,
           RejectSize, CompleteMultipart, AbortMultipart, SetTag, GetObject, HeadObject, GetTag,
           Probe, DeleteObject
  <2>4. resp[u] = 0
    BY <1>0, <2>3 DEF Control
  <2>5. CASE Put(u)
    <3>1. ~IsMultipart(u) /\ pc[u] = "put" /\ resent[u] > 0
      BY <1>0, <2>5 DEF Put, Control, IsMultipart, Stored
    <3>2. \/ pc'[u] = "done" /\ (resp'[u] \in {201, 500} \/ (resp'[u] = 409 /\ ~arg[u].overwrite))
          \/ pc'[u] = "put" /\ resp'[u] = 0 /\ resent'[u] > 0
      BY <2>1, <2>4, <2>5, <3>1, StatusTypes DEF Put, Precondition
    <3> QED
      BY <1>1, <2>2, <3>1, <3>2, <1>0 DEF Stored
  <2>6. CASE CompleteMultipart(u)
    <3>1. /\ IsMultipart(u) /\ u \notin open /\ sent'[u] = arg[u].size /\ u \notin open'
          /\ resent[u] > 0
      BY <1>0, <2>6 DEF CompleteMultipart, Control, IsMultipart, Stored, Complete, SaveLabels
    <3>2. /\ pc'[u] \in {"abort", "tag", "part"} /\ resp'[u] = 0
      BY <2>1, <2>4, <2>6 DEF CompleteMultipart, CompleteTwice
    <3>3. resent'[u] > 0
      BY <1>0, <2>2, <3>1
    <3> QED
      BY <1>1, <3>1, <3>2, <3>3 DEF Stored
  <2>7. CASE AbortMultipart(u)
    <3>1. /\ IsMultipart(u) /\ u \notin open' /\ sent'[u] = arg[u].size
          /\ pc'[u] = "done" /\ resp'[u] = UploadStatus[pend[u]] /\ pc[u] = "abort"
      BY <1>0, <2>1, <2>7 DEF AbortMultipart, AbortUpload, Control, IsMultipart, Stored,
                              SaveLabels
    <3>2. pend[u] # "FileSizeError"
      BY <1>0, <3>1 DEF Control, Stored
    <3>3. pend[u] = "FileExistsError" => resent'[u] > 0 /\ ~arg[u].overwrite
      BY <1>0, <2>2, <3>1 DEF Control, Stored
    <3>4. resp'[u] \in {400, 409} => resp'[u] = 409 /\ pend[u] = "FileExistsError"
      BY <1>0, <3>1, <3>2, StatusTypes DEF TypeOK, Failures
    <3> QED
      BY <1>1, <3>1, <3>3, <3>4 DEF Stored
  <2>8. CASE SetTag(u)
    <3>1. /\ IsMultipart(u) /\ u \notin open' /\ sent'[u] = arg[u].size /\ pc[u] = "tag"
      BY <1>0, <2>8 DEF SetTag, uploads, Control, IsMultipart, Stored, SaveLabels
    <3>2. pc'[u] \in {"done", "tag"} /\ resp'[u] \in {0, 201, 500}
      BY <2>1, <2>4, <2>8, <3>1, StatusTypes DEF SetTag
    <3> QED
      BY <1>1, <3>1, <3>2 DEF Stored
  <2>9. ~CreateMultipart(u) /\ ~UploadPart(u) /\ ~RejectSize(u)
    BY <1>0 DEF CreateMultipart, UploadPart, RejectSize, Stored, Control, IsMultipart, SaveLabels
  <2> QED
    BY <1>3, <2>3, <2>5, <2>6, <2>7, <2>8, <2>9
       DEF RequestStep, CheckExists, Buffer, GetObject, HeadObject, GetTag, Probe, DeleteObject
<1>4. ASSUME NEW q \in Requests, q # u, RequestStep(q) PROVE Unmoved(u)
  BY <1>4, OthersUnmoved
<1>5. CASE SweepStep \/ Tick \/ ServerCrash \/ CleanerCrash \/ UNCHANGED vars
  BY <1>1, <1>5
     DEF SweepStep, Tick, ServerCrash, CleanerCrash, local, uploads, vars, Stored
<1> QED
  BY <1>2, <1>3, <1>4, <1>5 DEF Next

\* What a read has got is an upload to its file that has been stored.
Sent(r) ==
    arg[r].op \in {"read", "download"} =>
        /\ pc[r] # "get_digest" /\ pc[r] # "get_tag" /\ pc[r] # "head"
        /\ got[r] \in Requests => Stored(got[r], File(r))

LEMMA OthersGot ==
    ASSUME TypeOK, NEW q \in Requests, RequestStep(q), NEW r \in Requests, r # q
    PROVE  got'[r] = got[r]
<1>1. CASE CheckExists(q) \/ Buffer(q) \/ Put(q) \/ CreateMultipart(q) \/ UploadPart(q)
           \/ RejectSize(q) \/ CompleteMultipart(q) \/ AbortMultipart(q) \/ SetTag(q)
           \/ HeadObject(q) \/ Probe(q) \/ DeleteObject(q)
  BY <1>1 DEF CheckExists, Buffer, Put, CreateMultipart, UploadPart, RejectSize,
              CompleteMultipart, AbortMultipart, SetTag, HeadObject, Probe, DeleteObject
<1>2. CASE GetObject(q) \/ GetTag(q)
  BY <1>2 DEF GetObject, GetTag, TypeOK
<1> QED
  BY <1>1, <1>2 DEF RequestStep

LEMMA SentStep ==
    ASSUME Inv, Inv', [Next]_vars, NEW r \in Requests, Sent(r)
    PROVE  Sent(r)'
<1>0. TypeOK /\ File(r) \in Files
  BY CallTypes DEF Inv
<1>1. arg' = arg /\ File(r)' = File(r)
  BY DEF Next, RequestStep, SweepStep, Tick, ServerCrash, CleanerCrash, vars, File
<1>2. ASSUME got'[r] = got[r],
             arg[r].op \in {"read", "download"} => pc'[r] \in {pc[r], "done"}
      PROVE  Sent(r)'
  BY <1>0, <1>1, <1>2, StaysStored DEF Sent
<1>3. CASE RequestStep(r)
  <2> SUFFICES ASSUME arg[r].op \in {"read", "download"} PROVE Sent(r)'
    BY <1>1 DEF Sent
  <2>1. CASE GetObject(r)
    <3>1. pc'[r] = "done"
      BY <1>0, <2>1 DEF GetObject, NotFound, ReadFails, Reply, TypeOK
    <3>2. CASE got'[r] = obj[File(r)]
      BY <1>0, <1>1, <3>1, <3>2, StaysStored DEF Inv, Request, Sent
    <3> QED
      BY <1>0, <1>2, <2>1, <3>1, <3>2 DEF GetObject, TypeOK
  <2>2. ~HeadObject(r) /\ ~GetTag(r)
    BY DEF HeadObject, GetTag, Sent
  <2>3. CASE Probe(r) \/ DeleteObject(r)
    <3>1. got' = got /\ pc'[r] \in {"delete", "done"}
      BY <1>0, <2>3 DEF Probe, DeleteObject, Goto, Reply, SentAgain, TypeOK
    <3> QED
      BY <1>0, <1>1, <3>1, StaysStored DEF Sent
  <2>4. CASE pc[r] \in SaveLabels
    BY <2>4 DEF Inv, Request, Control
  <2> QED
    BY <1>3, <2>1, <2>2, <2>3, <2>4
       DEF RequestStep, SaveLabels, CheckExists, Buffer, Put, CreateMultipart, UploadPart,
           RejectSize, CompleteMultipart, AbortMultipart, SetTag
<1>4. ASSUME NEW q \in Requests, q # r, RequestStep(q)
      PROVE  got'[r] = got[r] /\ pc'[r] = pc[r]
  BY <1>0, <1>4, OthersGot, OthersUnmoved DEF Unmoved
<1>5. CASE SweepStep \/ Tick \/ ServerCrash \/ CleanerCrash \/ UNCHANGED vars
  BY <1>2, <1>5 DEF SweepStep, Tick, ServerCrash, CleanerCrash, local, vars
<1> QED
  BY <1>2, <1>3, <1>4, <1>5 DEF Next

\* read_file, get_download: what is sent is a whole upload to the file, and its uploader
\* is not told that it was refused, except by a repetition of its own call.
THEOREM ServedUploadsAreStored == Spec => []ServedIsStored
<1> DEFINE Serving == \A r \in Requests : Sent(r)
<1>1. Init => Serving
  <2> SUFFICES ASSUME Init, NEW r \in Requests PROVE Sent(r)
    OBVIOUS
  <2>1. got[r] = NoFile /\ pc[r] = FirstLabel(arg[r]) /\ NoFile \notin Requests
    BY FilesAssumption DEF Init, Contents
  <2> QED
    BY <2>1 DEF Sent, FirstLabel
<1>2. Inv /\ Inv' /\ Serving /\ [Next]_vars => Serving'
  BY SentStep
<1>3. Inv /\ Serving => ServedIsStored
  BY CallTypes DEF Inv, Sent, Stored, ServedIsStored
<1> QED
  BY <1>1, <1>2, <1>3, Invariance, PTL DEF Spec
===============================================================================
