-------------------------- MODULE LocalStorageProofs --------------------------
(***************************************************************************)
(* Proofs about LocalStorage, for any set of requests, files, calls and    *)
(* any bounds.                                                             *)
(***************************************************************************)
EXTENDS LocalStorage, TLAPS

-------------------------------------------------------------------------------
\* The parts of the inductive invariant.

\* A request is at a label of its own operation, it has an answer exactly when
\* it is done, and it knows a name wherever it is about to use one.
Control ==
    \A r \in Requests :
        /\ pc[r] \in SaveLabels => arg[r].op = "save"
        /\ pc[r] \in FindLabels => arg[r].op # "save"
        /\ pc[r] = "done" <=> resp[r] # 0
        /\ pc[r] \in {"stat", "send_stat", "open", "delete_unlink"} => target[r] \in Slots
        /\ pc[r] \in {"current_exists", "legacy_lookup", "stat", "send_stat", "open"}
             => arg[r].op # "delete"

SweepControl == sweep.pc \in {"stat", "unlink"} => sweep.cur \in Names

\* A temporary name links to the inode of its own request, and only between
\* the opening of the file and the end of the unwinding.
TempNames ==
    \A r \in Requests :
        /\ dir[r] \in {r, NoFile}
        /\ pc[r] \notin {"write", "commit", "temp_exists", "temp_unlink"} => dir[r] = NoFile

\* What has been written is within the limit and, at the commit, all there is;
\* an exception is pending only on the way out.
Written ==
    \A r \in Requests :
        /\ len[r] <= MaxSize
        /\ len[r] <= arg[r].size
        /\ pc[r] = "commit" => len[r] = arg[r].size
        /\ pend[r] # "none" => pc[r] \in {"temp_exists", "temp_unlink", "done"}

\* Only a commit makes an inode visible, and nothing is raised after it that
\* stands for a refusal.
Visible ==
    \A s \in Slots, r \in Requests :
        dir[s] = r => /\ arg[r].op = "save"
                      /\ s = Final(r)
                      /\ len[r] = arg[r].size
                      /\ pend[r] = "none"
                      /\ pc[r] \in {"temp_exists", "temp_unlink",
                                    "purge_exists", "purge_unlink", "done"}
                      /\ resp[r] \notin {400, 409, 507}

Inv == TypeOK /\ Control /\ SweepControl /\ TempNames /\ Written /\ Visible
-------------------------------------------------------------------------------
(***************************************************************************)
(* Facts about the helpers the actions are built from.                     *)
(***************************************************************************)

\* The statuses the requests reply with are status codes.
LEMMA StatusTypes ==
    /\ \A e \in Failures \union {"none"} : UploadStatus[e] \in Codes \ {0}
    /\ UploadStatus["none"] = 201
    /\ UploadStatus["FileExistsError"] = 409
    /\ UploadStatus["OSError"] = 500
    /\ ReadStatus["FileNotFoundError"] = 404
    /\ ReadStatus["RuntimeError"] = 500
    /\ ReadStatus["none"] = 200
    /\ DeleteStatus["FileNotFoundError"] = 404
    /\ DeleteStatus["none"] = 204
    /\ {200, 204, 404, 500, Aborted} \subseteq Codes \ {0}
<1>1. /\ UploadStatus["none"] = 201
      /\ UploadStatus["FileExistsError"] = 409
      /\ UploadStatus["FileSizeError"] = 400
      /\ UploadStatus["InsufficientStorageError"] = 507
      /\ UploadStatus["OSError"] = 500
  BY DEF UploadStatus, UploadError, UploadCode
<1>2. /\ ReadStatus["FileNotFoundError"] = 404
      /\ ReadStatus["RuntimeError"] = 500
      /\ ReadStatus["none"] = 200
  BY DEF ReadStatus, LookupError, ReadCode
<1>3. /\ DeleteStatus["FileNotFoundError"] = 404
      /\ DeleteStatus["none"] = 204
  BY DEF DeleteStatus, LookupError, DeleteCode
<1> QED
  BY <1>1, <1>2, <1>3 DEF Codes, Failures, Aborted

\* A request's own names are slots.
LEMMA OwnNames ==
    ASSUME RequestsOK, NEW r \in Requests
    PROVE  /\ arg[r].file \in Files
           /\ Final(r) \in Slots
           /\ Legacy(r) \in Slots
           /\ arg[r].size \in Nat
           /\ arg[r].overwrite \in BOOLEAN
           /\ arg[r].op \in Ops
<1>1. arg[r] \in [op : Ops, file : Files, overwrite : BOOLEAN, size : Nat]
  BY CallsAssumption DEF RequestsOK
<1>2. arg[r].file \in Files /\ arg[r].size \in Nat /\ arg[r].overwrite \in BOOLEAN
  BY <1>1
<1> QED
  BY <1>1, <1>2 DEF Final, Legacy, Slots

\* Going on, and replying, keep the types of pc and resp.
LEMMA ContinueType ==
    ASSUME RequestsOK, NEW r \in Requests, NEW label \in Labels, Continue(r, label)
    PROVE  /\ pc' \in [Requests -> Labels]
           /\ resp' \in [Requests -> Codes \union {0}]
BY DEF RequestsOK, Continue

LEMMA ReplyType ==
    ASSUME RequestsOK, NEW r \in Requests, NEW code \in Codes, Reply(r, code)
    PROVE  /\ pc' \in [Requests -> Labels]
           /\ resp' \in [Requests -> Codes \union {0}]
BY DEF RequestsOK, Reply, Labels

LEMMA MissingType ==
    ASSUME RequestsOK, NEW r \in Requests, Missing(r)
    PROVE  /\ pc' \in [Requests -> Labels]
           /\ resp' \in [Requests -> Codes \union {0}]
BY StatusTypes, ReplyType DEF Missing

-------------------------------------------------------------------------------
(***************************************************************************)
(* Type correctness of a request's step.                                   *)
(***************************************************************************)

LEMMA FilesStep ==
    ASSUME FilesOK, RequestsOK, Control, clock \in 0..MaxClock,
           NEW r \in Requests, RequestStep(r)
    PROVE  FilesOK'
<1> USE FilesAssumption, OwnNames DEF FilesOK
<1>1. CASE EnsureDir(r)
  BY <1>1 DEF EnsureDir
<1>2. CASE OpenTemp(r)
  BY <1>2 DEF OpenTemp
<1>3. CASE WriteChunk(r)
  BY <1>3 DEF WriteChunk, Names
<1>4. CASE CommitReplace(r)
  BY <1>4 DEF CommitReplace, Names
<1>5. CASE CommitLink(r)
  BY <1>5 DEF CommitLink, Names
<1>6. CASE TempUnlink(r)
  BY <1>6 DEF TempUnlink, Unlink
<1>7. CASE PurgeUnlink(r)
  BY <1>7 DEF PurgeUnlink, Unlink
<1>8. CASE DeleteUnlink(r)
  BY <1>8 DEF DeleteUnlink, Unlink, Control
<1>9. ASSUME UNCHANGED files PROVE FilesOK'
  BY <1>9 DEF files
<1> QED
  BY <1>1, <1>2, <1>3, <1>4, <1>5, <1>6, <1>7, <1>8, <1>9
     DEF RequestStep, SaveStep, FindStep, RefuseIfExists, FinalExists, LegacyExists,
         OpenTempFails, RejectSize, WriteFails, EndOfStream, CommitFails, TempExists,
         PurgeExists, DirExists, CurrentExists, LegacyLookup, Stat, SendStat, Open,
         DeleteProbe, DeleteEnd

LEMMA RequestsStep ==
    ASSUME FilesOK, RequestsOK, Control, NEW r \in Requests, RequestStep(r)
    PROVE  RequestsOK'
<1> USE OwnNames DEF RequestsOK
<1>0. arg' = arg
  BY DEF RequestStep
<1>1. CASE EnsureDir(r)
  BY <1>0, <1>1, ContinueType DEF EnsureDir, Labels, SaveLabels, FindLabels, found
<1>2. CASE FinalExists(r)
  BY <1>0, <1>2, StatusTypes, ContinueType, ReplyType
     DEF FinalExists, RefuseIfExists, Labels, SaveLabels, FindLabels, Failures, found
<1>3. CASE LegacyExists(r)
  BY <1>0, <1>3, StatusTypes, ContinueType, ReplyType
     DEF LegacyExists, RefuseIfExists, Labels, SaveLabels, FindLabels, Failures, found
<1>4. CASE OpenTemp(r)
  BY <1>0, <1>4, ContinueType DEF OpenTemp, Labels, SaveLabels, FindLabels, found
<1>5. CASE OpenTempFails(r)
  BY <1>0, <1>5, ContinueType
     DEF OpenTempFails, Raise, Labels, SaveLabels, FindLabels, Failures, found
<1>6. CASE WriteChunk(r)
  BY <1>0, <1>6 DEF WriteChunk, Labels, SaveLabels, FindLabels, local, found
<1>7. CASE RejectSize(r)
  BY <1>0, <1>7, ContinueType
     DEF RejectSize, Raise, Labels, SaveLabels, FindLabels, Failures, found
<1>8. CASE WriteFails(r)
  BY <1>0, <1>8, ContinueType
     DEF WriteFails, Raise, Labels, SaveLabels, FindLabels, Failures, found
<1>9. CASE EndOfStream(r)
  BY <1>0, <1>9, ContinueType DEF EndOfStream, Labels, SaveLabels, FindLabels, found
<1>10. CASE CommitReplace(r)
  BY <1>0, <1>10, ContinueType DEF CommitReplace, Labels, SaveLabels, FindLabels, found
<1>11. CASE CommitLink(r)
  BY <1>0, <1>11, ContinueType DEF CommitLink, Labels, SaveLabels, FindLabels, found
<1>12. CASE CommitFails(r)
  BY <1>0, <1>12, ContinueType
     DEF CommitFails, Raise, Labels, SaveLabels, FindLabels, Failures, found
<1>13. CASE TempExists(r)
  BY <1>0, <1>13, StatusTypes, ContinueType, ReplyType
     DEF TempExists, AfterTemp, Labels, SaveLabels, FindLabels, found
<1>14. CASE TempUnlink(r)
  BY <1>0, <1>14, StatusTypes, ContinueType, ReplyType
     DEF TempUnlink, AfterTemp, Labels, SaveLabels, FindLabels, found
<1>15. CASE PurgeExists(r)
  BY <1>0, <1>15, StatusTypes, ContinueType, ReplyType
     DEF PurgeExists, Labels, SaveLabels, FindLabels, found
<1>16. CASE PurgeUnlink(r)
  BY <1>0, <1>16, StatusTypes, ReplyType
     DEF PurgeUnlink, Labels, SaveLabels, FindLabels, found
<1>17. CASE DirExists(r)
  BY <1>0, <1>17, ContinueType, MissingType
     DEF DirExists, Labels, SaveLabels, FindLabels, found
<1>18. CASE CurrentExists(r)
  <2>1. pc' \in [Requests -> Labels] /\ resp' \in [Requests -> Codes \union {0}]
    BY <1>18, ContinueType DEF CurrentExists, Resolve, Labels, FindLabels
  <2> QED
    BY <1>0, <1>18, <2>1 DEF CurrentExists, Resolve, Control, found
<1>19. CASE LegacyLookup(r)
  <2>1. pc' \in [Requests -> Labels] /\ resp' \in [Requests -> Codes \union {0}]
    BY <1>19, ContinueType, MissingType DEF LegacyLookup, Resolve, Labels, FindLabels
  <2> QED
    BY <1>0, <1>19, <2>1 DEF LegacyLookup, Resolve, Control, found
<1>20. CASE Stat(r)
  <2>1. pc' \in [Requests -> Labels] /\ resp' \in [Requests -> Codes \union {0}]
    BY <1>20, ContinueType, MissingType DEF Stat, Labels, FindLabels
  <2> QED
    BY <1>0, <1>20, <2>1 DEF Stat, Control, FilesOK, Names, found
<1>21. CASE SendStat(r)
  <2>1. pc' \in [Requests -> Labels] /\ resp' \in [Requests -> Codes \union {0}]
    BY <1>21, StatusTypes, ContinueType, ReplyType DEF SendStat, Labels, FindLabels
  <2> QED
    BY <1>0, <1>21, <2>1 DEF SendStat, Control, FilesOK, Names, found
<1>22. CASE Open(r)
  <2>1. pc' \in [Requests -> Labels] /\ resp' \in [Requests -> Codes \union {0}]
    BY <1>22, StatusTypes, ReplyType, MissingType DEF Open, Labels, FindLabels
  <2> QED
    BY <1>0, <1>22, <2>1 DEF Open, Control, FilesOK, Names, found
<1>23. CASE DeleteProbe(r)
  <2>1. pc' \in [Requests -> Labels] /\ resp' \in [Requests -> Codes \union {0}]
    BY <1>23, ContinueType DEF DeleteProbe, Labels, FindLabels
  <2>2. PICK name \in todo[r] : /\ todo' = [todo EXCEPT ![r] = @ \ {name}]
                               /\ target' = [target EXCEPT ![r] = name]
    BY <1>23 DEF DeleteProbe
  <2> QED
    BY <1>0, <1>23, <2>1, <2>2 DEF DeleteProbe
<1>24. CASE DeleteUnlink(r)
  <2>1. pc' \in [Requests -> Labels] /\ resp' \in [Requests -> Codes \union {0}]
    BY <1>24, ContinueType, MissingType DEF DeleteUnlink, Labels, FindLabels
  <2> QED
    BY <1>0, <1>24, <2>1 DEF DeleteUnlink, Control, found
<1>25. CASE DeleteEnd(r)
  BY <1>0, <1>25, StatusTypes, ReplyType, MissingType
     DEF DeleteEnd, Labels, SaveLabels, FindLabels, found
<1> QED
  BY <1>1, <1>2, <1>3, <1>4, <1>5, <1>6, <1>7, <1>8, <1>9, <1>10, <1>11, <1>12, <1>13,
     <1>14, <1>15, <1>16, <1>17, <1>18, <1>19, <1>20, <1>21, <1>22, <1>23, <1>24,
     <1>25
     DEF RequestStep, SaveStep, FindStep

LEMMA ControlStep ==
    ASSUME FilesOK, RequestsOK, Control,
           NEW r \in Requests, RequestStep(r)
    PROVE  Control'
<1> USE FilesAssumption, OwnNames, StatusTypes DEF RequestsOK, Control
<1>0. arg' = arg
  BY DEF RequestStep
<1>1. CASE EnsureDir(r)
  BY <1>0, <1>1 DEF EnsureDir, Continue, SaveLabels, FindLabels, found
<1>2. CASE FinalExists(r)
  BY <1>0, <1>2
     DEF FinalExists, RefuseIfExists, Continue, Reply, Exists, SaveLabels, FindLabels,
         files, found, Final
<1>3. CASE LegacyExists(r)
  BY <1>0, <1>3
     DEF LegacyExists, RefuseIfExists, Continue, Reply, Exists, SaveLabels, FindLabels,
         files, found, Legacy
<1>4. CASE OpenTemp(r)
  BY <1>0, <1>4 DEF OpenTemp, Continue, SaveLabels, FindLabels, found
<1>5. CASE OpenTempFails(r)
  BY <1>0, <1>5 DEF OpenTempFails, Continue, Raise, SaveLabels, FindLabels, files, found
<1>6. CASE WriteChunk(r)
  BY <1>0, <1>6 DEF WriteChunk, local, found
<1>7. CASE RejectSize(r)
  BY <1>0, <1>7 DEF RejectSize, Continue, Raise, SaveLabels, FindLabels, files, found
<1>8. CASE WriteFails(r)
  BY <1>0, <1>8 DEF WriteFails, Continue, Raise, SaveLabels, FindLabels, files, found
<1>9. CASE EndOfStream(r)
  BY <1>0, <1>9 DEF EndOfStream, Continue, SaveLabels, FindLabels, files, found
<1>10. CASE CommitReplace(r)
  BY <1>0, <1>10
     DEF CommitReplace, Continue, Exists, SaveLabels, FindLabels, found, Final
<1>11. CASE CommitLink(r)
  BY <1>0, <1>11 DEF CommitLink, Continue, Exists, SaveLabels, FindLabels, found, Final
<1>12. CASE CommitFails(r)
  BY <1>0, <1>12
     DEF CommitFails, Continue, Raise, Exists, SaveLabels, FindLabels, files, found,
         Final
<1>13. CASE TempExists(r)
  BY <1>0, <1>13
     DEF TempExists, Continue, Reply, AfterTemp, Exists, SaveLabels, FindLabels, files,
         found
<1>14. CASE TempUnlink(r)
  BY <1>0, <1>14
     DEF TempUnlink, Continue, Reply, AfterTemp, Unlink, Exists, SaveLabels,
         FindLabels, found
<1>15. CASE PurgeExists(r)
  BY <1>0, <1>15
     DEF PurgeExists, Continue, Reply, Exists, SaveLabels, FindLabels, files, found,
         Legacy
<1>16. CASE PurgeUnlink(r)
  BY <1>0, <1>16
     DEF PurgeUnlink, Reply, Unlink, Exists, SaveLabels, FindLabels, found, Legacy
<1>17. CASE DirExists(r)
  BY <1>0, <1>17
     DEF DirExists, Continue, Reply, Missing, SaveLabels, FindLabels, files, found
<1>18. CASE CurrentExists(r)
  BY <1>0, <1>18
     DEF CurrentExists, Continue, Resolve, Exists, SaveLabels, FindLabels, files,
         found, Final
<1>19. CASE LegacyLookup(r)
  BY <1>0, <1>19
     DEF LegacyLookup, Continue, Reply, Resolve, Missing, Exists, SaveLabels,
         FindLabels, files, found, Legacy
<1>20. CASE Stat(r)
  BY <1>0, <1>20
     DEF Stat, Continue, Reply, Missing, SaveLabels, FindLabels, files, found
<1>21. CASE SendStat(r)
  BY <1>0, <1>21 DEF SendStat, Continue, Reply, SaveLabels, FindLabels, files, found
<1>22. CASE Open(r)
  BY <1>0, <1>22 DEF Open, Reply, Missing, SaveLabels, FindLabels, files, found
<1>23. CASE DeleteProbe(r)
  BY <1>0, <1>23 DEF DeleteProbe, Continue, Exists, SaveLabels, FindLabels
<1>24. CASE DeleteUnlink(r)
  BY <1>0, <1>24
     DEF DeleteUnlink, Continue, Reply, Missing, Unlink, Exists, SaveLabels,
         FindLabels, found
<1>25. CASE DeleteEnd(r)
  BY <1>0, <1>25 DEF DeleteEnd, Reply, Missing, SaveLabels, FindLabels, files, found
<1> QED
  BY <1>1, <1>2, <1>3, <1>4, <1>5, <1>6, <1>7, <1>8, <1>9, <1>10, <1>11, <1>12, <1>13,
     <1>14, <1>15, <1>16, <1>17, <1>18, <1>19, <1>20, <1>21, <1>22, <1>23, <1>24,
     <1>25
     DEF RequestStep, SaveStep, FindStep

LEMMA TempNamesStep ==
    ASSUME FilesOK, RequestsOK, Control, TempNames,
           NEW r \in Requests, RequestStep(r)
    PROVE  TempNames'
<1> USE FilesAssumption, OwnNames DEF FilesOK, RequestsOK, Control, TempNames
<1>0. arg' = arg
  BY DEF RequestStep
<1>1. CASE EnsureDir(r)
  BY <1>0, <1>1 DEF EnsureDir, Continue
<1>2. CASE FinalExists(r)
  BY <1>0, <1>2 DEF FinalExists, RefuseIfExists, Continue, Reply, Exists, files, found
<1>3. CASE LegacyExists(r)
  BY <1>0, <1>3 DEF LegacyExists, RefuseIfExists, Continue, Reply, Exists, files, found
<1>4. CASE OpenTemp(r)
  BY <1>0, <1>4 DEF OpenTemp, Continue
<1>5. CASE OpenTempFails(r)
  BY <1>0, <1>5 DEF OpenTempFails, Continue, Raise, files, found
<1>6. CASE WriteChunk(r)
  BY <1>0, <1>6 DEF WriteChunk, local
<1>7. CASE RejectSize(r)
  BY <1>0, <1>7 DEF RejectSize, Continue, Raise, files, found
<1>8. CASE WriteFails(r)
  BY <1>0, <1>8 DEF WriteFails, Continue, Raise, files, found
<1>9. CASE EndOfStream(r)
  BY <1>0, <1>9 DEF EndOfStream, Continue, files, found
<1>10. CASE CommitReplace(r)
  BY <1>0, <1>10 DEF CommitReplace, Continue, Exists, Names
<1>11. CASE CommitLink(r)
  BY <1>0, <1>11 DEF CommitLink, Continue, Exists
<1>12. CASE CommitFails(r)
  BY <1>0, <1>12 DEF CommitFails, Continue, Raise, Exists, files, found
<1>13. CASE TempExists(r)
  BY <1>0, <1>13 DEF TempExists, Continue, Reply, AfterTemp, Exists, files, found
<1>14. CASE TempUnlink(r)
  BY <1>0, <1>14 DEF TempUnlink, Continue, Reply, AfterTemp, Unlink, Exists, Names
<1>15. CASE PurgeExists(r)
  BY <1>0, <1>15 DEF PurgeExists, Continue, Reply, Exists, files, found
<1>16. CASE PurgeUnlink(r)
  BY <1>0, <1>16 DEF PurgeUnlink, Reply, Unlink, Exists
<1>17. CASE DirExists(r)
  BY <1>0, <1>17 DEF DirExists, Continue, Reply, Missing, files, found
<1>18. CASE CurrentExists(r)
  BY <1>0, <1>18 DEF CurrentExists, Continue, Resolve, Exists, files, found
<1>19. CASE LegacyLookup(r)
  BY <1>0, <1>19
     DEF LegacyLookup, Continue, Reply, Resolve, Missing, Exists, files, found
<1>20. CASE Stat(r)
  BY <1>0, <1>20 DEF Stat, Continue, Reply, Missing, files, found
<1>21. CASE SendStat(r)
  BY <1>0, <1>21 DEF SendStat, Continue, Reply, files, found
<1>22. CASE Open(r)
  BY <1>0, <1>22 DEF Open, Reply, Missing, files, found
<1>23. CASE DeleteProbe(r)
  BY <1>0, <1>23 DEF DeleteProbe, Continue, Exists, files
<1>24. CASE DeleteUnlink(r)
  BY <1>0, <1>24 DEF DeleteUnlink, Continue, Reply, Missing, Unlink, Exists
<1>25. CASE DeleteEnd(r)
  BY <1>0, <1>25 DEF DeleteEnd, Reply, Missing, files, found
<1> QED
  BY <1>1, <1>2, <1>3, <1>4, <1>5, <1>6, <1>7, <1>8, <1>9, <1>10, <1>11, <1>12, <1>13,
     <1>14, <1>15, <1>16, <1>17, <1>18, <1>19, <1>20, <1>21, <1>22, <1>23, <1>24,
     <1>25
     DEF RequestStep, SaveStep, FindStep

LEMMA WrittenStep ==
    ASSUME FilesOK, RequestsOK, Control, Written,
           NEW r \in Requests, RequestStep(r)
    PROVE  Written'
<1> USE FilesAssumption, BoundsAssumption, OwnNames DEF FilesOK, RequestsOK, Control, Written
<1>0. arg' = arg
  BY DEF RequestStep
<1>1. CASE EnsureDir(r)
  BY <1>0, <1>1 DEF EnsureDir, Continue
<1>2. CASE FinalExists(r)
  BY <1>0, <1>2 DEF FinalExists, RefuseIfExists, Continue, Reply, Exists, files, found
<1>3. CASE LegacyExists(r)
  BY <1>0, <1>3 DEF LegacyExists, RefuseIfExists, Continue, Reply, Exists, files, found
<1>4. CASE OpenTemp(r)
  BY <1>0, <1>4 DEF OpenTemp, Continue
<1>5. CASE OpenTempFails(r)
  BY <1>0, <1>5 DEF OpenTempFails, Continue, Raise, files, found
<1>6. CASE WriteChunk(r)
  BY <1>0, <1>6 DEF WriteChunk, local, MoreToRead, TooLarge
<1>7. CASE RejectSize(r)
  BY <1>0, <1>7 DEF RejectSize, Continue, Raise, files, found, MoreToRead, TooLarge
<1>8. CASE WriteFails(r)
  BY <1>0, <1>8 DEF WriteFails, Continue, Raise, files, found, MoreToRead, TooLarge
<1>9. CASE EndOfStream(r)
  <2>1. len[r] \in Nat /\ arg[r].size \in Nat /\ len[r] <= arg[r].size
    BY DEF Names
  <2>2. ~(len[r] < arg[r].size)
    BY <1>9 DEF EndOfStream, MoreToRead
  <2>3. len[r] = arg[r].size
    BY ONLY <2>1, <2>2
  <2> QED
    BY <1>0, <1>9, <2>3 DEF EndOfStream, Continue, files
<1>10. CASE CommitReplace(r)
  BY <1>0, <1>10 DEF CommitReplace, Continue, Exists
<1>11. CASE CommitLink(r)
  BY <1>0, <1>11 DEF CommitLink, Continue, Exists
<1>12. CASE CommitFails(r)
  BY <1>0, <1>12 DEF CommitFails, Continue, Raise, Exists, files, found
<1>13. CASE TempExists(r)
  BY <1>0, <1>13 DEF TempExists, Continue, Reply, AfterTemp, Exists, files, found
<1>14. CASE TempUnlink(r)
  BY <1>0, <1>14 DEF TempUnlink, Continue, Reply, AfterTemp, Unlink, Exists
<1>15. CASE PurgeExists(r)
  BY <1>0, <1>15 DEF PurgeExists, Continue, Reply, Exists, files, found
<1>16. CASE PurgeUnlink(r)
  BY <1>0, <1>16 DEF PurgeUnlink, Reply, Unlink, Exists
<1>17. CASE DirExists(r)
  BY <1>0, <1>17 DEF DirExists, Continue, Reply, Missing, files, found
<1>18. CASE CurrentExists(r)
  BY <1>0, <1>18 DEF CurrentExists, Continue, Resolve, Exists, files, found
<1>19. CASE LegacyLookup(r)
  BY <1>0, <1>19
     DEF LegacyLookup, Continue, Reply, Resolve, Missing, Exists, files, found
<1>20. CASE Stat(r)
  BY <1>0, <1>20 DEF Stat, Continue, Reply, Missing, files, found
<1>21. CASE SendStat(r)
  BY <1>0, <1>21 DEF SendStat, Continue, Reply, files, found
<1>22. CASE Open(r)
  BY <1>0, <1>22 DEF Open, Reply, Missing, files, found
<1>23. CASE DeleteProbe(r)
  BY <1>0, <1>23 DEF DeleteProbe, Continue, Exists, files
<1>24. CASE DeleteUnlink(r)
  BY <1>0, <1>24 DEF DeleteUnlink, Continue, Reply, Missing, Unlink, Exists
<1>25. CASE DeleteEnd(r)
  BY <1>0, <1>25 DEF DeleteEnd, Reply, Missing, files, found
<1> QED
  BY <1>1, <1>2, <1>3, <1>4, <1>5, <1>6, <1>7, <1>8, <1>9, <1>10, <1>11, <1>12, <1>13,
     <1>14, <1>15, <1>16, <1>17, <1>18, <1>19, <1>20, <1>21, <1>22, <1>23, <1>24,
     <1>25
     DEF RequestStep, SaveStep, FindStep

LEMMA VisibleStep ==
    ASSUME FilesOK, RequestsOK, Control, TempNames, Written, Visible,
           NEW r \in Requests, RequestStep(r)
    PROVE  Visible'
<1> USE FilesAssumption, OwnNames, StatusTypes
    DEF FilesOK, RequestsOK, Control, TempNames, Written, Visible
<1>0. arg' = arg
  BY DEF RequestStep
<1>1. CASE EnsureDir(r)
  BY <1>0, <1>1 DEF EnsureDir, Continue, Final
<1>2. CASE FinalExists(r)
  BY <1>0, <1>2
     DEF FinalExists, RefuseIfExists, Continue, Reply, Exists, files, found, Final
<1>3. CASE LegacyExists(r)
  BY <1>0, <1>3
     DEF LegacyExists, RefuseIfExists, Continue, Reply, Exists, files, found, Final
<1>4. CASE OpenTemp(r)
  BY <1>0, <1>4 DEF OpenTemp, Continue, Final
<1>5. CASE OpenTempFails(r)
  BY <1>0, <1>5 DEF OpenTempFails, Continue, Raise, files, found, Final
<1>6. CASE WriteChunk(r)
  BY <1>0, <1>6 DEF WriteChunk, local, Final
<1>7. CASE RejectSize(r)
  BY <1>0, <1>7 DEF RejectSize, Continue, Raise, files, found, Final
<1>8. CASE WriteFails(r)
  BY <1>0, <1>8 DEF WriteFails, Continue, Raise, files, found, Final
<1>9. CASE EndOfStream(r)
  BY <1>0, <1>9 DEF EndOfStream, Continue, files, found, Final
<1>10. CASE CommitReplace(r)
  BY <1>0, <1>10
     DEF CommitReplace, Continue, Exists, SaveLabels, FindLabels, Final, Names
<1>11. CASE CommitLink(r)
  BY <1>0, <1>11 DEF CommitLink, Continue, Exists, SaveLabels, FindLabels, Final
<1>12. CASE CommitFails(r)
  BY <1>0, <1>12 DEF CommitFails, Continue, Raise, Exists, files, found, Final
<1>13. CASE TempExists(r)
  BY <1>0, <1>13 DEF TempExists, Continue, Reply, AfterTemp, Exists, files, found, Final
<1>14. CASE TempUnlink(r)
  BY <1>0, <1>14 DEF TempUnlink, Continue, Reply, AfterTemp, Unlink, Exists, Final
<1>15. CASE PurgeExists(r)
  BY <1>0, <1>15 DEF PurgeExists, Continue, Reply, Exists, files, found, Final
<1>16. CASE PurgeUnlink(r)
  BY <1>0, <1>16 DEF PurgeUnlink, Reply, Unlink, Exists, Final, Names
<1>17. CASE DirExists(r)
  BY <1>0, <1>17 DEF DirExists, Continue, Reply, Missing, files, found, Final
<1>18. CASE CurrentExists(r)
  BY <1>0, <1>18 DEF CurrentExists, Continue, Resolve, Exists, files, found, Final
<1>19. CASE LegacyLookup(r)
  BY <1>0, <1>19
     DEF LegacyLookup, Continue, Reply, Resolve, Missing, Exists, files, found, Final
<1>20. CASE Stat(r)
  BY <1>0, <1>20 DEF Stat, Continue, Reply, Missing, files, found, Final
<1>21. CASE SendStat(r)
  BY <1>0, <1>21 DEF SendStat, Continue, Reply, files, found, Final
<1>22. CASE Open(r)
  BY <1>0, <1>22 DEF Open, Reply, Missing, files, found, Final
<1>23. CASE DeleteProbe(r)
  BY <1>0, <1>23 DEF DeleteProbe, Continue, Exists, files, Final
<1>24. CASE DeleteUnlink(r)
  BY <1>0, <1>24
     DEF DeleteUnlink, Continue, Reply, Missing, Unlink, Exists, Final, Names
<1>25. CASE DeleteEnd(r)
  BY <1>0, <1>25 DEF DeleteEnd, Reply, Missing, files, found, Final
<1> QED
  BY <1>1, <1>2, <1>3, <1>4, <1>5, <1>6, <1>7, <1>8, <1>9, <1>10, <1>11, <1>12, <1>13,
     <1>14, <1>15, <1>16, <1>17, <1>18, <1>19, <1>20, <1>21, <1>22, <1>23, <1>24,
     <1>25
     DEF RequestStep, SaveStep, FindStep

-------------------------------------------------------------------------------
(***************************************************************************)
(* The inductive invariant.                                                *)
(***************************************************************************)

LEMMA InitInv == Init => Inv
<1> SUFFICES ASSUME Init PROVE Inv
  OBVIOUS
<1> USE FilesAssumption, BoundsAssumption DEF Init
<1>1. FilesOK
  <2>1. PICK S \in SUBSET InitialSlots :
          /\ dir = [n \in Names |-> IF n \in S THEN n ELSE NoFile]
          /\ dirMade \in (IF S = {} THEN BOOLEAN ELSE {TRUE})
    OBVIOUS
  <2>2. dirMade \in BOOLEAN
    BY <2>1
  <2>3. 0 \in 0..MaxClock
    BY SMT
  <2> QED
    BY <2>1, <2>2, <2>3 DEF FilesOK
<1>2. RequestsOK
  <2>1. \A r \in Requests : FirstLabel(arg[r].op) \in Labels
    BY DEF FirstLabel, Labels, SaveLabels, FindLabels
  <2>2. \A r \in Requests : arg[r].file \in Files
    BY CallsAssumption
  <2>3. \A r \in Requests : {Final(r), Legacy(r)} \subseteq Slots
    BY <2>2 DEF Final, Legacy, Slots
  <2> QED
    BY <2>1, <2>3 DEF RequestsOK
<1>3. TypeOK
  BY <1>1, <1>2 DEF TypeOK
<1>4. Control
  BY DEF Control, FirstLabel, SaveLabels, FindLabels
<1>5. SweepControl
  BY DEF SweepControl
<1>6. TempNames
  BY DEF TempNames, Names
<1>7. Written
  <2>1. \A r \in Requests : arg[r].size \in Nat
    BY CallsAssumption
  <2> QED
    BY <2>1 DEF Written, FirstLabel, Names
<1>8. Visible
  BY DEF Visible, Names
<1> QED
  BY <1>3, <1>4, <1>5, <1>6, <1>7, <1>8 DEF Inv

LEMMA RequestInv ==
    ASSUME Inv, NEW r \in Requests, RequestStep(r)
    PROVE  Inv'
<1>1. FilesOK /\ RequestsOK /\ clock \in 0..MaxClock
  BY DEF Inv, TypeOK
<1>2. UNCHANGED <<clock, dead, crashes, sweep>>
  BY DEF RequestStep
<1>3. TypeOK'
  BY <1>1, <1>2, FilesStep, RequestsStep DEF Inv, TypeOK
<1>4. Control' /\ TempNames' /\ Written' /\ Visible'
  BY <1>1, ControlStep, TempNamesStep, WrittenStep, VisibleStep DEF Inv
<1>5. SweepControl'
  BY <1>2 DEF Inv, SweepControl
<1> QED
  BY <1>3, <1>4, <1>5 DEF Inv

\* The cleaner changes the directory only by taking a name away.
LEMMA SweepInv ==
    ASSUME Inv, SweepStep
    PROVE  Inv'
<1> USE FilesAssumption DEF Inv, TypeOK, SweepControl
<1>1. UNCHANGED <<len, mtime, dirMade, local, clock, arg, dead, crashes>>
  BY DEF SweepStep
<1>2. /\ dir' \in [Names -> Names \union {NoFile}]
      /\ \A n \in Names : dir'[n] \in {dir[n], NoFile}
      /\ sweep' \in [pc : {"sleep", "scan", "next", "stat", "unlink"},
                     now : 0..MaxClock, todo : SUBSET Names, cur : Names \union {NoFile}]
      /\ SweepControl'
  <2>1. CASE SweepBegin
    BY <2>1 DEF SweepBegin, FilesOK
  <2>2. CASE SweepScan
    BY <2>2 DEF SweepScan, Scanned, FilesOK
  <2>3. CASE SweepNext
    <3>1. PICK n \in sweep.todo :
            sweep' = [sweep EXCEPT !.pc = IF Exists(n) THEN "stat" ELSE "next",
                                   !.todo = @ \ {n},
                                   !.cur = n]
      BY <2>3 DEF SweepNext
    <3> QED
      BY <2>3, <3>1 DEF SweepNext, FilesOK
  <2>4. CASE SweepStat
    BY <2>4 DEF SweepStat, Sleep, FilesOK
  <2>5. CASE SweepUnlink
    BY <2>5 DEF SweepUnlink, Sleep, Unlink, FilesOK
  <2>6. CASE SweepEnd
    BY <2>6 DEF SweepEnd, Sleep, FilesOK
  <2> QED
    BY <2>1, <2>2, <2>3, <2>4, <2>5, <2>6 DEF SweepStep
<1>3. FilesOK' /\ RequestsOK'
  BY <1>1, <1>2 DEF FilesOK, RequestsOK, local, found
<1>4. TypeOK'
  BY <1>1, <1>2, <1>3
<1>5. Control'
  BY <1>1 DEF Control, local, found
<1>6. TempNames'
  BY <1>1, <1>2 DEF TempNames, local, Names
<1>7. Written'
  BY <1>1 DEF Written, local
<1>8. Visible'
  BY <1>1, <1>2 DEF Visible, local, Names, Final
<1> QED
  BY <1>2, <1>4, <1>5, <1>6, <1>7, <1>8

\* The rest of the environment leaves the files and the requests alone.
LEMMA EnvironmentInv ==
    ASSUME Inv, Tick \/ ServerCrash \/ CleanerCrash \/ UNCHANGED vars
    PROVE  Inv'
<1>1. UNCHANGED <<files, local, arg>>
  BY DEF Tick, ServerCrash, CleanerCrash, vars
<1>2. FilesOK' /\ RequestsOK'
  BY <1>1 DEF Inv, TypeOK, FilesOK, RequestsOK, files, local, found
<1>3. TypeOK'
  <2> USE BoundsAssumption DEF Inv, TypeOK
  <2>1. CASE Tick
    BY <1>2, <2>1 DEF Tick
  <2>2. CASE ServerCrash
    BY <1>2, <2>2 DEF ServerCrash
  <2>3. CASE CleanerCrash
    <3>1. crashes' \in 0..MaxCrashes
      BY <2>3 DEF CleanerCrash
    <3>2. sweep' \in [pc : {"sleep", "scan", "next", "stat", "unlink"},
                      now : 0..MaxClock, todo : SUBSET Names, cur : Names \union {NoFile}]
      BY <2>3 DEF CleanerCrash, Sleep
    <3> QED
      BY <1>2, <2>3, <3>1, <3>2 DEF CleanerCrash
  <2>4. CASE UNCHANGED vars
    BY <1>2, <2>4 DEF vars
  <2> QED
    BY <2>1, <2>2, <2>3, <2>4
<1>4. SweepControl'
  BY DEF Inv, TypeOK, SweepControl, Tick, ServerCrash, CleanerCrash, Sleep, vars
<1>5. Control' /\ TempNames' /\ Written' /\ Visible'
  BY <1>1 DEF Inv, Control, TempNames, Written, Visible, files, local, found, Final
<1> QED
  BY <1>3, <1>4, <1>5 DEF Inv

LEMMA StepInv == Inv /\ [Next]_vars => Inv'
BY RequestInv, SweepInv, EnvironmentInv DEF Next

\* Every reachable state satisfies the inductive invariant.
THEOREM Invariance == Spec => []Inv
BY InitInv, StepInv, PTL DEF Spec

-------------------------------------------------------------------------------
(***************************************************************************)
(* The theorems.                                                           *)
(***************************************************************************)

\* Every variable keeps its type; in particular every request is answered with
\* a status the API documents, or with an aborted transfer.
THEOREM TypeCorrectness == Spec => []TypeOK
<1>1. Inv => TypeOK
  BY DEF Inv
<1> QED
  BY <1>1, Invariance, PTL

\* What clients can see under a name is always a whole upload within the limit,
\* for any number of concurrent uploads, deletes, crashes and cleaning cycles.
THEOREM CompleteFiles == Spec => []VisibleIsComplete
<1>1. Inv => VisibleIsComplete
  BY FilesAssumption DEF Inv, TypeOK, Visible, Written, VisibleIsComplete
<1> QED
  BY <1>1, Invariance, PTL

\* A refused upload leaves neither a file nor a temporary file behind.
THEOREM CleanRefusals == Spec => []RefusedLeavesNoTrace
<1>1. Inv => RefusedLeavesNoTrace
  <2> SUFFICES ASSUME Inv, NEW r \in Requests
               PROVE  /\ resp[r] \in {400, 409, 507} => \A n \in Names : dir[n] # r
                      /\ pc[r] = "done" => dir[r] = NoFile
    BY DEF RefusedLeavesNoTrace
  <2> USE FilesAssumption DEF Inv
  <2>1. pc[r] = "done" => dir[r] = NoFile
    BY DEF TempNames
  <2>2. ASSUME resp[r] \in {400, 409, 507}, NEW n \in Names, dir[n] = r PROVE FALSE
    <3>1. pc[r] = "done"
      BY <2>2 DEF Control
    <3>2. CASE n \in Slots
      BY <2>2, <3>2 DEF Visible
    <3>3. CASE n \in Requests
      BY <2>1, <2>2, <3>1, <3>3 DEF TempNames, Names
    <3> QED
      BY <3>2, <3>3 DEF Names
  <2> QED
    BY <2>1, <2>2
<1> QED
  BY <1>1, Invariance, PTL

-------------------------------------------------------------------------------
(***************************************************************************)
(* Create-only uploads.  The theorem needs that no file has the v1.0.0     *)
(* name of another: with such a file, an upload of the one removes the     *)
(* other as if it were its own legacy copy.                                *)
(***************************************************************************)

NoAliasing == \A f, g \in Files : HashedName[f] # g

\* Past its checks, a create-only upload has no v1.0.0 copy left to purge: no
\* one creates such a name any more.
NothingToPurge ==
    \A r \in Requests :
        (/\ arg[r].op = "save"
         /\ ~arg[r].overwrite
         /\ pc[r] \notin {"ensure_dir", "final_exists", "legacy_exists", "done"})
            => dir[Legacy(r)] = NoFile

\* Names of the v1.0.0 format only disappear.
LEMMA LegacyOnlyDisappears ==
    ASSUME NoAliasing, Inv, Next, NEW f \in Files
    PROVE  dir'[HashedName[f]] \in {dir[HashedName[f]], NoFile}
<1> USE FilesAssumption DEF Inv, TypeOK, FilesOK
<1>0. HashedName[f] \in Slots /\ HashedName[f] \in Names
  BY DEF Slots, Names
<1>1. ASSUME NEW r \in Requests, RequestStep(r)
      PROVE  dir'[HashedName[f]] \in {dir[HashedName[f]], NoFile}
  <2>0. HashedName[f] # r /\ HashedName[f] # Final(r)
    BY <1>0, OwnNames DEF NoAliasing, Final
  <2>1. CASE OpenTemp(r)
    BY <1>0, <2>0, <2>1 DEF OpenTemp
  <2>2. CASE CommitReplace(r)
    BY <1>0, <2>0, <2>2 DEF CommitReplace
  <2>3. CASE CommitLink(r)
    BY <1>0, <2>0, <2>3 DEF CommitLink
  <2>4. CASE TempUnlink(r) \/ PurgeUnlink(r) \/ DeleteUnlink(r)
    BY <1>0, <2>4 DEF TempUnlink, PurgeUnlink, DeleteUnlink, Unlink
  <2>5. CASE UNCHANGED dir
    BY <2>5
  <2> QED
    BY <1>1, <2>1, <2>2, <2>3, <2>4, <2>5
       DEF RequestStep, SaveStep, FindStep, files, local, RefuseIfExists, EnsureDir,
           FinalExists, LegacyExists, OpenTempFails, WriteChunk, RejectSize,
           WriteFails, EndOfStream, CommitFails, TempExists, PurgeExists, DirExists,
           CurrentExists, LegacyLookup, Stat, SendStat, Open, DeleteProbe, DeleteEnd
<1>2. CASE SweepStep
  BY <1>0, <1>2
     DEF SweepStep, SweepBegin, SweepScan, SweepNext, SweepStat, SweepUnlink, SweepEnd,
         Unlink
<1>3. CASE Tick \/ ServerCrash \/ CleanerCrash
  BY <1>3 DEF Tick, ServerCrash, CleanerCrash, files
<1> QED
  BY <1>1, <1>2, <1>3 DEF Next

\* A request's step leaves the labels and calls of the others alone.
LEMMA OthersStay ==
    ASSUME RequestsOK, NEW r \in Requests, RequestStep(r), NEW q \in Requests, q # r
    PROVE  pc'[q] = pc[q]
BY DEF RequestsOK, RequestStep, SaveStep, FindStep, local, Continue, Reply, Raise,
       Missing, Resolve, AfterTemp, RefuseIfExists, EnsureDir, FinalExists,
       LegacyExists, OpenTemp, OpenTempFails, WriteChunk, RejectSize, WriteFails,
       EndOfStream, CommitReplace, CommitLink, CommitFails, TempExists, TempUnlink,
       PurgeExists, PurgeUnlink, DirExists, CurrentExists, LegacyLookup, Stat,
       SendStat, Open, DeleteProbe, DeleteUnlink, DeleteEnd

LEMMA NothingToPurgeStep ==
    ASSUME NoAliasing, Inv, NothingToPurge, [Next]_vars
    PROVE  NothingToPurge'
<1> SUFFICES ASSUME NEW r \in Requests, arg'[r].op = "save", ~arg'[r].overwrite,
                    pc'[r] \notin {"ensure_dir", "final_exists", "legacy_exists", "done"}
             PROVE  dir'[Legacy(r)'] = NoFile
  BY DEF NothingToPurge
<1> USE FilesAssumption DEF Inv, TypeOK
<1>1. arg' = arg
  BY DEF Next, RequestStep, SweepStep, Tick, ServerCrash, CleanerCrash, vars
<1>2. Legacy(r)' = Legacy(r) /\ arg[r].file \in Files /\ Legacy(r) \in Slots
  BY <1>1, OwnNames DEF Legacy
<1>3. CASE UNCHANGED vars
  BY <1>1, <1>2, <1>3 DEF NothingToPurge, vars, files, local
<1>4. CASE Next
  <2>1. dir'[Legacy(r)] \in {dir[Legacy(r)], NoFile}
    BY <1>2, <1>4, LegacyOnlyDisappears DEF Legacy
  <2>2. CASE pc'[r] = pc[r]
    BY <1>1, <1>2, <2>1, <2>2 DEF NothingToPurge
  <2>3. CASE pc'[r] # pc[r]
    <3>1. RequestStep(r)
      BY <1>4, <2>3, OthersStay
         DEF Next, SweepStep, Tick, ServerCrash, CleanerCrash, local
    <3>2. CASE pc[r] \notin {"ensure_dir", "final_exists", "legacy_exists", "done"}
      BY <1>1, <1>2, <2>1, <3>2 DEF NothingToPurge
    <3>3. CASE pc[r] \in {"ensure_dir", "final_exists", "legacy_exists", "done"}
      <4>1. LegacyExists(r) \/ EnsureDir(r) \/ FinalExists(r)
        BY <3>1, <3>3
           DEF RequestStep, SaveStep, FindStep, OpenTemp, OpenTempFails, WriteChunk,
               RejectSize, WriteFails, EndOfStream, CommitReplace, CommitLink,
               CommitFails, TempExists, TempUnlink, PurgeExists, PurgeUnlink,
               DirExists, CurrentExists, LegacyLookup, Stat, SendStat, Open,
               DeleteProbe, DeleteUnlink, DeleteEnd
      <4>2. LegacyExists(r) /\ ~Exists(Legacy(r))
        BY <1>1, <4>1
           DEF RequestsOK, EnsureDir, FinalExists, LegacyExists, RefuseIfExists,
               Continue, Reply
      <4> QED
        BY <1>2, <2>1, <4>2 DEF Exists
    <3> QED
      BY <3>2, <3>3
  <2> QED
    BY <2>2, <2>3
<1> QED
  BY <1>3, <1>4

\* No step of a create-only upload takes a visible file away, for any number of
\* concurrent requests, provided no file has the v1.0.0 name of another.
THEOREM CreateOnlyIsSafe ==
    ASSUME NoAliasing
    PROVE  Spec => CreateOnlyNeverDestroys
<1>1. Init => NothingToPurge
  BY DEF Init, NothingToPurge, FirstLabel
<1>2. ASSUME Inv, NothingToPurge, [Next]_vars
      PROVE  [\A r \in Requests, s \in Slots :
                 (arg[r].op = "save" /\ ~arg[r].overwrite /\ pc'[r] # pc[r])
                     => dir[s] \in {NoFile, dir'[s]}]_vars
  <2> SUFFICES ASSUME Next, NEW r \in Requests, NEW s \in Slots,
                      arg[r].op = "save", ~arg[r].overwrite, pc'[r] # pc[r]
               PROVE  dir[s] \in {NoFile, dir'[s]}
    BY <1>2
  <2> USE FilesAssumption, <1>2 DEF Inv, TypeOK, FilesOK
  <2>1. RequestStep(r)
    BY <1>2, OthersStay DEF Next, SweepStep, Tick, ServerCrash, CleanerCrash, local
  <2>2. s \in Names /\ s # r /\ Final(r) \in Names
    BY OwnNames DEF Names
  <2>3. CASE OpenTemp(r) \/ TempUnlink(r)
    BY <2>2, <2>3 DEF OpenTemp, TempUnlink, Unlink
  <2>4. CASE CommitLink(r)
    BY <2>2, <2>4 DEF CommitLink, LinkTarget, Exists
  <2>5. CASE PurgeUnlink(r)
    BY <2>2, <2>5 DEF PurgeUnlink, Unlink, NothingToPurge
  <2>6. CASE UNCHANGED dir
    BY <2>6
  <2> QED
    BY <2>1, <2>3, <2>4, <2>5, <2>6
       DEF RequestStep, SaveStep, FindStep, files, local, RefuseIfExists, EnsureDir,
           FinalExists, LegacyExists, OpenTempFails, WriteChunk, RejectSize,
           WriteFails, EndOfStream, CommitReplace, CommitFails, TempExists,
           PurgeExists, DirExists, CurrentExists, LegacyLookup, Stat, SendStat, Open,
           DeleteProbe, DeleteEnd, DeleteUnlink, Control, FindLabels
<1> QED
  BY <1>1, <1>2, Invariance, NothingToPurgeStep, PTL DEF Spec, CreateOnlyNeverDestroys

-------------------------------------------------------------------------------
(***************************************************************************)
(* Responses put together from a stat and a later open of the same path.   *)
(***************************************************************************)

\* An upload whose commit is behind it, or that is answered.
SettledLabels == {"temp_exists", "temp_unlink", "purge_exists", "purge_unlink", "done"}

\* A file that was there at the start is only ever under its own name.
Originals == \A s \in Slots : dir[s] \in Slots => dir[s] = s

\* The inode a request has stat'ed is the original of its target, or an upload
\* whose commit is behind it; then the original is gone.
Stated(r) ==
    seen[r] # NoFile =>
        /\ pc[r] \in {"send_stat", "open", "done"}
        /\ target[r] \in Slots
        /\ seen[r] \in Slots => seen[r] = target[r]
        /\ seen[r] \in Requests => /\ pc[seen[r]] \in SettledLabels
                                   /\ dir[target[r]] \notin Slots

\* MixesOnlyWithNewer, and that the upload is one whose commit is behind it.
Mixed(r) ==
    (resp[r] = 200 /\ seen[r] \notin {NoFile, got[r]}) =>
        /\ dir[target[r]] # seen[r]
        /\ got[r] \in Requests
        /\ arg[got[r]].op = "save"
        /\ Final(got[r]) = target[r]
        /\ len[got[r]] = arg[got[r]].size
        /\ pc[got[r]] \in SettledLabels

MixInv == Originals /\ \A r \in Requests : Stated(r) /\ Mixed(r)

\* Only a commit puts an inode under a client's name.
LEMMA SlotChanges ==
    ASSUME Inv, [Next]_vars, NEW s \in Slots
    PROVE  \/ dir'[s] \in {dir[s], NoFile}
           \/ \E q \in Requests : dir'[s] = q /\ pc[q] = "commit"
<1> USE FilesAssumption DEF Inv, TypeOK, FilesOK
<1>0. s \in Names /\ s \notin Requests
  BY DEF Names
<1>1. ASSUME NEW r \in Requests, RequestStep(r)
      PROVE  dir'[s] \in {dir[s], NoFile} \/ (dir'[s] = r /\ pc[r] = "commit")
  <2>1. CASE OpenTemp(r)
    BY <1>0, <2>1 DEF OpenTemp
  <2>2. CASE CommitReplace(r) \/ CommitLink(r)
    <3>1. dir[r] = r /\ Final(r) \in Names /\ r \in Names
      BY <2>2, OwnNames DEF CommitReplace, CommitLink, Exists, TempNames, Names
    <3> QED
      BY <1>0, <2>2, <3>1 DEF CommitReplace, CommitLink
  <2>3. CASE TempUnlink(r) \/ PurgeUnlink(r) \/ DeleteUnlink(r)
    BY <1>0, <2>3 DEF TempUnlink, PurgeUnlink, DeleteUnlink, Unlink
  <2>4. CASE UNCHANGED dir
    BY <2>4
  <2> QED
    BY <1>1, <2>1, <2>2, <2>3, <2>4
       DEF RequestStep, SaveStep, FindStep, files, local, RefuseIfExists, EnsureDir,
           FinalExists, LegacyExists, OpenTempFails, WriteChunk, RejectSize,
           WriteFails, EndOfStream, CommitFails, TempExists, PurgeExists, DirExists,
           CurrentExists, LegacyLookup, Stat, SendStat, Open, DeleteProbe, DeleteEnd
<1>2. CASE SweepStep
  BY <1>0, <1>2
     DEF SweepStep, SweepBegin, SweepScan, SweepNext, SweepStat, SweepUnlink, SweepEnd,
         Unlink
<1>3. CASE Tick \/ ServerCrash \/ CleanerCrash \/ UNCHANGED vars
  BY <1>3 DEF Tick, ServerCrash, CleanerCrash, files, vars
<1> QED
  BY <1>1, <1>2, <1>3 DEF Next

\* A settled upload stays settled and is not written to any more.
LEMMA StaysSettled ==
    ASSUME Inv, [Next]_vars, NEW q \in Requests, pc[q] \in SettledLabels
    PROVE  pc'[q] \in SettledLabels /\ len'[q] = len[q]
<1> USE DEF Inv, TypeOK, FilesOK, RequestsOK
<1>1. ASSUME NEW r \in Requests, RequestStep(r)
      PROVE  pc'[q] \in SettledLabels /\ len'[q] = len[q]
  <2>1. len' = len \/ (WriteChunk(r) /\ r # q)
    BY <1>1
       DEF RequestStep, SaveStep, FindStep, files, RefuseIfExists, EnsureDir, FinalExists,
           LegacyExists, OpenTemp, OpenTempFails, WriteChunk, RejectSize, WriteFails,
           EndOfStream, CommitReplace, CommitLink, CommitFails, TempExists, TempUnlink,
           PurgeExists, PurgeUnlink, DirExists, CurrentExists, LegacyLookup, Stat,
           SendStat, Open, DeleteProbe, DeleteUnlink, DeleteEnd, SettledLabels
  <2>2. len'[q] = len[q]
    BY <2>1 DEF WriteChunk, Names
  <2>3. CASE q # r
    BY <1>1, <2>2, <2>3, OthersStay
  <2>4. CASE q = r
    <3>1. TempExists(r) \/ TempUnlink(r) \/ PurgeExists(r) \/ PurgeUnlink(r)
      BY <1>1, <2>4
         DEF RequestStep, SaveStep, FindStep, RefuseIfExists, EnsureDir, FinalExists,
             LegacyExists, OpenTemp, OpenTempFails, WriteChunk, RejectSize, WriteFails,
             EndOfStream, CommitReplace, CommitLink, CommitFails, DirExists,
             CurrentExists, LegacyLookup, Stat, SendStat, Open, DeleteProbe,
             DeleteUnlink, DeleteEnd, SettledLabels
    <3> QED
      BY <2>2, <2>4, <3>1
         DEF TempExists, TempUnlink, PurgeExists, PurgeUnlink, AfterTemp, Continue, Reply,
             SettledLabels
  <2> QED
    BY <2>3, <2>4
<1>2. CASE SweepStep \/ Tick \/ ServerCrash \/ CleanerCrash \/ UNCHANGED vars
  BY <1>2 DEF SweepStep, Tick, ServerCrash, CleanerCrash, files, local, vars
<1> QED
  BY <1>1, <1>2 DEF Next

\* Once a request has stat'ed its path, its own steps are a second stat and an open.
LEMMA ResponseStep ==
    ASSUME Inv, [Next]_vars, NEW r \in Requests, Stated(r)
    PROVE  \/ UNCHANGED <<pc[r], resp[r], seen[r], got[r]>>
              /\ (seen[r] # NoFile => target'[r] = target[r])
           \/ /\ Stat(r) \/ SendStat(r)
              /\ dir[target[r]] # NoFile /\ seen'[r] = dir[target[r]]
              /\ target[r] \in Slots /\ target'[r] = target[r] /\ UNCHANGED dir
              /\ resp'[r] = 0 /\ pc'[r] \in {"send_stat", "open"}
              /\ \A q \in Requests : q # r => pc'[q] = pc[q]
           \/ /\ Open(r)
              /\ dir[target[r]] # NoFile /\ got'[r] = dir[target[r]] /\ resp'[r] = 200
              /\ target[r] \in Slots /\ UNCHANGED <<dir, len>> /\ seen'[r] = seen[r]
              /\ target'[r] = target[r] /\ pc'[r] = "done"
              /\ \A q \in Requests : q # r => pc'[q] = pc[q]
           \/ seen'[r] = seen[r] /\ resp'[r] # 200 /\ (seen[r] # NoFile => /\ pc'[r] = "done"
                                                                       /\ target'[r] = target[r])
           \/ seen'[r] = NoFile
<1> USE DEF Inv, TypeOK, FilesOK, RequestsOK
<1>1. CASE RequestStep(r)
  <2>1. \A q \in Requests : q # r => pc'[q] = pc[q]
    BY <1>1, OthersStay
  <2>2. CASE Stat(r) \/ SendStat(r)
    <3>1. target[r] \in Slots /\ resp[r] = 0
      BY <2>2 DEF Stat, SendStat, Control
    <3> QED
      BY <1>1, <2>1, <2>2, <3>1, StatusTypes
         DEF Stat, SendStat, Continue, Reply, Missing, found, files
  <2>3. CASE Open(r)
    <3>1. target[r] \in Slots /\ resp[r] = 0
      BY <2>3 DEF Open, Control
    <3> QED
      BY <1>1, <2>1, <2>3, <3>1, StatusTypes DEF Open, Reply, Missing, found, files, Aborted
  <2>4. CASE ~(Stat(r) \/ SendStat(r) \/ Open(r))
    <3>1. pc[r] \notin {"send_stat", "open", "done"}
      BY <1>1, <2>4
         DEF RequestStep, SaveStep, FindStep, RefuseIfExists, EnsureDir, FinalExists,
             LegacyExists, OpenTemp, OpenTempFails, WriteChunk, RejectSize, WriteFails,
             EndOfStream, CommitReplace, CommitLink, CommitFails, TempExists, TempUnlink,
             PurgeExists, PurgeUnlink, DirExists, CurrentExists, LegacyLookup,
             DeleteProbe, DeleteUnlink, DeleteEnd
    <3>2. seen[r] = NoFile
      BY <3>1 DEF Stated
    <3>3. seen' = seen
      BY <1>1, <2>4
         DEF RequestStep, SaveStep, FindStep, RefuseIfExists, EnsureDir, FinalExists,
             LegacyExists, OpenTemp, OpenTempFails, WriteChunk, RejectSize, WriteFails,
             EndOfStream, CommitReplace, CommitLink, CommitFails, TempExists, TempUnlink,
             PurgeExists, PurgeUnlink, DirExists, CurrentExists, LegacyLookup, Resolve,
             DeleteProbe, DeleteUnlink, DeleteEnd, local, found
    <3> QED
      BY <3>2, <3>3
  <2> QED
    BY <2>2, <2>3, <2>4
<1>2. ASSUME NEW u \in Requests, u # r, RequestStep(u)
      PROVE  UNCHANGED <<pc[r], resp[r], seen[r], got[r], target[r]>>
  <2> USE DEF local, found, Continue, Reply, Missing
  <2>1. CASE SaveStep(u)
    BY <1>2, <2>1
       DEF SaveStep, Raise, AfterTemp, RefuseIfExists, EnsureDir, FinalExists,
           LegacyExists, OpenTemp, OpenTempFails, WriteChunk, RejectSize, WriteFails,
           EndOfStream, CommitReplace, CommitLink, CommitFails, TempExists, TempUnlink,
           PurgeExists, PurgeUnlink
  <2>2. CASE DirExists(u) \/ CurrentExists(u) \/ LegacyLookup(u) \/ Stat(u) \/ SendStat(u)
    BY <1>2, <2>2 DEF DirExists, CurrentExists, LegacyLookup, Resolve, Stat, SendStat
  <2>3. CASE Open(u) \/ DeleteProbe(u) \/ DeleteUnlink(u) \/ DeleteEnd(u)
    BY <1>2, <2>3 DEF Open, DeleteProbe, DeleteUnlink, DeleteEnd
  <2> QED
    BY <1>2, <2>1, <2>2, <2>3 DEF RequestStep, FindStep
<1>3. CASE SweepStep \/ Tick \/ ServerCrash \/ CleanerCrash \/ UNCHANGED vars
  BY <1>3 DEF SweepStep, Tick, ServerCrash, CleanerCrash, local, found, vars
<1> QED
  BY <1>1, <1>2, <1>3 DEF Next

LEMMA StatedStep ==
    ASSUME Inv, MixInv, [Next]_vars, NEW r \in Requests
    PROVE  Stated(r)'
<1> USE FilesAssumption DEF Inv, TypeOK, FilesOK, RequestsOK
<1>0. Stated(r) /\ Originals
  BY DEF MixInv
<1>1. CASE seen'[r] = NoFile
  BY <1>1 DEF Stated
<1>2. CASE /\ seen'[r] = seen[r] /\ seen[r] # NoFile
           /\ target'[r] = target[r] /\ pc'[r] \in {pc[r], "done"}
  <2>1. pc'[r] \in {"send_stat", "open", "done"} /\ target[r] \in Slots
    BY <1>0, <1>2 DEF Stated
  <2>2. seen[r] \in Slots => seen[r] = target[r]
    BY <1>0, <1>2 DEF Stated
  <2>3. ASSUME seen[r] \in Requests
        PROVE  pc'[seen[r]] \in SettledLabels /\ dir'[target[r]] \notin Slots
    <3>1. pc[seen[r]] \in SettledLabels /\ dir[target[r]] \notin Slots
      BY <1>0, <2>3, <1>2 DEF Stated
    <3>2. dir'[target[r]] \in {dir[target[r]], NoFile} \union Requests
      BY <2>1, SlotChanges
    <3>3. NoFile \notin Slots
      BY DEF Names
    <3> QED
      BY <2>3, <3>1, <3>2, <3>3, StaysSettled
  <2> QED
    BY <1>2, <2>1, <2>2, <2>3 DEF Stated
<1>3. CASE /\ Stat(r) \/ SendStat(r)
           /\ dir[target[r]] # NoFile /\ seen'[r] = dir[target[r]]
           /\ target[r] \in Slots /\ target'[r] = target[r] /\ UNCHANGED dir
           /\ resp'[r] = 0 /\ pc'[r] \in {"send_stat", "open"}
           /\ \A q \in Requests : q # r => pc'[q] = pc[q]
  <2>1. seen'[r] \in Slots => seen'[r] = target'[r]
    BY <1>0, <1>3 DEF Originals
  <2>2. ASSUME seen'[r] \in Requests
        PROVE  pc'[seen'[r]] \in SettledLabels /\ dir'[target'[r]] \notin Slots
    <3>1. pc[seen'[r]] \in SettledLabels
      BY <1>3, <2>2 DEF Visible, SettledLabels
    <3>2. seen'[r] # r
      BY <1>3, <3>1 DEF Stat, SendStat, SettledLabels
    <3> QED
      BY <1>3, <2>2, <3>1, <3>2
  <2> QED
    BY <1>3, <2>1, <2>2 DEF Stated
<1> QED
  <2>1. Stated(r)
    BY <1>0
  <2> QED
    BY <1>1, <1>2, <1>3, <2>1, ResponseStep

LEMMA MixedStep ==
    ASSUME Inv, MixInv, [Next]_vars, NEW r \in Requests
    PROVE  Mixed(r)'
<1> USE FilesAssumption DEF Inv, TypeOK, FilesOK, RequestsOK
<1>0. Stated(r) /\ Mixed(r) /\ Originals
  BY DEF MixInv
<1>a. arg' = arg /\ \A q \in Requests : Final(q)' = Final(q)
  BY DEF Next, RequestStep, SweepStep, Tick, ServerCrash, CleanerCrash, vars, Final
<1>1. CASE seen'[r] = NoFile \/ resp'[r] # 200
  BY <1>1 DEF Mixed
<1>2. CASE /\ UNCHANGED <<pc[r], resp[r], seen[r], got[r]>>
           /\ seen[r] # NoFile /\ target'[r] = target[r]
           /\ resp[r] = 200
  <2> SUFFICES ASSUME seen[r] # got[r]
               PROVE  /\ dir'[target[r]] # seen[r]
                      /\ got[r] \in Requests
                      /\ arg[got[r]].op = "save"
                      /\ Final(got[r]) = target[r]
                      /\ len'[got[r]] = arg[got[r]].size
                      /\ pc'[got[r]] \in SettledLabels
    BY <1>a, <1>2 DEF Mixed
  <2>1. /\ dir[target[r]] # seen[r]
        /\ got[r] \in Requests
        /\ arg[got[r]].op = "save"
        /\ Final(got[r]) = target[r]
        /\ len[got[r]] = arg[got[r]].size
        /\ pc[got[r]] \in SettledLabels
    BY <1>0, <1>2 DEF Mixed
  <2>2. ASSUME dir'[target[r]] = seen[r] PROVE FALSE
    <3>1. seen[r] \in Requests /\ pc[seen[r]] = "commit"
      BY <1>2, <2>1, <2>2, SlotChanges, OwnNames
    <3> QED
      BY <1>0, <1>2, <3>1 DEF Stated, SettledLabels
  <2> QED
    BY <2>1, <2>2, StaysSettled
<1>3. CASE /\ Open(r)
           /\ dir[target[r]] # NoFile /\ got'[r] = dir[target[r]] /\ resp'[r] = 200
           /\ target[r] \in Slots /\ UNCHANGED <<dir, len>> /\ seen'[r] = seen[r]
           /\ target'[r] = target[r] /\ pc'[r] = "done"
           /\ \A q \in Requests : q # r => pc'[q] = pc[q]
  <2> SUFFICES ASSUME seen[r] \notin {NoFile, got'[r]} PROVE Mixed(r)'
    BY <1>3 DEF Mixed
  <2>1. got'[r] \in Requests
    <3>1. ASSUME got'[r] \in Slots PROVE FALSE
      <4>1. got'[r] = target[r]
        BY <1>0, <1>3, <3>1 DEF Originals
      <4>2. seen[r] \in Names
        OBVIOUS
      <4> QED
        BY <1>0, <1>3, <3>1, <4>1, <4>2 DEF Stated, Names
    <3> QED
      BY <1>3, <3>1 DEF Names
  <2>2. /\ arg[got'[r]].op = "save" /\ target[r] = Final(got'[r])
        /\ len[got'[r]] = arg[got'[r]].size /\ pc[got'[r]] \in SettledLabels
    BY <1>3, <2>1 DEF Visible, SettledLabels
  <2>3. got'[r] # r
    BY <1>3, <2>2 DEF Open, SettledLabels
  <2> QED
    BY <1>a, <1>3, <2>1, <2>2, <2>3 DEF Mixed
<1> QED
  BY <1>0, <1>1, <1>2, <1>3, ResponseStep

LEMMA MixStep == Inv /\ MixInv /\ [Next]_vars => MixInv'
<1> SUFFICES ASSUME Inv, MixInv, [Next]_vars PROVE MixInv'
  OBVIOUS
<1>1. Originals'
  <2> SUFFICES ASSUME NEW s \in Slots, dir'[s] \in Slots PROVE dir'[s] = s
    BY DEF Originals
  <2>1. NoFile \notin Slots /\ \A q \in Requests : q \notin Slots
    BY FilesAssumption DEF Names
  <2>2. dir'[s] = dir[s]
    BY <2>1, SlotChanges
  <2> QED
    BY <2>2 DEF MixInv, Originals
<1> QED
  BY <1>1, StatedStep, MixedStep DEF MixInv

\* A response is put together from two versions of a file only if the second
\* is a whole upload that has taken the place of the first for good.
THEOREM MixesAreOrdered == Spec => []MixesOnlyWithNewer
<1>1. Init => MixInv
  <2> SUFFICES ASSUME Init PROVE MixInv
    OBVIOUS
  <2>1. Originals
    BY FilesAssumption DEF Init, Originals, Names, Slots
  <2>2. \A r \in Requests : Stated(r) /\ Mixed(r)
    BY DEF Init, Stated, Mixed
  <2> QED
    BY <2>1, <2>2 DEF MixInv
<1>2. MixInv => MixesOnlyWithNewer
  BY DEF MixInv, Mixed, MixesOnlyWithNewer
<1> QED
  BY <1>1, <1>2, MixStep, Invariance, PTL DEF Spec
-------------------------------------------------------------------------------
(***************************************************************************)
(* What clients are sent.                                                  *)
(***************************************************************************)

\* An upload that has been published: its commit is behind it, nothing was raised
\* before it, and no refusal is possible any more.
IsPublished(u) ==
    /\ arg[u].op = "save"
    /\ len[u] = arg[u].size
    /\ pend[u] = "none"
    /\ pc[u] \in SettledLabels
    /\ resp[u] \notin {400, 409, 507}

\* A path that a request has resolved is one of its own two.
Resolved(r) == pc[r] \in {"stat", "send_stat", "open"} => target[r] \in {Final(r), Legacy(r)}

Sent(r) == got[r] \in Requests => /\ IsPublished(got[r])
                                  /\ Final(got[r]) \in {Final(r), Legacy(r)}

\* What a request knows is not touched by another one.
LEMMA OthersKnow ==
    ASSUME RequestsOK, NEW u \in Requests, RequestStep(u), NEW r \in Requests, r # u
    PROVE  UNCHANGED <<pc[r], resp[r], pend[r], got[r], target[r]>>
<1> USE DEF RequestsOK, local, found, Continue, Reply, Missing
<1>1. CASE SaveStep(u)
  BY <1>1
     DEF SaveStep, Raise, AfterTemp, RefuseIfExists, EnsureDir, FinalExists,
         LegacyExists, OpenTemp, OpenTempFails, WriteChunk, RejectSize, WriteFails,
         EndOfStream, CommitReplace, CommitLink, CommitFails, TempExists, TempUnlink,
         PurgeExists, PurgeUnlink
<1>2. CASE DirExists(u) \/ CurrentExists(u) \/ LegacyLookup(u) \/ Stat(u) \/ SendStat(u)
  BY <1>2 DEF DirExists, CurrentExists, LegacyLookup, Resolve, Stat, SendStat
<1>3. CASE Open(u) \/ DeleteProbe(u) \/ DeleteUnlink(u) \/ DeleteEnd(u)
  BY <1>3 DEF Open, DeleteProbe, DeleteUnlink, DeleteEnd
<1> QED
  BY <1>1, <1>2, <1>3 DEF RequestStep, FindStep

\* What has been published is never refused later.
LEMMA StaysPublished ==
    ASSUME Inv, [Next]_vars, NEW u \in Requests, IsPublished(u)
    PROVE  IsPublished(u)'
<1> USE DEF Inv, TypeOK, RequestsOK
<1>1. arg' = arg
  BY DEF Next, RequestStep, SweepStep, Tick, ServerCrash, CleanerCrash, vars
<1>2. pc'[u] \in SettledLabels /\ len'[u] = len[u]
  BY StaysSettled DEF IsPublished
<1>3. pend'[u] = "none" /\ resp'[u] \notin {400, 409, 507}
  <2>1. CASE RequestStep(u)
    <3>1. TempExists(u) \/ TempUnlink(u) \/ PurgeExists(u) \/ PurgeUnlink(u)
      BY <2>1
         DEF RequestStep, SaveStep, FindStep, RefuseIfExists, EnsureDir, FinalExists,
             LegacyExists, OpenTemp, OpenTempFails, WriteChunk, RejectSize, WriteFails,
             EndOfStream, CommitReplace, CommitLink, CommitFails, DirExists,
             CurrentExists, LegacyLookup, Stat, SendStat, Open, DeleteProbe,
             DeleteUnlink, DeleteEnd, IsPublished, SettledLabels
    <3>2. pend' = pend
      BY <3>1 DEF TempExists, TempUnlink, PurgeExists, PurgeUnlink
    <3>3. resp'[u] \in {resp[u], UploadStatus["none"], UploadStatus["OSError"]}
      BY <3>1 DEF TempExists, TempUnlink, PurgeExists, PurgeUnlink, AfterTemp, Continue,
                  Reply, IsPublished
    <3> QED
      BY <3>2, <3>3, StatusTypes DEF IsPublished
  <2>2. ASSUME NEW q \in Requests, q # u, RequestStep(q)
        PROVE  pend'[u] = "none" /\ resp'[u] \notin {400, 409, 507}
    BY <2>2, OthersKnow DEF IsPublished
  <2>3. CASE SweepStep \/ Tick \/ ServerCrash \/ CleanerCrash \/ UNCHANGED vars
    BY <2>3 DEF SweepStep, Tick, ServerCrash, CleanerCrash, local, vars, IsPublished
  <2> QED
    BY <2>1, <2>2, <2>3 DEF Next
<1> QED
  BY <1>1, <1>2, <1>3 DEF IsPublished

LEMMA ServedStep ==
    ASSUME Inv, [Next]_vars, NEW r \in Requests, Resolved(r), Sent(r)
    PROVE  Resolved(r)' /\ Sent(r)'
<1> USE DEF Inv, TypeOK, RequestsOK
<1>1. arg' = arg /\ \A q \in Requests : Final(q)' = Final(q) /\ Legacy(q)' = Legacy(q)
  BY DEF Next, RequestStep, SweepStep, Tick, ServerCrash, CleanerCrash, vars, Final, Legacy
<1>2. CASE got'[r] = got[r] /\ Resolved(r)'
  BY <1>1, <1>2, StaysPublished DEF Sent
<1>3. CASE UNCHANGED <<pc[r], got[r], target[r]>>
  BY <1>1, <1>2, <1>3 DEF Resolved
<1>4. CASE RequestStep(r)
  <2>1. CASE Open(r)
    <3>1. pc[r] = "open" /\ pc'[r] = "done" /\ target[r] \in {Final(r), Legacy(r)}
      BY <2>1 DEF Open, Reply, Missing, Resolved
    <3>2. Resolved(r)'
      BY <3>1 DEF Resolved
    <3>3. CASE got'[r] = dir[target[r]]
      <4>1. target[r] \in Slots
        BY <3>1, OwnNames
      <4>2. ASSUME got'[r] \in Requests
            PROVE  IsPublished(got'[r]) /\ Final(got'[r]) = target[r]
        BY <3>3, <4>1, <4>2 DEF Visible, IsPublished, SettledLabels
      <4> QED
        BY <1>1, <3>1, <3>2, <4>2, StaysPublished DEF Sent
    <3> QED
      BY <1>2, <2>1, <3>2, <3>3 DEF Open, found
  <2>2. CASE CurrentExists(r) \/ LegacyLookup(r)
    <3>1. got' = got
      BY <2>2 DEF CurrentExists, LegacyLookup, Resolve, found
    <3>2. pc'[r] \in {"legacy_lookup", "done"} \/ target'[r] \in {Final(r), Legacy(r)}
      BY <2>2 DEF CurrentExists, LegacyLookup, Resolve, Continue, Reply, Missing
    <3> QED
      BY <1>1, <1>2, <3>1, <3>2 DEF Resolved
  <2>3. CASE Stat(r) \/ SendStat(r)
    <3>1. pc[r] \in {"stat", "send_stat"} /\ got' = got /\ target' = target
      BY <2>3 DEF Stat, SendStat, found
    <3> QED
      BY <1>1, <1>2, <3>1 DEF Resolved
  <2>4. CASE SaveStep(r)
    <3>1. got' = got
      BY <2>4 DEF SaveStep, RefuseIfExists, EnsureDir, FinalExists, LegacyExists, OpenTemp,
                  OpenTempFails, WriteChunk, RejectSize, WriteFails, EndOfStream,
                  CommitReplace, CommitLink, CommitFails, TempExists, TempUnlink,
                  PurgeExists, PurgeUnlink, found, local
    <3>2. arg[r].op = "save"
      BY <2>4 DEF SaveStep, RefuseIfExists, EnsureDir, FinalExists, LegacyExists, OpenTemp,
                  OpenTempFails, WriteChunk, RejectSize, WriteFails, EndOfStream,
                  CommitReplace, CommitLink, CommitFails, TempExists, TempUnlink,
                  PurgeExists, PurgeUnlink, Control, SaveLabels
    <3>3. Control'
      BY StepInv
    <3> QED
      BY <1>1, <1>2, <3>1, <3>2, <3>3 DEF Resolved, Control, FindLabels
  <2>5. CASE DirExists(r) \/ DeleteProbe(r) \/ DeleteUnlink(r) \/ DeleteEnd(r)
    <3>1. got' = got
      BY <2>5 DEF DirExists, DeleteProbe, DeleteUnlink, DeleteEnd, found
    <3>2. pc'[r] \notin {"stat", "send_stat", "open"}
      BY <2>5 DEF DirExists, DeleteProbe, DeleteUnlink, DeleteEnd, Continue, Reply, Missing
    <3> QED
      BY <1>2, <3>1, <3>2 DEF Resolved
  <2> QED
    BY <1>4, <2>1, <2>2, <2>3, <2>4, <2>5 DEF RequestStep, FindStep
<1>5. ASSUME NEW q \in Requests, q # r, RequestStep(q)
      PROVE  UNCHANGED <<pc[r], got[r], target[r]>>
  BY <1>5, OthersKnow
<1>6. CASE SweepStep \/ Tick \/ ServerCrash \/ CleanerCrash \/ UNCHANGED vars
  BY <1>3, <1>6 DEF SweepStep, Tick, ServerCrash, CleanerCrash, local, found, vars
<1> QED
  BY <1>3, <1>4, <1>5, <1>6 DEF Next

\* read_file, get_download, get_file_metadata: what is sent is a whole upload to the
\* file, and its uploader is never told that it was refused.
THEOREM ServedUploadsAreStored == Spec => []ServedIsStored
<1> DEFINE Serving == \A r \in Requests : Resolved(r) /\ Sent(r)
<1>1. Init => Serving
  <2> SUFFICES ASSUME Init, NEW r \in Requests PROVE Resolved(r) /\ Sent(r)
    OBVIOUS
  <2>1. pc[r] \in {"ensure_dir", "dir_exists"} /\ got[r] = NoFile
    BY DEF Init, FirstLabel
  <2> QED
    BY <2>1, FilesAssumption DEF Resolved, Sent, Names
<1>2. Inv /\ Serving /\ [Next]_vars => Serving'
  BY ServedStep
<1>3. Inv /\ Serving => ServedIsStored
  <2> SUFFICES ASSUME Inv, NEW r \in Requests, NEW u \in Requests, got[r] = u, Sent(r)
               PROVE  /\ arg[u].op = "save"
                      /\ Final(u) \in {Final(r), Legacy(r)}
                      /\ len[u] = arg[u].size
                      /\ len[u] <= MaxSize
                      /\ resp[u] \notin {400, 409, 507}
    BY DEF ServedIsStored
  <2> QED
    BY DEF Sent, IsPublished, Inv, Written
<1> QED
  BY <1>1, <1>2, <1>3, Invariance, PTL DEF Spec
-------------------------------------------------------------------------------
(***************************************************************************)
(* Deletes.                                                                *)
(***************************************************************************)

\* A delete leaves the file that was there in the beginning under no name that it has
\* been to, except the one it is about to unlink; it succeeds when it has been to both.
Deleted(r) ==
    arg[r].op = "delete" =>
        /\ \A n \in {Final(r), Legacy(r)} \ todo[r] :
              dir[n] = n => pc[r] = "delete_unlink" /\ target[r] = n
        /\ resp[r] = 204 => todo[r] = {}

\* Only the probe of a delete takes a name off its list.
LEMMA OnlyProbesTake ==
    ASSUME RequestsOK, NEW u \in Requests, RequestStep(u), ~DeleteProbe(u)
    PROVE  todo' = todo
<1> USE DEF found, Resolve, Missing
<1>1. CASE SaveStep(u)
  BY <1>1
     DEF SaveStep, Raise, RefuseIfExists, EnsureDir, FinalExists, LegacyExists, OpenTemp,
         OpenTempFails, WriteChunk, RejectSize, WriteFails, EndOfStream, CommitReplace,
         CommitLink, CommitFails, TempExists, TempUnlink, PurgeExists, PurgeUnlink, local
<1>2. CASE FindStep(u)
  BY <1>2 DEF FindStep, DirExists, CurrentExists, LegacyLookup, Stat, SendStat, Open,
              DeleteUnlink, DeleteEnd
<1> QED
  BY <1>1, <1>2 DEF RequestStep

LEMMA DeletedStep ==
    ASSUME Inv, [Next]_vars, NEW r \in Requests, Deleted(r)
    PROVE  Deleted(r)'
<1> USE DEF Inv, TypeOK, RequestsOK
<1>1. arg' = arg /\ Final(r)' = Final(r) /\ Legacy(r)' = Legacy(r)
  BY DEF Next, RequestStep, SweepStep, Tick, ServerCrash, CleanerCrash, vars, Final, Legacy
<1>2. SUFFICES ASSUME arg[r].op = "delete"
               PROVE  /\ \A n \in {Final(r), Legacy(r)} \ todo'[r] :
                            dir'[n] = n => pc'[r] = "delete_unlink" /\ target'[r] = n
                      /\ resp'[r] = 204 => todo'[r] = {}
  BY <1>1 DEF Deleted
<1>3. ASSUME NEW n \in {Final(r), Legacy(r)}, dir'[n] = n PROVE dir[n] = n
  <2>1. n \in Slots /\ n \notin Requests /\ n # NoFile
    BY OwnNames, FilesAssumption DEF Names
  <2> QED
    BY <1>3, <2>1, SlotChanges
<1>4. CASE UNCHANGED <<pc[r], resp[r], target[r], todo[r]>>
  BY <1>2, <1>3, <1>4 DEF Deleted
<1>5. CASE RequestStep(r)
  <2>1. CASE DirExists(r)
    <3>1. /\ pc[r] = "dir_exists" /\ todo'[r] = todo[r]
          /\ resp'[r] \in {resp[r], DeleteStatus["FileNotFoundError"]}
      BY <1>2, <2>1 DEF DirExists, Continue, Missing, Reply, found
    <3> QED
      BY <1>2, <1>3, <3>1, StatusTypes DEF Deleted
  <2>2. CASE DeleteProbe(r)
    <3>1. PICK name \in todo[r] :
             /\ todo'[r] = todo[r] \ {name} /\ target'[r] = name
             /\ pc'[r] = IF Exists(name) THEN "delete_unlink" ELSE "delete_probe"
      BY <2>2 DEF DeleteProbe, Continue
    <3>2. pc[r] = "delete_probe" /\ dir' = dir /\ resp'[r] = resp[r]
      BY <2>2 DEF DeleteProbe, Continue, files
    <3>3. name \in Slots /\ name # NoFile
      BY <3>1, FilesAssumption DEF Names
    <3>4. dir[name] = name => pc'[r] = "delete_unlink"
      BY <3>1, <3>3 DEF Exists
    <3>5. resp[r] = 204 => todo'[r] = {}
      BY <1>2, <3>1 DEF Deleted
    <3> QED
      BY <1>2, <3>1, <3>2, <3>4, <3>5 DEF Deleted
  <2>3. CASE DeleteUnlink(r)
    <3>1. pc[r] = "delete_unlink" /\ target[r] \in Slots
      BY <2>3 DEF DeleteUnlink, Control
    <3>2. /\ todo'[r] = todo[r]
          /\ resp'[r] \in {resp[r], DeleteStatus["FileNotFoundError"]}
      BY <1>2, <2>3 DEF DeleteUnlink, Continue, Missing, Reply, found
    <3>3. dir'[target[r]] = NoFile
      BY <2>3, <3>1 DEF DeleteUnlink, Unlink, FilesOK, Names
    <3>4. target[r] # NoFile
      BY <3>1, FilesAssumption DEF Names
    <3> QED
      BY <1>2, <1>3, <3>2, <3>3, <3>4, StatusTypes DEF Deleted
  <2>4. CASE DeleteEnd(r)
    <3>1. pc[r] = "delete_probe" /\ todo'[r] = todo[r] /\ todo[r] = {} /\ dir' = dir
      BY <2>4 DEF DeleteEnd, found, files
    <3> QED
      BY <1>2, <3>1 DEF Deleted
  <2>5. arg[r].op = "delete" => DirExists(r) \/ DeleteProbe(r) \/ DeleteUnlink(r) \/ DeleteEnd(r)
    BY <1>5 DEF RequestStep, FindStep, SaveStep, RefuseIfExists, EnsureDir, FinalExists,
                LegacyExists, OpenTemp, OpenTempFails, WriteChunk, RejectSize, WriteFails,
                EndOfStream, CommitReplace, CommitLink, CommitFails, TempExists,
                TempUnlink, PurgeExists, PurgeUnlink, CurrentExists, LegacyLookup, Stat,
                SendStat, Open, Control, SaveLabels
  <2> QED
    BY <1>2, <2>1, <2>2, <2>3, <2>4, <2>5
<1>6. ASSUME NEW u \in Requests, u # r, RequestStep(u)
      PROVE  UNCHANGED <<pc[r], resp[r], target[r], todo[r]>>
  <2>1. CASE DeleteProbe(u)
    BY <1>6, <2>1, OthersKnow DEF DeleteProbe
  <2> QED
    BY <1>6, <2>1, OthersKnow, OnlyProbesTake
<1>7. CASE SweepStep \/ Tick \/ ServerCrash \/ CleanerCrash \/ UNCHANGED vars
  BY <1>4, <1>7 DEF SweepStep, Tick, ServerCrash, CleanerCrash, local, found, vars
<1> QED
  BY <1>4, <1>5, <1>6, <1>7 DEF Next

\* delete_file: a delete that reports success has taken away what was there under either
\* name of the file, whatever uploads, the cleaner and other deletes did meanwhile.
THEOREM DeletesAreThorough == Spec => []DeletedIsGone
<1> DEFINE Deleting == \A r \in Requests : Deleted(r)
<1>1. Init => Deleting
  <2> SUFFICES ASSUME Init, NEW r \in Requests PROVE Deleted(r)
    OBVIOUS
  <2> QED
    BY DEF Init, Deleted
<1>2. Inv /\ Deleting /\ [Next]_vars => Deleting'
  BY DeletedStep
<1>3. Inv /\ Deleting => DeletedIsGone
  <2> SUFFICES ASSUME Inv, NEW r \in Requests, Deleted(r), arg[r].op = "delete",
                      resp[r] = 204, NEW n \in {Final(r), Legacy(r)}
               PROVE  dir[n] # n
    BY DEF DeletedIsGone
  <2>1. pc[r] = "done"
    BY DEF Inv, Control
  <2> QED
    BY <2>1 DEF Deleted
<1> QED
  BY <1>1, <1>2, <1>3, Invariance, PTL DEF Spec
===============================================================================
