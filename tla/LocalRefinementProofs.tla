------------------------- MODULE LocalRefinementProofs -------------------------
(***************************************************************************)
(* The local backend implements FileStore, for any requests, files, calls  *)
(* and any bounds, as long as no v1.0.0 file is around: every step is one  *)
(* step of the abstract store, or none, and nobody is told that a file is  *)
(* missing that was there all the time.  Answers say what was done.         *)
(***************************************************************************)
EXTENDS LocalStorageHistory, LocalStorageProofs

-------------------------------------------------------------------------------
(***************************************************************************)
(* The invariant that the refinement adds to that of LocalStorageProofs.   *)
(***************************************************************************)

\* No v1.0.0 file is there at the start; NoAliasing keeps one from appearing.
NoLegacyFiles == \A f \in Files : HashedName[f] \notin InitialSlots

NoLegacy == \A f \in Files : dir[HashedName[f]] = NoFile

\* A directory that was never made holds nothing.
Made ==
    /\ \A f \in Files : Exists(f) => dirMade
    /\ \A r \in Requests : pc[r] \in SaveLabels \ {"ensure_dir"} => dirMade

\* A read looks at the file's own name and has read nothing before it is done.
Looking(r) ==
    /\ pc[r] \in {"final_exists", "legacy_exists"} => ~arg[r].overwrite
    /\ pc[r] \in {"delete_probe", "delete_unlink"} => arg[r].op = "delete"
    /\ pc[r] \in {"stat", "send_stat", "open"} => target[r] = Final(r)
    /\ pc[r] \in FindLabels => got[r] = NoFile

\* A delete has removed nothing while it has not looked at the file's own name,
\* nor when it is about to remove that.
Removing(r) ==
    arg[r].op = "delete" =>
        /\ todo[r] \subseteq {Final(r), Legacy(r)}
        /\ Final(r) \in todo[r] => ~deleted[r]
        /\ pc[r] = "dir_exists" => Final(r) \in todo[r]
        /\ pc[r] = "delete_unlink" => /\ target[r] = Final(r)
                                      /\ Final(r) \notin todo[r]
                                      /\ ~deleted[r]

EInv == NoLegacy /\ Made /\ \A r \in Requests : Looking(r) /\ Removing(r)

\* One step of the abstract store, or none.
Simulated == [Store!Next]_(Store!vars)

-------------------------------------------------------------------------------
(***************************************************************************)
(* A step of the backend seen through the refinement mapping.              *)
(***************************************************************************)

\* The variables of the requests that do not move.
Unmoved(q) ==
    /\ pc'[q] = pc[q]
    /\ pend'[q] = pend[q]
    /\ resp'[q] = resp[q]
    /\ target'[q] = target[q]
    /\ todo'[q] = todo[q]
    /\ deleted'[q] = deleted[q]
    /\ got'[q] = got[q]

LEMMA OthersUnmoved ==
    ASSUME RequestsOK, NEW r \in Requests, RequestStep(r), NEW q \in Requests, q # r
    PROVE  Unmoved(q)
<1> USE DEF RequestsOK, Unmoved, local, found, Continue, Reply, Missing
<1>1. CASE EnsureDir(r) \/ FinalExists(r) \/ LegacyExists(r) \/ OpenTemp(r) \/ WriteChunk(r)
           \/ EndOfStream(r) \/ CommitReplace(r) \/ CommitLink(r) \/ PurgeExists(r)
           \/ PurgeUnlink(r)
  BY <1>1 DEF EnsureDir, FinalExists, LegacyExists, RefuseIfExists, OpenTemp, WriteChunk,
              EndOfStream, CommitReplace, CommitLink, PurgeExists, PurgeUnlink
<1>2. CASE OpenTempFails(r) \/ RejectSize(r) \/ WriteFails(r) \/ CommitFails(r)
  BY <1>2 DEF OpenTempFails, RejectSize, WriteFails, CommitFails, Raise
<1>3. CASE TempExists(r) \/ TempUnlink(r)
  BY <1>3 DEF TempExists, TempUnlink, AfterTemp
<1>4. CASE DirExists(r) \/ CurrentExists(r) \/ LegacyLookup(r) \/ Stat(r) \/ SendStat(r)
           \/ Open(r) \/ DeleteEnd(r)
  BY <1>4 DEF DirExists, CurrentExists, LegacyLookup, Resolve, Stat, SendStat, Open, DeleteEnd
<1>5. CASE DeleteProbe(r) \/ DeleteUnlink(r)
  BY <1>5 DEF DeleteProbe, DeleteUnlink
<1> QED
  BY <1>1, <1>2, <1>3, <1>4, <1>5 DEF RequestStep, SaveStep, FindStep

\* Which outcome is looked at, by the call.
LEMMA OutcomeOf ==
    ASSUME NEW r \in Requests, arg' = arg
    PROVE  /\ arg[r].op = "save" => Outcome(r) = SaveOutcome(r) /\ Outcome(r)' = SaveOutcome(r)'
           /\ arg[r].op = "delete" => Outcome(r) = DeleteOutcome(r)
                                      /\ Outcome(r)' = DeleteOutcome(r)'
           /\ arg[r].op \notin {"save", "delete"} => Outcome(r) = ReadOutcome(r)
                                                    /\ Outcome(r)' = ReadOutcome(r)'
BY DEF Outcome, SaveOutcome, Published, DeleteOutcome, DeleteMissed, ReadOutcome, ReadMissed,
       Final

LEMMA UnmovedOutcome ==
    ASSUME NEW q \in Requests, Unmoved(q), arg' = arg
    PROVE  Outcome(q)' = Outcome(q)
BY DEF Unmoved, Outcome, SaveOutcome, Published, DeleteOutcome, DeleteMissed, ReadOutcome,
       ReadMissed, Final

\* Only the request that moves can be decided.
LEMMA OneDecides ==
    ASSUME RequestsOK, NEW r \in Requests, RequestStep(r)
    PROVE  /\ arg' = arg
           /\ [q \in Requests |-> Outcome(q)]'
                = [[q \in Requests |-> Outcome(q)] EXCEPT ![r] = Outcome(r)']
<1>1. arg' = arg
  BY DEF RequestStep
<1>2. \A q \in Requests : q # r => Outcome(q)' = Outcome(q)
  BY <1>1, OthersUnmoved, UnmovedOutcome
<1> QED
  BY <1>1, <1>2

\* A step that neither decides its request nor touches a file.
LEMMA Silent ==
    ASSUME RequestsOK, NEW r \in Requests, RequestStep(r), Outcome(r)' = Outcome(r),
           \A f \in Files : dir'[f] = dir[f]
    PROVE  Simulated
<1>1. [q \in Requests |-> Outcome(q)]' = [q \in Requests |-> Outcome(q)]
  BY OneDecides
<1>2. [f \in Files |-> dir[f]]' = [f \in Files |-> dir[f]]
  OBVIOUS
<1> QED
  BY <1>1, <1>2, OneDecides DEF Simulated, Store!vars

\* A step that decides its request.
LEMMA Decides ==
    ASSUME RequestsOK, NEW r \in Requests, RequestStep(r), Outcome(r) = "none",
           NEW ops, arg[r].op \in ops
    PROVE  /\ Store!Decide(r, ops, Outcome(r)')
           /\ Store!Held(r) = dir[Final(r)]
<1>1. arg[r].file \in Files
  BY OwnNames
<1> QED
  BY <1>1, OneDecides DEF Store!Decide, Store!Held, Final

\* What is known of the request that moves.
LEMMA Known ==
    ASSUME NoAliasing, Inv, EInv, NEW r \in Requests, RequestStep(r)
    PROVE  /\ RequestsOK /\ arg' = arg /\ Final(r)' = Final(r) /\ Legacy(r)' = Legacy(r)
           /\ Final(r) \in Files /\ Final(r) \in Names /\ Final(r) # r
           /\ Legacy(r) \in Slots /\ Legacy(r) \in Names /\ Legacy(r) \notin Files
           /\ \A f \in Files : f # r /\ f # Legacy(r) /\ f \in Names
           /\ dir \in [Names -> Names \union {NoFile}] /\ r \in Names
           /\ ~Exists(Legacy(r))
           /\ pc[r] # "done" /\ resp[r] = 0
           /\ Looking(r) /\ Removing(r)
<1>1. RequestsOK /\ arg' = arg /\ arg[r].file \in Files /\ Final(r) = arg[r].file
      /\ dir \in [Names -> Names \union {NoFile}] /\ Legacy(r) \in Slots
  BY OwnNames DEF Inv, TypeOK, FilesOK, RequestStep, Final
<1>2. pc[r] # "done"
  BY DEF RequestStep, SaveStep, FindStep, RefuseIfExists, EnsureDir, FinalExists,
         LegacyExists, OpenTemp, OpenTempFails, WriteChunk, RejectSize, WriteFails,
         EndOfStream, CommitReplace, CommitLink, CommitFails, TempExists, TempUnlink,
         PurgeExists, PurgeUnlink, DirExists, CurrentExists, LegacyLookup, Stat,
         SendStat, Open, DeleteProbe, DeleteUnlink, DeleteEnd
<1>3. resp[r] = 0
  BY <1>2 DEF Inv, Control
<1>4. \A f \in Files : f # r /\ f # Legacy(r) /\ f \in Names
  BY <1>1, FilesAssumption DEF NoAliasing, Legacy, Slots, Names
<1>5. ~Exists(Legacy(r))
  BY <1>1 DEF EInv, NoLegacy, Exists, Legacy, Final
<1>6. Looking(r) /\ Removing(r)
  BY DEF EInv
<1> QED
  BY <1>1, <1>2, <1>3, <1>4, <1>5, <1>6 DEF Final, Legacy, Names, Slots

\* What Continue, Reply and Raise do to the request.
LEMMA Moved ==
    ASSUME RequestsOK, NEW r \in Requests
    PROVE  /\ \A label : Continue(r, label) => pc'[r] = label /\ resp'[r] = resp[r]
           /\ \A code : Reply(r, code) => pc'[r] = "done" /\ resp'[r] = code
           /\ \A e : Raise(r, e) => pc'[r] = "temp_exists" /\ resp'[r] = resp[r] /\ pend'[r] = e
BY DEF Continue, Reply, Raise, RequestsOK

-------------------------------------------------------------------------------
(***************************************************************************)
(* Uploads.                                                                *)
(***************************************************************************)

CommitLabels == {"temp_exists", "temp_unlink", "purge_exists", "purge_unlink"}
EarlyLabels  == SaveLabels \ CommitLabels

\* An upload that goes on towards its commit.
LEMMA EarlySimulates ==
    ASSUME NoAliasing, Inv, EInv, NEW r \in Requests, RequestStep(r),
           EnsureDir(r) \/ OpenTemp(r) \/ WriteChunk(r) \/ EndOfStream(r)
    PROVE  Simulated
<1>1. pc[r] \in EarlyLabels /\ arg[r].op = "save" /\ pend[r] = "none"
  BY DEF EnsureDir, OpenTemp, WriteChunk, EndOfStream, EarlyLabels, CommitLabels, SaveLabels,
         Inv, Control, Written
<1>2. pc'[r] \in EarlyLabels /\ resp'[r] = 0 /\ pend' = pend
  BY <1>1, Known, Moved
     DEF EnsureDir, OpenTemp, WriteChunk, EndOfStream, EarlyLabels, CommitLabels, SaveLabels, local
<1>3. \A f \in Files : dir'[f] = dir[f]
  BY Known DEF EnsureDir, OpenTemp, WriteChunk, EndOfStream, files
<1>4. Outcome(r) = "none" /\ Outcome(r)' = "none"
  BY <1>1, <1>2, Known, OutcomeOf DEF SaveOutcome, Published, EarlyLabels, CommitLabels
<1> QED
  BY <1>3, <1>4, Known, Silent

\* An upload that is refused or fails, before its commit or at it.
LEMMA RefusalSimulates ==
    ASSUME NoAliasing, Inv, EInv, NEW r \in Requests, RequestStep(r),
           \/ FinalExists(r) \/ LegacyExists(r) \/ OpenTempFails(r)
           \/ RejectSize(r) \/ WriteFails(r) \/ CommitFails(r)
    PROVE  Simulated
<1>1. pc[r] \in EarlyLabels /\ arg[r].op = "save" /\ pend[r] = "none"
  BY DEF FinalExists, LegacyExists, RefuseIfExists, OpenTempFails, RejectSize, WriteFails,
         CommitFails, EarlyLabels, CommitLabels, SaveLabels, Inv, Control, Written
<1>2. /\ \A f \in Files : dir'[f] = dir[f]
      /\ [f \in Files |-> dir[f]]' = [f \in Files |-> dir[f]]
  BY DEF FinalExists, LegacyExists, RefuseIfExists, OpenTempFails, RejectSize, WriteFails,
         CommitFails, files
<1>3. Outcome(r) = "none"
  BY <1>1, Known, OutcomeOf DEF SaveOutcome, Published, EarlyLabels, CommitLabels
<1>4. CASE FinalExists(r) \/ LegacyExists(r)
  <2>1. ~arg[r].overwrite /\ pend' = pend
    BY <1>4, Known DEF FinalExists, LegacyExists, RefuseIfExists, Looking
  <2>2. \/ resp'[r] = 0 /\ pc'[r] \in {"legacy_exists", "open_temp"}
        \/ resp'[r] = 409 /\ pc'[r] = "done" /\ Exists(Final(r))
    BY <1>4, Known, Moved, StatusTypes DEF FinalExists, LegacyExists, RefuseIfExists
  <2>3. CASE resp'[r] = 0 /\ pc'[r] \in {"legacy_exists", "open_temp"}
    <3>1. Outcome(r)' = "none"
      BY <1>1, <2>1, <2>3, Known, OutcomeOf DEF SaveOutcome, Published
    <3> QED
      BY <1>2, <1>3, <3>1, Known, Silent
  <2>4. CASE resp'[r] = 409 /\ pc'[r] = "done" /\ Exists(Final(r))
    <3>1. Outcome(r)' = "conflict"
      BY <1>1, <2>1, <2>4, Known, OutcomeOf DEF SaveOutcome, Published
    <3>2. Store!Decide(r, {"save"}, "conflict") /\ Store!Held(r) = dir[Final(r)]
      BY <1>1, <1>3, <3>1, Known, Decides
    <3>3. Store!Conflict(r)
      BY <1>2, <2>1, <2>4, <3>2 DEF Store!Conflict, Exists
    <3> QED
      BY <3>3 DEF Simulated, Store!Next
  <2> QED
    BY <2>2, <2>3, <2>4
<1>5. CASE OpenTempFails(r) \/ RejectSize(r) \/ WriteFails(r) \/ CommitFails(r)
  <2>1. \/ pend'[r] \in {"OSError", "FileSizeError", "InsufficientStorageError"}
        \/ pend'[r] = "FileExistsError" /\ ~arg[r].overwrite /\ Exists(Final(r))
    BY <1>5, Known, Moved DEF OpenTempFails, RejectSize, WriteFails, CommitFails, LinkTarget
  <2>2. resp'[r] = 0
    BY <1>5, Known, Moved DEF OpenTempFails, RejectSize, WriteFails, CommitFails
  <2>3. CASE pend'[r] = "FileExistsError" /\ ~arg[r].overwrite /\ Exists(Final(r))
    <3>1. Outcome(r)' = "conflict"
      BY <1>1, <2>2, <2>3, Known, OutcomeOf DEF SaveOutcome, Published
    <3>2. Store!Decide(r, {"save"}, "conflict") /\ Store!Held(r) = dir[Final(r)]
      BY <1>1, <1>3, <3>1, Known, Decides
    <3>3. Store!Conflict(r)
      BY <1>2, <2>3, <3>2 DEF Store!Conflict, Exists
    <3> QED
      BY <3>3 DEF Simulated, Store!Next
  <2>4. CASE pend'[r] \in {"OSError", "FileSizeError", "InsufficientStorageError"}
    <3>1. Outcome(r)' = "failed"
      BY <1>1, <2>2, <2>4, Known, OutcomeOf DEF SaveOutcome, Published
    <3>2. Store!Decide(r, {"save"}, "failed")
      BY <1>1, <1>3, <3>1, Known, Decides
    <3>3. Store!Fail(r)
      BY <1>2, <3>2 DEF Store!Fail
    <3> QED
      BY <3>3 DEF Simulated, Store!Next
  <2> QED
    BY <2>1, <2>3, <2>4
<1> QED
  BY <1>4, <1>5

\* The commit: the moment at which an upload takes effect.
LEMMA CommitSimulates ==
    ASSUME NoAliasing, Inv, EInv, NEW r \in Requests, RequestStep(r),
           CommitReplace(r) \/ CommitLink(r)
    PROVE  Simulated
<1>1. /\ pc[r] = "commit" /\ arg[r].op = "save" /\ pend[r] = "none" /\ dir[r] = r
      /\ arg[r].size <= MaxSize
  BY DEF CommitReplace, CommitLink, SaveLabels, Inv, Control, Written, TempNames, Exists
<1>2. pc'[r] \in CommitLabels /\ pend' = pend
  BY Known, Moved DEF CommitReplace, CommitLink, CommitLabels
<1>3. Outcome(r) = "none" /\ Outcome(r)' = "stored"
  BY <1>1, <1>2, Known, OutcomeOf DEF SaveOutcome, Published, CommitLabels
<1>4. /\ \A f \in Files : dir'[f] = IF f = Final(r) THEN r ELSE dir[f]
      /\ arg[r].overwrite \/ dir[Final(r)] = NoFile
  BY <1>1, Known DEF CommitReplace, CommitLink, LinkTarget, Exists
<1>5. [f \in Files |-> dir[f]]' = [[f \in Files |-> dir[f]] EXCEPT ![arg[r].file] = r]
  BY <1>4 DEF Final
<1>6. Store!Decide(r, {"save"}, "stored") /\ Store!Held(r) = dir[Final(r)]
  BY <1>1, <1>3, Known, Decides
<1>7. Store!Upload(r)
  BY <1>1, <1>4, <1>5, <1>6 DEF Store!Upload
<1> QED
  BY <1>7 DEF Simulated, Store!Next

\* After the commit, or with an exception pending, an upload is decided.
LEMMA UnwindSimulates ==
    ASSUME NoAliasing, Inv, EInv, NEW r \in Requests, RequestStep(r),
           TempExists(r) \/ TempUnlink(r) \/ PurgeExists(r) \/ PurgeUnlink(r)
    PROVE  Simulated
<1>1. pc[r] \in CommitLabels /\ arg[r].op = "save" /\ pend' = pend
  BY DEF TempExists, TempUnlink, PurgeExists, PurgeUnlink, CommitLabels, SaveLabels, Inv, Control
<1>2. \A f \in Files : dir'[f] = dir[f]
  BY Known DEF TempExists, TempUnlink, PurgeExists, PurgeUnlink, Unlink, files
<1>3. CASE pend[r] = "none"
  <2>1. pc'[r] \in CommitLabels \/ resp'[r] \in {201, 500}
    BY <1>3, Known, Moved, StatusTypes
       DEF TempExists, TempUnlink, PurgeExists, PurgeUnlink, AfterTemp, CommitLabels
  <2>2. Outcome(r) = "stored" /\ Outcome(r)' = "stored"
    BY <1>1, <1>3, <2>1, Known, OutcomeOf DEF SaveOutcome, Published, CommitLabels
  <2> QED
    BY <1>2, <2>2, Known, Silent
<1>4. CASE pend[r] # "none"
  <2>1. pend[r] \in Failures
    BY <1>4, Known DEF RequestsOK
  <2>2. pend[r] # "FileExistsError" => UploadStatus[pend[r]] # 409
    BY <2>1 DEF Failures, UploadStatus, UploadError, UploadCode
  <2>3. resp'[r] = 409 => pend[r] = "FileExistsError"
    BY <1>4, <2>2, Known, Moved, StatusTypes
       DEF TempExists, TempUnlink, PurgeExists, PurgeUnlink, AfterTemp, Inv, Written
  <2>4. Outcome(r)' = Outcome(r)
    BY <1>1, <1>4, <2>3, Known, OutcomeOf DEF SaveOutcome, Published
  <2> QED
    BY <1>2, <2>4, Known, Silent
<1> QED
  BY <1>3, <1>4

-------------------------------------------------------------------------------
(***************************************************************************)
(* Reads.                                                                  *)
(***************************************************************************)

\* A request that finds nothing under the file's own name.
LEMMA MissSimulates ==
    ASSUME NoAliasing, Inv, EInv, NEW r \in Requests, RequestStep(r),
           arg[r].op \in Ops \ {"save"}, \A f \in Files : dir'[f] = dir[f],
           ~Exists(Final(r)), Outcome(r) = "none", Outcome(r)' = "missing"
    PROVE  Simulated
<1>1. arg[r].op \in {"read", "meta", "download", "delete"}
  BY DEF Ops
<1>2. /\ Store!Decide(r, {"read", "meta", "download", "delete"}, "missing")
      /\ Store!Held(r) = dir[Final(r)]
  BY <1>1, Known, Decides
<1>3. [f \in Files |-> dir[f]]' = [f \in Files |-> dir[f]]
  OBVIOUS
<1>4. Store!Miss(r)
  BY <1>2, <1>3 DEF Store!Miss, Exists
<1> QED
  BY <1>4 DEF Simulated, Store!Next

LEMMA ReadSimulates ==
    ASSUME NoAliasing, Inv, EInv, NEW r \in Requests, RequestStep(r),
           FindStep(r), arg[r].op # "delete"
    PROVE  Simulated
<1>0. /\ pc[r] \in FindLabels /\ arg[r].op \notin {"save", "delete"} /\ got[r] = NoFile
      /\ arg[r].op \in Ops \ {"save"}
  <2>1. pc[r] \in FindLabels
    BY DEF FindStep, FindLabels, DirExists, CurrentExists, LegacyLookup, Stat, SendStat,
           Open, DeleteProbe, DeleteUnlink, DeleteEnd
  <2>2. arg[r].op # "save"
    BY <2>1 DEF Inv, Control
  <2> QED
    BY <2>1, <2>2, Known, OwnNames DEF Looking
<1>1. pc[r] \notin {"delete_probe", "delete_unlink"}
  BY Known DEF Looking
<1>2. \A f \in Files : dir'[f] = dir[f]
  BY <1>1 DEF FindStep, DirExists, CurrentExists, LegacyLookup, Stat, SendStat, Open,
              DeleteProbe, DeleteUnlink, DeleteEnd, files
<1>3. pc[r] # "legacy_lookup" => Outcome(r) = "none"
  BY <1>0, Known, OutcomeOf DEF ReadOutcome, ReadMissed
<1> DEFINE goesOn == pc'[r] # "legacy_lookup" /\ resp'[r] = 0 /\ got'[r] = NoFile
           misses == (pc'[r] = "legacy_lookup" \/ resp'[r] # 0) /\ got'[r] = NoFile
<1>4. goesOn => Outcome(r)' = "none"
  BY <1>0, Known, OutcomeOf DEF ReadOutcome, ReadMissed
<1>5. misses => Outcome(r)' = "missing"
  BY <1>0, Known, OutcomeOf DEF ReadOutcome, ReadMissed
<1> HIDE DEF goesOn, misses
<1>6. ASSUME pc[r] # "legacy_lookup", goesOn \/ (misses /\ ~Exists(Final(r)))
      PROVE  Simulated
  BY <1>0, <1>2, <1>3, <1>4, <1>5, <1>6, Known, Silent, MissSimulates
<1>7. Missing(r) => pc'[r] = "done" /\ resp'[r] = 404
  BY <1>0, Known, Moved, StatusTypes DEF Missing
<1>8. CASE DirExists(r)
  <2>1. CASE dirMade
    BY <1>0, <1>6, <1>8, <2>1, Known, Moved DEF DirExists, goesOn, found
  <2>2. CASE ~dirMade
    <3>1. ~Exists(Final(r))
      BY <2>2, Known DEF EInv, Made
    <3> QED
      BY <1>0, <1>6, <1>7, <1>8, <2>2, <3>1 DEF DirExists, misses, found
  <2> QED
    BY <2>1, <2>2
<1>9. CASE CurrentExists(r)
  <2>1. CASE Exists(Final(r)) /\ Resolve(r, Final(r))
    <3>1. goesOn
      BY <1>0, <2>1, Known, Moved DEF Resolve, goesOn
    <3> QED
      BY <1>6, <1>9, <3>1 DEF CurrentExists
  <2>2. CASE ~Exists(Final(r)) /\ Continue(r, "legacy_lookup") /\ UNCHANGED found
    <3>1. misses
      BY <1>0, <2>2, Known, Moved DEF misses, found
    <3> QED
      BY <1>6, <1>9, <2>2, <3>1 DEF CurrentExists
  <2> QED
    BY <1>9, <2>1, <2>2 DEF CurrentExists
<1>10. CASE LegacyLookup(r)
  <2>1. misses
    BY <1>0, <1>7, <1>10, Known DEF LegacyLookup, misses, found
  <2>2. Outcome(r) = "missing"
    BY <1>0, <1>10, Known, OutcomeOf DEF ReadOutcome, ReadMissed, LegacyLookup
  <2> QED
    BY <1>2, <1>5, <2>1, <2>2, Known, Silent
<1>11. CASE Stat(r) \/ SendStat(r)
  <2>1. target[r] = Final(r) /\ pc[r] # "legacy_lookup"
    BY <1>11, Known DEF Stat, SendStat, Looking
  <2>2. goesOn \/ (misses /\ ~Exists(Final(r)))
    BY <1>0, <1>7, <1>11, <2>1, Known, Moved, StatusTypes
       DEF Stat, SendStat, goesOn, misses, found, Exists
  <2> QED
    BY <1>6, <2>1, <2>2
<1>12. CASE Open(r)
  <2>1. target[r] = Final(r) /\ pc[r] # "legacy_lookup"
    BY <1>12, Known DEF Open, Looking
  <2>2. CASE dir[Final(r)] # NoFile
    <3>1. got'[r] = dir[Final(r)]
      BY <1>12, <2>1, <2>2, Known DEF Open, RequestsOK
    <3>2. Outcome(r)' = dir[Final(r)]
      BY <1>0, <2>2, <3>1, Known, OutcomeOf DEF ReadOutcome
    <3>3. arg[r].op \in {"read", "meta", "download"}
      BY <1>0 DEF Ops
    <3>4. /\ Store!Decide(r, {"read", "meta", "download"}, dir[Final(r)])
          /\ Store!Held(r) = dir[Final(r)]
      BY <1>3, <2>1, <3>2, <3>3, Known, Decides
    <3>5. [f \in Files |-> dir[f]]' = [f \in Files |-> dir[f]]
      BY <1>2
    <3>6. Store!Read(r)
      BY <2>2, <3>4, <3>5 DEF Store!Read
    <3> QED
      BY <3>6 DEF Simulated, Store!Next
  <2>3. CASE dir[Final(r)] = NoFile
    <3>1. pc'[r] = "done" /\ resp'[r] # 0
      BY <1>7, <1>12, <2>1, <2>3, Known, Moved DEF Open, Aborted
    <3>2. misses
      BY <1>0, <1>12, <2>1, <2>3, <3>1 DEF Open, misses, found
    <3> QED
      BY <1>6, <2>1, <2>3, <3>2 DEF Exists
  <2> QED
    BY <2>2, <2>3
<1> QED
  BY <1>1, <1>8, <1>9, <1>10, <1>11, <1>12
     DEF FindStep, DeleteProbe, DeleteUnlink, DeleteEnd

-------------------------------------------------------------------------------
(***************************************************************************)
(* Deletes.                                                                *)
(***************************************************************************)

LEMMA DeleteSimulates ==
    ASSUME NoAliasing, Inv, EInv, NEW r \in Requests, RequestStep(r),
           FindStep(r), arg[r].op = "delete"
    PROVE  Simulated
<1>0. /\ arg[r].op \in Ops \ {"save"} /\ Removing(r)
      /\ pc[r] \in {"dir_exists", "delete_probe", "delete_unlink"}
  BY Known DEF Ops, FindStep, DirExists, CurrentExists, LegacyLookup, Stat, SendStat, Open,
               DeleteProbe, DeleteUnlink, DeleteEnd, Inv, Control
<1> DEFINE missed == ~deleted[r] /\ pc[r] = "delete_probe" /\ Final(r) \notin todo[r]
           misses == ~deleted'[r] /\ (resp'[r] # 0 \/ (pc'[r] = "delete_probe" /\ Final(r) \notin todo'[r]))
<1>1. Outcome(r) = IF deleted[r] THEN "deleted" ELSE IF missed THEN "missing" ELSE "none"
  BY <1>0, Known, OutcomeOf DEF DeleteOutcome, DeleteMissed
<1>2. Outcome(r)' = IF deleted'[r] THEN "deleted" ELSE IF misses THEN "missing" ELSE "none"
  BY <1>0, Known, OutcomeOf DEF DeleteOutcome, DeleteMissed
<1>3. Missing(r) => pc'[r] = "done" /\ resp'[r] = 404
  BY Known, Moved, StatusTypes DEF Missing
<1>4. CASE DirExists(r)
  <2>1. /\ ~deleted[r] /\ ~deleted'[r] /\ Final(r) \in todo'[r] /\ ~missed
        /\ \A f \in Files : dir'[f] = dir[f]
    BY <1>0, <1>4 DEF DirExists, Removing, found, files
  <2>2. CASE dirMade
    <3>1. ~misses
      BY <1>4, <2>1, <2>2, Known, Moved DEF DirExists
    <3> QED
      BY <1>1, <1>2, <2>1, <3>1, Known, Silent
  <2>3. CASE ~dirMade
    <3>1. misses
      BY <1>3, <1>4, <2>1, <2>3 DEF DirExists
    <3>2. ~Exists(Final(r))
      BY <2>3, Known DEF EInv, Made
    <3> QED
      BY <1>0, <1>1, <1>2, <2>1, <3>1, <3>2, MissSimulates
  <2> QED
    BY <2>2, <2>3
<1>5. CASE DeleteProbe(r)
  <2>1. PICK name \in todo[r] :
          /\ todo' = [todo EXCEPT ![r] = @ \ {name}]
          /\ Continue(r, IF Exists(name) THEN "delete_unlink" ELSE "delete_probe")
    BY <1>5 DEF DeleteProbe
  <2>2. /\ deleted'[r] = deleted[r] /\ todo'[r] = todo[r] \ {name} /\ resp'[r] = 0
        /\ pc[r] = "delete_probe"
        /\ pc'[r] = IF Exists(name) THEN "delete_unlink" ELSE "delete_probe"
        /\ \A f \in Files : dir'[f] = dir[f]
    BY <1>5, <2>1, Known, Moved DEF DeleteProbe, RequestsOK, files
  <2>3. CASE name = Final(r) /\ ~Exists(name)
    <3>1. ~deleted[r] /\ ~missed /\ misses
      BY <1>0, <2>2, <2>3 DEF Removing
    <3> QED
      BY <1>0, <1>1, <1>2, <2>2, <2>3, <3>1, MissSimulates
  <2>4. CASE name = Final(r) /\ Exists(name)
    <3>1. ~deleted[r] /\ ~missed /\ ~misses
      BY <1>0, <2>2, <2>4 DEF Removing
    <3> QED
      BY <1>1, <1>2, <2>2, <3>1, Known, Silent
  <2>5. CASE name = Legacy(r)
    <3>1. missed <=> misses
      BY <2>2, <2>5, Known
    <3> QED
      BY <1>1, <1>2, <2>2, <3>1, Known, Silent
  <2> QED
    BY <1>0, <2>3, <2>4, <2>5 DEF Removing
<1>6. CASE DeleteUnlink(r)
  <2>1. /\ target[r] = Final(r) /\ ~deleted[r] /\ ~missed
        /\ dir' = [dir EXCEPT ![Final(r)] = NoFile]
    BY <1>0, <1>6 DEF DeleteUnlink, Removing, Unlink
  <2>2. CASE Exists(Final(r))
    <3>1. deleted'[r] = TRUE
      BY <1>6, <2>1, <2>2, Known DEF DeleteUnlink, RequestsOK
    <3>2. Outcome(r) = "none" /\ Outcome(r)' = "deleted"
      BY <1>1, <1>2, <2>1, <3>1
    <3>3. Store!Decide(r, {"delete"}, "deleted") /\ Store!Held(r) = dir[Final(r)]
      BY <3>2, Known, Decides
    <3>4. [f \in Files |-> dir[f]]' = [[f \in Files |-> dir[f]] EXCEPT ![arg[r].file] = NoFile]
      BY <2>1, Known DEF Final
    <3>5. Store!Delete(r)
      BY <2>2, <3>3, <3>4 DEF Store!Delete, Exists
    <3> QED
      BY <3>5 DEF Simulated, Store!Next
  <2>3. CASE ~Exists(Final(r))
    <3>1. misses /\ \A f \in Files : dir'[f] = dir[f]
      BY <1>3, <1>6, <2>1, <2>3, Known DEF DeleteUnlink, Exists, found
    <3> QED
      BY <1>0, <1>1, <1>2, <2>1, <2>3, <3>1, MissSimulates
  <2> QED
    BY <2>2, <2>3
<1>7. CASE DeleteEnd(r)
  <2>1. /\ deleted'[r] = deleted[r] /\ (~deleted[r] => missed /\ misses)
        /\ \A f \in Files : dir'[f] = dir[f]
    BY <1>3, <1>7 DEF DeleteEnd, found, files
  <2> QED
    BY <1>1, <1>2, <2>1, Known, Silent
<1> QED
  BY <1>0, <1>4, <1>5, <1>6, <1>7 DEF FindStep, CurrentExists, LegacyLookup, Stat, SendStat, Open

-------------------------------------------------------------------------------
(***************************************************************************)
(* The steps together.                                                     *)
(***************************************************************************)

LEMMA RequestSimulates ==
    ASSUME NoAliasing, Inv, EInv, NEW r \in Requests, RequestStep(r)
    PROVE  Simulated
BY EarlySimulates, RefusalSimulates, CommitSimulates, UnwindSimulates, ReadSimulates,
   DeleteSimulates DEF RequestStep, SaveStep

\* What moves no request: the cleaner evicts a file, the others do nothing.
LEMMA OtherSimulates ==
    ASSUME Inv, SweepStep \/ Tick \/ ServerCrash \/ CleanerCrash \/ UNCHANGED vars
    PROVE  Simulated
<1>1. UNCHANGED <<local, arg>>
  BY DEF SweepStep, Tick, ServerCrash, CleanerCrash, vars
<1>2. /\ arg' = arg
      /\ [r \in Requests |-> Outcome(r)]' = [r \in Requests |-> Outcome(r)]
  BY <1>1, UnmovedOutcome DEF local, found, Unmoved
<1>3. CASE dir' = dir
  BY <1>2, <1>3 DEF Simulated, Store!vars
<1>4. CASE dir' = [dir EXCEPT ![sweep.cur] = NoFile]
  <2> DEFINE gone == {sweep.cur} \intersect Files
  <2>1. [f \in Files |-> dir[f]]'
          = [f \in Files |-> IF f \in gone THEN NoFile ELSE [g \in Files |-> dir[g]][f]]
    BY <1>4 DEF Inv, TypeOK, FilesOK, Names, Slots
  <2>2. gone \in SUBSET Files
    OBVIOUS
  <2> HIDE DEF gone
  <2>3. PICK F \in SUBSET Files : F = gone
    BY <2>2
  <2>4. Store!Evict(F)
    BY <1>2, <2>1, <2>3 DEF Store!Evict
  <2> QED
    BY <2>4 DEF Simulated, Store!Next
<1> QED
  BY <1>3, <1>4
     DEF SweepStep, SweepBegin, SweepScan, SweepNext, SweepStat, SweepUnlink, SweepEnd,
         Unlink, Tick, ServerCrash, CleanerCrash, files, vars

LEMMA MadeStep ==
    ASSUME NoAliasing, Inv, EInv, NEW r \in Requests, RequestStep(r)
    PROVE  Made'
<1>1. dirMade' = dirMade \/ dirMade' = TRUE
  BY DEF RequestStep, SaveStep, FindStep, RefuseIfExists, EnsureDir, FinalExists,
         LegacyExists, OpenTemp, OpenTempFails, WriteChunk, RejectSize, WriteFails,
         EndOfStream, CommitReplace, CommitLink, CommitFails, TempExists, TempUnlink,
         PurgeExists, PurgeUnlink, DirExists, CurrentExists, LegacyLookup, Stat,
         SendStat, Open, DeleteProbe, DeleteUnlink, DeleteEnd, files
<1>2. ASSUME NEW q \in Requests, pc'[q] \in SaveLabels \ {"ensure_dir"} PROVE dirMade'
  <2>1. CASE q # r
    BY <1>1, <1>2, <2>1, Known, OthersUnmoved DEF Unmoved, EInv, Made
  <2>2. CASE q = r
    <3>1. CASE EnsureDir(r)
      BY <3>1 DEF EnsureDir
    <3>2. CASE pc[r] \in SaveLabels \ {"ensure_dir"}
      BY <1>1, <3>2 DEF EInv, Made
    <3>3. CASE FindStep(r)
      <4>1. pc[r] \in FindLabels
        BY <3>3 DEF FindStep, FindLabels, DirExists, CurrentExists, LegacyLookup, Stat,
                    SendStat, Open, DeleteProbe, DeleteUnlink, DeleteEnd
      <4>2. arg[r].op # "save" /\ Control'
        BY <4>1, ControlStep DEF Inv, TypeOK, Control
      <4> QED
        BY <1>2, <2>2, <4>2, Known DEF Control
    <3> QED
      BY <3>1, <3>2, <3>3
         DEF RequestStep, SaveStep, RefuseIfExists, FinalExists, LegacyExists, OpenTemp,
             OpenTempFails, WriteChunk, RejectSize, WriteFails, EndOfStream,
             CommitReplace, CommitLink, CommitFails, TempExists, TempUnlink,
             PurgeExists, PurgeUnlink, SaveLabels
  <2> QED
    BY <2>1, <2>2
<1>3. ASSUME NEW f \in Files, Exists(f)' PROVE dirMade'
  <2>1. CASE Exists(f)
    BY <1>1, <2>1 DEF EInv, Made
  <2>2. CASE CommitReplace(r) \/ CommitLink(r)
    BY <1>1, <2>2 DEF CommitReplace, CommitLink, SaveLabels, EInv, Made
  <2>3. CASE ~Exists(f) /\ ~(CommitReplace(r) \/ CommitLink(r))
    <3>1. dir'[f] \in {dir[f], NoFile}
      BY <2>3, Known
         DEF RequestStep, SaveStep, FindStep, RefuseIfExists, EnsureDir, FinalExists,
             LegacyExists, OpenTemp, OpenTempFails, WriteChunk, RejectSize, WriteFails,
             EndOfStream, CommitFails, TempExists, TempUnlink, PurgeExists, PurgeUnlink,
             DirExists, CurrentExists, LegacyLookup, Stat, SendStat, Open, DeleteProbe,
             DeleteUnlink, DeleteEnd, files, Unlink
    <3> QED
      BY <1>3, <2>3, <3>1 DEF Exists
  <2> QED
    BY <2>1, <2>2, <2>3
<1> QED
  BY <1>2, <1>3 DEF Made

LEMMA LookingStep ==
    ASSUME NoAliasing, Inv, EInv, NEW r \in Requests, RequestStep(r)
    PROVE  Looking(r)'
<1>1. Control' /\ RequestsOK
  BY ControlStep DEF Inv, TypeOK
<1>2. CASE SaveStep(r)
  <2>1. arg'[r].op = "save"
    BY <1>2, Known
       DEF SaveStep, RefuseIfExists, EnsureDir, FinalExists,
           LegacyExists, OpenTemp, OpenTempFails, WriteChunk, RejectSize, WriteFails,
           EndOfStream, CommitReplace, CommitLink, CommitFails, TempExists, TempUnlink,
           PurgeExists, PurgeUnlink, SaveLabels, Inv, Control
  <2>2. pc'[r] \notin FindLabels
    BY <1>1, <2>1 DEF Control
  <2>3. pc'[r] \in {"final_exists", "legacy_exists"} => ~arg[r].overwrite
    BY <1>2, Known, Moved
       DEF SaveStep, RefuseIfExists, EnsureDir, FinalExists,
           LegacyExists, OpenTemp, OpenTempFails, WriteChunk, RejectSize, WriteFails,
           EndOfStream, CommitReplace, CommitLink, CommitFails, TempExists, TempUnlink,
           PurgeExists, PurgeUnlink, AfterTemp, Looking, local
  <2> QED
    BY <2>2, <2>3, Known DEF Looking, FindLabels
<1>3. CASE FindStep(r)
  <2>1. pc[r] \in FindLabels
    BY <1>3 DEF FindStep, FindLabels, DirExists, CurrentExists, LegacyLookup, Stat,
                SendStat, Open, DeleteProbe, DeleteUnlink, DeleteEnd
  <2>2. arg[r].op # "save" /\ got[r] = NoFile
    BY <2>1, Known DEF Inv, Control, Looking
  <2>3. pc'[r] \notin SaveLabels
    BY <1>1, <2>2, Known DEF Control
  <2>4. CASE Open(r) \/ DeleteEnd(r)
    <3>1. pc'[r] \in {"done", "delete_probe"}
      BY <2>4, Known, Moved DEF Open, DeleteEnd, Missing
    <3>2. pc'[r] = "done"
      BY <2>4, Known, Moved DEF Open, DeleteEnd, Missing
    <3> QED
      BY <3>2 DEF Looking, FindLabels
  <2>5. CASE ~(Open(r) \/ DeleteEnd(r))
    <3>1. got'[r] = NoFile
      BY <1>3, <2>2, <2>5
         DEF FindStep, DirExists, CurrentExists, LegacyLookup, Resolve, Stat, SendStat,
             DeleteProbe, DeleteUnlink, found
    <3>2. pc'[r] \in {"delete_probe", "delete_unlink"} => arg[r].op = "delete"
      BY <1>3, <2>5, Known, Moved
         DEF FindStep, DirExists, CurrentExists, LegacyLookup, Resolve, Stat, SendStat,
             DeleteProbe, DeleteUnlink, Missing, Looking
    <3>3. pc'[r] \in {"stat", "send_stat", "open"} => target'[r] = Final(r)
      <4>1. CASE DirExists(r) \/ DeleteProbe(r) \/ DeleteUnlink(r)
        BY <4>1, Known, Moved DEF DirExists, DeleteProbe, DeleteUnlink, Missing
      <4>2. CASE CurrentExists(r) \/ LegacyLookup(r)
        BY <4>2, Known, Moved
           DEF CurrentExists, LegacyLookup, Resolve, Missing, RequestsOK
      <4>3. CASE Stat(r) \/ SendStat(r)
        BY <4>3, Known, Moved DEF Stat, SendStat, Looking, found
      <4> QED
        BY <1>3, <2>5, <4>1, <4>2, <4>3 DEF FindStep
    <3> QED
      BY <2>3, <3>1, <3>2, <3>3, Known DEF Looking, SaveLabels
  <2> QED
    BY <2>4, <2>5
<1> QED
  BY <1>2, <1>3 DEF RequestStep

LEMMA RemovingStep ==
    ASSUME NoAliasing, Inv, EInv, NEW r \in Requests, RequestStep(r), arg[r].op = "delete"
    PROVE  Removing(r)'
<1>1. Removing(r)
  BY Known
<1>2. /\ pc[r] \notin SaveLabels
      /\ pc[r] \notin {"current_exists", "legacy_lookup", "stat", "send_stat", "open"}
  BY DEF Inv, Control
<1>3. CASE DirExists(r)
  BY <1>1, <1>3, Known, Moved DEF DirExists, Missing, Removing, found
<1>4. CASE DeleteProbe(r)
  <2>1. PICK name \in todo[r] :
          /\ todo' = [todo EXCEPT ![r] = @ \ {name}]
          /\ target' = [target EXCEPT ![r] = name]
          /\ Continue(r, IF Exists(name) THEN "delete_unlink" ELSE "delete_probe")
    BY <1>4 DEF DeleteProbe
  <2>2. /\ deleted'[r] = deleted[r] /\ todo'[r] = todo[r] \ {name} /\ target'[r] = name
        /\ pc'[r] = IF Exists(name) THEN "delete_unlink" ELSE "delete_probe"
    BY <1>4, <2>1, Known, Moved DEF DeleteProbe, RequestsOK
  <2>3. name = Final(r) \/ (name = Legacy(r) /\ ~Exists(name))
    BY <1>1, Known DEF Removing
  <2> QED
    BY <1>1, <2>2, <2>3, Known DEF Removing
<1>5. CASE DeleteUnlink(r)
  <2>1. todo'[r] = todo[r] /\ Final(r) \notin todo[r] /\ pc'[r] \in {"delete_probe", "done"}
    BY <1>1, <1>5, Known, Moved DEF DeleteUnlink, Missing, Removing, found
  <2> QED
    BY <1>1, <2>1, Known DEF Removing
<1>6. CASE DeleteEnd(r)
  <2>1. pc'[r] = "done" /\ UNCHANGED found
    BY <1>6, Known, Moved DEF DeleteEnd, Missing
  <2> QED
    BY <1>1, <2>1, Known DEF Removing, found
<1> QED
  BY <1>2, <1>3, <1>4, <1>5, <1>6
     DEF RequestStep, SaveStep, FindStep, RefuseIfExists, EnsureDir, FinalExists,
         LegacyExists, OpenTemp, OpenTempFails, WriteChunk, RejectSize, WriteFails,
         EndOfStream, CommitReplace, CommitLink, CommitFails, TempExists, TempUnlink,
         PurgeExists, PurgeUnlink, CurrentExists, LegacyLookup, Stat, SendStat, Open,
         SaveLabels

LEMMA EStep ==
    ASSUME NoAliasing, Inv, EInv, [Next]_vars
    PROVE  EInv'
<1>1. NoLegacy'
  <2>1. \A f \in Files : dir'[HashedName[f]] \in {dir[HashedName[f]], NoFile}
    BY LegacyOnlyDisappears DEF vars, files
  <2> QED
    BY <2>1 DEF EInv, NoLegacy
<1>2. CASE \E r \in Requests : RequestStep(r)
  <2>1. PICK r \in Requests : RequestStep(r)
    BY <1>2
  <2>2. Made' /\ Looking(r)'
    BY <2>1, MadeStep, LookingStep
  <2>3. Removing(r)'
    BY <2>1, Known, RemovingStep DEF Removing
  <2>4. ASSUME NEW q \in Requests, q # r PROVE Looking(q)' /\ Removing(q)'
    <3>1. Unmoved(q) /\ arg' = arg /\ Looking(q) /\ Removing(q)
      BY <2>1, <2>4, Known, OthersUnmoved DEF EInv
    <3> QED
      BY <3>1 DEF Unmoved, Looking, Removing, Final, Legacy
  <2> QED
    BY <1>1, <2>2, <2>3, <2>4 DEF EInv
<1>3. CASE SweepStep \/ Tick \/ ServerCrash \/ CleanerCrash \/ UNCHANGED vars
  <2>1. /\ UNCHANGED <<local, arg, dirMade>>
        /\ \A f \in Files : dir'[f] \in {dir[f], NoFile}
    <3>1. CASE SweepStep
      BY <3>1
         DEF SweepStep, SweepBegin, SweepScan, SweepNext, SweepStat, SweepUnlink, SweepEnd,
             Unlink, Inv, TypeOK, FilesOK, Names, Slots
    <3> QED
      BY <1>3, <3>1 DEF Tick, ServerCrash, CleanerCrash, vars, files
  <2>2. Made'
    BY <2>1 DEF EInv, Made, Exists, local
  <2>3. ASSUME NEW q \in Requests PROVE Looking(q)' /\ Removing(q)'
    BY <2>1 DEF EInv, Looking, Removing, Final, Legacy, local, found
  <2> QED
    BY <1>1, <2>2, <2>3 DEF EInv
<1> QED
  BY <1>2, <1>3 DEF Next

LEMMA EInit ==
    ASSUME NoLegacyFiles, Init
    PROVE  EInv
<1>1. PICK S \in SUBSET InitialSlots :
        /\ dir = [n \in Names |-> IF n \in S THEN n ELSE NoFile]
        /\ dirMade \in (IF S = {} THEN BOOLEAN ELSE {TRUE})
  BY DEF Init
<1>2. \A f \in Files : HashedName[f] \in Names /\ f \in Names
  BY FilesAssumption DEF Names, Slots
<1>3. NoLegacy
  BY <1>1, <1>2 DEF NoLegacyFiles, NoLegacy
<1>4. \A r \in Requests : pc[r] \in {"ensure_dir", "dir_exists"}
  BY DEF Init, FirstLabel
<1>5. Made
  BY <1>1, <1>2, <1>4 DEF Made, Exists, SaveLabels
<1>6. ASSUME NEW r \in Requests PROVE Looking(r) /\ Removing(r)
  BY <1>4 DEF Init, Looking, Removing
<1> QED
  BY <1>3, <1>5, <1>6 DEF EInv

-------------------------------------------------------------------------------

\* With no v1.0.0 file around, the local backend keeps the promise of
\* StorageBackend: every step of save_file, of a read, of a delete and of the
\* cleaner is one atomic step of the abstract store, or none.
THEOREM Refinement ==
    ASSUME NoAliasing, NoLegacyFiles
    PROVE  HSpec => ImplementsFileStore
<1>1. Init => Store!Init
  <2> SUFFICES ASSUME Init PROVE Store!Init
    OBVIOUS
  <2>1. [f \in Files |-> dir[f]] \in [Files -> InitialSlots \union {NoFile}]
    BY DEF Init, Names, Slots
  <2>2. ASSUME NEW r \in Requests PROVE Outcome(r) = "none"
    <3>1. pc[r] \in {"ensure_dir", "dir_exists"}
      BY DEF Init, FirstLabel
    <3> QED
      BY <3>1 DEF Init, Outcome, SaveOutcome, Published, DeleteOutcome, DeleteMissed,
                  ReadOutcome, ReadMissed, Final
  <2> QED
    BY <2>1, <2>2 DEF Init, Store!Init
<1>2. Inv /\ EInv /\ [Next]_vars => Simulated
  BY RequestSimulates, OtherSimulates DEF Next
<1>3. HSpec => Spec
  <2>1. HInit => Init
    BY DEF HInit
  <2>2. [HNext]_hvars => [Next]_vars
    BY DEF HNext, hvars
  <2> QED
    BY <2>1, <2>2, PTL DEF HSpec, Spec
<1>4. Simulated => [Store!Next]_(Store!vars)
  BY DEF Simulated
<1>5. Init => EInv
  BY EInit
<1>6. Inv /\ EInv /\ [Next]_vars => EInv'
  BY EStep
<1> QED
  BY <1>1, <1>2, <1>3, <1>4, <1>5, <1>6, Invariance, PTL DEF Spec, ImplementsFileStore, Store!Spec

-------------------------------------------------------------------------------
(***************************************************************************)
(* No false miss.                                                          *)
(***************************************************************************)

\* A request that is not an upload and has found nothing.
Missed(r) == IF arg[r].op = "delete" THEN DeleteMissed(r) ELSE ReadMissed(r)

\* It is the only one that is answered with an error, and it ran while its file
\* was not there.
MissExplained(r) ==
    arg[r].op # "save" =>
        /\ resp[r] \in {404, 500, Aborted} => Missed(r)
        /\ Missed(r) => r \in absent

\* A read that finds nothing does so at a moment when its file is not there.
LEMMA ReadMisses ==
    ASSUME NoAliasing, Inv, EInv, NEW r \in Requests, RequestStep(r), FindStep(r),
           arg[r].op \notin {"save", "delete"}
    PROVE  /\ pc'[r] # "dir_exists"
           /\ resp'[r] \in {404, 500, Aborted} => ReadMissed(r)'
           /\ ReadMissed(r)' => ReadMissed(r) \/ dir'[Final(r)] = NoFile
<1>0. /\ pc[r] \in FindLabels /\ got[r] = NoFile /\ resp[r] = 0
      /\ pc[r] \notin {"delete_probe", "delete_unlink"}
  BY Known DEF FindStep, FindLabels, DirExists, CurrentExists, LegacyLookup, Stat, SendStat,
               Open, DeleteProbe, DeleteUnlink, DeleteEnd, Looking
<1>1. Missing(r) => pc'[r] = "done" /\ resp'[r] = 404
  BY Known, Moved, StatusTypes DEF Missing
<1>2. CASE DirExists(r)
  <2>1. got'[r] = NoFile /\ dir' = dir
    BY <1>0, <1>2 DEF DirExists, found, files
  <2>2. CASE dirMade
    <3>1. pc'[r] = "current_exists" /\ resp'[r] = 0
      BY <1>0, <1>2, <2>2, Known, Moved DEF DirExists
    <3> QED
      BY <3>1 DEF ReadMissed, Aborted
  <2>3. CASE ~dirMade
    <3>1. dir[Final(r)] = NoFile /\ pc'[r] = "done"
      BY <1>1, <1>2, <2>3, Known DEF DirExists, EInv, Made, Exists
    <3>2. resp'[r] # 0
      BY <1>1, <1>2, <2>3 DEF DirExists
    <3> QED
      BY <2>1, <3>1, <3>2 DEF ReadMissed
  <2> QED
    BY <2>2, <2>3
<1>3. CASE CurrentExists(r)
  <2>1. CASE Exists(Final(r)) /\ Resolve(r, Final(r))
    <3>1. pc'[r] \in {"open", "stat"} /\ resp'[r] = 0
      BY <1>0, <2>1, Known, Moved DEF Resolve
    <3> QED
      BY <3>1 DEF ReadMissed, Aborted
  <2>2. CASE ~Exists(Final(r)) /\ Continue(r, "legacy_lookup") /\ UNCHANGED found
    <3>1. pc'[r] = "legacy_lookup" /\ resp'[r] = 0
      BY <1>0, <2>2, Known, Moved
    <3>2. dir'[Final(r)] = NoFile
      BY <1>3, <2>2 DEF CurrentExists, files, Exists
    <3> QED
      BY <3>1, <3>2 DEF Aborted
  <2> QED
    BY <1>3, <2>1, <2>2 DEF CurrentExists
<1>4. CASE LegacyLookup(r)
  <2>1. got'[r] = NoFile /\ pc'[r] = "done" /\ resp'[r] = 404
    BY <1>0, <1>1, <1>4, Known DEF LegacyLookup, found
  <2>2. ReadMissed(r)
    BY <1>0, <1>4 DEF LegacyLookup, ReadMissed
  <2> QED
    BY <2>1, <2>2 DEF ReadMissed
<1>5. CASE Stat(r) \/ SendStat(r)
  <2>1. target[r] = Final(r) /\ dir' = dir
    BY <1>5, Known DEF Stat, SendStat, Looking, files
  <2>2. \/ pc'[r] \in {"open", "send_stat"} /\ resp'[r] = 0
        \/ dir[Final(r)] = NoFile /\ pc'[r] = "done" /\ resp'[r] # 0 /\ got'[r] = NoFile
    BY <1>0, <1>1, <1>5, <2>1, Known, Moved, StatusTypes DEF Stat, SendStat, found
  <2> QED
    BY <2>1, <2>2 DEF ReadMissed, Aborted
<1>6. CASE Open(r)
  <2>1. target[r] = Final(r) /\ dir' = dir
    BY <1>6, Known DEF Open, Looking, files
  <2>2. CASE dir[Final(r)] # NoFile
    <3>1. got'[r] # NoFile /\ resp'[r] = 200 /\ pc'[r] = "done"
      BY <1>6, <2>1, <2>2, Known, Moved, StatusTypes
         DEF Open, RequestsOK, ReadStatus, ReadCode, LookupError
    <3> QED
      BY <3>1 DEF ReadMissed, Aborted
  <2>3. CASE dir[Final(r)] = NoFile
    <3>1. pc'[r] = "done" /\ resp'[r] # 0 /\ got'[r] = NoFile
      BY <1>0, <1>1, <1>6, <2>1, <2>3, Known, Moved DEF Open, Aborted, found
    <3> QED
      BY <2>1, <2>3, <3>1 DEF ReadMissed
  <2> QED
    BY <2>2, <2>3
<1> QED
  BY <1>0, <1>2, <1>3, <1>4, <1>5, <1>6 DEF FindStep, DeleteProbe, DeleteUnlink, DeleteEnd

\* So does a delete.
LEMMA DeleteMisses ==
    ASSUME NoAliasing, Inv, EInv, NEW r \in Requests, RequestStep(r), FindStep(r),
           arg[r].op = "delete"
    PROVE  /\ pc'[r] # "dir_exists"
           /\ resp'[r] \in {404, 500, Aborted} => DeleteMissed(r)'
           /\ DeleteMissed(r)' => DeleteMissed(r) \/ dir'[Final(r)] = NoFile
<1>0. Removing(r) /\ pc[r] \in {"dir_exists", "delete_probe", "delete_unlink"} /\ resp[r] = 0
  BY Known DEF FindStep, DirExists, CurrentExists, LegacyLookup, Stat, SendStat, Open,
               DeleteProbe, DeleteUnlink, DeleteEnd, Inv, Control
<1>1. Missing(r) => pc'[r] = "done" /\ resp'[r] = 404
  BY Known, Moved, StatusTypes DEF Missing
<1>2. Final(r)' = Final(r)
  BY Known
<1>3. CASE DirExists(r)
  <2>1. ~deleted'[r] /\ Final(r) \in todo'[r] /\ dir' = dir
    BY <1>0, <1>3 DEF DirExists, Removing, found, files
  <2>2. CASE dirMade
    <3>1. pc'[r] = "delete_probe" /\ resp'[r] = 0
      BY <1>0, <1>3, <2>2, Known, Moved DEF DirExists
    <3> QED
      BY <1>2, <2>1, <3>1 DEF DeleteMissed, Aborted
  <2>3. CASE ~dirMade
    <3>1. dir[Final(r)] = NoFile /\ pc'[r] = "done" /\ resp'[r] # 0
      BY <1>1, <1>3, <2>3, Known DEF DirExists, EInv, Made, Exists
    <3> QED
      BY <2>1, <3>1 DEF DeleteMissed
  <2> QED
    BY <2>2, <2>3
<1>4. CASE DeleteProbe(r)
  <2>1. PICK name \in todo[r] :
          /\ todo' = [todo EXCEPT ![r] = @ \ {name}]
          /\ Continue(r, IF Exists(name) THEN "delete_unlink" ELSE "delete_probe")
    BY <1>4 DEF DeleteProbe
  <2>2. /\ deleted'[r] = deleted[r] /\ todo'[r] = todo[r] \ {name} /\ resp'[r] = 0
        /\ pc[r] = "delete_probe" /\ dir' = dir
        /\ pc'[r] = IF Exists(name) THEN "delete_unlink" ELSE "delete_probe"
    BY <1>0, <1>4, <2>1, Known, Moved DEF DeleteProbe, RequestsOK, files
  <2>3. name = Final(r) \/ name = Legacy(r)
    BY <1>0 DEF Removing
  <2>4. CASE name = Final(r)
    BY <1>2, <2>2, <2>4 DEF DeleteMissed, Exists, Aborted
  <2>5. CASE name = Legacy(r)
    BY <1>2, <2>2, <2>5, Known DEF DeleteMissed, Aborted
  <2> QED
    BY <2>3, <2>4, <2>5
<1>5. CASE DeleteUnlink(r)
  <2>1. target[r] = Final(r) /\ ~deleted[r]
    BY <1>0, <1>5 DEF DeleteUnlink, Removing
  <2>2. dir'[Final(r)] = NoFile
    BY <1>5, <2>1, Known DEF DeleteUnlink, Unlink
  <2>3. \/ pc'[r] = "delete_probe" /\ resp'[r] = 0
        \/ pc'[r] = "done" /\ resp'[r] # 0 /\ ~deleted'[r]
    BY <1>0, <1>1, <1>5, <2>1, Known, Moved DEF DeleteUnlink, found
  <2> QED
    BY <2>2, <2>3 DEF DeleteMissed, Aborted
<1>6. CASE DeleteEnd(r)
  <2>1. deleted' = deleted /\ pc[r] = "delete_probe" /\ Final(r) \notin todo[r]
    BY <1>6 DEF DeleteEnd, found
  <2>2. pc'[r] = "done" /\ resp'[r] # 0
    BY <1>1, <1>6, Known, Moved, StatusTypes DEF DeleteEnd
  <2>3. deleted[r] => resp'[r] = 204
    BY <1>6, Known, Moved DEF DeleteEnd, DeleteStatus, DeleteCode, LookupError
  <2> QED
    BY <2>1, <2>2, <2>3 DEF DeleteMissed, Aborted
<1> QED
  BY <1>0, <1>3, <1>4, <1>5, <1>6 DEF FindStep, CurrentExists, LegacyLookup, Stat, SendStat, Open

\* A step explains the misses it makes.
LEMMA MissStep ==
    ASSUME NoAliasing, Inv, EInv, [Next]_vars, Track,
           EInv',
           NEW q \in Requests, MissExplained(q)
    PROVE  MissExplained(q)'
<1>1. absent \subseteq absent'
  BY DEF Track
<1>2. CASE Unmoved(q) /\ arg' = arg
  BY <1>1, <1>2
     DEF Unmoved, MissExplained, Missed, DeleteMissed, ReadMissed, Final, Aborted
<1>3. CASE RequestStep(q) /\ arg[q].op # "save"
  <2>1. FindStep(q)
    BY <1>3 DEF RequestStep, SaveStep, RefuseIfExists, EnsureDir, FinalExists,
                LegacyExists, OpenTemp, OpenTempFails, WriteChunk, RejectSize, WriteFails,
                EndOfStream, CommitReplace, CommitLink, CommitFails, TempExists, TempUnlink,
                PurgeExists, PurgeUnlink, SaveLabels, Inv, Control
  <2>2. /\ pc'[q] # "dir_exists"
        /\ resp'[q] \in {404, 500, Aborted} => Missed(q)'
        /\ Missed(q)' => Missed(q) \/ dir'[Final(q)] = NoFile
    BY <1>3, <2>1, Known, ReadMisses, DeleteMisses DEF Missed
  <2>3. dir'[Final(q)] = NoFile => q \in absent'
    <3>1. Final(q)' = Final(q) /\ arg' = arg /\ Final(q) \in Files
      BY <1>3, Known
    <3>2. dir'[HashedName[Final(q)]] = NoFile
      BY <3>1 DEF EInv, NoLegacy
    <3>3. Started(q)'
      BY <1>3, <2>2, <3>1 DEF Started, FirstLabel
    <3> QED
      BY <3>1, <3>2, <3>3 DEF Track, Present, Exists
  <2> QED
    BY <1>1, <1>3, <2>2, <2>3, Known DEF MissExplained, Aborted
<1>4. CASE RequestStep(q) /\ arg[q].op = "save"
  BY <1>4, Known DEF MissExplained
<1>5. CASE \E r \in Requests : r # q /\ RequestStep(r)
  BY <1>2, <1>5, Known, OthersUnmoved
<1>6. CASE SweepStep \/ Tick \/ ServerCrash \/ CleanerCrash \/ UNCHANGED vars
  <2>1. UNCHANGED <<local, arg>>
    BY <1>6 DEF SweepStep, Tick, ServerCrash, CleanerCrash, vars
  <2> QED
    BY <1>2, <2>1 DEF local, found, Unmoved
<1> QED
  BY <1>3, <1>4, <1>5, <1>6 DEF Next

\* With no v1.0.0 file around, no read and no delete is answered that its file is not
\* there, or fails for that reason, unless it ran while the file was not there.
THEOREM MissesAreTrue ==
    ASSUME NoAliasing, NoLegacyFiles
    PROVE  HSpec => []NoFalseMiss
<1> DEFINE I == Inv /\ EInv /\ \A r \in Requests : MissExplained(r)
<1>1. HInit => I
  <2> SUFFICES ASSUME HInit PROVE I
    OBVIOUS
  <2>1. Inv /\ EInv
    BY InitInv, EInit DEF HInit
  <2>2. ASSUME NEW r \in Requests, arg[r].op # "save" PROVE MissExplained(r)
    <3>1. /\ resp[r] = 0 /\ pc[r] = "dir_exists" /\ got[r] = NoFile
      BY <2>2 DEF HInit, Init, FirstLabel
    <3> QED
      BY <3>1 DEF MissExplained, Missed, DeleteMissed, ReadMissed, Aborted
  <2> QED
    BY <2>1, <2>2 DEF MissExplained
<1>2. I /\ [HNext]_hvars => I'
  <2> SUFFICES ASSUME I, [HNext]_hvars PROVE I'
    OBVIOUS
  <2>1. [Next]_vars /\ (absent' = absent \/ Track)
    BY DEF HNext, hvars
  <2>2. Inv' /\ EInv'
    BY <2>1, StepInv, EStep
  <2>3. CASE Track
    BY <2>1, <2>2, <2>3, MissStep
  <2>4. CASE UNCHANGED hvars
    <3>1. ASSUME NEW r \in Requests PROVE MissExplained(r)'
      BY <2>4 DEF hvars, vars, local, found, MissExplained, Missed, DeleteMissed, ReadMissed,
                  Final, Aborted
    <3> QED
      BY <2>2, <3>1
  <2> QED
    BY <2>3, <2>4 DEF HNext
<1>3. I => NoFalseMiss
  BY DEF NoFalseMiss, MissExplained
<1> QED
  BY <1>1, <1>2, <1>3, PTL DEF HSpec

-------------------------------------------------------------------------------
(***************************************************************************)
(* The answers.  The refinement says when each request took effect; this   *)
(* says that its answer is the one for that effect.                        *)
(***************************************************************************)

\* What the answer of request r, once it has one, says of r.
Answer(r) ==
    /\ resp[r] = 201 => arg[r].op = "save" /\ pend[r] = "none"
    /\ resp[r] \in {400, 507} => arg[r].op = "save" /\ pend[r] \notin {"none", "FileExistsError"}
    /\ resp[r] = 409 => arg[r].op = "save"
    /\ resp[r] = 204 => arg[r].op = "delete" /\ deleted[r]
    /\ resp[r] = 200 => arg[r].op \notin {"save", "delete"} /\ got[r] # NoFile
    /\ resp[r] = 404 => arg[r].op # "save" /\ Missed(r)

LEMMA SaveAnswers ==
    ASSUME NoAliasing, Inv, EInv, NEW r \in Requests, RequestStep(r), SaveStep(r)
    PROVE  Answer(r)'
<1>0. /\ arg[r].op = "save" /\ arg' = arg /\ resp[r] = 0 /\ RequestsOK
      /\ pend[r] \in Failures \union {"none"}
  BY Known
     DEF SaveStep, RefuseIfExists, EnsureDir, FinalExists, LegacyExists, OpenTemp,
         OpenTempFails, WriteChunk, RejectSize, WriteFails, EndOfStream, CommitReplace,
         CommitLink, CommitFails, TempExists, TempUnlink, PurgeExists, PurgeUnlink,
         SaveLabels, Inv, Control, RequestsOK
<1>1. CASE EnsureDir(r) \/ OpenTemp(r) \/ WriteChunk(r) \/ EndOfStream(r)
           \/ CommitReplace(r) \/ CommitLink(r)
  <2>1. resp'[r] = 0
    BY <1>0, <1>1, Moved
       DEF EnsureDir, OpenTemp, WriteChunk, EndOfStream, CommitReplace, CommitLink, local
  <2> QED
    BY <2>1 DEF Answer
<1>2. CASE OpenTempFails(r) \/ RejectSize(r) \/ WriteFails(r) \/ CommitFails(r)
  <2>1. resp'[r] = 0
    BY <1>0, <1>2, Moved DEF OpenTempFails, RejectSize, WriteFails, CommitFails
  <2> QED
    BY <2>1 DEF Answer
<1>3. CASE FinalExists(r) \/ LegacyExists(r)
  <2>1. resp'[r] \in {0, 409}
    BY <1>0, <1>3, Moved, StatusTypes DEF FinalExists, LegacyExists, RefuseIfExists
  <2> QED
    BY <1>0, <2>1 DEF Answer
<1>4. CASE TempExists(r) \/ TempUnlink(r)
  <2>1. pend' = pend
    BY <1>4 DEF TempExists, TempUnlink
  <2>2. \/ resp'[r] \in {0, 500}
        \/ pend[r] # "none" /\ resp'[r] = UploadStatus[pend[r]]
    BY <1>0, <1>4, Moved, StatusTypes DEF TempExists, TempUnlink, AfterTemp
  <2>3. pend[r] # "none" =>
          /\ UploadStatus[pend[r]] \in {400, 409, 500, 507}
          /\ UploadStatus[pend[r]] \in {400, 507} => pend[r] # "FileExistsError"
    BY <1>0 DEF Failures, UploadStatus, UploadError, UploadCode
  <2> QED
    BY <1>0, <2>1, <2>2, <2>3 DEF Answer
<1>5. CASE PurgeExists(r) \/ PurgeUnlink(r)
  <2>1. pend'[r] = "none"
    BY <1>5 DEF PurgeExists, PurgeUnlink, Inv, Written
  <2>2. resp'[r] \in {0, 201, 500}
    BY <1>0, <1>5, Moved, StatusTypes DEF PurgeExists, PurgeUnlink
  <2> QED
    BY <1>0, <2>1, <2>2 DEF Answer
<1> QED
  BY <1>1, <1>2, <1>3, <1>4, <1>5 DEF SaveStep

LEMMA FindAnswers ==
    ASSUME NoAliasing, Inv, EInv, NEW r \in Requests, RequestStep(r), FindStep(r)
    PROVE  Answer(r)'
<1>0. /\ arg[r].op # "save" /\ arg' = arg /\ resp[r] = 0 /\ RequestsOK
  BY Known
     DEF FindStep, FindLabels, DirExists, CurrentExists, LegacyLookup, Stat, SendStat, Open,
         DeleteProbe, DeleteUnlink, DeleteEnd, Inv, Control
<1>1. resp'[r] = 404 => Missed(r)'
  <2>1. arg[r].op = "delete" => (resp'[r] = 404 => DeleteMissed(r)')
    BY DeleteMisses
  <2>2. arg[r].op # "delete" => (resp'[r] = 404 => ReadMissed(r)')
    BY <1>0, ReadMisses
  <2>3. /\ arg[r].op = "delete" => Missed(r)' = DeleteMissed(r)'
        /\ arg[r].op # "delete" => Missed(r)' = ReadMissed(r)'
    BY <1>0 DEF Missed, DeleteMissed, ReadMissed, Final
  <2> QED
    BY <2>1, <2>2, <2>3
<1>2. Missing(r) => resp'[r] = 404
  BY <1>0, Moved, StatusTypes DEF Missing
<1>3. CASE DirExists(r) \/ CurrentExists(r) \/ LegacyLookup(r) \/ Stat(r) \/ SendStat(r)
  <2>1. resp'[r] \in {0, 404, 500}
    BY <1>0, <1>2, <1>3, Moved, StatusTypes
       DEF DirExists, CurrentExists, LegacyLookup, Resolve, Stat, SendStat
  <2> QED
    BY <1>0, <1>1, <2>1 DEF Answer
<1>4. CASE Open(r)
  <2>1. \/ resp'[r] \in {404, Aborted}
        \/ resp'[r] = 200 /\ got'[r] # NoFile
    BY <1>0, <1>2, <1>4, Moved, StatusTypes DEF Open, RequestsOK
  <2>2. arg[r].op # "delete"
    BY <1>4 DEF Open, Inv, Control
  <2> QED
    BY <1>0, <1>1, <2>1, <2>2 DEF Answer, Aborted
<1>5. CASE DeleteProbe(r) \/ DeleteUnlink(r)
  <2>1. resp'[r] \in {0, 404}
    BY <1>0, <1>2, <1>5, Moved DEF DeleteProbe, DeleteUnlink
  <2> QED
    BY <1>0, <1>1, <2>1 DEF Answer
<1>6. CASE DeleteEnd(r)
  <2>1. arg[r].op = "delete" /\ deleted' = deleted
    BY <1>6, Known DEF DeleteEnd, Looking, found
  <2>2. resp'[r] = IF deleted[r] THEN 204 ELSE 404
    BY <1>0, <1>2, <1>6, Moved, StatusTypes DEF DeleteEnd
  <2> QED
    BY <1>0, <1>1, <2>1, <2>2 DEF Answer
<1> QED
  BY <1>3, <1>4, <1>5, <1>6 DEF FindStep

LEMMA AnswersStep ==
    ASSUME NoAliasing, Inv, EInv, [Next]_vars, NEW r \in Requests, Answer(r)
    PROVE  Answer(r)'
<1>1. CASE RequestStep(r)
  BY <1>1, SaveAnswers, FindAnswers DEF RequestStep
<1>2. CASE Unmoved(r) /\ arg' = arg
  BY <1>2 DEF Unmoved, Answer, Missed, DeleteMissed, ReadMissed, Final
<1>3. ASSUME NEW q \in Requests, q # r, RequestStep(q) PROVE Unmoved(r) /\ arg' = arg
  BY <1>3, Known, OthersUnmoved
<1>4. SweepStep \/ Tick \/ ServerCrash \/ CleanerCrash \/ UNCHANGED vars
        => Unmoved(r) /\ arg' = arg
  BY DEF SweepStep, Tick, ServerCrash, CleanerCrash, vars, local, found, Unmoved
<1> QED
  BY <1>1, <1>2, <1>3, <1>4 DEF Next

\* With no v1.0.0 file around, what is answered is what was done: 201 for an upload
\* whose commit put its content in place, 409 for one that met a file, 204 for the
\* one delete that took the file away, 404 for a file that was not there.
THEOREM AnswersDescribeOutcomes ==
    ASSUME NoAliasing, NoLegacyFiles
    PROVE  HSpec => []AnswersAreTrue
<1> DEFINE I == Inv /\ EInv /\ \A r \in Requests : Answer(r)
<1>1. HInit => I
  <2>1. HInit => \A r \in Requests : Answer(r)
    BY DEF HInit, Init, Answer
  <2> QED
    BY <2>1, InitInv, EInit DEF HInit
<1>2. I /\ [HNext]_hvars => I'
  <2> SUFFICES ASSUME I, [HNext]_hvars PROVE I'
    OBVIOUS
  <2>1. [Next]_vars
    BY DEF HNext, hvars
  <2> QED
    BY <2>1, StepInv, EStep, AnswersStep
<1>3. I => AnswersAreTrue
  <2> SUFFICES ASSUME I, NEW r \in Requests
               PROVE  /\ resp[r] = 201 => Outcome(r) = "stored"
                      /\ resp[r] = 204 => Outcome(r) = "deleted"
                      /\ resp[r] = 404 => Outcome(r) = "missing"
                      /\ resp[r] \in {400, 507} => Outcome(r) = "failed"
                      /\ resp[r] = 409 => Outcome(r) = "conflict"
                      /\ resp[r] = 200 => Outcome(r) = got[r] /\ got[r] # NoFile
    BY DEF AnswersAreTrue
  <2>1. Answer(r) /\ (resp[r] # 0 => pc[r] = "done")
    BY DEF Inv, Control
  <2> QED
    BY <2>1
       DEF Answer, Outcome, SaveOutcome, Published, DeleteOutcome, DeleteMissed, ReadOutcome,
           ReadMissed, Missed, Final
<1> QED
  BY <1>1, <1>2, <1>3, PTL DEF HSpec
===============================================================================
