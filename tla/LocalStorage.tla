----------------------------- MODULE LocalStorage -----------------------------
(***************************************************************************)
(* LocalStorageBackend (app/storage/local.py) on one logical directory,    *)
(* with everything that works on it at the same time:                      *)
(*                                                                         *)
(*   - the API server, which serves any number of requests concurrently    *)
(*     and gives up control at every await, so one step here is one call   *)
(*     to the file system;                                                 *)
(*   - the cleanup worker, a process of its own (commands/cleanup.py);     *)
(*   - the clock, and crashes of either process.                           *)
(*                                                                         *)
(* A directory maps names to inodes.  The names are the logical file names *)
(* (v1.0.1 stores a file under its own name), their v1.0.0 hashed names,   *)
(* and one temporary name per upload: a request r owns the temporary name  *)
(* r (the code draws a fresh UUID) and the inode r it creates there.  An   *)
(* inode that was there at the start is named after its slot.  Sizes are   *)
(* counted in chunks of the upload loop.                                   *)
(***************************************************************************)
EXTENDS Naturals, ApiStatus

CONSTANTS
    Requests,       \* the requests the server may receive
    Files,          \* logical file names
    HashedName,     \* HashedName[f]: the v1.0.0 name of file f
    InitialSlots,   \* slots that may already hold a file at the start
    Calls,          \* the calls clients make
    MaxSize,        \* MAX_FILE_SIZE_MB, in chunks
    MaxAge,         \* MAX_FILE_AGE_HOURS, in ticks
    MaxClock,       \* bound on the clock
    MaxCrashes,     \* bound on the crashes of server and cleaner together
    NoFile          \* the name is not in the directory

Slots == Files \union {HashedName[f] : f \in Files}
Names == Requests \union Slots

Ops == {"save", "read", "meta", "download", "delete"}

ASSUME FilesAssumption ==
    /\ HashedName \in [Files -> Slots]
    /\ \A f \in Files : HashedName[f] # f
    /\ InitialSlots \subseteq Slots
    /\ Requests \intersect Slots = {}
    /\ NoFile \notin Names

ASSUME CallsAssumption ==
    Calls \subseteq [op : Ops, file : Files, overwrite : BOOLEAN, size : Nat]

ASSUME BoundsAssumption ==
    {MaxSize, MaxAge, MaxClock, MaxCrashes} \subseteq Nat

VARIABLES
    dir,        \* dir[n]: the inode that name n links to, or NoFile
    len,        \* len[i]: chunks written to inode i
    mtime,      \* mtime[i]: when inode i was last written
    dirMade,    \* the directory of this folder/subfolder exists
    clock,
    arg,        \* arg[r]: the call request r makes
    pc,         \* pc[r]: the file system call request r does next
    pend,       \* pend[r]: the exception request r is unwinding with
    resp,       \* resp[r]: the status sent to the client, 0 before
    target,     \* target[r]: the name request r has resolved or is deleting
    todo,       \* todo[r]: the candidates a delete has yet to look at
    deleted,    \* deleted[r]: a delete has removed one
    seen,       \* seen[r]: the inode that was stat'ed for the response
    got,        \* got[r]: the inode whose content was read for the response
    dead,       \* requests that were in flight when the server crashed
    crashes,
    sweep       \* the cleanup worker: its label and local variables

files == <<dir, len, mtime, dirMade>>
found == <<target, todo, deleted, seen, got>>
local == <<pc, pend, resp, found>>
vars  == <<files, local, clock, arg, dead, crashes, sweep>>

SaveLabels == {"ensure_dir", "final_exists", "legacy_exists", "open_temp", "write",
               "commit", "temp_exists", "temp_unlink", "purge_exists", "purge_unlink"}
FindLabels == {"dir_exists", "current_exists", "legacy_lookup", "stat", "send_stat",
               "open", "delete_probe", "delete_unlink"}
Labels == SaveLabels \union FindLabels \union {"done"}

Failures == {"FileExistsError", "FileSizeError", "InsufficientStorageError", "OSError"}

FilesOK ==
    /\ dir \in [Names -> Names \union {NoFile}]
    /\ len \in [Names -> Nat]
    /\ mtime \in [Names -> 0..MaxClock]
    /\ dirMade \in BOOLEAN

RequestsOK ==
    /\ arg \in [Requests -> Calls]
    /\ pc \in [Requests -> Labels]
    /\ pend \in [Requests -> Failures \union {"none"}]
    /\ resp \in [Requests -> Codes \union {0}]
    /\ target \in [Requests -> Slots \union {NoFile}]
    /\ todo \in [Requests -> SUBSET Slots]
    /\ deleted \in [Requests -> BOOLEAN]
    /\ seen \in [Requests -> Names \union {NoFile}]
    /\ got \in [Requests -> Names \union {NoFile}]

TypeOK ==
    /\ FilesOK
    /\ RequestsOK
    /\ clock \in 0..MaxClock
    /\ dead \subseteq Requests
    /\ crashes \in 0..MaxCrashes
    /\ sweep \in [pc : {"sleep", "scan", "next", "stat", "unlink"},
                  now : 0..MaxClock,
                  todo : SUBSET Names,
                  cur : Names \union {NoFile}]

-------------------------------------------------------------------------------
\* Names, and what a request knows about its own.

Exists(n) == dir[n] # NoFile
Final(r)  == arg[r].file
Legacy(r) == HashedName[arg[r].file]

FirstLabel(op) == IF op = "save" THEN "ensure_dir" ELSE "dir_exists"

Started(r) == pc[r] # FirstLabel(arg[r].op)

\* Temporary files left by uploads of an earlier run are not modelled: they are
\* what ServerCrash leaves here.
Init ==
    /\ \E S \in SUBSET InitialSlots :
          /\ dir = [n \in Names |-> IF n \in S THEN n ELSE NoFile]
          /\ dirMade \in (IF S = {} THEN BOOLEAN ELSE {TRUE})
    /\ len = [n \in Names |-> 0]
    /\ mtime = [n \in Names |-> 0]
    /\ clock = 0
    /\ arg \in [Requests -> Calls]
    /\ pc = [r \in Requests |-> FirstLabel(arg[r].op)]
    /\ pend = [r \in Requests |-> "none"]
    /\ resp = [r \in Requests |-> 0]
    /\ target = [r \in Requests |-> NoFile]
    /\ todo = [r \in Requests |->
                 IF arg[r].op = "delete" THEN {Final(r), Legacy(r)} ELSE {}]
    /\ deleted = [r \in Requests |-> FALSE]
    /\ seen = [r \in Requests |-> NoFile]
    /\ got = [r \in Requests |-> NoFile]
    /\ dead = {}
    /\ crashes = 0
    /\ sweep = [pc |-> "sleep", now |-> 0, todo |-> {}, cur |-> NoFile]

Continue(r, label) ==
    /\ pc' = [pc EXCEPT ![r] = label]
    /\ UNCHANGED resp

Reply(r, code) ==
    /\ pc' = [pc EXCEPT ![r] = "done"]
    /\ resp' = [resp EXCEPT ![r] = code]

Unlink(n) == dir' = [dir EXCEPT ![n] = NoFile]

-------------------------------------------------------------------------------
(***************************************************************************)
(* save_file.  Every failure from the moment the temporary file is open    *)
(* runs through the same unwinding (_write_file_stream's except, the       *)
(* finally of _commit_temp_file, the except of save_file): look whether    *)
(* the temporary name is still there, unlink it, raise on.  After the      *)
(* finally of _commit_temp_file the except of save_file looks once more    *)
(* and finds nothing, since no one else creates that name; that second     *)
(* look is part of the step that raises.                                   *)
(***************************************************************************)

\* mkdir(parents=True, exist_ok=True).  Nothing removes a directory, so the
\* second mkdir, in _write_file_stream, changes nothing and is not a step.
EnsureDir(r) ==
    /\ pc[r] = "ensure_dir"
    /\ dirMade' = TRUE
    /\ Continue(r, IF arg[r].overwrite THEN "open_temp" ELSE "final_exists")
    /\ UNCHANGED <<dir, len, mtime, pend, found>>

RefuseIfExists(r, label, name, next) ==
    /\ pc[r] = label
    /\ IF Exists(name)
       THEN Reply(r, UploadStatus["FileExistsError"])
       ELSE Continue(r, next)
    /\ UNCHANGED <<files, pend, found>>

FinalExists(r)  == RefuseIfExists(r, "final_exists", Final(r), "legacy_exists")
LegacyExists(r) == RefuseIfExists(r, "legacy_exists", Legacy(r), "open_temp")

Raise(r, exception) ==
    /\ pend' = [pend EXCEPT ![r] = exception]
    /\ Continue(r, "temp_exists")

OpenTemp(r) ==
    /\ pc[r] = "open_temp"
    /\ dir' = [dir EXCEPT ![r] = r]
    /\ mtime' = [mtime EXCEPT ![r] = clock]
    /\ Continue(r, "write")
    /\ UNCHANGED <<len, dirMade, pend, found>>

OpenTempFails(r) ==
    /\ pc[r] = "open_temp"
    /\ Raise(r, "OSError")
    /\ UNCHANGED <<files, found>>

MoreToRead(r) == len[r] < arg[r].size
TooLargeLate(r) == len[r] > MaxSize          \* mutant: counts the chunk afterwards
TooLarge(r)   == len[r] + 1 > MaxSize

WriteChunk(r) ==
    /\ pc[r] = "write"
    /\ MoreToRead(r)
    /\ ~TooLarge(r)
    /\ len' = [len EXCEPT ![r] = @ + 1]
    /\ mtime' = [mtime EXCEPT ![r] = clock]
    /\ UNCHANGED <<dir, dirMade, local>>

RejectSize(r) ==
    /\ pc[r] = "write"
    /\ MoreToRead(r)
    /\ TooLarge(r)
    /\ Raise(r, "FileSizeError")
    /\ UNCHANGED <<files, found>>

\* _ensure_storage_capacity refuses the chunk (module DiskReserve models when),
\* or the disk does.
WriteFails(r) ==
    /\ pc[r] = "write"
    /\ MoreToRead(r)
    /\ ~TooLarge(r)
    /\ \E e \in {"InsufficientStorageError", "OSError"} : Raise(r, e)
    /\ UNCHANGED <<files, found>>

EndOfStream(r) ==
    /\ pc[r] = "write"
    /\ ~MoreToRead(r)
    /\ Continue(r, "commit")
    /\ UNCHANGED <<files, pend, found>>

CommitReplace(r) ==
    /\ pc[r] = "commit"
    /\ arg[r].overwrite
    /\ Exists(r)
    /\ dir' = [dir EXCEPT ![Final(r)] = dir[r], ![r] = NoFile]
    /\ Continue(r, "purge_exists")
    /\ UNCHANGED <<len, mtime, dirMade, pend, found>>

LinkTargetReplaced(r) == FALSE    \* mutant: os.replace for every upload
LinkTarget(r) == Exists(Final(r))

CommitLink(r) ==
    /\ pc[r] = "commit"
    /\ ~arg[r].overwrite
    /\ Exists(r)
    /\ ~LinkTarget(r)
    /\ dir' = [dir EXCEPT ![Final(r)] = dir[r]]
    /\ Continue(r, "temp_exists")
    /\ UNCHANGED <<len, mtime, dirMade, pend, found>>

\* Mutant: an exception that the service does not translate.
CommitFailsUnmapped(r) ==
    /\ pc[r] = "commit"
    /\ ~Exists(r)
    /\ Raise(r, "FileNotFoundError")
    /\ UNCHANGED <<files, found>>

\* os.replace and os.link fail if the cleaner took the temporary file, and may fail
\* for a reason of the disk's own.
CommitFails(r) ==
    /\ pc[r] = "commit"
    /\ \/ Raise(r, "OSError")
       \/ /\ ~arg[r].overwrite
          /\ Exists(r)
          /\ LinkTarget(r)
          /\ Raise(r, "FileExistsError")
    /\ UNCHANGED <<files, found>>

\* Mutant: the exception ends with the unwinding.
AfterTempSwallows(r) == Continue(r, "purge_exists")

AfterTemp(r) ==
    IF pend[r] = "none"
    THEN Continue(r, "purge_exists")
    ELSE Reply(r, UploadStatus[pend[r]])

\* Mutant: no unlink on the way out.
TempExistsKept(r) ==
    /\ pc[r] = "temp_exists"
    /\ AfterTemp(r)
    /\ UNCHANGED <<files, pend, found>>

TempExists(r) ==
    /\ pc[r] = "temp_exists"
    /\ IF Exists(r) THEN Continue(r, "temp_unlink") ELSE AfterTemp(r)
    /\ UNCHANGED <<files, pend, found>>

\* An unlink that finds nothing raises FileNotFoundError, an OSError, in place
\* of whatever was being raised.
TempUnlink(r) ==
    /\ pc[r] = "temp_unlink"
    /\ IF Exists(r)
       THEN AfterTemp(r)
       ELSE Reply(r, UploadStatus["OSError"])
    /\ Unlink(r)
    /\ UNCHANGED <<len, mtime, dirMade, pend, found>>

PurgeExists(r) ==
    /\ pc[r] = "purge_exists"
    /\ IF Exists(Legacy(r))
       THEN Continue(r, "purge_unlink")
       ELSE Reply(r, UploadStatus["none"])
    /\ UNCHANGED <<files, pend, found>>

PurgeUnlink(r) ==
    /\ pc[r] = "purge_unlink"
    /\ Reply(r, UploadStatus[IF Exists(Legacy(r)) THEN "none" ELSE "OSError"])
    /\ Unlink(Legacy(r))
    /\ UNCHANGED <<len, mtime, dirMade, pend, found>>

SaveStep(r) ==
    \/ EnsureDir(r) \/ FinalExists(r) \/ LegacyExists(r)
    \/ OpenTemp(r) \/ OpenTempFails(r)
    \/ WriteChunk(r) \/ RejectSize(r) \/ WriteFails(r) \/ EndOfStream(r)
    \/ CommitReplace(r) \/ CommitLink(r) \/ CommitFails(r)
    \/ TempExists(r) \/ TempUnlink(r)
    \/ PurgeExists(r) \/ PurgeUnlink(r)

-------------------------------------------------------------------------------
(***************************************************************************)
(* _resolve_file_path, then what the operation does with the path: read    *)
(* the whole file (an inline text response), stat and read it (metadata    *)
(* with its digest), or stat it and hand the path to FileResponse, which   *)
(* stats and opens it again.  Delete goes its own way.  Once open, a file  *)
(* is read from its inode, whatever happens to the name.                   *)
(***************************************************************************)

Missing(r) ==
    Reply(r, IF arg[r].op = "delete"
             THEN DeleteStatus["FileNotFoundError"]
             ELSE ReadStatus["FileNotFoundError"])

DirExists(r) ==
    /\ pc[r] = "dir_exists"
    /\ IF dirMade
       THEN Continue(r, IF arg[r].op = "delete" THEN "delete_probe" ELSE "current_exists")
       ELSE Missing(r)
    /\ UNCHANGED <<files, pend, found>>

Resolve(r, name) ==
    /\ target' = [target EXCEPT ![r] = name]
    /\ UNCHANGED <<todo, deleted, seen, got>>
    /\ Continue(r, IF arg[r].op = "read" THEN "open" ELSE "stat")

CurrentExists(r) ==
    /\ pc[r] = "current_exists"
    /\ \/ Exists(Final(r)) /\ Resolve(r, Final(r))
       \/ ~Exists(Final(r)) /\ Continue(r, "legacy_lookup") /\ UNCHANGED found
    /\ UNCHANGED <<files, pend>>

LegacyLookup(r) ==
    /\ pc[r] = "legacy_lookup"
    /\ \/ Exists(Legacy(r)) /\ Resolve(r, Legacy(r))
       \/ ~Exists(Legacy(r)) /\ Missing(r) /\ UNCHANGED found
    /\ UNCHANGED <<files, pend>>

Stat(r) ==
    /\ pc[r] = "stat"
    /\ LET inode == dir[target[r]]
       IN  \/ /\ inode # NoFile
              /\ seen' = [seen EXCEPT ![r] = inode]
              /\ UNCHANGED <<target, todo, deleted, got>>
              /\ Continue(r, IF arg[r].op = "meta" THEN "open" ELSE "send_stat")
           \/ /\ inode = NoFile
              /\ Missing(r)
              /\ UNCHANGED found
    /\ UNCHANGED <<files, pend>>

\* FileResponse, outside the repository: it takes Content-Length from a stat of
\* its own and raises RuntimeError when the file is gone.
SendStat(r) ==
    /\ pc[r] = "send_stat"
    /\ LET inode == dir[target[r]]
       IN  \/ /\ inode # NoFile
              /\ seen' = [seen EXCEPT ![r] = inode]
              /\ UNCHANGED <<target, todo, deleted, got>>
              /\ Continue(r, "open")
           \/ /\ inode = NoFile
              /\ Reply(r, ReadStatus["RuntimeError"])
              /\ UNCHANGED found
    /\ UNCHANGED <<files, pend>>

\* Mutant: looks for the name again, the v1.0.0 name first.
OpenLegacyFirst(r) ==
    /\ pc[r] = "open"
    /\ \E n \in {Final(r), Legacy(r)} :
          /\ Exists(n)
          /\ n = Legacy(r) \/ ~Exists(Legacy(r))
          /\ got' = [got EXCEPT ![r] = dir[n]]
          /\ UNCHANGED <<target, todo, deleted, seen>>
          /\ Reply(r, ReadStatus["none"])
    /\ UNCHANGED <<files, pend>>

Open(r) ==
    /\ pc[r] = "open"
    /\ LET inode == dir[target[r]]
       IN  \/ /\ inode # NoFile
              /\ got' = [got EXCEPT ![r] = inode]
              /\ UNCHANGED <<target, todo, deleted, seen>>
              /\ Reply(r, ReadStatus["none"])
           \/ /\ inode = NoFile
              /\ IF arg[r].op = "download" THEN Reply(r, Aborted) ELSE Missing(r)
              /\ UNCHANGED found
    /\ UNCHANGED <<files, pend>>

\* delete_file: the two candidates are a Python set, taken in either order.
DeleteProbe(r) ==
    /\ pc[r] = "delete_probe"
    /\ \E name \in todo[r] :
          /\ todo' = [todo EXCEPT ![r] = @ \ {name}]
          /\ target' = [target EXCEPT ![r] = name]
          /\ UNCHANGED <<deleted, seen, got>>
          /\ Continue(r, IF Exists(name) THEN "delete_unlink" ELSE "delete_probe")
    /\ UNCHANGED <<files, pend>>

\* Mutant: unlink(missing_ok=True).
DeleteUnlinkMissingOk(r) ==
    /\ pc[r] = "delete_unlink"
    /\ deleted' = [deleted EXCEPT ![r] = TRUE]
    /\ Continue(r, "delete_probe")
    /\ Unlink(target[r])
    /\ UNCHANGED <<len, mtime, dirMade, pend, target, todo, seen, got>>

DeleteUnlink(r) ==
    /\ pc[r] = "delete_unlink"
    /\ \/ /\ Exists(target[r])
          /\ deleted' = [deleted EXCEPT ![r] = TRUE]
          /\ UNCHANGED <<target, todo, seen, got>>
          /\ Continue(r, "delete_probe")
       \/ /\ ~Exists(target[r])
          /\ Missing(r)
          /\ UNCHANGED found
    /\ Unlink(target[r])
    /\ UNCHANGED <<len, mtime, dirMade, pend>>

\* Mutant: done after the first candidate.
DeleteEndEarly(r) ==
    /\ pc[r] = "delete_probe"
    /\ todo[r] # {Final(r), Legacy(r)}
    /\ IF deleted[r] THEN Reply(r, DeleteStatus["none"]) ELSE Missing(r)
    /\ UNCHANGED <<files, pend, found>>

DeleteEnd(r) ==
    /\ pc[r] = "delete_probe"
    /\ todo[r] = {}
    /\ IF deleted[r] THEN Reply(r, DeleteStatus["none"]) ELSE Missing(r)
    /\ UNCHANGED <<files, pend, found>>

FindStep(r) ==
    \/ DirExists(r) \/ CurrentExists(r) \/ LegacyLookup(r)
    \/ Stat(r) \/ SendStat(r) \/ Open(r)
    \/ DeleteProbe(r) \/ DeleteUnlink(r) \/ DeleteEnd(r)

RequestStep(r) ==
    /\ r \notin dead
    /\ SaveStep(r) \/ FindStep(r)
    /\ UNCHANGED <<clock, arg, dead, crashes, sweep>>

-------------------------------------------------------------------------------
(***************************************************************************)
(* cleanup_old_files, repeated forever by run_cleanup_loop.  A file that   *)
(* goes away between is_file, stat and unlink raises, and the exception    *)
(* ends the cycle: the worker logs it and sleeps until the next one.       *)
(***************************************************************************)

SweepBegin ==
    /\ sweep.pc = "sleep"
    /\ sweep' = [sweep EXCEPT !.pc = "scan", !.now = clock]
    /\ UNCHANGED dir

\* Mutant: hidden files, which temporary files are, are skipped.
ScannedVisible == {n \in Slots : Exists(n)}

\* rglob("*") visits temporary files too.
Scanned == {n \in Names : Exists(n)}

SweepScan ==
    /\ sweep.pc = "scan"
    /\ sweep' = [sweep EXCEPT !.pc = "next", !.todo = Scanned]
    /\ UNCHANGED dir

SweepNext ==
    /\ sweep.pc = "next"
    /\ \E n \in sweep.todo :
          sweep' = [sweep EXCEPT !.pc = IF Exists(n) THEN "stat" ELSE "next",
                                 !.todo = @ \ {n},
                                 !.cur = n]
    /\ UNCHANGED dir

Sleep == sweep' = [sweep EXCEPT !.pc = "sleep", !.todo = {}, !.cur = NoFile]

ExpiredEarly(inode) == sweep.now >= mtime[inode] + MaxAge      \* mutant: off by one

Expired(inode) == sweep.now > mtime[inode] + MaxAge

SweepStat ==
    /\ sweep.pc = "stat"
    /\ IF Exists(sweep.cur)
       THEN sweep' = [sweep EXCEPT !.pc = IF Expired(dir[sweep.cur]) THEN "unlink" ELSE "next"]
       ELSE Sleep
    /\ UNCHANGED dir

SweepUnlink ==
    /\ sweep.pc = "unlink"
    /\ IF Exists(sweep.cur) THEN sweep' = [sweep EXCEPT !.pc = "next"] ELSE Sleep
    /\ Unlink(sweep.cur)

SweepEnd ==
    /\ sweep.pc = "next"
    /\ sweep.todo = {}
    /\ Sleep
    /\ UNCHANGED dir

SweepStep ==
    /\ SweepBegin \/ SweepScan \/ SweepNext \/ SweepStat \/ SweepUnlink \/ SweepEnd
    /\ UNCHANGED <<len, mtime, dirMade, local, clock, arg, dead, crashes>>

-------------------------------------------------------------------------------

Tick ==
    /\ clock < MaxClock
    /\ clock' = clock + 1
    /\ UNCHANGED <<files, local, arg, dead, crashes, sweep>>

\* The process dies between two file system calls: what it had in flight is
\* never resumed and never answered, what it had done to the directory stays.
\* Cancelling a request at shutdown leaves the same traces.
ServerCrash ==
    /\ crashes < MaxCrashes
    /\ crashes' = crashes + 1
    /\ dead' = dead \union {r \in Requests : Started(r) /\ pc[r] # "done"}
    /\ UNCHANGED <<files, local, clock, arg, sweep>>

CleanerCrash ==
    /\ crashes < MaxCrashes
    /\ crashes' = crashes + 1
    /\ Sleep
    /\ UNCHANGED <<files, local, clock, arg, dead>>

Next ==
    \/ \E r \in Requests : RequestStep(r)
    \/ SweepStep
    \/ Tick
    \/ ServerCrash
    \/ CleanerCrash

\* The event loop runs every request that is ready, the worker's loop never
\* ends, and time passes.  Nothing makes a process crash.
Fairness ==
    /\ \A r \in Requests : WF_vars(RequestStep(r))
    /\ WF_vars(SweepStep)
    /\ WF_vars(Tick)

Spec     == Init /\ [][Next]_vars
FairSpec == Spec /\ Fairness

-------------------------------------------------------------------------------

\* A name clients can use never links to an upload that is incomplete, too
\* large, meant for another name or made by a call that is not an upload:
\* what _commit_temp_file puts in place is a whole validated file.
VisibleIsComplete ==
    \A s \in Slots, r \in Requests :
        dir[s] = r => /\ arg[r].op = "save"
                      /\ s = Final(r)
                      /\ len[r] = arg[r].size
                      /\ len[r] <= MaxSize

\* What a client was sent is a whole upload to a name of the file it asked for, within
\* the size limit, and one that is never answered as refused, whatever happens to it
\* after it was opened.
ServedIsStored ==
    \A r, u \in Requests :
        got[r] = u => /\ arg[u].op = "save"
                      /\ Final(u) \in {Final(r), Legacy(r)}
                      /\ len[u] = arg[u].size
                      /\ len[u] <= MaxSize
                      /\ resp[u] \notin {400, 409, 507}

\* An upload answered 400, 409 or 507 has left nothing behind, neither under
\* its name nor as a temporary file, and no answered upload of any kind has
\* left its temporary file: only a crash does.
RefusedLeavesNoTrace ==
    \A r \in Requests :
        /\ resp[r] \in {400, 409, 507} => \A n \in Names : dir[n] # r
        /\ pc[r] = "done" => dir[r] = NoFile

\* overwrite=false never costs anyone a file: no step of a create-only upload
\* takes the place of an inode a client can see, whatever other uploads,
\* deletes and the cleaner do between its checks and its commit, and the purge
\* of the v1.0.0 name finds nothing it could remove.
CreateOnlyNeverDestroys ==
    [][\A r \in Requests, s \in Slots :
          (arg[r].op = "save" /\ ~arg[r].overwrite /\ pc'[r] # pc[r])
              => dir[s] \in {NoFile, dir'[s]}]_vars

\* A delete that is answered 204 has removed what was there under both names of the
\* file, in whichever order it came to them and whatever uploads, the cleaner and
\* other deletes did in between: a file that was there before all requests is under
\* neither name any more, so no read can find the v1.0.0 file that was deleted.
DeletedIsGone ==
    \A r \in Requests :
        arg[r].op = "delete" /\ resp[r] = 204 => \A n \in {Final(r), Legacy(r)} : dir[n] # n

\* README.md: "A failed overwrite therefore does not destroy the previous valid
\* file."  An upload that was answered with an error is not what its name holds.
FailedUploadNotVisible ==
    \A r \in Requests :
        (arg[r].op = "save" /\ resp[r] \in {400, 409, 500, 507}) => dir[Final(r)] # r

\* local.py, cleanup_old_files: "Delete files older than MAX_FILE_AGE_HOURS".
\* The cleaner takes away no stored file that is younger than that at this moment.
SweepRemovesOnlyExpired ==
    [][\A s \in Slots : (sweep.pc = "unlink" /\ sweep' # sweep /\ dir'[s] # dir[s])
          => clock > mtime[dir[s]] + MaxAge]_vars

\* A response may have the size and the modification time of one version of the
\* file and the digest or the content of another, since the path is stat'ed
\* first and opened later; but only of one that came after: a whole upload to
\* this file, and the version that was stat'ed is gone from that name for good.
\* Its modification time may be the earlier one all the same: that of its last
\* chunk, not of its commit.
MixesOnlyWithNewer ==
    \A r \in Requests :
        (resp[r] = 200 /\ seen[r] \notin {NoFile, got[r]})
            => /\ dir[target[r]] # seen[r]
               /\ \E u \in Requests : /\ got[r] = u
                                     /\ arg[u].op = "save"
                                     /\ Final(u) = target[r]
                                     /\ len[u] = arg[u].size

\* What the cleaner still has to remove within the bound on the clock.
Outdated(n) == Exists(n) /\ mtime[dir[n]] + MaxAge < MaxClock

\* Retention is enforced: again and again nothing is left for the cleaner to remove,
\* neither the temporary files that a crash left behind nor the files that requests
\* keep racing with, though any cycle may be cut short by an exception.
RetentionIsEnforced == []<>(\A n \in Names : ~Outdated(n))
===============================================================================
