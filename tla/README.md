# VSEM FMS: specification and verification

TLA+ models of VSEM FMS, a file storage service with an HTTP API over a local
directory or an S3 bucket, with the TLC configurations that check them and TLAPS
proofs about them. Paths below are relative to `src/`; `app/` stands for
`src/vsem_fms/app/`.

## 1. Inventory of the system

| Component | State it keeps | Operations | What is hard |
|---|---|---|---|
| Local backend, `app/storage/local.py` | one directory per folder/subfolder; names of files (current names, v1.0.0 hashed names, temporary names), inodes with size and mtime | `save_file`, `read_file`, `get_download`, `get_file_metadata`, `delete_file`, `cleanup_old_files`, listings and pages | every file system call is awaited, so requests interleave at each; two names for one logical file; a cleaner in another process; crashes |
| Disk reserve, `local.py` `_ensure_storage_capacity` | free space of the disk | check before each chunk | check and write are separated by an await |
| S3 backend, `app/storage/s3.py` | objects, their digest tags, open multipart uploads | the same as the local backend | each SDK call runs in a thread; multipart upload with abort; conditional writes; calls that fail on either side of their effect; calls that boto3 sends again |
| Storage contract, `app/storage/base.py` | none of its own | abstract methods of both backends | both backends have to keep one promise |
| Service and routes, `app/services/file_service.py`, `app/routes/` | none | turn backend results and exceptions into HTTP statuses | which exception is caught where |
| Cleanup worker, `commands/cleanup.py` | none between cycles | `run_cleanup_loop`: clean, log a failure, sleep, again | races with every request; a cycle is cut short by an exception |
| Listing and pagination, `list_*` of both backends, `app/core/pagination.py` | none; the cursor is the last name of the page | list, page, cursor codec | files that come and go between pages |
| Authentication and authorization, `app/core/auth.py`, `app/core/api_keys.py`, `app/config.py` | configured keys, fixed while the server runs | accept the settings, authenticate, scope, folder prefix | a chain of decisions over settings that were normalised much earlier; two keys with one secret or one id; non-ASCII input of `compare_digest` |
| Routing and schemas, `app/server/server.py`, `app/schemas/`, `app/middlewares/slash_trailing_middleware.py` | none | which endpoint a path reaches, redirects, validation of the input | two redirects in opposite directions; a file called `metadata` is shadowed by a route; names that no path can spell |
| Logging, ping, start-up | none | input and output | nothing to check |

Components interact in three ways. A route calls `FileService`, which calls one
backend (chosen by `STORAGE_BACKEND`); there is one backend object per request and
no shared memory between requests. All sharing is through the directory or the
bucket. The cleanup worker is a separate container (`docker-compose.yml`) that
shares only that storage.

What makes each component correct:

- backends: an upload becomes visible whole or not at all; `overwrite=false` never
  replaces a file; a refusal has no effect; every call is atomic for the clients;
- disk reserve: uploads leave `MIN_FREE_DISK_SPACE_MB` free;
- cleaner: it removes only what has expired, and removes it eventually, including
  what crashes leave behind;
- listings: each file that stays is on exactly one page;
- authorization: no request gets past a scope or a folder prefix it lacks, and none is
  refused that a key grants;
- routing and schemas: what can be uploaded can be read and deleted; every request is answered.

The hazards of this code, each at its line, are in `PROJECT.json` under `hazards`.

## 2. Modules

| Module | What it is |
|---|---|
| `ApiStatus` | exception of a backend -> exception of the service -> HTTP status |
| `FileStore` | abstract specification: a map from files to contents, one atomic action per outcome of a call |
| `LocalStorage` | the local backend, the cleanup worker, clock and crashes, one step per file system call |
| `LocalStorageHistory` | `LocalStorage` with a history variable, which requests ran while their file was not there; its refinement of `FileStore` and what its answers mean |
| `LocalSweepHistory` | `LocalStorage` with a history variable, which names nobody has touched since the cycle of the cleaner began; what a cycle must take away and leave |
| `LocalStorageProofs` | inductive invariant and theorems about `LocalStorage` |
| `LocalRefinementProofs` | that `LocalStorage` implements `FileStore`, that its answers are those of the abstract store and that its misses are true, proved |
| `LocalSweepProofs` | that a cycle of the cleaner is thorough and spares what is fresh, proved |
| `DiskReserve`, `DiskReserveProofs` | free space under concurrent uploads; its account and the bound on the overshoot, proved |
| `S3Storage` | the S3 backend, the cleanup worker, calls that fail or are sent again, clock and crashes, one step per call of the S3 API |
| `S3StorageHistory` | `S3Storage` with the outcome of each request as a history variable; its refinement of `FileStore` and what its answers mean |
| `S3StorageProofs` | inductive invariant and theorems about `S3Storage` |
| `S3RefinementProofs` | that `S3Storage` implements `FileStore` and that its answers are those of the abstract store, proved |
| `Paging` | a client that walks a folder with cursor pages, of names or of metadata, on either backend, while files come and go |
| `PagingProofs` | order and completeness of a walk, proved |
| `Access`, `AccessProofs` | a request on its way to the backend: redirects, routes, key, scope, validation, folder prefix; what the keys decide and that what is stored can be reached, proved |
| `MC...` | definitions for the configurations: file names, sets of calls, settings, symmetry |

### How the state corresponds to the code

**`LocalStorage`.** `dir` is one hashed directory: a map from names to inodes, so
that `os.replace`, `os.link` and `unlink` do what they do on disk, and an open file
is read from its inode whatever happens to its name. Names are the logical names, the
v1.0.0 hashed names and one temporary name per upload (the UUID). The upload `r`
writes inode `r`, so "whose content is this" is the inode's name. `len` counts chunks
of the 1 MiB read loop, `mtime` is in ticks of `clock`. `pc[r]` names the next file
system call of request `r`; the other request variables are the local variables of
its coroutine. The label names and the code:

| Labels | Code |
|---|---|
| `ensure_dir`, `final_exists`, `legacy_exists` | `save_file` 156-159 |
| `open_temp`, `write` | `_write_file_stream` |
| `commit` | `os.replace` or `os.link` in `_commit_temp_file` |
| `temp_exists`, `temp_unlink` | the `except` and `finally` blocks that remove the temporary file |
| `purge_exists`, `purge_unlink` | `save_file` 170-171 |
| `dir_exists`, `current_exists`, `legacy_lookup` | `_resolve_file_path` |
| `stat`, `send_stat`, `open` | `_build_metadata`, `get_download`, `read_file`, Starlette's `FileResponse` |
| `delete_probe`, `delete_unlink` | `delete_file`; the candidates are a Python set, so either order |

Two steps of the code are merged into a neighbour because nothing can tell them
apart: the second `mkdir`, and the second look at a temporary name that the same
request has just seen gone. Reading the client's data is no step of its own: it
touches nothing that is shared. `FileResponse` is external and modelled from what
its use in `file_service.py` relies on.

`sweep` is the worker: begin a cycle (`now`), list all names (temporary ones too),
and for each `is_file`, `stat`, `unlink`. An exception puts it back to sleep.

**`DiskReserve`.** Only the check, the write, the end and the removal of each upload,
with `free` as `disk_usage` reports it, in chunks.

**`S3Storage`.** `obj`, `tag` and `mtime` per key, `open` the multipart uploads that
are neither complete nor aborted. A call to the store is one step that sees all
earlier ones, as S3 promises since it is strongly consistent. A call may fail in the
ways of `FaultKinds`: `refused` (`ClientError`, no effect), `lost` (`BotoCoreError`, no
effect), `late` (`BotoCoreError`, but it took effect). The handlers treat the two
exceptions differently (`except ClientError`), and the model follows them. `again` is a
call that took effect and whose answer was lost, and that boto3 sends once more: the
request stays at its label, and whatever other requests do may come before the second
try. A conditional put may then be refused because of its own object; a repeated
`create_multipart_upload` leaves an upload whose id nobody was told (`orphans`); a repeated
`complete_multipart_upload` may find the upload unknown. `resent[r]` counts such calls. Sizes are
in parts; `Threshold` and `MaxSize` may be in either order. `LastModified` is the time
of the put or of the completion.

**`Paging`.** A file is its rank in the order of the names. `present` is the folder,
which other clients and the cleaner change at any moment (`Change`). The local page is
one `iterdir` (which reads the whole directory at once), an `is_file` for each entry and
`_page_file_paths`; the S3 page is as many `list_objects_v2` calls as it takes to have one
more than the limit (`position` is the continuation token), and, when nothing follows the
cursor, `_folder_has_objects`. For metadata, `Describe` looks at each file of the page. Its
`stat` and its `open` (or `head_object` and the digest) are one step: a file that goes
between the two has the same outcome as one that goes before both. The client is part of
the module: it comes back with `next_cursor` while there is one. `always` and `ever` are
history: what was there all the time, and at any time. Directories, which nothing
removes, exist.

**`Access`.** Requests share only the settings, which are fixed while the server runs, and
the stored files, so one request is followed at a time. A path is the sequence of its decoded
segments; those with a backslash or a NUL are `Unusable`, and a name without segments is a form
without a file. `settings` is what the operator wrote in `API_KEY` and `API_KEYS`; `Start` takes
only what `Settings` accepts, and `Parts` is what `validate_folder_prefix` makes of a prefix.
The labels and the code:

| Labels | Code |
|---|---|
| `route` | `trailing_slash_handler_middleware`, then the routers in the order in which `Server` includes them, and Starlette's `redirect_slashes` |
| `body` | the form of an upload, which FastAPI reads before it resolves dependencies |
| `authenticate`, `scope` | `get_api_principal`, `require_scope` |
| `validate` | `UploadRequest.as_form`, the bounds of `limit` |
| `folder` | `authorize_folder_access`, `_is_path_allowed` |
| `backend` | the endpoint, as far as its answer depends on the request: the checks of the name and of the cursor, whether the file is there |

The order of FastAPI's own steps is external and modelled from how the routes declare their
parameters. `OnlyGranted` and `GrantIsHonoured` compare these decisions with `Grants`, which
says what the project's README promises of a key; of the helpers with which the code
normalises prefixes it uses only `Trim`, which strips slashes.

**Statuses.** `resp[r]` is the HTTP status through `ApiStatus`. 299 stands for a
response that broke off after a status 200 was sent.

## 3. Runs

All instances have two requests and one file (with its v1.0.0 name for the local
backend) unless said otherwise. That is enough for the interesting races: every
hazard of the list is between two requests, or a request and the cleaner, on one
logical file; files of different names share nothing but the cleaner's cycle. Bounds:
`MaxClock = 1` and `MaxAge = 0`, so that one tick is longer than
`MAX_FILE_AGE_HOURS` (the configuration asks for at least an hour; the length of a tick
is free) and a file is either fresh or expired; `MaxCrashes = 1`; sizes on both sides of
the size limit (and of the multipart threshold). `s3_safety` has `MaxFaults = 2`, so that a
failure and the failure of its own clean-up are both there, or a repeated call and another
one between the two tries. `s3_retention` has `MaxFaults = 1`. Both retention runs have `MaxAge = 1`
and `MaxClock = 2`, so that a file can be fresh, old but not expired, and expired. Where two
requests are too few to be sure of a property, the theorems of section 4 cover any number.

| Run | Checks | Result |
|---|---|---|
| `local_safety` | `TypeOK`, `VisibleIsComplete`, `ServedIsStored`, `RefusedLeavesNoTrace`, `MixesOnlyWithNewer`, `CreateOnlyNeverDestroys`, `DeletedIsGone`, every kind of call (an upload over the size limit only with `overwrite`), any mix of current and v1.0.0 file at the start | holds, 3.5 million states |
| `local_refines` | `NoFalseMiss`, `AnswersAreTrue`, `ImplementsFileStore`, the same calls, no v1.0.0 file | holds, 1.6 million states |
| `local_retention` | `CycleIsThorough`, `FreshSurvives`, and `RetentionIsEnforced` under `BFairSpec`; two uploads that overwrite | holds, 456 thousand states |
| `local_failed_upload` | `FailedUploadNotVisible` | violated: the cleaner or another overwrite takes the v1.0.0 name between an upload's look and its unlink; the upload is answered 500 and its content stays |
| `local_sweep_race` | `SweepRemovesOnlyExpired` | violated: an upload that replaces an expired file between the cleaner's `stat` and its `unlink` is lost |
| `local_false_miss` | `NoFalseMiss` | violated: 404 for a file that was always there under one of its names |
| `disk_bound` | `TypeOK`, `OvershootIsBounded`, three uploads | holds |
| `access` | `TypeOK`, `OnlyGranted`, `GrantIsHonoured`, `UploadIsReachable`, and `AlwaysAnswered` under fairness; every prefix of up to three parts out of `a`, `*` and nothing, two keys with every coincidence of ids and secrets, folders in and outside ASCII, one file stored at a time | holds, 200 thousand states |
| `s3_safety` | `TypeOK`, `VisibleIsComplete`, `ServedIsStored`, `AnswersAreTrue`, `NoMultipartLeft`, `OnlyLateTagsAreWrong`, `CreateOnlyNeverDestroys`, `ImplementsFileStore`, every kind of call, two faults of any kind | holds, 1.7 million states |
| `s3_retention` | `FreshSurvives`, `OnlyFailuresSkip`, and `RetentionIsEnforced` under `FairSpec`; two keys, both of which may hold objects, so that a listing has one page or two and a deletion one batch or two | holds, 306 thousand states |
| `s3_tag_race` | `TagDescribesContent` | violated: two multipart uploads, tags in the other order |
| `paging` | `TypeOK`, `NothingTwice`, `WalkIsComplete`, `OnlyChangesFail`, and `WalkEnds` under `FairSpec`, on both backends; four names, pages of two, three changes of the folder at any time; a response of S3 has at most two keys, so that a page needs two responses | holds |

The paging run starts from every set of files. Four names are two full pages or one and
a half; three changes suffice to delete the file a cursor names and to add others on
both sides of it. `OnlyChangesFail` says when a walk fails: 404 in the middle, once the rest of
the folder has been deleted, and 500 when a file goes between the listing and its
metadata, which no route translates. In the two backends an empty folder is answered
differently: an empty page (local) and 404 (S3). Uploads that are named `.upload-...` are
hidden in local listings and shown in S3 ones.

The uploads of `local_retention` overwrite and have no content: the temporary name a crash leaves and
the cleaner's way with it are the same for the other kinds, and the two properties without liveness
are proved for all.

The storage runs without liveness properties use the symmetry of the requests.

What the refinement says. `FileStore` decides each call at one moment: an upload at
its commit (`os.replace`, `os.link`, `put_object`, `complete_multipart_upload`), a
refusal at the look that finds the file, a read at the open that fixes the inode or
the `get_object`, a miss at the look that finds nothing. The two backends differ in
three constants: on S3 any call may fail for a reason of the store
(`FallibleOps`), a delete that loses a race still answers 204
(`DeleteIsIdempotent`), where the local one answers 404, and an upload that is sent again may
take effect twice (`UploadsRepeat`), each time under the rule of its first time. `Evict`
takes a set of files, since `delete_objects` takes many keys in one call. With v1.0.0 names the local
backend is not atomic (`local_false_miss` shows why), so `local_refines` starts
without them. S3 metadata that is found is no outcome of the abstract store: its digest
comes from the tag, which may be wrong (`s3_tag_race`); `OnlyLateTagsAreWrong` says how
far that goes. Its misses and failures are outcomes like any other.

`AnswersAreTrue` ties the answers to these moments. The refinement alone would hold of a
backend that answers at random: `FileStore` has no answers. 201, 204, 404, 400, 507 and 409 are
sent only for the outcome they name, and 200 with the content that was the file's at that
moment. Of a 500 nothing can be said: a local upload that cannot remove the v1.0.0 name has
been stored, and on S3 any call may have taken effect. On S3 409 may be the answer to a
create-only upload that was stored and sent again.

`ServedIsStored` looks at two answers, of an upload and of a read, however far apart: what
was served is never refused later, and it was whole when it was served, although the read may
end long before the upload is answered.

`DeletedIsGone` says what a delete that succeeded has done although it comes to its two names in
either order, each by a look and an unlink: no file that was there in the beginning is left under
either name, so that no v1.0.0 file turns up again behind the one that was deleted. A delete that
loses the race for its second name answers 404 after it has removed the first; no document says
what it should answer.

`NoFalseMiss` is checked twice. With a v1.0.0 file it is violated (`local_false_miss`); without
one it holds (`local_refines`).

`CycleIsThorough` and `FreshSurvives` of the local backend bound the race of `local_sweep_race`
from both sides. A cycle that ends without an exception has removed all that had expired when it
began and was left alone since; of what it removes, only a file that was put in place of an
expired one after the cycle began can be fresh. `OnlyFailuresSkip` is the same thoroughness for
S3, stated of a step: only a failed call or a crash takes an expired object off the list.

`NoMultipartLeft` has three exceptions. An abort that fails is logged and the upload stays
open (`logged`). When the answer to `create_multipart_upload` is lost, the exception leaves
`_multipart_upload` before its `try`, or boto3 creates a second one: the code cannot know the
id (`orphans`). And a create-only upload that boto3 sends again may be answered 409 for its own
object. Only a lifecycle rule of the bucket would remove what the first two leave.

`MixesOnlyWithNewer` is as much as the code guarantees of a metadata response: its size
and its digest may be of two versions of the file, because the path is looked at twice, and
then the one that was looked at first is gone for good. It does not say that the modification
time of the second is the later one: an upload keeps the time of its last chunk, and one that
was written earlier may be committed later. That takes a reader and two uploads, more than
the two requests of `local_safety`; the property is proved for any number.

The race of `local_sweep_race` is on S3 as well, between the listing and `delete_objects`,
in a weaker form that `FreshSurvives` describes: what was there and not expired when the cycle
began survives it; only what was stored since may go, although the deletion may be sent twice.

The project's README says that uploads preserve at least `MIN_FREE_DISK_SPACE_MB`. One upload
at a time does; concurrent ones do not: two that have both passed the check write one after the other,
the second into the reserve. `OvershootIsBounded` says by how much they may miss it.

Three things in `Access` are not as a reader of the documentation may expect, and the
properties say so where they except them. With a key that has a `folder_prefix`, a folder
outside ASCII (or a prefix outside ASCII) is answered 500, also where the key grants it:
`secrets.compare_digest` takes only ASCII strings. A file may be called `metadata`, and then
GET of its path is the listing of its folder, although `CHANGELOG.md` (line 76) says that uploaded files always
remain addressable; HEAD, DELETE and `.../metadata/metadata` still
reach it. A configured key may have the id `legacy-admin`, under which `API_KEY` is logged.

Each property of a passing run has a mutant, an operator next to the definition it
replaces and marked so in its comment, with which TLC finds the property violated.
The mutants are variants of the code and no part of `Next`.

### Fairness

`FairSpec` (and `BFairSpec`, with the history variable) is weak fairness of each request, of the worker and of the clock. The event
loop runs every coroutine that is ready and each step is a call that returns; the
worker's loop never ends and catches every exception of a cycle, and a crashed
worker is started again (`restart` in `docker-compose.yml`). Crashes and faults are
bounded and not fair: nothing makes them happen. Retention
says that what is expired by the end of the bounded clock goes: on S3 as
`Outdated(f) ~> ~Outdated(f)` for each key, and for the local backend, since only finitely many
requests disturb the cleaner there, as `[]<>` of there being nothing outdated at all.

In `Paging` only the server and its client are fair, together: each of their steps ends and
the client goes on while there is a cursor. `WalkEnds` holds because every page with
more moves the cursor, and names are finitely many.

In `Access` only `ServerStep` is fair: the event loop runs a request until it is answered. No
client has to send a request and nobody has to start or stop the server. `AlwaysAnswered`
follows because the middleware only removes slashes and the redirect that adds one only
applies where no route exists without it; with a route registered as `/files/` the two would
send a client back and forth, which is the mutant of that property.

Deadlock is checked everywhere but in `DiskReserve` and `Paging`, which stop when all
uploads, or the walk, have ended; in the others the cleaner, or the server, never stops.

## 4. Proofs

`LocalStorageProofs` proves for all values of the constants (any number of requests
and files, any sizes, any bounds):

- `TypeCorrectness`: `Spec => []TypeOK`;
- `CompleteFiles`: `Spec => []VisibleIsComplete`;
- `CleanRefusals`: `Spec => []RefusedLeavesNoTrace`;
- `CreateOnlyIsSafe`: `Spec => CreateOnlyNeverDestroys`, where no v1.0.0 name is
  itself the name of a logical file (`NoAliasing`);
- `MixesAreOrdered`: `Spec => []MixesOnlyWithNewer`;
- `ServedUploadsAreStored`: `Spec => []ServedIsStored`;
- `DeletesAreThorough`: `Spec => []DeletedIsGone`.

All rest on `Invariance`, the inductive invariant. None of the properties is
inductive: that a file is complete when its name appears depends on who may hold
which name at which label. The invariant adds

- `Control` and `SweepControl`: a request is at a label of its own operation, has an
  answer exactly when it is done, and knows a name wherever it is about to use one;
- `TempNames`: a temporary name holds its own upload's inode or nothing, and only
  while that upload is between its open and its last unlink;
- `Written`: no upload has written more than the limit or than it was sent, all of it
  when it commits, and an exception is pending only on the way out;
- `Visible`: an upload's inode is under a slot only if it is that upload's slot, the
  upload is past its commit, whole, and neither unwinding nor refused.

The preservation proof has one step per action of a request, then the worker, the
clock and the crashes, which only remove names or touch nothing of a request.
`CreateOnlyIsSafe` needs one more fact, that a create-only upload which has passed its
check of the v1.0.0 name never finds one to purge: no step creates such a name. This is
where `NoAliasing` is needed. The code does not enforce it: a client may upload a file
whose name is the hash of another's. In the instances that TLC checks it holds.

`MixesAreOrdered` follows the inode that was stat'ed: it is the original of the name or an
upload past its commit (`Stated`), so no commit can bring it back (`SlotChanges`,
`StaysSettled`), and what is found in its place later is an upload (`Originals`).

`ServedUploadsAreStored` needs that a client only holds an inode that was once under its file's
name (`Sent`), and that an upload which has been there stays past its commit for good, whoever
replaces or removes it afterwards (`IsPublished`, `StaysPublished`).

`DeletesAreThorough` needs that a name a delete has been to holds its first file only while the
delete is about to unlink it (`Deleted`), and again that no step puts such a file back
(`SlotChanges`).

`LocalRefinementProofs` proves `HSpec => ImplementsFileStore`, where no v1.0.0 file exists at
the start (`NoLegacyFiles`) and under `NoAliasing`, so that none appears. The mapping is a
function of the state. Each step changes the outcome of the request that moves only
(`OneDecides`); a step that changes neither this nor a file is a stutter (`Silent`), and every
other is shown to be one abstract action: the commits `Upload`, the refusals `Conflict` or
`Fail`, the looks that find nothing `Miss`, the open `Read`, the unlink `Delete`, the cleaner
`Evict`. The invariant this takes (`EInv`) is that a directory that was never made is empty,
that a read looks at the name of its file and has nothing yet, and that a delete has removed
nothing before it comes to that name. Without `NoLegacyFiles` the theorem is false, as
`local_false_miss` shows.

Two more theorems of that module have the same hypotheses. `AnswersDescribeOutcomes`
(`AnswersAreTrue`) adds to the invariant what each status says of the exception that was pending,
of the inode that was read and of the delete (`Answer`). `MissesAreTrue` (`NoFalseMiss`) adds that
a request which has found nothing ran at a moment when its file was not there: the step that
finds nothing under the file's own name is that moment.

`LocalSweepProofs` proves `CyclesAreThorough` (`CycleIsThorough`) and `FreshFilesSurvive`
(`FreshSurvives`) for any requests, files and bounds. Its invariant says that every name which
has stayed as it was since the cycle began, and whose file had expired then, is still on the
list or under the cleaner's hand (`Covered`); and that the name at hand, if it has stayed, was
judged by the file it still links to (`Judged`).

`S3StorageProofs` proves `TypeCorrectness`, `CompleteObjects` (`VisibleIsComplete`),
`CleanRefusals` (`NoMultipartLeft`), `LateTags` (`OnlyLateTagsAreWrong`), `CreateOnlyIsSafe`
(`CreateOnlyNeverDestroys`), `FreshFilesSurvive` (`FreshSurvives`), `CyclesAreThorough`
(`OnlyFailuresSkip`) and `ServedUploadsAreStored` (`ServedIsStored`) for any sets of requests,
keys, calls and kinds of faults, any threshold, limit and number of faults. The invariant has
four parts: `Control` (which label belongs to which call and size, and why a request unwinds),
`Stored` (at which labels an upload can be visible, and that before its end only a repeated
call makes it so), `Multipart` (who is responsible for an open upload) and `Marked` (what the
cleaner has listed had expired, or has been replaced).

`S3RefinementProofs` proves `HSpec => ImplementsFileStore` for the same constants. The
invariant adds `Reading` (a read has nothing before it ends) and `Deciding` (an upload that
goes on is undecided, or stored by a call that is sent again). Every store of an object is an
`Upload` if the request is undecided and a `Repeat` if it is not. `AnswersDescribeOutcomes`
(`AnswersAreTrue`) adds `Due`: at which labels a request is still undecided, that an upload which
is stored while it goes on is there because its call was sent again, and which outcome goes with
the exception an abort unwinds with.

`PagingProofs` proves `TypeCorrectness`, `InOrder` (`NothingTwice`), `Complete`
(`WalkIsComplete`) and `NoSpuriousError` (`OnlyChangesFail`) for any folder, page size, size of
a response and number of changes. The invariant relates the pages that were served to the
cursor: all names served are at or below it, and every name at or below it that was always
there has been served; while a page is read, the same of the names collected so far.

`AccessProofs` proves `TypeCorrectness`, `NothingIsGrantedInError` (`OnlyGranted`) and
`NothingIsRefusedInError` (`GrantIsHonoured`) for any settings, requests and names. The
invariant says at each label what has been decided: the principal is that of an accepted,
enabled key with the secret of the request, its scopes suffice, the input is valid. The rest is
about sequences: that comparing the parts of a normalised prefix one by one is the same as the
README's reading of the prefix as it was written. `StoredIsReachable` (`UploadIsReachable`) adds
that what is stored has a folder, a subfolder and a name that the schemas accept (`Storable`).
`Resolve` is a fold over the path; for a path of such segments each of its steps appends one, and
the least index at which that were false cannot exist.

`DiskReserveProofs` proves `TypeCorrectness`: `free` stays between nothing and the size of the
disk. That is a sum over the uploads. Instead of adding up, the proof counts the set of chunks
that the uploads hold, pairs of an upload and a number (`Chunks`): a step adds or removes pairs,
and the library's theorems about cardinality say how many. It also proves `BoundedOvershoot`: any number of uploads takes at most one
chunk each, but one, of the reserve. The invariant counts the uploads between check and
write: `free >= Reserve + |Writing| - (|Uploads| - 1)`.

The assumptions are the named `ASSUME`s of the modules. Every one is evaluated by the
TLC runs, except `NoAliasing` and `NoLegacyFiles`, which are hypotheses of the theorems named
above: the first holds in every instance, the second in that of `local_refines`.

Model-checked only:

- liveness (`RetentionIsEnforced` of both backends, `WalkEnds`, `AlwaysAnswered`), which with
  `ENABLED` is out of the prover's reach. These are the only properties of a passing run that no
  theorem states.

## 5. Not modelled

- The codec of the cursor, `encode_cursor` and `decode_cursor`: a version prefix and base64.
  The model has cursors that decode and one that does not.
- `hash_api_key.py`, which prints a hash, and the settings that only configure a backend.
- In `Access`: names with `?`, `#` or `%`, which a redirect may change; blanks around a prefix
  or an id, which the settings strip; keys outside ASCII; the documentation pages and paths
  outside `ROOT_API`.
- Local file system calls other than open, write, `os.replace` and `os.link` that fail for a reason
  of the disk's own: looks, stats, opens for reading and unlinks fail only where the name is gone.
- On S3 `get_object` and the reading of its body are one step: the body is that of the object that
  was found. That the body breaks off is modelled for a download (299) and, with the answer 500,
  for the other reads.
- Calls that fail while S3 is listed for a client; objects below a subfolder that is nested in
  another's prefix, which the listing skips.
- `fsync`: the code never calls it. A crash here is a crash of the process, not of
  the machine.
- Text decoding, content types, headers and bodies of responses, logging.
- Deletions of buckets, lifecycle rules, versioned buckets; on S3 a call is sent again at once or
  after other requests, but its first try never arrives after its second.
- Cancellation of a request in flight, other than as a crash.
- Other users of the disk in `DiskReserve`.

## 6. What could be added

1. A contract for listings in `FileStore`, with a page as one atomic action; `Paging` would
   implement it only for names, since metadata looks at each file again.
2. The refinement of `FileStore` by the local backend with v1.0.0 files, with an abstract store
   in which a read may miss while an overwrite of the same file is in progress.
3. Other users of the disk in `DiskReserve`.
