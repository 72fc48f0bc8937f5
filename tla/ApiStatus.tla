------------------------------ MODULE ApiStatus ------------------------------
(***************************************************************************)
(* How an outcome of a storage backend reaches the client: FileService     *)
(* translates the backend's exceptions and the routes turn them into HTTP  *)
(* status codes.  "none" stands for a call that returned normally.         *)
(*                                                                         *)
(* Only the way from exception to status is here; the bodies and headers   *)
(* of the responses are not modelled.                                      *)
(***************************************************************************)
EXTENDS Naturals

\* FileService.upload_file.  FileExistsError is tried before OSError, its
\* superclass; InsufficientStorageError and what boto3 raises (ClientError and
\* BotoCoreError) pass through.
UploadError ==
    [none                     |-> "none",
     FileExistsError          |-> "FileAlreadyExistsError",
     FileSizeError            |-> "FileSizeError",
     InsufficientStorageError |-> "InsufficientStorageError",
     OSError                  |-> "FileWriteError",
     ClientError              |-> "ClientError",
     BotoCoreError            |-> "BotoCoreError"]

\* POST /upload.  What no handler of the route catches is answered 500.
UploadCode ==
    [none                     |-> 201,
     FileAlreadyExistsError   |-> 409,
     FileSizeError            |-> 400,
     InsufficientStorageError |-> 507,
     FileWriteError           |-> 500,
     ClientError              |-> 500,
     BotoCoreError            |-> 500]

UploadStatus == [e \in DOMAIN UploadError |-> UploadCode[UploadError[e]]]

\* FileService.prepare_response, get_file_metadata and delete_file.  The local
\* backend's FolderNotFoundError, for a directory that is not there, passes
\* through and the routes answer it like FileNotFound; it is not told apart here.
LookupError ==
    [none              |-> "none",
     FileNotFoundError |-> "FileNotFound",
     RuntimeError      |-> "RuntimeError",
     ClientError       |-> "ClientError",
     BotoCoreError     |-> "BotoCoreError"]

\* GET and HEAD of one file, its metadata.  RuntimeError is what FileResponse
\* raises when the file it was built for is gone.
ReadCode ==
    [none |-> 200, FileNotFound |-> 404, RuntimeError |-> 500,
     ClientError |-> 500, BotoCoreError |-> 500]

ReadStatus == [e \in DOMAIN LookupError |-> ReadCode[LookupError[e]]]

\* DELETE of one file.
DeleteCode ==
    [none |-> 204, FileNotFound |-> 404, RuntimeError |-> 500,
     ClientError |-> 500, BotoCoreError |-> 500]

DeleteStatus == [e \in DOMAIN LookupError |-> DeleteCode[LookupError[e]]]

\* A response whose headers (status 200) were already sent when the server
\* failed to produce the body: the client sees a broken transfer.
Aborted == 299

Codes == {200, 201, 204, 400, 404, 409, 500, 507, Aborted}
===============================================================================
