-------------------------------- MODULE Access --------------------------------
(***************************************************************************)
(* What happens to an HTTP request before it reaches a storage backend:    *)
(* the redirect of trailing slashes, the routes in the order in which they *)
(* are registered, the API key, its scopes and its folder prefix, and the  *)
(* validation of the input, under any settings the server starts with.     *)
(*                                                                         *)
(* Requests share nothing but the settings, which are fixed while the      *)
(* server runs, and the stored files, so one request is followed at a      *)
(* time.  A path is the sequence of its segments below ROOT_API, decoded   *)
(* and split at the slashes: "" is the segment between two slashes or      *)
(* after the last.  A folder or file name in a form is split in the same   *)
(* way, so a name without a slash has one segment.                         *)
(*                                                                         *)
(* FastAPI and Starlette are external: the order of their steps is         *)
(* modelled from how the routes declare their parameters.                  *)
(***************************************************************************)
EXTENDS Naturals, SequencesExt

CONSTANTS
    Candidates,     \* the settings an operator may try to start the server with
    Inputs,         \* the requests clients send
    NonAscii,       \* the segments with characters outside ASCII
    Unusable,       \* the segments with a backslash or a NUL
    MaxFiles,       \* bound on the files stored
    None

APIScope == {"files:read", "files:write", "files:delete", "files:list", "admin"}

Key == [id : STRING, secret : STRING, enabled : BOOLEAN,
        scopes : SUBSET APIScope \ {{}}, prefix : Seq(STRING) \union {None}]

\* A name without segments is a form without a file.
Form == [folder : Seq(STRING), subfolder : Seq(STRING), name : Seq(STRING),
         overwrite : BOOLEAN]

Request == [method : STRING, path : Seq(STRING), key : STRING \union {None},
            form : Form \union {None},
            query : {"none", "page", "bad limit", "bad cursor"}]

Principal == [id : STRING, scopes : SUBSET APIScope, prefix : Seq(STRING)]

ASSUME AccessAssumption ==
    /\ Candidates \subseteq [legacy : STRING \union {None}, keys : Seq(Key)]
    /\ Inputs \subseteq Request
    /\ None \notin STRING \union Candidates \union Form \union Principal
    /\ None \notin Seq(STRING)
    /\ MaxFiles \in Nat
    /\ {"", "legacy-admin"} \subseteq STRING      \* which the provers do not know

VARIABLES
    settings,       \* API_KEY and API_KEYS as the operator wrote them
    files,          \* the stored files, as <<folder, subfolder, filename>>
    pc,             \* what the server does next
    req,            \* the request in hand
    op,             \* the endpoint that serves it
    principal,      \* the authenticated client, which is also what is logged
    status          \* the status of the answer, 0 before

request == <<req, op, principal>>
vars    == <<settings, files, pc, request, status>>

Labels == {"down", "idle", "route", "body", "authenticate", "scope", "validate",
           "folder", "backend", "answered"}

-------------------------------------------------------------------------------
\* The settings.

\* str.strip("/") and str.rstrip("/").
Used(segment) == segment # ""

TrimEnd(path) == SubSeq(path, 1, SelectLastInSeq(path, Used))

Trim(path) ==
    IF ToSet(path) \subseteq {""}
    THEN <<>>
    ELSE SubSeq(path, SelectInSeq(path, Used), SelectLastInSeq(path, Used))

\* What validate_folder_prefix leaves of a folder_prefix; <<>> is what it turns
\* into None, the unrestricted key.
Parts(raw) ==
    IF Trim(raw) # <<>> /\ Last(Trim(raw)) = "*" THEN Front(Trim(raw)) ELSE Trim(raw)

ValidPrefix(raw) ==
    raw # None => /\ Len(Parts(raw)) <= 2
                  /\ ToSet(Parts(raw)) \intersect ({"", ".", ".."} \union Unusable) = {}

StoredPrefix(raw) == IF raw = None THEN <<>> ELSE Parts(raw)

Values(field, keys) == [i \in DOMAIN keys |-> keys[i][field]]

\* Mutant: secrets need not be unique.
AcceptedWithTwins(s) ==
    /\ s.legacy # None \/ s.keys # <<>>
    /\ IsInjective(Values("id", s.keys))
    /\ \A i \in DOMAIN s.keys : ValidPrefix(s.keys[i].prefix)

\* Settings: the server does not start with any other.  Of a secret only the
\* hash is configured; different secrets have different hashes.
Accepted(s) ==
    /\ s.legacy # None \/ s.keys # <<>>
    /\ IsInjective(Values("id", s.keys))
    /\ IsInjective(Values("secret", s.keys))
    /\ \A i \in DOMAIN s.keys : ValidPrefix(s.keys[i].prefix)

-------------------------------------------------------------------------------
\* The routes, in the order in which Server registers them.

Param == "{}"

Route(operation, method, path) == [op |-> operation, method |-> method, path |-> path]

File == <<"files", Param, Param, Param>>

RoutesWithSlash ==                                  \* mutant: @router.post("/")
    << Route("upload_file", "POST", <<"files", "">>), Route("ping", "GET", <<"ping">>) >>

Routes ==
    << Route("upload_file",    "POST",   <<"files">>),
       Route("list_metadata",  "GET",    <<"files", Param, Param, "metadata">>),
       Route("get_metadata",   "GET",    Append(File, "metadata")),
       Route("head_file",      "HEAD",   File),
       Route("get_files_list", "GET",    <<"files", Param, Param>>),
       Route("get_file",       "GET",    File),
       Route("delete_file",    "DELETE", File),
       Route("ping",           "GET",    <<"ping">>) >>

Scope ==
    [upload_file |-> "files:write", list_metadata |-> "files:list",
     get_files_list |-> "files:list", get_metadata |-> "files:read",
     head_file |-> "files:read", get_file |-> "files:read",
     delete_file |-> "files:delete"]

Listings == {"list_metadata", "get_files_list"}
Endpoints == DOMAIN Scope \union {"ping", "none"}

Matches(route, path) ==
    /\ Len(route.path) = Len(path)
    /\ \A i \in DOMAIN path :
          path[i] = route.path[i] \/ (route.path[i] = Param /\ path[i] # "")

\* The endpoint of the first route for the path and the method.
Served(method, path) ==
    LET takers == {i \in DOMAIN Routes : Routes[i].method = method /\ Matches(Routes[i], path)}
    IN  IF takers = {} THEN "none" ELSE Routes[Min(takers)].op

Known(path) == \E i \in DOMAIN Routes : Matches(Routes[i], path)

-------------------------------------------------------------------------------
\* What the endpoint is given.

\* Where the request wants to work: folder and subfolder.
FormPlace(form) == form.folder \o form.subfolder

Place == IF op = "upload_file" THEN FormPlace(req.form) ELSE SubSeq(req.path, 2, 3)

Name == IF op = "upload_file" THEN req.form.name ELSE SubSeq(req.path, 4, 4)

TypeOK ==
    /\ settings \in Candidates \union {None}
    /\ files \subseteq Seq(STRING)
    /\ pc \in Labels
    /\ req \in Request \union {None}
    /\ op \in Endpoints
    /\ principal \in Principal \union {None}
    /\ status \in {0, 200, 201, 204, 400, 401, 403, 404, 405, 409, 422, 500}
    /\ pc = "down" <=> settings = None
    /\ pc \in {"scope", "validate", "folder", "backend"} => principal # None
    /\ pc = "backend" => op \in DOMAIN Scope /\ Len(Place) = 2

Init ==
    /\ settings = None
    /\ files = {}
    /\ pc = "down"
    /\ req = None
    /\ op = "none"
    /\ principal = None
    /\ status = 0

Forget == req' = None /\ op' = "none" /\ principal' = None /\ status' = 0

Goto(label) == pc' = label /\ UNCHANGED <<settings, files, status>>

\* The answer, as log_requests_middleware records it: with the client that was
\* authenticated.  Exceptions that nothing handles are answered 500.
Answer(code) ==
    /\ pc' = "answered"
    /\ status' = code
    /\ UNCHANGED <<settings, files, request>>

-------------------------------------------------------------------------------
Start ==
    /\ pc = "down"
    /\ \E s \in Candidates : Accepted(s) /\ settings' = s
    /\ pc' = "idle"
    /\ UNCHANGED <<files, request, status>>

\* The server is stopped, to be started with other settings, or dies; the client
\* of the request in hand gets no answer.
Stop ==
    /\ pc # "down"
    /\ pc' = "down"
    /\ settings' = None
    /\ Forget
    /\ UNCHANGED files

Receive ==
    /\ pc = "idle"
    /\ req' \in Inputs
    /\ req'.form # None =>
          Cardinality(files \union {FormPlace(req'.form) \o req'.form.name}) <= MaxFiles
    /\ pc' = "route"
    /\ UNCHANGED <<settings, files, op, principal, status>>

\* The client has the answer.
Close ==
    /\ pc = "answered"
    /\ pc' = "idle"
    /\ Forget
    /\ UNCHANGED <<settings, files>>

EndsWithSlash(path) == path # <<>> /\ Last(path) = ""

\* trailing_slash_handler_middleware: 307, and the client repeats the request
\* with the other path.
Redirect ==
    /\ pc = "route"
    /\ EndsWithSlash(req.path)
    /\ req' = [req EXCEPT !.path = TrimEnd(@)]
    /\ UNCHANGED <<settings, files, pc, op, principal, status>>

DispatchUnguarded ==            \* mutant: an endpoint without require_scope
    /\ pc = "route"
    /\ ~EndsWithSlash(req.path)
    /\ op' = Served(req.method, req.path)
    /\ op' \in Listings
    /\ Goto("validate")
    /\ UNCHANGED <<req, principal>>

Dispatch ==
    /\ pc = "route"
    /\ ~EndsWithSlash(req.path)
    /\ op' = Served(req.method, req.path)
    /\ op' \notin {"none", "ping"}
    /\ Goto(IF op' = "upload_file" THEN "body" ELSE "authenticate")
    /\ UNCHANGED <<req, principal>>

Ping ==
    /\ pc = "route"
    /\ Served(req.method, req.path) = "ping"
    /\ Answer(200)

\* No route takes the request.  Where only the slash at the end is missing,
\* Starlette redirects (redirect_slashes).
NoRoute ==
    /\ pc = "route"
    /\ ~EndsWithSlash(req.path)
    /\ Served(req.method, req.path) = "none"
    /\ IF Known(Append(req.path, "")) /\ ~Known(req.path)
       THEN /\ req' = [req EXCEPT !.path = Append(@, "")]
            /\ UNCHANGED <<settings, files, pc, op, principal, status>>
       ELSE Answer(IF Known(req.path) THEN 405 ELSE 404)

\* FastAPI reads the form of an upload before it asks for the key; None is a form
\* that cannot be parsed.
ReadBody ==
    /\ pc = "body"
    /\ \/ req.form = None /\ Answer(400)
       \/ req.form # None /\ Goto("authenticate") /\ UNCHANGED request

Legacy == [id |-> "legacy-admin", secret |-> settings.legacy, enabled |-> TRUE,
           scopes |-> {"admin"}, prefix |-> None]

\* The configured key with the secret of the request; API_KEY comes first.
Presented ==
    IF req.key = None THEN {}
    ELSE IF req.key = settings.legacy THEN {Legacy}
    ELSE {settings.keys[i] : i \in {i \in DOMAIN settings.keys :
             /\ settings.keys[i].secret = req.key
             /\ \A j \in 1..(i - 1) : settings.keys[j].secret # req.key}}

\* get_api_principal.  None stands for a key that is missing, empty or too long.
Authenticate ==
    /\ pc = "authenticate"
    /\ \/ (\A key \in Presented : ~key.enabled) /\ Answer(401)
       \/ \E key \in Presented :
             /\ key.enabled
             /\ principal' = [id |-> key.id, scopes |-> key.scopes,
                              prefix |-> StoredPrefix(key.prefix)]
             /\ Goto("scope")
             /\ UNCHANGED <<req, op>>

\* require_scope.
CheckScope ==
    /\ pc = "scope"
    /\ \/ {"admin", Scope[op]} \intersect principal.scopes = {} /\ Answer(403)
       \/ /\ {"admin", Scope[op]} \intersect principal.scopes # {}
          /\ Goto("validate")
          /\ UNCHANGED request

RouteableUnlessSplit(name) == Len(name) = 1              \* mutant: no reserved names

\* A folder name that can be a segment of a path.
Routeable(name) == Len(name) = 1 /\ name[1] \notin {"", " ", ".", ".."} \union Unusable

\* UploadRequest.as_form, and the bounds of limit.
ValidInput ==
    IF op = "upload_file" THEN /\ Routeable(req.form.folder)
                               /\ Routeable(req.form.subfolder)
                               /\ req.form.name # <<>>
                          ELSE op \in Listings => req.query # "bad limit"

Validate ==
    /\ pc = "validate"
    /\ \/ ~ValidInput /\ Answer(422)
       \/ ValidInput /\ Goto("folder") /\ UNCHANGED request

\* secrets.compare_digest raises TypeError for a string that is not ASCII.
Compare(i) ==
    IF {principal.prefix[i], Place[i]} \intersect NonAscii # {} THEN "error"
    ELSE IF principal.prefix[i] = Place[i] THEN "equal" ELSE "different"

AllowedByFolder == IF principal.prefix = <<>> THEN "equal" ELSE Compare(1)   \* mutant

\* _is_path_allowed: the second part is compared if the first is equal.
Allowed ==
    IF principal.prefix = <<>> THEN "equal"
    ELSE IF Len(principal.prefix) = 2 /\ Compare(1) = "equal" THEN Compare(2) ELSE Compare(1)

\* authorize_folder_access.
CheckFolder ==
    /\ pc = "folder"
    /\ \/ Allowed = "equal" /\ Goto("backend") /\ UNCHANGED request
       \/ Allowed = "different" /\ Answer(403)
       \/ Allowed = "error" /\ Answer(500)

-------------------------------------------------------------------------------
\* The backend, as far as the answer depends on the request alone.

Target == Place \o Name

\* _validate_filename.
ValidName == Len(Name) = 1 /\ Name[1] \notin {"", ".", ".."} \union Unusable

Finish(code, stored) ==
    /\ pc' = "answered"
    /\ status' = code
    /\ files' = stored
    /\ UNCHANGED <<settings, request>>

Save ==
    /\ op = "upload_file"
    /\ ValidName
    /\ \/ (req.form.overwrite \/ Target \notin files) /\ Finish(201, files \union {Target})
       \/ ~req.form.overwrite /\ Target \in files /\ Finish(409, files)

Find ==
    /\ op \in {"get_file", "head_file", "get_metadata"}
    /\ ValidName
    /\ Finish(IF Target \in files THEN 200 ELSE 404, files)

Delete ==
    /\ op = "delete_file"
    /\ ValidName
    /\ Finish(IF Target \in files THEN 204 ELSE 404, files \ {Target})

\* An empty folder is not told apart from a missing one, which is answered 404.
List ==
    /\ op \in Listings
    /\ req.query # "bad cursor"
    /\ \/ Finish(200, files)
       \/ Finish(404, files) /\ \A f \in files : SubSeq(f, 1, 2) # Place

Refuse ==
    /\ IF op \in Listings THEN req.query = "bad cursor" ELSE ~ValidName
    /\ Finish(400, files)

Serve ==
    /\ pc = "backend"
    /\ Save \/ Find \/ Delete \/ List \/ Refuse

ServerStep ==
    \/ Redirect \/ Dispatch \/ Ping \/ NoRoute \/ ReadBody
    \/ Authenticate \/ CheckScope \/ Validate \/ CheckFolder \/ Serve

Next == Start \/ Stop \/ Receive \/ ServerStep \/ Close

\* The event loop runs a request until it is answered.
Spec == Init /\ [][Next]_vars /\ WF_vars(ServerStep)

-------------------------------------------------------------------------------
(***************************************************************************)
(* What README.md promises of a key: its scopes, and as folder_prefix a    *)
(* folder ("crm" or "crm/*") or one of its subfolders ("crm/contracts").   *)
(***************************************************************************)

Keys == ToSet(settings.keys) \union (IF settings.legacy = None THEN {} ELSE {Legacy})

Covers(raw, place) ==
    raw # None => \E n \in 0..2 :
        Trim(raw) \in {SubSeq(place, 1, n), Append(SubSeq(place, 1, n), "*")}

Grants(key) ==
    /\ key.secret = req.key
    /\ key.enabled
    /\ {"admin", Scope[op]} \intersect key.scopes # {}
    /\ Covers(key.prefix, Place)

\* Whatever the settings, a request reaches the backend only with a key that
\* grants it, and is logged under the name of that key and no other.  (A key may
\* be called legacy-admin, which is the name API_KEY is logged under.)
OnlyGranted ==
    pc = "backend" => \E key \in Keys :
        /\ Grants(key)
        /\ key.id = principal.id
        /\ \A other \in Keys : other.id = key.id => other = key \/ key.id = "legacy-admin"

\* Nobody is turned away who has a key that grants the request, except that keys
\* with a folder_prefix fail on names outside ASCII, also where these are granted.
GrantIsHonoured ==
    /\ status \in {401, 403} => \A key \in Keys : ~Grants(key)
    /\ status = 500 => /\ principal.prefix # <<>>
                       /\ ToSet(Place \o principal.prefix) \intersect NonAscii # {}

\* How a client removes dot segments before it sends a path (RFC 3986).
Resolve(path) ==
    FoldLeft(LAMBDA done, s : CASE s = "."  -> done
                                [] s = ".." -> SubSeq(done, 1, Len(done) - 1)
                                [] OTHER    -> Append(done, s),
             <<>>, path)

Reaches(endpoint, method, path) ==
    Resolve(path) = path /\ Served(method, path) = endpoint

\* upload_schemas.py: names that cannot round-trip through the routes are
\* rejected.  Every file that was stored is found by its path, whichever the
\* method; only for GET, a file called metadata is hidden by the listing.
UploadIsReachable ==
    \A f \in files :
        LET path == <<"files">> \o f
        IN  /\ Reaches("head_file", "HEAD", path)
            /\ Reaches("delete_file", "DELETE", path)
            /\ Reaches("get_metadata", "GET", Append(path, "metadata"))
            /\ Reaches("get_file", "GET", path) \/ f[3] = "metadata"

\* The redirects end: every request is answered, unless the server goes down.
AlwaysAnswered == pc = "route" ~> pc \in {"answered", "down"}
===============================================================================
