-------------------------------- MODULE Paging --------------------------------
(***************************************************************************)
(* A client that walks through a folder with cursor pages, of file names   *)
(* or of metadata, while other clients and the cleaner add and remove      *)
(* files: routes, FileService and both backends.                           *)
(*                                                                         *)
(* A name is its rank in the order of the listing: Python compares         *)
(* strings by code points, S3 by their UTF-8 bytes, which is the same      *)
(* order.  0 stands for no cursor.  The cursor is the name it encodes; the *)
(* codec is not modelled here.                                             *)
(*                                                                         *)
(* The unpaginated listing is the walk with a limit that is never reached. *)
(***************************************************************************)
EXTENDS Naturals, FiniteSets

CONSTANTS
    N,              \* how many names there are
    Limit,          \* the page size
    MaxKeys,        \* the most keys one list_objects_v2 returns
    MaxChanges      \* bound on the files added or removed during the walk

ASSUME PagingAssumption ==
    /\ {N, MaxChanges} \subseteq Nat
    /\ {Limit, MaxKeys} \subseteq Nat \ {0}

Names == 1..N

VARIABLES
    backend,        \* STORAGE_BACKEND, "local" or "s3"
    present,        \* the files of the folder
    changes,
    metadata,       \* the walk lists metadata, not only names
    pc,             \* what the server or the client does next
    cursor,         \* the last name of the previous page
    position,       \* S3: the last key the current listing has returned
    todo,           \* names of the directory scan still to check, or to describe
    items,          \* names found for the page
    more,           \* has_more
    collected,      \* names the client has received
    status,         \* how the walk ended, 0 before
    always,         \* files that were there during the whole walk
    ever            \* files that were there at some time of the walk

server == <<pc, cursor, position, todo, items, more, collected, status>>
vars   == <<backend, present, changes, metadata, server, always, ever>>

Labels == {"request", "check", "list", "probe", "describe", "answer", "done"}

TypeOK ==
    /\ backend \in {"local", "s3"}
    /\ present \subseteq Names
    /\ changes \in 0..MaxChanges
    /\ metadata \in BOOLEAN
    /\ pc \in Labels
    /\ cursor \in 0..N
    /\ position \in 0..N
    /\ todo \subseteq Names
    /\ items \subseteq Names
    /\ more \in BOOLEAN
    /\ collected \subseteq Names
    /\ status \in {0, 200, 404, 500}
    /\ always \subseteq Names
    /\ ever \subseteq Names

Init ==
    /\ backend \in {"local", "s3"}
    /\ present \in SUBSET Names
    /\ changes = 0
    /\ metadata \in BOOLEAN
    /\ pc = "request"
    /\ cursor = 0
    /\ position = 0
    /\ todo = {}
    /\ items = {}
    /\ more = FALSE
    /\ collected = {}
    /\ status = 0
    /\ always = present
    /\ ever = present

\* The k smallest names of S.
First(k, S) == {n \in S : Cardinality({m \in S : m < n}) < k}

After(n, S) == {m \in S : m > n}

IsLast(n, S) == n \in S /\ \A m \in S : m <= n

\* Mutant: an error without a status of its own.
AbortUnmapped(code) ==
    /\ pc' = "done"
    /\ status' = code + 1
    /\ UNCHANGED <<cursor, position, todo, items, more, collected>>

Abort(code) ==
    /\ pc' = "done"
    /\ status' = code
    /\ UNCHANGED <<cursor, position, todo, items, more, collected>>

\* The page is known; for metadata each of its files is still to be looked at.
Serve(page, hasMore) ==
    /\ items' = page
    /\ more' = hasMore
    /\ todo' = IF metadata THEN page ELSE {}
    /\ pc' = IF metadata THEN "describe" ELSE "answer"
    /\ UNCHANGED <<cursor, position, collected, status>>

-------------------------------------------------------------------------------
\* The local backend: one scan of the directory, then one is_file per entry.  The
\* directory is there: nothing removes it.

Scan ==
    /\ pc = "request"
    /\ backend = "local"
    /\ todo' = present
    /\ items' = {}
    /\ pc' = "check"
    /\ UNCHANGED <<cursor, position, more, collected, status>>

CheckEntry ==
    /\ pc = "check"
    /\ \E n \in todo :
          /\ todo' = todo \ {n}
          /\ items' = items \union ({n} \intersect present)
    /\ UNCHANGED <<pc, cursor, position, more, collected, status>>

\* Mutant: bisect_left, so that the name of the cursor comes again.
FollowingInclusive(S) == {n \in S : n >= cursor}

\* bisect_right.
Following(S) == {n \in S : n > cursor}

Page ==
    /\ pc = "check"
    /\ todo = {}
    /\ LET window == First(Limit + 1, Following(items))
       IN  Serve(First(Limit, window), Cardinality(window) > Limit)

-------------------------------------------------------------------------------
\* The S3 backend: list_objects_v2 until one more than the limit is found or
\* there are no more keys.

StartList ==
    /\ pc = "request"
    /\ backend = "s3"
    /\ position' = cursor
    /\ items' = {}
    /\ pc' = "list"
    /\ UNCHANGED <<cursor, todo, more, collected, status>>

Returned == First(MaxKeys, After(position, present))

IsTruncated == After(position, present) # Returned

ListMore ==
    /\ pc = "list"
    /\ Cardinality(items \union Returned) < Limit + 1
    /\ IsTruncated
    /\ items' = items \union Returned
    /\ \E n \in Returned : IsLast(n, Returned) /\ position' = n
    /\ UNCHANGED <<pc, cursor, todo, more, collected, status>>

Found == First(Limit + 1, items \union Returned)

\* Mutant: the keys of one more response would be needed and are not asked for.
ListFirstResponse ==
    /\ pc = "list"
    /\ Found # {}
    /\ Serve(First(Limit, Found), Cardinality(Found) > Limit)

ListPage ==
    /\ pc = "list"
    /\ Found # {}
    /\ Cardinality(Found) = Limit + 1 \/ ~IsTruncated
    /\ Serve(First(Limit, Found), Cardinality(Found) > Limit)

\* Nothing after the cursor: _folder_has_objects, or FolderNotFoundError.
ListNothing ==
    /\ pc = "list"
    /\ Found = {}
    /\ IF cursor = 0
       THEN Abort(404)
       ELSE pc' = "probe" /\ UNCHANGED <<cursor, position, todo, items, more, collected, status>>

\* Mutant: an empty page is always a missing folder.
ProbeSkipped ==
    /\ pc = "probe"
    /\ Abort(404)

ProbeFolder ==
    /\ pc = "probe"
    /\ IF present = {} THEN Abort(404) ELSE Serve({}, FALSE)

-------------------------------------------------------------------------------
\* _build_metadata or get_file_metadata for each file of the page.  A file that is
\* gone raises FileNotFoundError, which neither the service nor the route
\* translates for a list.
Describe ==
    /\ pc = "describe"
    /\ \E n \in First(1, todo) :
          IF n \in present
          THEN /\ todo' = todo \ {n}
               /\ UNCHANGED <<pc, cursor, position, items, more, collected, status>>
          ELSE Abort(500)

AllDescribed ==
    /\ pc = "describe"
    /\ todo = {}
    /\ pc' = "answer"
    /\ UNCHANGED <<cursor, position, todo, items, more, collected, status>>

\* Mutant: next_cursor repeats the cursor of the request.
TurnInPlace ==
    /\ pc = "answer"
    /\ collected' = collected \union items
    /\ pc' = IF more /\ items # {} THEN "request" ELSE "done"
    /\ status' = IF more /\ items # {} THEN 0 ELSE 200
    /\ UNCHANGED <<cursor, position, todo, items, more>>

\* _page_response, and the client: it comes back with next_cursor while there is
\* more.
Turn ==
    /\ pc = "answer"
    /\ collected' = collected \union items
    /\ IF more /\ items # {}
       THEN /\ \E n \in items : IsLast(n, items) /\ cursor' = n
            /\ pc' = "request"
            /\ UNCHANGED status
       ELSE /\ pc' = "done"
            /\ status' = 200
            /\ UNCHANGED cursor
    /\ UNCHANGED <<position, todo, items, more>>

ServerStep ==
    /\ \/ Scan \/ CheckEntry \/ Page
       \/ StartList \/ ListMore \/ ListPage \/ ListNothing \/ ProbeFolder
       \/ Describe \/ AllDescribed \/ Turn
    /\ UNCHANGED <<backend, present, changes, metadata, always, ever>>

\* An upload commits, or a delete or the cleaner removes a file.
Change ==
    /\ pc # "done"
    /\ changes < MaxChanges
    /\ changes' = changes + 1
    /\ \/ \E n \in Names \ present : present' = present \union {n}
       \/ \E n \in present : present' = present \ {n}
    /\ always' = always \intersect present'
    /\ ever' = ever \union present'
    /\ UNCHANGED <<backend, metadata, server>>

Next == ServerStep \/ Change

Spec     == Init /\ [][Next]_vars
FairSpec == Spec /\ WF_vars(ServerStep)

-------------------------------------------------------------------------------

\* No file comes twice, and the pages are in order: whatever happens to the
\* folder between the pages, a page starts after all that the client has.
NothingTwice ==
    pc = "answer" => \A n \in items, m \in collected : m < n

\* A walk that ends well has shown every file that was there all the time, also
\* if the last file of a page, which the cursor names, was deleted, and nothing
\* that was never there.
WalkIsComplete ==
    /\ status = 200 => always \subseteq collected
    /\ collected \subseteq ever

\* 404 for the folder, which only S3 answers here, and 500, which only a list of
\* metadata can end with, do not happen to a folder that nobody changes, unless
\* it is empty.
OnlyChangesFail ==
    /\ status = 404 => backend = "s3" /\ always = {}
    /\ status = 500 => metadata /\ ever # always

\* Every walk ends, however often the folder changes meanwhile.
WalkEnds == <>(pc = "done")
===============================================================================
