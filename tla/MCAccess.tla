------------------------------- MODULE MCAccess -------------------------------
(***************************************************************************)
(* A small instance of Access: secrets k1 and k2, folders a, e' (which     *)
(* stands for a name outside ASCII) and a\ (for one with a backslash).     *)
(***************************************************************************)
EXTENDS Access

Accent == "e'"
MCNonAscii == {Accent}

Back == "a\\"
MCUnusable == {Back}

ApiKey(id, secret, enabled, scopes, prefix) ==
    [id |-> id, secret |-> secret, enabled |-> enabled, scopes |-> scopes, prefix |-> prefix]

FolderPrefixes ==
    BoundedSeq({"a", "*", ""}, 3) \union
    {None, <<"a", "b">>, <<"a", "b", "*">>, <<"a", "b", "a">>, <<"..">>, <<Accent>>, <<"a", Accent>>,
     <<Back>>, <<"a", Back>>}

\* Every prefix; two keys with every coincidence of ids and secrets, one of them
\* disabled, beside a legacy key or not; the empty settings.
MCCandidates ==
    [legacy : {None},
     keys : {<<ApiKey("c1", "k1", TRUE, scopes, prefix)>> :
                scopes \in {{"files:read", "files:list"}, {"files:write", "files:delete"}},
                prefix \in FolderPrefixes}]
    \union
    [legacy : {None, "k1", "k2"},
     keys : {<<ApiKey(id, "k1", FALSE, {"admin"}, None), ApiKey("c2", secret, TRUE, {"admin"}, <<"a">>)>> :
                id \in {"c1", "c2", "legacy-admin"}, secret \in {"k1", "k2"}}
            \union {<<>>}]

In(methods, paths, keys, forms, queries) ==
    [method : methods, path : paths, key : keys, form : forms, query : queries]

Places == {<<"files", f, s>> : f \in {"a", "*", Accent}, s \in {"b", Accent}}

Under(rest) == {place \o rest : place \in Places}

Fill(folders, subfolders, names, overwrites) ==
    [folder : folders, subfolder : subfolders, name : names, overwrite : overwrites]

Forms ==
    Fill({<<"a">>, <<Accent>>}, {<<"b">>}, {<<"n">>, <<"metadata">>}, BOOLEAN) \union
    Fill({<<"a">>}, {<<"b">>}, {<<"..">>, <<"n", "n">>, <<Back>>, <<>>}, {TRUE}) \union
    Fill({<<"..">>, <<" ">>, <<Back>>, <<"a", "b">>}, {<<"b">>, <<".">>}, {<<"n">>}, {TRUE})

MCInputs ==
    In({"GET"}, Under(<<>>) \union Under(<<"metadata">>), {None, "k1", "k2"}, {None}, {"none"}) \union
    In({"GET", "HEAD", "DELETE"}, Under(<<"n">>), {"k1", "k2"}, {None}, {"none"}) \union
    In({"GET"}, {<<"files", "a", "b", "n", "metadata">>, <<"files", "a", "b", "..">>, <<"files", "a", "b", Back>>,
                 <<"files", "a", "b", "", "">>, <<"files", "", "b">>, <<"ping">>, <<"ping", "">>,
                 <<"files", "a">>, <<"files", "">>, <<"">>, <<>>}, {"k1"}, {None}, {"none"}) \union
    In({"GET"}, Under(<<>>), {"k1"}, {None}, {"page", "bad limit", "bad cursor"}) \union
    In({"POST"}, {<<"files">>, <<"files", "">>}, {"k1", "k2"}, Forms \union {None}, {"none"})
===============================================================================
