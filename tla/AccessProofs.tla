----------------------------- MODULE AccessProofs -----------------------------
(***************************************************************************)
(* The keys decide exactly, for any settings, any requests and any names:  *)
(* a request reaches the backend only if a key grants it, and a request    *)
(* that a key grants is not refused.  What was stored under the names that *)
(* pass the checks is found by its path.                                   *)
(***************************************************************************)
EXTENDS Access, SequenceTheorems, WellFoundedInduction, TLAPS

-------------------------------------------------------------------------------
\* Facts about Min, Max and sequences.

LEMMA LeastNatural ==
    ASSUME NEW S \in SUBSET Nat, S # {}
    PROVE  \E x \in S : \A y \in S : x <= y
<1>1. IsWellFoundedOn(OpToRel(<, Nat), Nat)
  BY NatLessThanWellFounded
<1>2. PICK x \in S : \A y \in S : ~ (<<y, x>> \in OpToRel(<, Nat))
  BY <1>1, WFMin
<1>3. ASSUME NEW y \in S PROVE x <= y
  <2>1. x \in Nat /\ y \in Nat
    OBVIOUS
  <2>2. y < x => <<y, x>> \in OpToRel(<, Nat)
    BY <2>1 DEF OpToRel
  <2>3. ~ (y < x)
    BY <1>2, <2>2, Zenon
  <2> QED
    BY <2>1, <2>3
<1> QED
  BY <1>3

LEMMA MinIsIn ==
    ASSUME NEW S \in SUBSET Nat, S # {}
    PROVE  Min(S) \in S
BY LeastNatural DEF Min

LEMMA MaxIsIn ==
    ASSUME NEW n \in Nat, NEW S \in SUBSET (1..n), S # {}
    PROVE  Max(S) \in S
<1> DEFINE T == {n - x : x \in S}
<1>1. T \in SUBSET Nat
  <2>1. \A x \in S : n - x \in Nat
    OBVIOUS
  <2> QED
    BY <2>1
<1>e. T # {}
  OBVIOUS
<1>2. PICK t \in T : \A y \in T : t <= y
  BY <1>1, <1>e, LeastNatural
<1>3. PICK x \in S : t = n - x
  BY <1>2
<1>4. ASSUME NEW y \in S PROVE y <= x
  <2>1. n - y \in T /\ x \in Int /\ y \in Int
    OBVIOUS
  <2>2. n - x <= n - y
    BY <1>2, <1>3, <2>1
  <2> QED
    BY <2>1, <2>2
<1> QED
  BY <1>4 DEF Max
\* The positions of the segments that are not empty.
Filled(path) == {i \in 1..Len(path) : Used(path[i])}

LEMMA Selected ==
    ASSUME NEW path \in Seq(STRING)
    PROVE  /\ Filled(path) \in SUBSET (1..Len(path)) /\ Filled(path) \in SUBSET Nat
           /\ SelectInSeq(path, Used) = IF Filled(path) # {} THEN Min(Filled(path)) ELSE 0
           /\ SelectLastInSeq(path, Used) = IF Filled(path) # {} THEN Max(Filled(path)) ELSE 0
<1>1. Len(path) \in Nat
  BY LenProperties
<1> QED
  BY <1>1 DEF Filled, SelectInSeq, SelectLastInSeq

LEMMA TrimEndType ==
    ASSUME NEW path \in Seq(STRING)
    PROVE  TrimEnd(path) \in Seq(STRING)
<1> DEFINE n == SelectLastInSeq(path, Used)
<1>1. n \in 0..Len(path)
  <2>1. Len(path) \in Nat
    BY LenProperties
  <2>2. Filled(path) # {} => Max(Filled(path)) \in 1..Len(path)
    BY <2>1, Selected, MaxIsIn
  <2> QED
    BY <2>1, <2>2, Selected
<1>2. \A i \in 1..n : path[i] \in STRING
  BY <1>1, ElementOfSeq
<1>3. SubSeq(path, 1, n) \in Seq(STRING)
  BY <1>1, <1>2, SubSeqProperties
<1> QED
  BY <1>3 DEF TrimEnd

LEMMA TrimType ==
    ASSUME NEW path \in Seq(STRING)
    PROVE  Trim(path) \in Seq(STRING)
<1>1. CASE ToSet(path) \subseteq {""}
  BY <1>1, EmptySeq DEF Trim
<1>2. CASE ~ (ToSet(path) \subseteq {""})
  <2> DEFINE m == SelectInSeq(path, Used)
             n == SelectLastInSeq(path, Used)
  <2>1. Len(path) \in Nat /\ DOMAIN path = 1..Len(path)
    BY LenProperties
  <2>2. Filled(path) # {}
    BY <1>2, <2>1 DEF ToSet, Filled, Used
  <2>3. m \in 1..Len(path) /\ n \in 1..Len(path)
    BY <2>1, <2>2, Selected, MinIsIn, MaxIsIn
  <2>4. \A i \in m..n : path[i] \in STRING
    BY <2>1, <2>3, ElementOfSeq
  <2>5. SubSeq(path, m, n) \in Seq(STRING)
    BY <2>3, <2>4, SubSeqProperties
  <2> QED
    BY <1>2, <2>5 DEF Trim
<1> QED
  BY <1>1, <1>2
-------------------------------------------------------------------------------
\* Folder prefixes.

LEMMA FrontAndLast ==
    ASSUME NEW S, NEW t \in Seq(S), t # <<>>
    PROVE  /\ Front(t) \in Seq(S)
           /\ Last(t) \in S
           /\ t = Append(Front(t), Last(t))
<1>1. PICK s \in Seq(S), e \in S : t = Append(s, e)
  BY SequenceEmptyOrAppend
<1>2. /\ Len(s) \in Nat /\ Len(t) = Len(s) + 1
      /\ \A i \in 1..Len(s) : t[i] = s[i]
      /\ t[Len(t)] = e
  <2>1. /\ Len(Append(s, e)) = Len(s) + 1
        /\ \A i \in 1..Len(s) : Append(s, e)[i] = s[i]
        /\ Append(s, e)[Len(s) + 1] = e
    BY AppendProperties
  <2>2. Len(s) \in Nat
    BY LenProperties
  <2> QED
    BY <1>1, <2>1, <2>2
<1>3. \A i \in 1..Len(s) : t[i] \in S
  BY <1>2, ElementOfSeq
<1>4. /\ SubSeq(t, 1, Len(s)) \in Seq(S)
      /\ Len(SubSeq(t, 1, Len(s))) = Len(s)
      /\ \A i \in 1..Len(s) : SubSeq(t, 1, Len(s))[i] = t[i]
  BY <1>2, <1>3, SubSeqProperties
<1>5. SubSeq(t, 1, Len(s)) = s
  BY <1>2, <1>4, SeqEqual
<1>6. Front(t) = s /\ Last(t) = e
  BY <1>2, <1>5 DEF Front, Last
<1> QED
  BY <1>1, <1>6

\* The first n segments of a place.
LEMMA PlaceFront ==
    ASSUME NEW place \in Seq(STRING), Len(place) = 2, NEW n \in 0..2
    PROVE  /\ SubSeq(place, 1, n) \in Seq(STRING)
           /\ Len(SubSeq(place, 1, n)) = n
           /\ \A i \in 1..n : SubSeq(place, 1, n)[i] = place[i]
<1>1. \A i \in 1..n : place[i] \in STRING
  BY ElementOfSeq
<1> QED
  BY <1>1, SubSeqProperties

\* A stored prefix grants what the one that was configured says.
LEMMA PrefixMeaning ==
    ASSUME NEW raw \in Seq(STRING), NEW place \in Seq(STRING), Len(place) = 2
    PROVE  Covers(raw, place) <=> \E n \in 0..2 : Parts(raw) = SubSeq(place, 1, n)
<1> DEFINE t == Trim(raw)
           first(n) == SubSeq(place, 1, n)
<1>t. t \in Seq(STRING)
  BY TrimType
<1>f. \A n \in 0..2 : first(n) \in Seq(STRING) /\ Len(first(n)) = n
  BY PlaceFront
<1>c. raw # None
  BY AccessAssumption
<1>d. Covers(raw, place) <=> \E n \in 0..2 : t = first(n) \/ t = Append(first(n), "*")
  BY <1>c DEF Covers
<1>p. Parts(raw) = IF t # <<>> /\ Last(t) = "*" THEN Front(t) ELSE t
  BY DEF Parts
<1> HIDE DEF t
<1>1. ASSUME NEW n \in 0..2, t = first(n) PROVE \E k \in 0..2 : Parts(raw) = first(k)
  <2>1. CASE t # <<>> /\ Last(t) = "*"
    <3>1. n # 0
      BY <1>1, <1>f, <2>1, EmptySeq
    <3>2. Front(t) = SubSeq(t, 1, n - 1)
      BY <1>1, <1>f DEF Front
    <3>3. /\ n - 1 \in 0..2
          /\ \A i \in 1..(n - 1) : t[i] \in STRING
          /\ \A i \in 1..(n - 1) : t[i] = place[i] /\ first(n - 1)[i] = place[i]
      BY <1>1, <1>f, <1>t, <3>1, PlaceFront, ElementOfSeq
    <3>4. /\ SubSeq(t, 1, n - 1) \in Seq(STRING)
          /\ Len(SubSeq(t, 1, n - 1)) = n - 1
          /\ \A i \in 1..(n - 1) : SubSeq(t, 1, n - 1)[i] = t[i]
      BY <3>1, <3>3, SubSeqProperties
    <3>5. SubSeq(t, 1, n - 1) = first(n - 1)
      BY <1>f, <3>3, <3>4, SeqEqual
    <3> QED
      BY <1>p, <2>1, <3>2, <3>3, <3>5
  <2>2. CASE ~ (t # <<>> /\ Last(t) = "*")
    BY <1>1, <1>p, <2>2
  <2> QED
    BY <2>1, <2>2
<1>2. ASSUME NEW n \in 0..2, t = Append(first(n), "*") PROVE Parts(raw) = first(n)
  <2> DEFINE S == STRING \union {"*"}
  <2>f. first(n) \in Seq(S) /\ t \in Seq(S) /\ "*" \in S
    BY <1>f, <1>t, SeqMonotonic
  <2> HIDE DEF first, S
  <2>1. t # <<>>
    BY <1>2, <2>f, AppendProperties
  <2>2. /\ t = Append(Front(t), Last(t))
        /\ Front(t) \in Seq(S) /\ Last(t) \in S
    BY <2>1, <2>f, FrontAndLast
  <2>3. Append(Front(t), Last(t)) = Append(first(n), "*")
    BY <1>2, <2>2
  <2>4. Front(t) = first(n) /\ Last(t) = "*"
    BY <2>f, <2>2, <2>3, AppendInjective
  <2> QED
    BY <1>p, <2>1, <2>4
<1>3. ASSUME NEW n \in 0..2, Parts(raw) = first(n)
      PROVE  t = first(n) \/ t = Append(first(n), "*")
  <2>1. CASE t # <<>> /\ Last(t) = "*"
    BY <1>3, <1>p, <1>t, <2>1, FrontAndLast
  <2>2. CASE ~ (t # <<>> /\ Last(t) = "*")
    BY <1>3, <1>p, <2>2
  <2> QED
    BY <2>1, <2>2
<1> QED
  BY <1>1, <1>2, <1>3, <1>d
-------------------------------------------------------------------------------
\* Routes.

Filed == DOMAIN Scope \ {"upload_file"}

LEMMA RouteShapes ==
    /\ DOMAIN Routes \in SUBSET Nat
    /\ \A i \in DOMAIN Routes :
          /\ Routes[i].op \in DOMAIN Scope \union {"ping"}
          /\ Routes[i].op \in Filed => Len(Routes[i].path) >= 3
<1>1. DOMAIN Routes = 1..8
  BY DEF Routes
<1>2. /\ Len(File) = 4
      /\ Len(Append(File, "metadata")) = 5
      /\ Len(<<"files", Param, Param>>) = 3
      /\ Len(<<"files", Param, Param, "metadata">>) = 4
  BY DEF File
<1>3. ASSUME NEW i \in 1..8
      PROVE  /\ Routes[i].op \in DOMAIN Scope \union {"ping"}
             /\ Routes[i].op \in Filed => Len(Routes[i].path) >= 3
  <2>1. CASE i = 1
    BY <2>1 DEF Routes, Route, Scope, Filed
  <2>2. CASE i = 2
    BY <1>2, <2>2 DEF Routes, Route, Scope
  <2>3. CASE i = 3
    BY <1>2, <2>3 DEF Routes, Route, Scope
  <2>4. CASE i = 4
    BY <1>2, <2>4 DEF Routes, Route, Scope
  <2>5. CASE i = 5
    BY <1>2, <2>5 DEF Routes, Route, Scope
  <2>6. CASE i = 6
    BY <1>2, <2>6 DEF Routes, Route, Scope
  <2>7. CASE i = 7
    BY <1>2, <2>7 DEF Routes, Route, Scope
  <2>8. CASE i = 8
    BY <2>8 DEF Routes, Route, Scope, Filed
  <2> QED
    BY <2>1, <2>2, <2>3, <2>4, <2>5, <2>6, <2>7, <2>8
<1> QED
  BY <1>1, <1>3

LEMMA ServedShape ==
    ASSUME NEW method, NEW path
    PROVE  /\ Served(method, path) \in Endpoints
           /\ Served(method, path) \in Filed => Len(path) >= 3
<1> DEFINE takers == {i \in DOMAIN Routes : Routes[i].method = method /\ Matches(Routes[i], path)}
<1>1. CASE takers = {}
  BY <1>1 DEF Served, Endpoints, Filed, Scope
<1>2. CASE takers # {}
  <2>1. Min(takers) \in takers
    BY <1>2, RouteShapes, MinIsIn
  <2>2. Served(method, path) = Routes[Min(takers)].op
    BY <1>2 DEF Served
  <2>3. Len(Routes[Min(takers)].path) = Len(path)
    BY <2>1 DEF Matches
  <2> QED
    BY <2>1, <2>2, <2>3, RouteShapes DEF Endpoints
<1> QED
  BY <1>1, <1>2
-------------------------------------------------------------------------------
\* Keys.

\* What the server remembers of the key of a request.
Identity(key) ==
    [id |-> key.id, scopes |-> key.scopes, prefix |-> StoredPrefix(key.prefix)]

Good(s) == s \in Candidates /\ Accepted(s)

LEMMA GoodSettings ==
    ASSUME NEW s, Good(s)
    PROVE  /\ s.legacy \in STRING \union {None}
           /\ \A i \in DOMAIN s.keys : s.keys[i] \in Key /\ ValidPrefix(s.keys[i].prefix)
           /\ \A i, j \in DOMAIN s.keys :
                 s.keys[i].id = s.keys[j].id \/ s.keys[i].secret = s.keys[j].secret => i = j
<1>1. s.legacy \in STRING \union {None} /\ s.keys \in Seq(Key)
  BY AccessAssumption DEF Good
<1>2. \A i \in DOMAIN s.keys : s.keys[i] \in Key
  BY <1>1, LenProperties, ElementOfSeq
<1>3. \A i \in DOMAIN s.keys : /\ Values("id", s.keys)[i] = s.keys[i].id
                               /\ Values("secret", s.keys)[i] = s.keys[i].secret
  BY DEF Values
<1>4. DOMAIN Values("id", s.keys) = DOMAIN s.keys /\ DOMAIN Values("secret", s.keys) = DOMAIN s.keys
  BY DEF Values
<1>5. IsInjective(Values("id", s.keys)) /\ IsInjective(Values("secret", s.keys))
  BY DEF Good, Accepted
<1>6. ASSUME NEW i \in DOMAIN s.keys, NEW j \in DOMAIN s.keys,
             s.keys[i].id = s.keys[j].id \/ s.keys[i].secret = s.keys[j].secret
      PROVE  i = j
  BY <1>3, <1>4, <1>5, <1>6 DEF IsInjective
<1>7. \A i \in DOMAIN s.keys : ValidPrefix(s.keys[i].prefix)
  BY DEF Good, Accepted
<1> QED
  BY <1>1, <1>2, <1>6, <1>7

\* The keys with the secret of the request are the one that is presented, or
\* API_KEY is presented.
LEMMA PresentedKeys ==
    ASSUME Good(settings), req \in Request
    PROVE  /\ \A key \in Presented : key \in Keys /\ key.secret = req.key
           /\ \A other \in Keys :
                 other.secret = req.key => Presented = {Legacy} \/ Presented = {other}
<1>1. /\ settings.legacy \in STRING \union {None}
      /\ \A i \in DOMAIN settings.keys : settings.keys[i] \in Key
      /\ \A i, j \in DOMAIN settings.keys :
            settings.keys[i].secret = settings.keys[j].secret => i = j
  BY GoodSettings
<1>2. Keys = {settings.keys[i] : i \in DOMAIN settings.keys}
                \union (IF settings.legacy = None THEN {} ELSE {Legacy})
  BY DEF Keys, ToSet
<1>3. Legacy.secret = settings.legacy
  BY DEF Legacy
<1>4. None \notin STRING
  BY AccessAssumption
<1>5. \A i \in DOMAIN settings.keys : settings.keys[i].secret # None
  BY <1>1, <1>4 DEF Key
<1>6. CASE req.key = None
  <2>1. Presented = {}
    BY <1>6 DEF Presented
  <2>2. \A other \in Keys : other.secret # None
    BY <1>2, <1>3, <1>5
  <2> QED
    BY <1>6, <2>1, <2>2
<1>7. CASE req.key # None /\ req.key = settings.legacy
  <2>1. Presented = {Legacy}
    BY <1>7 DEF Presented
  <2> QED
    BY <1>2, <1>3, <1>7, <2>1
<1>8. CASE req.key # None /\ req.key # settings.legacy
  <2> DEFINE I == {i \in DOMAIN settings.keys :
                      /\ settings.keys[i].secret = req.key
                      /\ \A j \in 1..(i - 1) : settings.keys[j].secret # req.key}
  <2>1. Presented = {settings.keys[i] : i \in I}
    BY <1>8 DEF Presented
  <2>2. \A key \in Presented : key \in Keys /\ key.secret = req.key
    BY <1>2, <2>1
  <2>3. ASSUME NEW other \in Keys, other.secret = req.key PROVE Presented = {other}
    <3>1. PICK i \in DOMAIN settings.keys : other = settings.keys[i]
      BY <1>2, <1>3, <1>8, <2>3
    <3>2. i \in Nat /\ \A j \in 1..(i - 1) : j \in DOMAIN settings.keys /\ j # i
      <4>1. settings.keys \in Seq(Key)
        BY AccessAssumption DEF Good
      <4>2. DOMAIN settings.keys = 1..Len(settings.keys) /\ Len(settings.keys) \in Nat
        BY <4>1, LenProperties
      <4> QED
        BY <4>2
    <3>3. i \in I
      BY <1>1, <2>3, <3>1, <3>2
    <3>4. \A k \in I : k = i
      BY <1>1, <2>3, <3>1
    <3> QED
      BY <2>1, <3>1, <3>3, <3>4
  <2> QED
    BY <2>2, <2>3
<1> QED
  BY <1>6, <1>7, <1>8

-------------------------------------------------------------------------------
\* The folder check.

LEMMA StoredPrefixType ==
    ASSUME NEW raw \in Seq(STRING) \union {None}, ValidPrefix(raw)
    PROVE  StoredPrefix(raw) \in Seq(STRING) /\ Len(StoredPrefix(raw)) <= 2
<1>1. CASE raw = None
  BY <1>1, EmptySeq DEF StoredPrefix
<1>2. CASE raw # None
  <2>1. Trim(raw) \in Seq(STRING)
    BY <1>2, TrimType
  <2>2. Parts(raw) \in Seq(STRING)
    BY <2>1, FrontAndLast DEF Parts
  <2> QED
    BY <1>2, <2>2 DEF StoredPrefix, ValidPrefix
<1> QED
  BY <1>1, <1>2

\* _is_path_allowed is equality with the beginning of the place, except that it
\* may raise for names outside ASCII.
LEMMA AllowedMeaning ==
    ASSUME Place \in Seq(STRING), Len(Place) = 2,
           principal.prefix \in Seq(STRING), Len(principal.prefix) <= 2
    PROVE  /\ Allowed \in {"equal", "different", "error"}
           /\ Allowed = "equal" => \E n \in 0..2 : principal.prefix = SubSeq(Place, 1, n)
           /\ Allowed = "different" => \A n \in 0..2 : principal.prefix # SubSeq(Place, 1, n)
           /\ Allowed = "error" => /\ principal.prefix # <<>>
                                   /\ ToSet(Place \o principal.prefix) \intersect NonAscii # {}
<1> DEFINE p == principal.prefix
           place == Place
           first(n) == SubSeq(place, 1, n)
<1>p. p \in Seq(STRING) /\ Len(p) <= 2 /\ place \in Seq(STRING) /\ Len(place) = 2
  OBVIOUS
<1>c. \A i \in 1..2 :
         Compare(i) = IF {p[i], place[i]} \intersect NonAscii # {} THEN "error"
                      ELSE IF p[i] = place[i] THEN "equal" ELSE "different"
  BY DEF Compare
<1>a. Allowed = IF p = <<>> THEN "equal"
                ELSE IF Len(p) = 2 /\ Compare(1) = "equal" THEN Compare(2) ELSE Compare(1)
  BY DEF Allowed
<1> SUFFICES /\ Allowed \in {"equal", "different", "error"}
             /\ Allowed = "equal" => \E n \in 0..2 : p = first(n)
             /\ Allowed = "different" => \A n \in 0..2 : p # first(n)
             /\ Allowed = "error" => /\ p # <<>>
                                     /\ ToSet(place \o p) \intersect NonAscii # {}
  OBVIOUS
<1> HIDE DEF p, place
<1>2. \A n \in 0..2 : /\ first(n) \in Seq(STRING) /\ Len(first(n)) = n
                      /\ \A i \in 1..n : first(n)[i] = place[i]
  BY <1>p, PlaceFront
<1> HIDE DEF first
<1>1. Len(p) \in 0..2 /\ (p = <<>> <=> Len(p) = 0)
  <2>1. Len(p) \in Nat
    BY <1>p, LenProperties
  <2>2. p = <<>> <=> Len(p) = 0
    BY <1>p, EmptySeq
  <2>3. \A k \in Nat : k <= 2 => k \in 0..2
    OBVIOUS
  <2>4. Len(p) \in 0..2
    BY <1>p, <2>1, <2>3, Zenon
  <2> QED
    BY <2>2, <2>4
<1>4. \A i \in 1..2 : /\ Compare(i) = "equal" => p[i] = place[i]
                      /\ Compare(i) = "different" => p[i] # place[i]
                      /\ Compare(i) = "error" => {p[i], place[i]} \intersect NonAscii # {}
                      /\ Compare(i) \in {"equal", "different", "error"}
  BY <1>c
<1>5. ASSUME NEW i \in 1..2, i <= Len(p), Compare(i) = "error"
      PROVE  ToSet(place \o p) \intersect NonAscii # {}
  <2>1. /\ Len(place \o p) = 2 + Len(p)
        /\ \A k \in 1..(2 + Len(p)) : (place \o p)[k] = IF k <= 2 THEN place[k] ELSE p[k - 2]
        /\ place \o p \in Seq(STRING)
    <3>1. place \o p \in Seq(STRING)
      BY <1>p, ConcatProperties
    <3>2. Len(place \o p) = Len(place) + Len(p)
      BY <1>p, ConcatProperties
    <3>3. \A k \in 1..(Len(place) + Len(p)) :
             (place \o p)[k] = IF k <= Len(place) THEN place[k] ELSE p[k - Len(place)]
      BY <1>p, ConcatProperties
    <3> QED
      BY <1>p, <3>1, <3>2, <3>3
  <2>2. DOMAIN (place \o p) = 1..(2 + Len(p))
    BY <2>1, LenProperties
  <2>3. i \in 1..(2 + Len(p)) /\ (2 + i) \in 1..(2 + Len(p)) /\ ~ (2 + i <= 2) /\ (2 + i) - 2 = i
    BY <1>1, <1>5
  <2>4. (place \o p)[i] = place[i] /\ (place \o p)[2 + i] = p[i]
    BY <2>1, <2>3
  <2>5. place[i] \in ToSet(place \o p) /\ p[i] \in ToSet(place \o p)
    BY <2>2, <2>3, <2>4 DEF ToSet
  <2> QED
    BY <1>4, <1>5, <2>5
<1>6. CASE Len(p) = 0
  <2>1. first(0) = p
    BY <1>1, <1>2, <1>6, <1>p, EmptySeq
  <2> QED
    BY <1>1, <1>6, <1>a, <2>1
<1>7. CASE Len(p) = 1
  <2>1. Allowed = "equal" => p = first(1)
    <3>1. ASSUME p[1] = place[1] PROVE p = first(1)
      BY <1>2, <1>7, <3>1, <1>p, SeqEqual
    <3> QED
      BY <1>1, <1>4, <1>7, <1>a, <3>1
  <2>2. \A n \in 0..2 : p = first(n) => p[1] = place[1]
    BY <1>2, <1>7
  <2> QED
    BY <1>1, <1>4, <1>5, <1>7, <1>a, <2>1, <2>2
<1>8. CASE Len(p) = 2
  <2>1. Allowed = "equal" => p = first(2)
    <3>1. ASSUME p[1] = place[1], p[2] = place[2] PROVE p = first(2)
      <4>1. \A i \in 1..2 : p[i] = first(2)[i]
        BY <1>2, <3>1
      <4>2. first(2) \in Seq(STRING) /\ Len(first(2)) = 2
        BY <1>2
      <4> QED
        BY <1>8, <4>1, <4>2, <1>p, SeqEqual
    <3> QED
      BY <1>1, <1>4, <1>8, <1>a, <3>1
  <2>2. \A n \in 0..2 : p = first(n) => p[1] = place[1] /\ p[2] = place[2]
    BY <1>2, <1>8
  <2> QED
    BY <1>1, <1>4, <1>5, <1>8, <1>a, <2>1, <2>2
<1> QED
  BY <1>1, <1>6, <1>7, <1>8
-------------------------------------------------------------------------------
\* The inductive invariant.

Checking == {"authenticate", "scope", "validate", "folder", "backend"}

\* A request that is being checked is for an endpoint and has what this needs;
\* it has no answer yet.
InHand ==
    /\ pc # "down" => Good(settings)
    /\ pc \in Checking \union {"route", "body"} => req \in Request
    /\ pc = "body" => op = "upload_file"
    /\ pc \in Checking => /\ op \in DOMAIN Scope
                          /\ IF op = "upload_file" THEN req.form # None ELSE Len(req.path) >= 3
    /\ pc \in {"folder", "backend"} => Place \in Seq(STRING) /\ Len(Place) = 2
    /\ pc # "answered" => status = 0

\* After each check the request has passed it.
Authorized ==
    /\ pc \in Checking \ {"authenticate"} =>
          \E key \in Presented : key.enabled /\ principal = Identity(key)
    /\ pc \in {"validate", "folder", "backend"} =>
          {"admin", Scope[op]} \intersect principal.scopes # {}
    /\ pc = "backend" => Allowed = "equal"

Invariant == TypeOK /\ InHand /\ Authorized /\ GrantIsHonoured

LEMMA PresentedType ==
    ASSUME Good(settings), req \in Request, NEW key \in Presented
    PROVE  /\ key = Legacy \/ \E i \in DOMAIN settings.keys : key = settings.keys[i]
           /\ key.prefix \in Seq(STRING) \union {None}
           /\ ValidPrefix(key.prefix)
           /\ Identity(key) \in Principal
           /\ Identity(key).scopes = key.scopes
           /\ Identity(key).prefix = StoredPrefix(key.prefix)
           /\ Identity(key).id = key.id
           /\ Len(Identity(key).prefix) <= 2
<1>1. key \in Keys
  BY PresentedKeys
<1>2. key = Legacy \/ \E i \in DOMAIN settings.keys : key = settings.keys[i]
  BY <1>1 DEF Keys, ToSet
<1>3. /\ Identity(key).scopes = key.scopes
      /\ Identity(key).prefix = StoredPrefix(key.prefix)
      /\ Identity(key).id = key.id
  BY DEF Identity
<1>4. CASE key = Legacy
  <2>1. key.prefix = None /\ key.id = "legacy-admin" /\ key.scopes = {"admin"}
    BY <1>4 DEF Legacy
  <2>2. ValidPrefix(key.prefix)
    BY <2>1 DEF ValidPrefix
  <2>3. StoredPrefix(key.prefix) \in Seq(STRING) /\ Len(StoredPrefix(key.prefix)) <= 2
    BY <2>1, <2>2, StoredPrefixType
  <2>4. key.id \in STRING /\ key.scopes \in SUBSET APIScope
    BY <2>1, AccessAssumption DEF APIScope
  <2>5. Identity(key) \in Principal
    BY <2>3, <2>4 DEF Identity, Principal
  <2> QED
    BY <1>2, <1>3, <2>1, <2>2, <2>3, <2>5
<1>5. CASE \E i \in DOMAIN settings.keys : key = settings.keys[i]
  <2>1. key \in Key /\ ValidPrefix(key.prefix)
    BY <1>5, GoodSettings
  <2>2. /\ key.id \in STRING /\ key.scopes \in SUBSET APIScope
        /\ key.prefix \in Seq(STRING) \union {None}
    BY <2>1 DEF Key
  <2>3. StoredPrefix(key.prefix) \in Seq(STRING) /\ Len(StoredPrefix(key.prefix)) <= 2
    BY <2>1, <2>2, StoredPrefixType
  <2>4. Identity(key) \in Principal
    BY <2>2, <2>3 DEF Identity, Principal
  <2> QED
    BY <1>2, <1>3, <2>1, <2>2, <2>3, <2>4
<1> QED
  BY <1>2, <1>4, <1>5

\* The authenticated client is one that AllowedMeaning speaks of.
LEMMA Client ==
    ASSUME InHand, Authorized, pc \in Checking \ {"authenticate"}
    PROVE  /\ principal \in Principal
           /\ principal.prefix \in Seq(STRING) /\ Len(principal.prefix) <= 2
<1>1. Good(settings) /\ req \in Request
  BY DEF InHand, Checking
<1>2. PICK key \in Presented : principal = Identity(key)
  BY DEF Authorized
<1>3. principal \in Principal /\ Len(principal.prefix) <= 2
  BY <1>1, <1>2, PresentedType
<1> QED
  BY <1>3 DEF Principal

\* A key that grants the request is the one that was presented, or API_KEY was.
LEMMA Granting ==
    ASSUME Good(settings), req \in Request, NEW other \in Keys, Grants(other),
           NEW key \in Presented
    PROVE  key = other \/ key = Legacy
BY PresentedKeys DEF Grants

\* The folder check passes a key that grants the request.
LEMMA GrantedFolder ==
    ASSUME NEW key, key.prefix \in Seq(STRING) \union {None},
           Place \in Seq(STRING), Len(Place) = 2
    PROVE  Covers(key.prefix, Place) <=>
              \E n \in 0..2 : StoredPrefix(key.prefix) = SubSeq(Place, 1, n)
<1>1. CASE key.prefix = None
  <2>1. StoredPrefix(key.prefix) = <<>>
    BY <1>1 DEF StoredPrefix
  <2>2. SubSeq(Place, 1, 0) = <<>>
    BY PlaceFront, EmptySeq
  <2> QED
    BY <1>1, <2>1, <2>2 DEF Covers
<1>2. CASE key.prefix # None
  BY <1>2, PrefixMeaning DEF StoredPrefix
<1> QED
  BY <1>1, <1>2
-------------------------------------------------------------------------------
\* The invariant holds initially, and every step preserves it.

LEMMA Kept ==
    ASSUME UNCHANGED <<settings, req, op>>
    PROVE  /\ Presented' = Presented /\ Place' = Place /\ Keys' = Keys
           /\ \A key : Grants(key)' <=> Grants(key)
           /\ principal' = principal => Allowed' = Allowed
<1>1. Legacy' = Legacy /\ Place' = Place
  BY DEF Legacy, Place, FormPlace
<1>2. Presented' = Presented /\ Keys' = Keys
  BY <1>1 DEF Presented, Keys
<1>3. ASSUME NEW key PROVE Grants(key)' <=> Grants(key)
  BY <1>1 DEF Grants, Covers
<1>4. principal' = principal => Allowed' = Allowed
  BY <1>1 DEF Allowed, Compare
<1> QED
  BY <1>1, <1>2, <1>3, <1>4

LEMMA InitialInvariant ==
    ASSUME Init
    PROVE  Invariant
<1>1. TypeOK
  BY DEF Init, TypeOK, Labels, Endpoints
<1>2. InHand /\ Authorized /\ GrantIsHonoured
  BY DEF Init, InHand, Authorized, GrantIsHonoured, Checking
<1> QED
  BY <1>1, <1>2 DEF Invariant

\* Any answer that respects the keys.
LEMMA AnswerInvariant ==
    ASSUME Invariant, pc # "down", pc' = "answered", UNCHANGED <<settings, request>>,
           files' \subseteq Seq(STRING),
           status' \in {200, 201, 204, 400, 401, 403, 404, 405, 409, 422, 500},
           status' \in {401, 403} => \A key \in Keys : ~Grants(key),
           status' = 500 => /\ principal.prefix # <<>>
                            /\ ToSet(Place \o principal.prefix) \intersect NonAscii # {}
    PROVE  Invariant'
<1>1. UNCHANGED <<settings, req, op, principal>>
  BY DEF request
<1>2. Place' = Place /\ Keys' = Keys /\ \A key : Grants(key)' <=> Grants(key)
  BY <1>1, Kept
<1>3. TypeOK'
  BY <1>1 DEF Invariant, TypeOK, Labels
<1>4. InHand' /\ Authorized'
  BY <1>1 DEF Invariant, InHand, Authorized, Checking, Good, Accepted
<1>5. GrantIsHonoured'
  BY <1>1, <1>2 DEF GrantIsHonoured
<1> QED
  BY <1>3, <1>4, <1>5 DEF Invariant

LEMMA ServerUpDown ==
    ASSUME Invariant, Start \/ Stop \/ Receive \/ Close
    PROVE  Invariant'
<1>1. CASE Start
  <2>1. PICK s \in Candidates : Accepted(s) /\ settings' = s
    BY <1>1 DEF Start
  <2>2. Good(settings')
    BY <2>1 DEF Good
  <2>3. settings' # None
    BY <2>1, AccessAssumption
  <2>4. status = 0 /\ UNCHANGED <<files, req, op, principal, status>> /\ pc' = "idle"
    BY <1>1 DEF Invariant, InHand, Start, request
  <2>5. TypeOK'
    BY <2>1, <2>3, <2>4 DEF Invariant, TypeOK, Labels
  <2>6. InHand' /\ Authorized' /\ GrantIsHonoured'
    BY <2>2, <2>4 DEF InHand, Authorized, GrantIsHonoured, Checking, Good, Accepted
  <2> QED
    BY <2>5, <2>6 DEF Invariant
<1>2. CASE Stop
  <2>1. TypeOK'
    BY <1>2 DEF Stop, Forget, Invariant, TypeOK, Labels, Endpoints
  <2>2. InHand' /\ Authorized' /\ GrantIsHonoured'
    BY <1>2 DEF Stop, Forget, InHand, Authorized, GrantIsHonoured, Checking
  <2> QED
    BY <2>1, <2>2 DEF Invariant
<1>3. CASE Receive
  <2>1. /\ req' \in Request /\ pc = "idle" /\ pc' = "route"
        /\ UNCHANGED <<settings, files, op, principal, status>>
    BY <1>3, AccessAssumption DEF Receive
  <2>2. TypeOK'
    BY <2>1 DEF Invariant, TypeOK, Labels
  <2>3. status = 0 /\ Good(settings)
    BY <2>1 DEF Invariant, InHand
  <2>4. InHand' /\ Authorized' /\ GrantIsHonoured'
    BY <2>1, <2>3 DEF InHand, Authorized, GrantIsHonoured, Checking, Good, Accepted
  <2> QED
    BY <2>2, <2>4 DEF Invariant
<1>4. CASE Close
  <2>1. TypeOK'
    BY <1>4 DEF Close, Forget, Invariant, TypeOK, Labels, Endpoints
  <2>2. InHand' /\ Authorized' /\ GrantIsHonoured'
    BY <1>4 DEF Close, Forget, Invariant, InHand, Authorized, GrantIsHonoured, Checking,
                Good, Accepted
  <2> QED
    BY <2>1, <2>2 DEF Invariant
<1> QED
  BY <1>1, <1>2, <1>3, <1>4

LEMMA RoutingInvariant ==
    ASSUME Invariant, Redirect \/ Dispatch \/ Ping \/ NoRoute \/ ReadBody
    PROVE  Invariant'
<1>0. /\ pc \in {"route", "body"} /\ status = 0 /\ Good(settings) /\ req \in Request
      /\ files \subseteq Seq(STRING) /\ settings # None
  BY DEF Redirect, Dispatch, Ping, NoRoute, ReadBody, Invariant, InHand, TypeOK
<1>p. req.path \in Seq(STRING)
  BY <1>0 DEF Request
<1>1. ASSUME NEW path \in Seq(STRING), req' = [req EXCEPT !.path = path], pc = "route",
             UNCHANGED <<settings, files, pc, op, principal, status>>
      PROVE  Invariant'
  <2>1. req' \in Request
    BY <1>0, <1>1 DEF Request
  <2>2. TypeOK'
    BY <1>1, <2>1 DEF Invariant, TypeOK, Labels
  <2>3. InHand' /\ Authorized' /\ GrantIsHonoured'
    BY <1>0, <1>1, <2>1 DEF InHand, Authorized, GrantIsHonoured, Checking, Good, Accepted
  <2> QED
    BY <2>2, <2>3 DEF Invariant
<1>2. CASE Redirect
  <2>1. TrimEnd(req.path) \in Seq(STRING)
    BY <1>p, TrimEndType
  <2>2. req' = [req EXCEPT !.path = TrimEnd(req.path)]
    BY <1>2 DEF Redirect
  <2> QED
    BY <1>1, <1>2, <2>1, <2>2 DEF Redirect
<1>3. CASE Dispatch
  <2>1. /\ op' = Served(req.method, req.path) /\ op' \in DOMAIN Scope
        /\ pc' = IF op' = "upload_file" THEN "body" ELSE "authenticate"
        /\ UNCHANGED <<settings, files, req, principal, status>>
    BY <1>3, ServedShape DEF Dispatch, Goto, Endpoints
  <2>2. op' # "upload_file" => Len(req.path) >= 3
    BY <2>1, ServedShape DEF Filed
  <2>3. op' \in Endpoints
    BY <2>1 DEF Endpoints
  <2>4. TypeOK'
    BY <1>0, <2>1, <2>3 DEF Invariant, TypeOK, Labels
  <2>5. InHand' /\ Authorized' /\ GrantIsHonoured'
    BY <1>0, <2>1, <2>2 DEF InHand, Authorized, GrantIsHonoured, Checking, Good, Accepted
  <2> QED
    BY <2>4, <2>5 DEF Invariant
<1>4. CASE Ping
  BY <1>0, <1>4, AnswerInvariant DEF Ping, Answer
<1>5. CASE NoRoute
  <2>1. CASE Known(Append(req.path, "")) /\ ~Known(req.path)
    <3>1. Append(req.path, "") \in Seq(STRING)
      BY <1>p, AccessAssumption, AppendProperties
    <3>2. req' = [req EXCEPT !.path = Append(req.path, "")]
      BY <1>5, <2>1 DEF NoRoute
    <3> QED
      BY <1>1, <1>5, <2>1, <3>1, <3>2 DEF NoRoute
  <2>2. CASE ~ (Known(Append(req.path, "")) /\ ~Known(req.path))
    <3>1. /\ pc' = "answered" /\ status' \in {404, 405}
          /\ UNCHANGED <<settings, files, request>>
      BY <1>5, <2>2 DEF NoRoute, Answer
    <3> QED
      BY <1>0, <3>1, AnswerInvariant
  <2> QED
    BY <2>1, <2>2
<1>6. CASE ReadBody
  <2>1. CASE Answer(400)
    BY <1>0, <2>1, AnswerInvariant DEF Answer
  <2>2. CASE req.form # None /\ Goto("authenticate") /\ UNCHANGED request
    <3>1. pc = "body" /\ op = "upload_file"
      BY <1>6 DEF ReadBody, Invariant, InHand
    <3>2. pc' = "authenticate" /\ UNCHANGED <<settings, files, req, op, principal, status>>
      BY <2>2 DEF Goto, request
    <3>3. TypeOK'
      BY <1>0, <3>2 DEF Invariant, TypeOK, Labels
    <3>4. InHand' /\ Authorized' /\ GrantIsHonoured'
      BY <1>0, <2>2, <3>1, <3>2
      DEF InHand, Authorized, GrantIsHonoured, Checking, Good, Accepted, Scope
    <3> QED
      BY <3>3, <3>4 DEF Invariant
  <2> QED
    BY <1>6, <2>1, <2>2 DEF ReadBody
<1> QED
  BY <1>2, <1>3, <1>4, <1>5, <1>6

LEMMA CheckingInvariant ==
    ASSUME Invariant, Authenticate \/ CheckScope \/ Validate \/ CheckFolder
    PROVE  Invariant'
<1>0. /\ pc \in Checking /\ pc # "down" /\ status = 0 /\ Good(settings) /\ settings # None
      /\ req \in Request /\ op \in DOMAIN Scope /\ files \subseteq Seq(STRING)
      /\ IF op = "upload_file" THEN req.form # None ELSE Len(req.path) >= 3
  BY DEF Authenticate, CheckScope, Validate, CheckFolder, Invariant, InHand, TypeOK, Checking
<1>1. CASE Authenticate
  <2>1. CASE (\A key \in Presented : ~key.enabled) /\ Answer(401)
    <3>1. \A other \in Keys : ~Grants(other)
      <4> SUFFICES ASSUME NEW other \in Keys, Grants(other) PROVE FALSE
        OBVIOUS
      <4>1. Presented = {Legacy} \/ Presented = {other}
        BY <1>0, PresentedKeys DEF Grants
      <4>2. Legacy.enabled /\ other.enabled
        BY DEF Legacy, Grants
      <4> QED
        BY <2>1, <4>1, <4>2
    <3> QED
      BY <1>0, <2>1, <3>1, AnswerInvariant DEF Answer
  <2>2. CASE \E key \in Presented :
                /\ key.enabled
                /\ principal' = [id |-> key.id, scopes |-> key.scopes,
                                 prefix |-> StoredPrefix(key.prefix)]
                /\ Goto("scope")
                /\ UNCHANGED <<req, op>>
    <3>1. PICK key \in Presented : key.enabled /\ principal' = Identity(key)
      BY <2>2 DEF Identity
    <3>2. pc' = "scope" /\ UNCHANGED <<settings, files, req, op, status>>
      BY <2>2 DEF Goto
    <3>3. Presented' = Presented
      BY <3>2, Kept
    <3>4. principal' \in Principal
      BY <1>0, <3>1, PresentedType
    <3>5. principal' # None
      BY <3>4, AccessAssumption
    <3>6. TypeOK'
      BY <1>0, <3>2, <3>4, <3>5 DEF Invariant, TypeOK, Labels
    <3>7. InHand' /\ GrantIsHonoured'
      BY <1>0, <3>2 DEF InHand, GrantIsHonoured, Checking, Good, Accepted
    <3>8. Authorized'
      <4>1. \E k \in Presented' : k.enabled /\ principal' = Identity(k)
        BY <3>1, <3>3
      <4>2. \A k : Identity(k)' = Identity(k)
        BY DEF Identity, StoredPrefix, Parts, Trim
      <4> QED
        BY <3>2, <4>1 DEF Authorized, Identity, StoredPrefix, Parts, Trim
    <3> QED
      BY <3>6, <3>7, <3>8 DEF Invariant
  <2> QED
    BY <1>1, <2>1, <2>2 DEF Authenticate
<1>2. CASE CheckScope
  <2>p. PICK key \in Presented : key.enabled /\ principal = Identity(key)
    BY <1>2 DEF CheckScope, Invariant, Authorized, Checking
  <2>s. principal.scopes = key.scopes
    BY <1>0, <2>p, PresentedType
  <2>1. CASE {"admin", Scope[op]} \intersect principal.scopes = {} /\ Answer(403)
    <3>1. \A other \in Keys : ~Grants(other)
      <4> SUFFICES ASSUME NEW other \in Keys, Grants(other) PROVE FALSE
        OBVIOUS
      <4>1. key = other \/ key = Legacy
        BY <1>0, Granting
      <4>2. "admin" \in Legacy.scopes
        BY DEF Legacy
      <4>3. {"admin", Scope[op]} \intersect other.scopes # {}
        BY DEF Grants
      <4> QED
        BY <2>1, <2>s, <4>1, <4>2, <4>3
    <3> QED
      BY <1>0, <2>1, <3>1, AnswerInvariant DEF Answer
  <2>2. CASE /\ {"admin", Scope[op]} \intersect principal.scopes # {}
             /\ Goto("validate") /\ UNCHANGED request
    <3>1. pc' = "validate" /\ UNCHANGED <<settings, files, req, op, principal, status>>
      BY <2>2 DEF Goto, request
    <3>2. Presented' = Presented
      BY <3>1, Kept
    <3>3. TypeOK'
      BY <1>0, <1>2, <3>1 DEF CheckScope, Invariant, TypeOK, Labels
    <3>4. InHand' /\ GrantIsHonoured'
      BY <1>0, <3>1 DEF InHand, GrantIsHonoured, Checking, Good, Accepted
    <3>5. Authorized'
      BY <2>2, <2>p, <3>1, <3>2 DEF Authorized, Identity, StoredPrefix, Parts, Trim
    <3> QED
      BY <3>3, <3>4, <3>5 DEF Invariant
  <2> QED
    BY <1>2, <2>1, <2>2 DEF CheckScope
<1>3. CASE Validate
  <2>p. /\ \E key \in Presented : key.enabled /\ principal = Identity(key)
        /\ {"admin", Scope[op]} \intersect principal.scopes # {}
    BY <1>3 DEF Validate, Invariant, Authorized, Checking
  <2>1. CASE ~ValidInput /\ Answer(422)
    BY <1>0, <2>1, AnswerInvariant DEF Answer
  <2>2. CASE ValidInput /\ Goto("folder") /\ UNCHANGED request
    <3>1. pc' = "folder" /\ UNCHANGED <<settings, files, req, op, principal, status>>
      BY <2>2 DEF Goto, request
    <3>2. Presented' = Presented /\ Place' = Place
      BY <3>1, Kept
    <3>3. Place \in Seq(STRING) /\ Len(Place) = 2
      <4>1. CASE op = "upload_file"
        <5>1. req.form \in Form
          BY <1>0, <4>1 DEF Request
        <5>2. req.form.folder \in Seq(STRING) /\ req.form.subfolder \in Seq(STRING)
          BY <5>1 DEF Form
        <5>3. Len(req.form.folder) = 1 /\ Len(req.form.subfolder) = 1
          BY <2>2, <4>1 DEF ValidInput, Routeable
        <5>4. FormPlace(req.form) \in Seq(STRING) /\ Len(FormPlace(req.form)) = 2
          <6> DEFINE f == req.form.folder
                     g == req.form.subfolder
          <6>1. f \in Seq(STRING) /\ g \in Seq(STRING) /\ Len(f) = 1 /\ Len(g) = 1
            BY <5>2, <5>3
          <6> HIDE DEF f, g
          <6>2. f \o g \in Seq(STRING) /\ Len(f \o g) = Len(f) + Len(g)
            BY <6>1, ConcatProperties
          <6> QED
            BY <6>1, <6>2 DEF FormPlace, f, g
        <5> QED
          BY <4>1, <5>4 DEF Place
      <4>2. CASE op # "upload_file"
        <5>1. req.path \in Seq(STRING) /\ Len(req.path) >= 3 /\ Len(req.path) \in Nat
          BY <1>0, <4>2, LenProperties DEF Request
        <5>2. \A i \in 2..3 : req.path[i] \in STRING
          BY <5>1, ElementOfSeq
        <5>3. SubSeq(req.path, 2, 3) \in Seq(STRING) /\ Len(SubSeq(req.path, 2, 3)) = 2
          BY <5>2, SubSeqProperties
        <5> QED
          BY <4>2, <5>3 DEF Place
      <4> QED
        BY <4>1, <4>2
    <3>4. TypeOK'
      BY <1>0, <1>3, <3>1 DEF Validate, Invariant, TypeOK, Labels
    <3>5. InHand' /\ GrantIsHonoured'
      BY <1>0, <3>1, <3>2, <3>3 DEF InHand, GrantIsHonoured, Checking, Good, Accepted
    <3>6. Authorized'
      BY <2>p, <3>1, <3>2 DEF Authorized, Identity, StoredPrefix, Parts, Trim
    <3> QED
      BY <3>4, <3>5, <3>6 DEF Invariant
  <2> QED
    BY <1>3, <2>1, <2>2 DEF Validate
<1>4. CASE CheckFolder
  <2>i. InHand /\ Authorized /\ pc = "folder"
    BY <1>4 DEF CheckFolder, Invariant
  <2>p. PICK key \in Presented : key.enabled /\ principal = Identity(key)
    BY <2>i DEF Authorized, Checking
  <2>q. /\ {"admin", Scope[op]} \intersect principal.scopes # {}
        /\ Place \in Seq(STRING) /\ Len(Place) = 2
    BY <2>i DEF Authorized, InHand
  <2>r. principal.prefix \in Seq(STRING) /\ Len(principal.prefix) <= 2
    BY <2>i, Client DEF Checking
  <2>1. CASE Allowed = "equal" /\ Goto("backend") /\ UNCHANGED request
    <3>1. pc' = "backend" /\ UNCHANGED <<settings, files, req, op, principal, status>>
      BY <2>1 DEF Goto, request
    <3>2. Presented' = Presented /\ Place' = Place /\ Allowed' = Allowed
      BY <3>1, Kept
    <3>3. TypeOK'
      BY <1>0, <2>i, <2>q, <3>1, <3>2 DEF Invariant, TypeOK, Labels
    <3>4. InHand' /\ GrantIsHonoured'
      BY <1>0, <2>q, <3>1, <3>2 DEF InHand, GrantIsHonoured, Checking, Good, Accepted
    <3>5. Authorized'
      BY <2>1, <2>p, <2>q, <3>1, <3>2 DEF Authorized, Identity, StoredPrefix, Parts, Trim
    <3> QED
      BY <3>3, <3>4, <3>5 DEF Invariant
  <2>2. CASE Allowed = "different" /\ Answer(403)
    <3>1. \A n \in 0..2 : principal.prefix # SubSeq(Place, 1, n)
      BY <2>2, <2>q, <2>r, AllowedMeaning
    <3>2. principal.prefix = StoredPrefix(key.prefix) /\ key.prefix \in Seq(STRING) \union {None}
      BY <1>0, <2>p, PresentedType
    <3>3. ~Covers(key.prefix, Place)
      BY <2>q, <3>1, <3>2, GrantedFolder
    <3>4. ASSUME NEW other \in Keys, Grants(other) PROVE FALSE
      <4>1. key = other \/ key = Legacy
        BY <1>0, <3>4, Granting
      <4>2. Covers(Legacy.prefix, Place)
        BY DEF Covers, Legacy
      <4>3. Covers(other.prefix, Place)
        BY <3>4 DEF Grants
      <4> QED
        BY <3>3, <4>1, <4>2, <4>3
    <3> QED
      BY <1>0, <2>2, <3>4, AnswerInvariant DEF Answer
  <2>3. CASE Allowed = "error" /\ Answer(500)
    <3>1. /\ principal.prefix # <<>>
          /\ ToSet(Place \o principal.prefix) \intersect NonAscii # {}
      BY <2>3, <2>q, <2>r, AllowedMeaning
    <3> QED
      BY <1>0, <2>3, <3>1, AnswerInvariant DEF Answer
  <2> QED
    BY <1>4, <2>1, <2>2, <2>3 DEF CheckFolder
<1> QED
  BY <1>1, <1>2, <1>3, <1>4

LEMMA ServeInvariant ==
    ASSUME Invariant, Serve
    PROVE  Invariant'
<1>1. InHand /\ pc = "backend" /\ files \subseteq Seq(STRING) /\ pc # "down"
  BY DEF Serve, Invariant, TypeOK
<1>2. req \in Request /\ op \in DOMAIN Scope /\ Place \in Seq(STRING)
      /\ (op = "upload_file" => req.form # None)
  BY <1>1 DEF InHand, Checking
<1>3. op = "upload_file" => Target \in Seq(STRING)
  <2> SUFFICES ASSUME op = "upload_file" PROVE Target \in Seq(STRING)
    OBVIOUS
  <2>1. Name \in Seq(STRING)
    BY <1>2 DEF Name, Request, Form
  <2> QED
    BY <1>2, <2>1, ConcatProperties DEF Target
<1>4. /\ pc' = "answered" /\ status' \in {200, 201, 204, 400, 404, 409}
      /\ files' \subseteq Seq(STRING) /\ UNCHANGED <<settings, request>>
  <2>1. CASE Save
    <3>1. op = "upload_file" /\ files \union {Target} \subseteq Seq(STRING)
      BY <1>1, <1>3, <2>1 DEF Save
    <3>2. Finish(201, files \union {Target}) \/ Finish(409, files)
      BY <2>1 DEF Save
    <3> QED
      BY <1>1, <3>1, <3>2 DEF Finish
  <2>2. CASE Find
    BY <1>1, <2>2 DEF Find, Finish
  <2>3. CASE Delete
    BY <1>1, <2>3 DEF Delete, Finish
  <2>4. CASE List
    <3>1. Finish(200, files) \/ Finish(404, files)
      BY <2>4, Zenon DEF List
    <3> QED
      BY <1>1, <3>1 DEF Finish
  <2>5. CASE Refuse
    BY <1>1, <2>5 DEF Refuse, Finish
  <2> QED
    BY <2>1, <2>2, <2>3, <2>4, <2>5 DEF Serve
<1> QED
  BY <1>1, <1>4, AnswerInvariant

LEMMA StutterInvariant ==
    ASSUME Invariant, UNCHANGED vars
    PROVE  Invariant'
<1>1. UNCHANGED <<settings, files, pc, req, op, principal, status>>
  BY DEF vars, request
<1>2. /\ Presented' = Presented /\ Place' = Place /\ Keys' = Keys /\ Allowed' = Allowed
      /\ \A key : Grants(key)' <=> Grants(key)
  BY <1>1, Kept
<1>3. TypeOK'
  BY <1>1, <1>2 DEF Invariant, TypeOK
<1>4. InHand' /\ GrantIsHonoured'
  BY <1>1, <1>2 DEF Invariant, InHand, GrantIsHonoured, Good, Accepted
<1>5. Authorized'
  BY <1>1, <1>2 DEF Invariant, Authorized, Identity, StoredPrefix, Parts, Trim
<1> QED
  BY <1>3, <1>4, <1>5 DEF Invariant

LEMMA Invariance == Spec => []Invariant
<1>1. Init => Invariant
  BY InitialInvariant
<1>2. Invariant /\ [Next]_vars => Invariant'
  <2> SUFFICES ASSUME Invariant, Next PROVE Invariant'
    BY StutterInvariant
  <2> QED
    BY ServerUpDown, RoutingInvariant, CheckingInvariant, ServeInvariant DEF Next, ServerStep
<1> QED
  BY <1>1, <1>2, PTL DEF Spec
-------------------------------------------------------------------------------
\* A request that passed the checks is one that a key grants, under its name.
LEMMA PassedIsGranted ==
    ASSUME Invariant
    PROVE  OnlyGranted
<1> SUFFICES ASSUME pc = "backend"
             PROVE  \E key \in Keys :
                       /\ Grants(key)
                       /\ key.id = principal.id
                       /\ \A other \in Keys :
                             other.id = key.id => other = key \/ key.id = "legacy-admin"
  BY DEF OnlyGranted
<1>1. /\ Good(settings) /\ req \in Request /\ Place \in Seq(STRING) /\ Len(Place) = 2
      /\ InHand /\ Authorized
  BY DEF Invariant, InHand, Checking
<1>2. PICK key \in Presented : key.enabled /\ principal = Identity(key)
  BY <1>1 DEF Authorized, Checking
<1>3. /\ key \in Keys /\ key.secret = req.key
  BY <1>1, <1>2, PresentedKeys
<1>4. /\ key = Legacy \/ \E i \in DOMAIN settings.keys : key = settings.keys[i]
      /\ key.prefix \in Seq(STRING) \union {None}
      /\ principal.scopes = key.scopes
      /\ principal.prefix = StoredPrefix(key.prefix)
      /\ principal.id = key.id
  BY <1>1, <1>2, PresentedType
<1>5. {"admin", Scope[op]} \intersect key.scopes # {}
  BY <1>1, <1>4 DEF Authorized
<1>6. Covers(key.prefix, Place)
  <2>1. Allowed = "equal"
    BY <1>1 DEF Authorized
  <2>2. principal.prefix \in Seq(STRING) /\ Len(principal.prefix) <= 2
    BY <1>1, Client DEF Checking
  <2>3. \E n \in 0..2 : principal.prefix = SubSeq(Place, 1, n)
    BY <1>1, <2>1, <2>2, AllowedMeaning
  <2> QED
    BY <1>1, <1>4, <2>3, GrantedFolder
<1>7. ASSUME NEW other \in Keys, other.id = key.id
      PROVE  other = key \/ key.id = "legacy-admin"
  <2>1. other = Legacy \/ \E i \in DOMAIN settings.keys : other = settings.keys[i]
    BY DEF Keys, ToSet
  <2>2. Legacy.id = "legacy-admin"
    BY DEF Legacy
  <2>3. \A i, j \in DOMAIN settings.keys : settings.keys[i].id = settings.keys[j].id => i = j
    BY <1>1, GoodSettings
  <2> QED
    BY <1>4, <1>7, <2>1, <2>2, <2>3
<1> QED
  BY <1>2, <1>3, <1>4, <1>5, <1>6, <1>7 DEF Grants

\* Type correctness; the place of a request that reaches the backend has a folder
\* and a subfolder.
THEOREM TypeCorrectness == Spec => []TypeOK
BY Invariance, PTL DEF Invariant

\* auth.py: no request reaches the backend that no key grants.
THEOREM NothingIsGrantedInError == Spec => []OnlyGranted
<1>1. Invariant => OnlyGranted
  BY PassedIsGranted
<1> QED
  BY <1>1, Invariance, PTL

\* auth.py: no request is refused that a key grants, but for names outside ASCII.
THEOREM NothingIsRefusedInError == Spec => []GrantIsHonoured
BY Invariance, PTL DEF Invariant

-------------------------------------------------------------------------------
\* How a client resolves a path without dot segments.
\* One step of Resolve.
Step(done, s) ==
    CASE s = "."  -> done
      [] s = ".." -> SubSeq(done, 1, Len(done) - 1)
      [] OTHER    -> Append(done, s)

\* The function that the fold in Resolve is defined by, on the first n segments.
Walks(F, path, n) ==
    F = [s \in SUBSET (1..n) |->
            IF s = {} THEN <<>> ELSE Step(F[s \ {Max(s)}], path[Max(s)])]

\* The last of the first n + 1 positions is n + 1.
LEMMA MaxOfLast ==
    ASSUME NEW n \in Nat, NEW s \in SUBSET (1..(n + 1)), n + 1 \in s
    PROVE  Max(s) = n + 1
<1>1. Max(s) \in s
  BY MaxIsIn
<1>2. \A x \in s : n + 1 >= x
  OBVIOUS
<1>3. \A y \in s : Max(s) >= y
  <2>1. n + 1 \in s /\ \A y \in s : n + 1 >= y
    BY <1>2
  <2> QED
    BY <2>1 DEF Max
<1>4. Max(s) >= n + 1
  BY <1>3
<1>5. Max(s) \in 1..(n + 1)
  BY <1>1
<1> QED
  BY <1>4, <1>5

\* One segment more.
LEMMA WalksFurther ==
    ASSUME NEW path, NEW n \in Nat, NEW F, Walks(F, path, n)
    PROVE  \E G : Walks(G, path, n + 1)
<1> DEFINE G == [s \in SUBSET (1..(n + 1)) |->
                    IF n + 1 \in s THEN Step(F[s \ {n + 1}], path[n + 1]) ELSE F[s]]
           H == [s \in SUBSET (1..(n + 1)) |->
                    IF s = {} THEN <<>> ELSE Step(G[s \ {Max(s)}], path[Max(s)])]
<1>1. ASSUME NEW s \in SUBSET (1..(n + 1)) PROVE G[s] = H[s]
  <2>1. CASE n + 1 \in s
    <3>1. Max(s) = n + 1
      BY <2>1, MaxOfLast
    <3>2. s \ {n + 1} \in SUBSET (1..(n + 1)) /\ n + 1 \notin s \ {n + 1}
      OBVIOUS
    <3>3. G[s \ {n + 1}] = F[s \ {n + 1}]
      BY <3>2
    <3>4. G[s] = Step(F[s \ {n + 1}], path[n + 1])
      BY <2>1
    <3>5. H[s] = Step(G[s \ {n + 1}], path[n + 1])
      BY <2>1, <3>1
    <3> QED
      BY <3>3, <3>4, <3>5
  <2>2. CASE n + 1 \notin s
    <3>1. s \in SUBSET (1..n)
      BY <2>2
    <3>2. G[s] = F[s]
      BY <2>2
    <3>3. CASE s = {}
      BY <3>1, <3>2, <3>3 DEF Walks
    <3>4. CASE s # {}
      <4>1. s \ {Max(s)} \in SUBSET (1..n) /\ s \ {Max(s)} \in SUBSET (1..(n + 1))
            /\ n + 1 \notin s \ {Max(s)}
        BY <2>2, <3>1
      <4>2. G[s \ {Max(s)}] = F[s \ {Max(s)}]
        BY <4>1
      <4>3. F[s] = Step(F[s \ {Max(s)}], path[Max(s)])
        BY <3>1, <3>4 DEF Walks
      <4>4. H[s] = Step(G[s \ {Max(s)}], path[Max(s)])
        BY <3>4
      <4> QED
        BY <3>2, <4>2, <4>3, <4>4
    <3> QED
      BY <3>3, <3>4
  <2> QED
    BY <2>1, <2>2
<1>2. G = H
  BY <1>1
<1> HIDE DEF G
<1>3. Walks(G, path, n + 1)
  BY <1>2 DEF Walks
<1> QED
  BY <1>3

\* The function exists for every length.
LEMMA WalkExists ==
    ASSUME NEW path, NEW n \in Nat
    PROVE  \E F : Walks(F, path, n)
<1> DEFINE Bad == {m \in Nat : ~ \E F : Walks(F, path, m)}
<1>1. SUFFICES ASSUME Bad # {} PROVE FALSE
  OBVIOUS
<1>2. PICK m \in Bad : \A k \in Bad : m <= k
  <2>1. Bad \in SUBSET Nat
    OBVIOUS
  <2> HIDE DEF Bad
  <2> QED
    BY <1>1, <2>1, LeastNatural
<1>3. CASE m = 0
  <2> DEFINE F == [s \in SUBSET (1..0) |-> <<>>]
             H == [s \in SUBSET (1..0) |->
                      IF s = {} THEN <<>> ELSE Step(F[s \ {Max(s)}], path[Max(s)])]
  <2>1. \A s \in SUBSET (1..0) : s = {}
    OBVIOUS
  <2>2. F = H
    BY <2>1
  <2> HIDE DEF F
  <2>3. Walks(F, path, 0)
    BY <2>2 DEF Walks
  <2> QED
    BY <1>3, <2>3
<1>4. CASE m # 0
  <2>1. m - 1 \in Nat /\ m - 1 \notin Bad
    BY <1>2, <1>4
  <2>2. PICK F : Walks(F, path, m - 1)
    BY <2>1
  <2>3. \E G : Walks(G, path, (m - 1) + 1)
    BY <2>1, <2>2, WalksFurther
  <2>4. (m - 1) + 1 = m
    BY <1>2
  <2> QED
    BY <1>2, <2>3, <2>4
<1> QED
  BY <1>3, <1>4

\* Resolve is its value for the whole path.
LEMMA ResolveWalks ==
    ASSUME NEW S, NEW path \in Seq(S)
    PROVE  \E F : Walks(F, path, Len(path)) /\ Resolve(path) = F[1..Len(path)]
<1> DEFINE n == Len(path)
           F == CHOOSE F : Walks(F, path, n)
<1>1. n \in Nat /\ DOMAIN path = 1..n
  BY LenProperties
<1>2. Walks(F, path, n)
  BY <1>1, WalkExists
<1>3. Resolve(path) = F[DOMAIN path]
  BY <1>1 DEF Resolve, FoldLeft, MapThenFoldSet, Walks, Step
<1> HIDE DEF F
<1> QED
  BY <1>1, <1>2, <1>3

\* A client leaves a path without dot segments alone.
LEMMA NoDotsStay ==
    ASSUME NEW S, NEW path \in Seq(S), ToSet(path) \intersect {".", ".."} = {}
    PROVE  Resolve(path) = path
<1>1. Len(path) \in Nat /\ DOMAIN path = 1..Len(path)
  BY LenProperties
<1>2. PICK F : Walks(F, path, Len(path)) /\ Resolve(path) = F[1..Len(path)]
  BY ResolveWalks
<1> DEFINE Bad == {m \in Nat : m <= Len(path) /\ F[1..m] # SubSeq(path, 1, m)}
<1>3. Bad = {}
  <2> SUFFICES ASSUME Bad # {} PROVE FALSE
    OBVIOUS
  <2>1. PICK m \in Bad : \A k \in Bad : m <= k
    <3>1. Bad \in SUBSET Nat
      OBVIOUS
    <3> HIDE DEF Bad
    <3> QED
      BY <3>1, LeastNatural
  <2>2. CASE m = 0
    <3>1. 1..0 = {} /\ {} \in SUBSET (1..Len(path))
      OBVIOUS
    <3>2. F[{}] = <<>>
      BY <1>2, <3>1 DEF Walks
    <3>3. SubSeq(path, 1, 0) = <<>>
      BY <1>1, SubSeqProperties, EmptySeq
    <3> QED
      BY <2>1, <2>2, <3>1, <3>2, <3>3
  <2>3. CASE m # 0
    <3>1. m \in 1..Len(path) /\ m - 1 \in Nat /\ m - 1 \notin Bad
      BY <1>1, <2>1, <2>3
    <3>2. F[1..(m - 1)] = SubSeq(path, 1, m - 1)
      BY <1>1, <3>1
    <3>3. 1..m \in SUBSET (1..Len(path)) /\ 1..m # {}
      <4>1. m \in 1..m
        BY <3>1
      <4>2. ASSUME NEW i \in 1..m PROVE i \in 1..Len(path)
        BY <1>1, <3>1
      <4> QED
        BY <4>1, <4>2
    <3>4. Max(1..m) = m
      <4>1. m \in 1..((m - 1) + 1) /\ (m - 1) + 1 = m
        BY <3>1
      <4> QED
        BY <3>1, <4>1, MaxOfLast
    <3>5. (1..m) \ {m} = 1..(m - 1)
      BY <3>1
    <3>6. F[1..m] = Step(SubSeq(path, 1, m - 1), path[m])
      BY <1>2, <3>2, <3>3, <3>4, <3>5 DEF Walks
    <3>7. path[m] \notin {".", ".."}
      BY <1>1, <3>1 DEF ToSet
    <3>8. F[1..m] = Append(SubSeq(path, 1, m - 1), path[m])
      BY <3>6, <3>7 DEF Step
    <3>9. Append(SubSeq(path, 1, m - 1), path[m]) = SubSeq(path, 1, m)
      BY <1>1, <3>1
    <3> QED
      BY <2>1, <3>8, <3>9
  <2> QED
    BY <2>2, <2>3
<1>4. F[1..Len(path)] = SubSeq(path, 1, Len(path))
  BY <1>1, <1>3
<1>5. SubSeq(path, 1, Len(path)) = path
  BY <1>1
<1> QED
  BY <1>2, <1>4, <1>5

-------------------------------------------------------------------------------
\* Which route serves the path of a file.

\* The routes, one by one.
LEMMA RouteTable ==
    /\ DOMAIN Routes = 1..8
    /\ Routes[1].method = "POST"
    /\ Routes[2].method = "GET" /\ Routes[2].path = <<"files", Param, Param, "metadata">>
    /\ Routes[3].method = "GET" /\ Routes[3].op = "get_metadata"
    /\ Routes[3].path = Append(File, "metadata")
    /\ Routes[4].method = "HEAD" /\ Routes[4].op = "head_file" /\ Routes[4].path = File
    /\ Routes[5].method = "GET" /\ Routes[5].path = <<"files", Param, Param>>
    /\ Routes[6].method = "GET" /\ Routes[6].op = "get_file" /\ Routes[6].path = File
    /\ Routes[7].method = "DELETE" /\ Routes[7].op = "delete_file" /\ Routes[7].path = File
    /\ Routes[8].method = "GET" /\ Routes[8].path = <<"ping">>
<1>1. DOMAIN Routes = 1..8 /\ Routes[1].method = "POST"
  BY DEF Routes, Route
<1>2. Routes[2].method = "GET" /\ Routes[2].path = <<"files", Param, Param, "metadata">>
  BY DEF Routes, Route
<1>3. /\ Routes[3].method = "GET" /\ Routes[3].op = "get_metadata"
      /\ Routes[3].path = Append(File, "metadata")
  BY DEF Routes, Route
<1>4. Routes[4].method = "HEAD" /\ Routes[4].op = "head_file" /\ Routes[4].path = File
  BY DEF Routes, Route
<1>5. Routes[5].method = "GET" /\ Routes[5].path = <<"files", Param, Param>>
  BY DEF Routes, Route
<1>6. Routes[6].method = "GET" /\ Routes[6].op = "get_file" /\ Routes[6].path = File
  BY DEF Routes, Route
<1>7. Routes[7].method = "DELETE" /\ Routes[7].op = "delete_file" /\ Routes[7].path = File
  BY DEF Routes, Route
<1>8. Routes[8].method = "GET" /\ Routes[8].path = <<"ping">>
  BY DEF Routes, Route
<1> QED
  BY <1>1, <1>2, <1>3, <1>4, <1>5, <1>6, <1>7, <1>8

\* The only route that takes a request serves it.
LEMMA OnlyTaker ==
    ASSUME NEW method, NEW path, NEW n \in 1..8,
           \A i \in 1..8 :
              Routes[i].method = method /\ Matches(Routes[i], path) <=> i = n
    PROVE  Served(method, path) = Routes[n].op
<1> DEFINE takers == {i \in DOMAIN Routes : Routes[i].method = method /\ Matches(Routes[i], path)}
<1>1. takers = {n} /\ takers # {}
  BY RouteTable
<1>2. Min(takers) = n
  <2>1. takers \in SUBSET Nat
    BY <1>1
  <2> HIDE DEF takers
  <2>2. Min(takers) \in takers
    BY <1>1, <2>1, MinIsIn
  <2> QED
    BY <1>1, <2>2
<1> QED
  BY <1>1, <1>2 DEF Served

LEMMA FilePath ==
    /\ Len(File) = 4
    /\ File[1] = "files" /\ File[2] = Param /\ File[3] = Param /\ File[4] = Param
<1>1. Len(File) = 4
  BY DEF File
<1>2. File[1] = "files" /\ File[2] = Param /\ File[3] = Param /\ File[4] = Param
  BY DEF File
<1> QED
  BY <1>1, <1>2

LEMMA MetadataPath ==
    LET path == Append(File, "metadata")
    IN  /\ Len(path) = 5
        /\ path[1] = "files" /\ path[2] = Param /\ path[3] = Param /\ path[4] = Param
        /\ path[5] = "metadata"
<1> DEFINE path == Append(File, "metadata")
<1>1. Len(path) = 5
  BY DEF File
<1>2. path[1] = "files" /\ path[2] = Param
  BY DEF File
<1>3. path[3] = Param /\ path[4] = Param
  BY DEF File
<1>4. path[5] = "metadata"
  BY DEF File
<1> QED
  BY <1>1, <1>2, <1>3, <1>4

LEMMA FolderPaths ==
    /\ Len(<<"ping">>) = 1
    /\ Len(<<"files", Param, Param>>) = 3
    /\ Len(<<"files", Param, Param, "metadata">>) = 4
    /\ <<"files", Param, Param, "metadata">>[4] = "metadata"
OBVIOUS

LEMMA EightRoutes ==
    ASSUME NEW i \in 1..8
    PROVE  i = 1 \/ i = 2 \/ i = 3 \/ i = 4 \/ i = 5 \/ i = 6 \/ i = 7 \/ i = 8
OBVIOUS

LEMMA FivePlaces ==
    /\ \A i \in 1..4 : i = 1 \/ i = 2 \/ i = 3 \/ i = 4
    /\ \A i \in 1..5 : i = 1 \/ i = 2 \/ i = 3 \/ i = 4 \/ i = 5
    /\ {1, 2, 3, 4, 5, 6, 7, 8} \subseteq 1..8
    /\ 4 \in 1..4
OBVIOUS

\* The shapes of the paths of a file and of its metadata.
PathOfFile(p) ==
    /\ Len(p) = 4 /\ DOMAIN p = 1..4
    /\ p[1] = "files" /\ p[2] # "" /\ p[3] # "" /\ p[4] # ""

PathOfMetadata(q) ==
    /\ Len(q) = 5 /\ DOMAIN q = 1..5
    /\ q[1] = "files" /\ q[2] # "" /\ q[3] # "" /\ q[4] # "" /\ q[5] = "metadata"

\* The path of a file is served by the endpoints for a file, but where it is called
\* metadata.
LEMMA FileRoutes ==
    ASSUME NEW p, PathOfFile(p)
    PROVE  /\ Served("HEAD", p) = "head_file"
           /\ Served("DELETE", p) = "delete_file"
           /\ p[4] # "metadata" => Served("GET", p) = "get_file"
<1>1. Len(p) = Len(File) /\ \A i \in DOMAIN p : p[i] = File[i] \/ (File[i] = Param /\ p[i] # "")
  BY FivePlaces, FilePath DEF PathOfFile
<1>2. Matches(Routes[4], p) /\ Matches(Routes[6], p) /\ Matches(Routes[7], p)
  BY <1>1, RouteTable DEF Matches
<1>3. p[4] # "metadata" => ~Matches(Routes[2], p)
  <2>1. 4 \in DOMAIN p
    BY FivePlaces, Zenon DEF PathOfFile
  <2>2. "metadata" # Param
    BY DEF Param
  <2> QED
    BY <2>1, <2>2, FolderPaths, RouteTable DEF Matches
<1>4. ~Matches(Routes[3], p) /\ ~Matches(Routes[5], p) /\ ~Matches(Routes[8], p)
  <2>1. Len(p) = 4
    BY Zenon DEF PathOfFile
  <2> QED
    BY <2>1, FolderPaths, MetadataPath, RouteTable DEF Matches
<1>5. ASSUME NEW i \in 1..8
      PROVE  /\ Routes[i].method = "HEAD" /\ Matches(Routes[i], p) <=> i = 4
             /\ Routes[i].method = "DELETE" /\ Matches(Routes[i], p) <=> i = 7
             /\ p[4] # "metadata" =>
                   (Routes[i].method = "GET" /\ Matches(Routes[i], p) <=> i = 6)
  BY <1>2, <1>3, <1>4, EightRoutes, RouteTable
<1>6. Served("HEAD", p) = Routes[4].op
  BY <1>5, FivePlaces, OnlyTaker
<1>7. Served("DELETE", p) = Routes[7].op
  BY <1>5, FivePlaces, OnlyTaker
<1>8. p[4] # "metadata" => Served("GET", p) = Routes[6].op
  BY <1>5, FivePlaces, OnlyTaker
<1> QED
  BY <1>6, <1>7, <1>8, RouteTable

\* The path of the metadata of a file is served by their endpoint.
LEMMA MetadataRoutes ==
    ASSUME NEW q, PathOfMetadata(q)
    PROVE  Served("GET", q) = "get_metadata"
<1>1. /\ Len(q) = Len(Append(File, "metadata"))
      /\ \A i \in DOMAIN q : \/ q[i] = Append(File, "metadata")[i]
                             \/ Append(File, "metadata")[i] = Param /\ q[i] # ""
  BY FivePlaces, MetadataPath DEF PathOfMetadata
<1>2. Matches(Routes[3], q)
  BY <1>1, RouteTable DEF Matches
<1>3. /\ ~Matches(Routes[2], q) /\ ~Matches(Routes[5], q)
      /\ ~Matches(Routes[6], q) /\ ~Matches(Routes[8], q)
  <2>1. Len(q) = 5
    BY Zenon DEF PathOfMetadata
  <2> QED
    BY <2>1, FolderPaths, FilePath, RouteTable DEF Matches
<1>4. ASSUME NEW i \in 1..8
      PROVE  Routes[i].method = "GET" /\ Matches(Routes[i], q) <=> i = 3
  BY <1>2, <1>3, EightRoutes, RouteTable
<1>5. Served("GET", q) = Routes[3].op
  BY <1>4, FivePlaces, OnlyTaker
<1> QED
  BY <1>5, RouteTable

-------------------------------------------------------------------------------
\* What the names of a stored file are.
Named(f) == f \in Seq(STRING) /\ Len(f) = 3 /\ \A i \in 1..3 : f[i] \notin {"", ".", ".."}

\* The paths of a stored file have these shapes, and no dot segments.
LEMMA PathOf ==
    ASSUME NEW f, Named(f)
    PROVE  LET p == <<"files">> \o f
               q == Append(p, "metadata")
               S == STRING \union {"files", "metadata"}
           IN  /\ p \in Seq(S) /\ PathOfFile(p) /\ p[4] = f[3]
               /\ ToSet(p) \intersect {".", ".."} = {}
               /\ q \in Seq(S) /\ PathOfMetadata(q)
               /\ ToSet(q) \intersect {".", ".."} = {}
<1> DEFINE S == STRING \union {"files", "metadata"}
           p == <<"files">> \o f
           q == Append(p, "metadata")
<1>1. f \in Seq(S) /\ Len(f) = 3
  BY SeqMonotonic DEF Named
<1>2. "files" \in S /\ "metadata" \in S
  OBVIOUS
<1>3. <<"files">> \in Seq(S) /\ Len(<<"files">>) = 1 /\ <<"files">>[1] = "files"
  BY <1>2
<1>4. /\ f[1] # "" /\ f[1] # "." /\ f[1] # ".."
      /\ f[2] # "" /\ f[2] # "." /\ f[2] # ".."
      /\ f[3] # "" /\ f[3] # "." /\ f[3] # ".."
  <2>1. 1 \in 1..3 /\ 2 \in 1..3 /\ 3 \in 1..3
    OBVIOUS
  <2> QED
    BY <2>1, Zenon DEF Named
<1> HIDE DEF S
<1>5. /\ p \in Seq(S)
      /\ Len(p) = 4 /\ p[1] = "files" /\ p[2] = f[1] /\ p[3] = f[2] /\ p[4] = f[3]
  <2> DEFINE h == <<"files">>
  <2>1. h \in Seq(S) /\ Len(h) = 1 /\ h[1] = "files"
    BY <1>3
  <2> HIDE DEF h
  <2>2. /\ h \o f \in Seq(S)
        /\ Len(h \o f) = Len(h) + Len(f)
        /\ \A i \in 1..(Len(h) + Len(f)) :
              (h \o f)[i] = IF i <= Len(h) THEN h[i] ELSE f[i - Len(h)]
    BY <1>1, <2>1, ConcatProperties
  <2> QED
    BY <1>1, <2>1, <2>2 DEF h
<1>s. p \in Seq(S)
  BY <1>5
<1> HIDE DEF p
<1>6. DOMAIN p = 1..4
  BY <1>5, LenProperties
<1>7. /\ q \in Seq(S) /\ Len(q) = 5
      /\ q[1] = p[1] /\ q[2] = p[2] /\ q[3] = p[3] /\ q[4] = p[4] /\ q[5] = "metadata"
  <2>1. /\ q \in Seq(S) /\ Len(q) = Len(p) + 1
        /\ \A i \in 1..Len(p) : q[i] = p[i]
        /\ q[Len(p) + 1] = "metadata"
    BY <1>2, <1>s, AppendProperties
  <2> QED
    BY <1>5, <2>1
<1> HIDE DEF q
<1>8. DOMAIN q = 1..5
  BY <1>7, LenProperties
<1>9. PathOfFile(p) /\ ToSet(p) \intersect {".", ".."} = {}
  <2>1. p[1] = "files" /\ p[2] # "" /\ p[3] # "" /\ p[4] # ""
    BY <1>4, <1>5, Zenon
  <2>2. PathOfFile(p)
    BY <1>5, <1>6, <2>1, Zenon DEF PathOfFile
  <2>3. \A i \in 1..4 : p[i] # "." /\ p[i] # ".."
    BY <1>4, <1>5, FivePlaces, Zenon
  <2>4. ToSet(p) \intersect {".", ".."} = {}
    BY <1>6, <2>3, Zenon DEF ToSet
  <2> QED
    BY <2>2, <2>4
<1>10. PathOfMetadata(q) /\ ToSet(q) \intersect {".", ".."} = {}
  <2>1. q[1] = "files" /\ q[2] # "" /\ q[3] # "" /\ q[4] # "" /\ q[5] = "metadata"
    BY <1>4, <1>5, <1>7, Zenon
  <2>2. PathOfMetadata(q)
    BY <1>7, <1>8, <2>1, Zenon DEF PathOfMetadata
  <2>3. \A i \in 1..5 : q[i] # "." /\ q[i] # ".."
    BY <1>4, <1>5, <1>7, FivePlaces, Zenon
  <2>4. ToSet(q) \intersect {".", ".."} = {}
    BY <1>8, <2>3, Zenon DEF ToSet
  <2> QED
    BY <2>2, <2>4
<1> QED
  BY <1>5, <1>7, <1>9, <1>10 DEF p, q, S

\* An upload that passed the validation is to a folder and subfolder that round-trip,
\* and so is every file that was stored.
Storable ==
    /\ pc \in {"folder", "backend"} /\ op = "upload_file" =>
          Routeable(req.form.folder) /\ Routeable(req.form.subfolder)
    /\ \A f \in files : Named(f)

\* The backend only stores under names that passed.
LEMMA SavedIsNamed ==
    ASSUME Invariant, Storable, pc = "backend", Save
    PROVE  Named(Target)
<1> DEFINE a == req.form.folder
           b == req.form.subfolder
           c == req.form.name
           Good3(s) == s \notin {"", ".", ".."}
<1>1. op = "upload_file" /\ ValidName
  BY DEF Save
<1>2. req \in Request /\ req.form # None
  BY <1>1 DEF Invariant, InHand, Checking
<1>3. req.form \in Form
  BY <1>2 DEF Request
<1>4. a \in Seq(STRING) /\ b \in Seq(STRING) /\ c \in Seq(STRING)
  BY <1>3 DEF Form
<1>5. Len(a) = 1 /\ Len(b) = 1 /\ Good3(a[1]) /\ Good3(b[1])
  BY <1>1 DEF Storable, Routeable
<1>6. Len(c) = 1 /\ Good3(c[1])
  BY <1>1 DEF ValidName, Name
<1>7. Target = (a \o b) \o c
  BY <1>1 DEF Target, Place, FormPlace, Name
<1> HIDE DEF a, b, c, Good3
<1>8. /\ a \o b \in Seq(STRING) /\ Len(a \o b) = 2
      /\ (a \o b)[1] = a[1] /\ (a \o b)[2] = b[1]
  <2>1. /\ a \o b \in Seq(STRING) /\ Len(a \o b) = Len(a) + Len(b)
        /\ \A i \in 1..(Len(a) + Len(b)) :
              (a \o b)[i] = IF i <= Len(a) THEN a[i] ELSE b[i - Len(a)]
    BY <1>4, ConcatProperties
  <2> QED
    BY <1>5, <2>1
<1> DEFINE d == a \o b
<1>9. d \in Seq(STRING) /\ Len(d) = 2 /\ d[1] = a[1] /\ d[2] = b[1]
  BY <1>8
<1> HIDE DEF d
<1>10. /\ d \o c \in Seq(STRING) /\ Len(d \o c) = 3
       /\ (d \o c)[1] = a[1] /\ (d \o c)[2] = b[1] /\ (d \o c)[3] = c[1]
  <2>1. /\ d \o c \in Seq(STRING) /\ Len(d \o c) = Len(d) + Len(c)
        /\ \A i \in 1..(Len(d) + Len(c)) :
              (d \o c)[i] = IF i <= Len(d) THEN d[i] ELSE c[i - Len(d)]
    BY <1>4, <1>9, ConcatProperties
  <2> QED
    BY <1>6, <1>9, <2>1
<1>11. \A i \in 1..3 : Good3((d \o c)[i])
  BY <1>5, <1>6, <1>10
<1> QED
  BY <1>7, <1>10, <1>11 DEF Named, Good3, d

LEMMA StorableStep ==
    ASSUME Invariant, Storable, [Next]_vars
    PROVE  Storable'
<1>1. CASE Serve
  <2>1. pc' = "answered"
    BY <1>1 DEF Serve, Save, Find, Delete, List, Refuse, Finish
  <2>2. \A f \in files' : f \in files \/ (Save /\ f = Target)
    <3>1. CASE Save
      BY <3>1 DEF Save, Finish
    <3>2. CASE Find \/ Delete \/ List \/ Refuse
      BY <3>2 DEF Find, Delete, List, Refuse, Finish
    <3> QED
      BY <1>1, <3>1, <3>2 DEF Serve
  <2>3. \A f \in files' : Named(f)
    BY <1>1, <2>2, SavedIsNamed DEF Serve, Storable
  <2> QED
    BY <2>1, <2>3 DEF Storable, Named
<1>2. CASE Validate
  BY <1>2 DEF Validate, Storable, Named, Routeable, ValidInput, Answer, Goto, request
<1>3. CASE CheckFolder
  BY <1>3 DEF CheckFolder, Storable, Named, Routeable, Answer, Goto, request
<1>4. CASE Start \/ Stop \/ Receive \/ Close
  BY <1>4 DEF Start, Stop, Receive, Close, Storable, Named
<1>5. CASE Redirect \/ Dispatch \/ Ping \/ NoRoute
  BY <1>5 DEF Redirect, Dispatch, Ping, NoRoute, Storable, Named, Answer, Goto
<1>6. CASE ReadBody \/ Authenticate \/ CheckScope
  BY <1>6 DEF ReadBody, Authenticate, CheckScope, Storable, Named, Answer, Goto
<1>7. CASE UNCHANGED vars
  BY <1>7 DEF vars, request, Storable, Named, Routeable
<1> QED
  BY <1>1, <1>2, <1>3, <1>4, <1>5, <1>6, <1>7 DEF Next, ServerStep

\* upload_schemas.py: every file that was stored is found by its path, whatever the
\* names clients send.
THEOREM StoredIsReachable == Spec => []UploadIsReachable
<1>1. Init => Storable
  BY DEF Init, Storable
<1>2. Invariant /\ Storable /\ [Next]_vars => Storable'
  BY StorableStep
<1>3. Storable => UploadIsReachable
  <2> SUFFICES ASSUME NEW f, Named(f)
               PROVE  LET path == <<"files">> \o f
                      IN  /\ Reaches("head_file", "HEAD", path)
                          /\ Reaches("delete_file", "DELETE", path)
                          /\ Reaches("get_metadata", "GET", Append(path, "metadata"))
                          /\ Reaches("get_file", "GET", path) \/ f[3] = "metadata"
    BY DEF Storable, UploadIsReachable
  <2> DEFINE p == <<"files">> \o f
             q == Append(p, "metadata")
             S == STRING \union {"files", "metadata"}
  <2>1. /\ p \in Seq(S) /\ PathOfFile(p) /\ p[4] = f[3]
        /\ ToSet(p) \intersect {".", ".."} = {}
        /\ q \in Seq(S) /\ PathOfMetadata(q)
        /\ ToSet(q) \intersect {".", ".."} = {}
    BY PathOf
  <2> HIDE DEF p, q, S
  <2>2. Resolve(p) = p /\ Resolve(q) = q
    BY <2>1, NoDotsStay
  <2>3. /\ Served("HEAD", p) = "head_file" /\ Served("DELETE", p) = "delete_file"
        /\ p[4] # "metadata" => Served("GET", p) = "get_file"
        /\ Served("GET", q) = "get_metadata"
    BY <2>1, FileRoutes, MetadataRoutes
  <2> QED
    BY <2>1, <2>2, <2>3 DEF Reaches, p, q
<1> QED
  BY <1>1, <1>2, <1>3, Invariance, PTL DEF Spec
===============================================================================
