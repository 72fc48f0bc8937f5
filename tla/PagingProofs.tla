------------------------------ MODULE PagingProofs ------------------------------
(***************************************************************************)
(* A walk through a folder is in order and complete, for any folder, page  *)
(* size, size of a response of S3 and any changes meanwhile.               *)
(***************************************************************************)
EXTENDS Paging, FiniteSetTheorems, WellFoundedInduction, TLAPS

-------------------------------------------------------------------------------
\* The first names of a set.

LEMMA NamesFinite ==
    ASSUME NEW S \in SUBSET Names
    PROVE  IsFiniteSet(S) /\ Cardinality(S) \in Nat
<1>1. IsFiniteSet(Names)
  BY PagingAssumption, FS_Interval DEF Names
<1> QED
  BY <1>1, FS_Subset, FS_CardinalityType

LEMMA LeastName ==
    ASSUME NEW S \in SUBSET Names, S # {}
    PROVE  \E x \in S : \A y \in S : x <= y
<1>0. S \in SUBSET Nat
  BY PagingAssumption DEF Names
<1>1. IsWellFoundedOn(OpToRel(<, Nat), Nat)
  BY NatLessThanWellFounded
<1>2. PICK x \in S : \A y \in S : ~ (<<y, x>> \in OpToRel(<, Nat))
  BY <1>0, <1>1, WFMin
<1>3. ASSUME NEW y \in S PROVE x <= y
  <2>1. x \in Nat /\ y \in Nat
    BY <1>0
  <2>2. y < x => <<y, x>> \in OpToRel(<, Nat)
    BY <2>1 DEF OpToRel
  <2>3. ~ (y < x)
    BY <1>2, <2>2, Zenon
  <2> QED
    BY <2>1, <2>3
<1> QED
  BY <1>3

\* The first names of S are a part of S without gaps; there is one if S has any.
LEMMA FirstNames ==
    ASSUME NEW S \in SUBSET Names, NEW k \in Nat \ {0}
    PROVE  /\ First(k, S) \in SUBSET Names /\ First(k, S) \subseteq S
           /\ \A n \in First(k, S), m \in S : m <= n => m \in First(k, S)
           /\ S # {} => First(k, S) # {}
<1> DEFINE below(n) == {m \in S : m < n}
<1>0. \A n \in S : n \in Nat
  BY PagingAssumption DEF Names
<1>1. First(k, S) \in SUBSET S
  BY DEF First
<1>2. ASSUME NEW n \in First(k, S), NEW m \in S, m <= n PROVE m \in First(k, S)
  <2>1. n \in S /\ Cardinality(below(n)) < k
    BY DEF First
  <2>2. below(m) \subseteq below(n) /\ below(n) \in SUBSET Names
    <3>1. n \in Nat /\ m \in Nat
      BY <1>0, <2>1
    <3>2. ASSUME NEW l \in S, l < m PROVE l < n
      BY <1>0, <1>2, <3>1, <3>2
    <3> QED
      BY <3>2
  <2>3. Cardinality(below(m)) <= Cardinality(below(n))
    BY <2>2, NamesFinite, FS_Subset
  <2>4. Cardinality(below(m)) \in Nat /\ Cardinality(below(n)) \in Nat
    BY NamesFinite
  <2>5. Cardinality(below(m)) < k
    BY <2>1, <2>3, <2>4
  <2> QED
    BY <2>5 DEF First
<1>3. ASSUME S # {} PROVE First(k, S) # {}
  <2>1. PICK n \in S : \A m \in S : n <= m
    BY <1>3, LeastName
  <2>2. below(n) = {}
    <3>1. ASSUME NEW m \in S, m < n PROVE FALSE
      BY <1>0, <2>1, <3>1
    <3> QED
      BY <3>1
  <2>3. Cardinality(below(n)) < k
    BY <2>2, FS_EmptySet
  <2> QED
    BY <2>3 DEF First
<1> QED
  BY <1>1, <1>2, <1>3

\* A page that is not full is all there is.
LEMMA ShortWindow ==
    ASSUME NEW S \in SUBSET Names, NEW k \in Nat \ {0},
           ~ (Cardinality(First(k + 1, S)) > k)
    PROVE  First(k, First(k + 1, S)) = S
<1> DEFINE W == First(k + 1, S)
<1>0. \A n \in S : n \in Nat
  BY PagingAssumption DEF Names
<1>1. W \in SUBSET Names /\ W \subseteq S /\ Cardinality(W) \in Nat /\ Cardinality(W) <= k
  BY FirstNames, NamesFinite
<1>2. W = S
  <2> SUFFICES ASSUME W # S PROVE FALSE
    OBVIOUS
  <2>1. S \ W # {} /\ S \ W \in SUBSET Names
    BY <1>1
  <2>2. PICK n \in S \ W : \A m \in S \ W : n <= m
    BY <2>1, LeastName
  <2> DEFINE below == {m \in S : m < n}
  <2>3. below \subseteq W
    <3>1. ASSUME NEW m \in S \ W, m < n PROVE FALSE
      BY <1>0, <2>2, <3>1
    <3> QED
      BY <3>1
  <2>4. Cardinality(below) <= Cardinality(W) /\ Cardinality(below) \in Nat
    BY <1>1, <2>3, NamesFinite, FS_Subset
  <2>5. Cardinality(below) < k + 1
    BY <1>1, <2>4
  <2> QED
    BY <2>2, <2>5 DEF First
<1>3. ASSUME NEW n \in W PROVE n \in First(k, W)
  <2> DEFINE below == {m \in W : m < n}
  <2>1. below \subseteq W /\ n \notin below
    <3>1. n \in Nat
      BY <1>0, <1>1
    <3> QED
      BY <3>1
  <2>2. Cardinality(below) < Cardinality(W)
    BY <1>1, <2>1, NamesFinite, FS_Subset
  <2>3. Cardinality(below) \in Nat
    BY <1>1, NamesFinite
  <2> QED
    BY <1>1, <2>2, <2>3 DEF First
<1>4. First(k, W) \subseteq W
  BY DEF First
<1> QED
  BY <1>2, <1>3, <1>4
-------------------------------------------------------------------------------
(***************************************************************************)
(* The inductive invariant.                                                *)
(***************************************************************************)

\* The client has what was always there up to the cursor, and nothing else.
Walked ==
    /\ always \subseteq present /\ present \subseteq ever
    /\ collected \subseteq ever /\ items \subseteq ever
    /\ pc # "done" => \A m \in collected : m <= cursor
    /\ pc # "done" => \A a \in always : a <= cursor => a \in collected

\* While the folder is read: what was always there is among the names found, or
\* is still to be looked at (the local scan), or comes later (S3).
Reading ==
    /\ pc = "check" => always \subseteq items \union todo
    /\ pc = "list" =>
          /\ cursor <= position
          /\ \A n \in items : cursor < n /\ n <= position
          /\ \A a \in always : cursor < a /\ a <= position => a \in items
    /\ pc = "probe" => \A a \in always : a <= cursor
    /\ pc \in {"list", "probe"} => backend = "s3"

\* A set of names after the cursor, without gaps where something was always there.
Gapless(S) ==
    /\ \A n \in S : cursor < n
    /\ \A a \in always, n \in S : cursor < a /\ a <= n => a \in S

\* The page that was found.
Served ==
    /\ pc \in {"describe", "answer"} =>
          /\ Gapless(items)
          /\ more => items # {}
          /\ ~more => \A a \in always : cursor < a => a \in items
    /\ pc = "describe" => metadata /\ todo \subseteq items

Ended ==
    /\ pc # "done" => status = 0
    /\ status = 200 => always \subseteq collected
    /\ status = 404 => backend = "s3" /\ always = {}
    /\ status = 500 => metadata /\ ever # always

Inv == TypeOK /\ Walked /\ Reading /\ Served /\ Ended

LEMMA InitInv == Init => Inv
<1> SUFFICES ASSUME Init PROVE Inv
  OBVIOUS
<1>0. 0 \in 0..N /\ 0 \in 0..MaxChanges
  BY PagingAssumption
<1>1. TypeOK
  BY <1>0 DEF Init, TypeOK, Labels
<1>2. \A n \in Names : ~(n <= 0)
  BY PagingAssumption DEF Names
<1>3. Walked /\ Reading /\ Served /\ Ended
  BY <1>1, <1>2 DEF Init, TypeOK, Walked, Reading, Served, Ended
<1> QED
  BY <1>1, <1>3 DEF Inv

\* A page out of a gapless set.
LEMMA ServePage ==
    ASSUME Inv, UNCHANGED <<backend, present, changes, metadata, always, ever>>,
           pc # "done",
           NEW S \in SUBSET Names, S \subseteq ever, Gapless(S),
           ~ (Cardinality(First(Limit + 1, S)) > Limit)
              => \A a \in always : cursor < a => a \in S,
           Serve(First(Limit, First(Limit + 1, S)), Cardinality(First(Limit + 1, S)) > Limit)
    PROVE  Inv'
<1> DEFINE window == First(Limit + 1, S)
           page == First(Limit, window)
<1>0. Limit \in Nat \ {0} /\ Limit + 1 \in Nat \ {0} /\ N \in Nat /\ \A n \in Names : n \in Nat
  BY PagingAssumption DEF Names
<1>1. /\ window \in SUBSET Names /\ window \subseteq S
      /\ \A n \in window, m \in S : m <= n => m \in window
      /\ S # {} => window # {}
  BY <1>0, FirstNames
<1>2. /\ page \in SUBSET Names /\ page \subseteq window
      /\ \A n \in page, m \in window : m <= n => m \in page
      /\ window # {} => page # {}
  BY <1>0, <1>1, FirstNames
<1>3. Cardinality(window) > Limit => window # {}
  BY <1>0, FS_EmptySet
<1>4. ~ (Cardinality(window) > Limit) => page = S
  BY <1>0, ShortWindow
<1> HIDE DEF window, page
<1>5. /\ items' = page /\ more' = (Cardinality(window) > Limit)
      /\ todo' = (IF metadata THEN page ELSE {})
      /\ pc' = (IF metadata THEN "describe" ELSE "answer")
      /\ UNCHANGED <<cursor, position, collected, status>>
  BY DEF Serve, window, page
<1>6. TypeOK /\ Walked /\ Ended
  BY DEF Inv
<1>7. TypeOK'
  <2>1. more' \in BOOLEAN
    BY <1>5
  <2> QED
    BY <1>2, <1>5, <1>6, <2>1 DEF TypeOK, Labels
<1>8. Walked'
  BY <1>1, <1>2, <1>5, <1>6 DEF Walked
<1>9. Gapless(page)
  <2>1. \A n \in page : n \in S
    BY <1>1, <1>2
  <2>2. ASSUME NEW a \in always, NEW n \in page, cursor < a, a <= n PROVE a \in page
    <3>1. a \in S
      BY <2>1, <2>2 DEF Gapless
    <3> QED
      BY <1>1, <1>2, <2>2, <3>1
  <2> QED
    BY <2>1, <2>2 DEF Gapless
<1>10. Served'
  <2>1. Gapless(items)'
    BY <1>5, <1>9 DEF Gapless
  <2>2. more' => items' # {}
    BY <1>2, <1>3, <1>5
  <2>3. ~more' => \A a \in always' : cursor' < a => a \in items'
    BY <1>4, <1>5 DEF window
  <2>4. pc' = "describe" => metadata' /\ todo' \subseteq items'
    BY <1>5
  <2> QED
    BY <2>1, <2>2, <2>3, <2>4 DEF Served
<1>11. Reading' /\ Ended'
  BY <1>5, <1>6 DEF Reading, Ended
<1> QED
  BY <1>7, <1>8, <1>10, <1>11 DEF Inv

-------------------------------------------------------------------------------
\* One lemma for each step.

Still == UNCHANGED <<backend, present, changes, metadata, always, ever>>

\* What the invariant says of ranks: they are natural numbers.
LEMMA Ranks ==
    ASSUME TypeOK
    PROVE  /\ cursor \in Nat /\ position \in Nat
           /\ \A n \in Names : n \in Nat /\ n > 0
           /\ \A n \in always \union present \union ever \union items \union collected : n \in Names
BY PagingAssumption DEF TypeOK, Names

LEMMA ScanInv == ASSUME Inv, Scan, Still PROVE Inv'
<1>1. TypeOK'
  BY DEF Inv, TypeOK, Scan, Still, Labels
<1>2. Walked' /\ Reading' /\ Served' /\ Ended'
  BY DEF Inv, TypeOK, Walked, Reading, Served, Ended, Scan, Still
<1> QED
  BY <1>1, <1>2 DEF Inv

LEMMA CheckEntryInv == ASSUME Inv, CheckEntry, Still PROVE Inv'
<1>1. TypeOK'
  BY DEF Inv, TypeOK, CheckEntry, Still, Labels
<1>2. Walked' /\ Reading' /\ Served' /\ Ended'
  BY DEF Inv, TypeOK, Walked, Reading, Served, Ended, CheckEntry, Still
<1> QED
  BY <1>1, <1>2 DEF Inv

LEMMA PageInv == ASSUME Inv, Page, Still PROVE Inv'
<1> DEFINE S == Following(items)
<1>1. S \in SUBSET Names /\ S \subseteq ever
  BY DEF Inv, TypeOK, Walked, Following
<1>2. \A a \in always : cursor < a => a \in S
  <2>1. always \subseteq items
    BY DEF Inv, Reading, Page
  <2> QED
    BY <2>1, Ranks DEF Following, Inv
<1>3. Gapless(S)
  BY <1>2, Ranks DEF Gapless, Following, Inv
<1>4. Serve(First(Limit, First(Limit + 1, S)), Cardinality(First(Limit + 1, S)) > Limit)
  BY DEF Page
<1>5. pc # "done"
  BY DEF Page
<1> HIDE DEF S
<1> QED
  BY <1>1, <1>2, <1>3, <1>4, <1>5, ServePage DEF Still

LEMMA StartListInv == ASSUME Inv, StartList, Still PROVE Inv'
<1>1. TypeOK'
  BY DEF Inv, TypeOK, StartList, Still, Labels
<1>2. Walked' /\ Served' /\ Ended'
  BY DEF Inv, TypeOK, Walked, Served, Ended, StartList, Still
<1>3. Reading'
  <2>1. cursor' = cursor /\ position' = cursor /\ items' = {} /\ always' = always
        /\ pc' = "list" /\ backend' = "s3"
    BY DEF StartList, Still
  <2>2. \A a \in always : ~ (cursor < a /\ a <= cursor)
    BY Ranks DEF Inv
  <2>3. cursor <= cursor
    BY Ranks DEF Inv
  <2> QED
    BY <2>1, <2>2, <2>3 DEF Reading
<1> QED
  BY <1>1, <1>2, <1>3 DEF Inv

\* A response of S3: the keys after the position, without gaps.
LEMMA Response ==
    ASSUME TypeOK
    PROVE  /\ Returned \in SUBSET Names /\ Returned \subseteq present
           /\ \A n \in Returned : position < n
           /\ \A n \in Returned, m \in present : position < m /\ m <= n => m \in Returned
           /\ Returned = {} => \A m \in present : m <= position
<1>1. After(position, present) \in SUBSET Names
  BY DEF After, TypeOK
<1>2. /\ Returned \subseteq After(position, present)
      /\ \A n \in Returned, m \in After(position, present) : m <= n => m \in Returned
      /\ Returned = {} => After(position, present) = {}
  BY <1>1, FirstNames, PagingAssumption DEF Returned
<1> QED
  BY <1>1, <1>2, Ranks DEF After, TypeOK

LEMMA ListMoreInv == ASSUME Inv, ListMore, Still PROVE Inv'
<1>0. TypeOK
  BY DEF Inv
<1>1. PICK n \in Returned : IsLast(n, Returned) /\ position' = n
  BY DEF ListMore
<1>2. pc = "list" /\ items' = items \union Returned
      /\ UNCHANGED <<pc, cursor, todo, more, collected, status>>
      /\ UNCHANGED <<backend, present, changes, metadata, always, ever>>
  BY DEF ListMore, Still
<1>3. n \in Names /\ position < n /\ \A m \in Returned : m <= n
  BY <1>0, <1>1, Response DEF IsLast
<1>4. TypeOK'
  <2>1. position' \in 0..N
    BY <1>1, <1>3, PagingAssumption DEF Names
  <2>2. items' \subseteq Names
    BY <1>0, <1>2, Response DEF TypeOK
  <2> QED
    BY <1>0, <1>2, <2>1, <2>2 DEF TypeOK, Labels
<1>5. Walked' /\ Served' /\ Ended'
  BY <1>0, <1>2, Response DEF Inv, Walked, Served, Ended
<1>6. Reading'
  <2>1. cursor <= n
    BY <1>0, <1>2, <1>3, Ranks DEF Inv, Reading
  <2>2. ASSUME NEW m \in items \union Returned PROVE cursor < m /\ m <= n
    <3>1. m \in Nat /\ n \in Nat /\ cursor \in Nat /\ position \in Nat
      BY <1>0, <1>3, Response, Ranks
    <3>2. CASE m \in items
      BY <1>2, <1>3, <3>1, <3>2 DEF Inv, Reading
    <3>3. CASE m \in Returned
      BY <1>0, <1>2, <1>3, <3>1, <3>3, Response DEF Inv, Reading
    <3> QED
      BY <3>2, <3>3
  <2>3. ASSUME NEW a \in always, cursor < a, a <= n PROVE a \in items \union Returned
    <3>1. a \in Nat /\ n \in Nat /\ cursor \in Nat /\ position \in Nat
      BY <1>0, <1>3, Ranks
    <3>2. CASE a <= position
      BY <1>2, <2>3, <3>2 DEF Inv, Reading
    <3>3. CASE position < a
      BY <1>0, <2>3, <3>3, Response DEF Inv, Walked
    <3> QED
      BY <3>1, <3>2, <3>3
  <2> QED
    BY <1>1, <1>2, <2>1, <2>2, <2>3 DEF Inv, Reading
<1> QED
  BY <1>4, <1>5, <1>6 DEF Inv

\* The names found so far and the response just read.
LEMMA AllFound ==
    ASSUME Inv, pc = "list"
    PROVE  /\ items \union Returned \in SUBSET Names
           /\ items \union Returned \subseteq ever
           /\ Gapless(items \union Returned)
           /\ ~IsTruncated => \A a \in always : cursor < a => a \in items \union Returned
<1>0. TypeOK
  BY DEF Inv
<1>1. items \union Returned \in SUBSET Names /\ items \union Returned \subseteq ever
  BY <1>0, Response DEF Inv, TypeOK, Walked
<1>2. ASSUME NEW n \in items \union Returned PROVE cursor < n
  <2>1. n \in Nat /\ cursor \in Nat /\ position \in Nat
    BY <1>0, <1>1, Ranks
  <2>2. CASE n \in items
    BY <2>2 DEF Inv, Reading
  <2>3. CASE n \in Returned
    BY <1>0, <2>1, <2>3, Response DEF Inv, Reading
  <2> QED
    BY <2>2, <2>3
<1>3. ASSUME NEW a \in always, NEW n \in items \union Returned, cursor < a, a <= n
      PROVE  a \in items \union Returned
  <2>1. a \in Nat /\ n \in Nat /\ position \in Nat
    BY <1>0, <1>1, Ranks
  <2>2. CASE a <= position
    BY <1>3, <2>2 DEF Inv, Reading
  <2>3. CASE position < a
    <3>1. n \in Returned
      BY <2>1, <2>3, <1>3 DEF Inv, Reading
    <3> QED
      BY <1>0, <1>3, <2>3, <3>1, Response DEF Inv, Walked
  <2> QED
    BY <2>1, <2>2, <2>3
<1>4. ASSUME ~IsTruncated, NEW a \in always, cursor < a PROVE a \in items \union Returned
  <2>1. a \in Nat /\ position \in Nat
    BY <1>0, Ranks
  <2>2. CASE a <= position
    BY <1>4, <2>2 DEF Inv, Reading
  <2>3. CASE position < a
    BY <1>4, <2>1, <2>3 DEF Inv, Walked, IsTruncated, After
  <2> QED
    BY <2>1, <2>2, <2>3
<1> QED
  BY <1>1, <1>2, <1>3, <1>4 DEF Gapless

LEMMA ListPageInv == ASSUME Inv, ListPage, Still PROVE Inv'
<1> DEFINE S == items \union Returned
<1>1. pc = "list"
  BY DEF ListPage
<1>2. /\ S \in SUBSET Names /\ S \subseteq ever /\ Gapless(S)
      /\ ~IsTruncated => \A a \in always : cursor < a => a \in S
  BY <1>1, AllFound
<1>3. Serve(First(Limit, First(Limit + 1, S)), Cardinality(First(Limit + 1, S)) > Limit)
  BY DEF ListPage, Found
<1>4. ASSUME ~ (Cardinality(First(Limit + 1, S)) > Limit)
      PROVE  \A a \in always : cursor < a => a \in S
  <2>1. Cardinality(First(Limit + 1, S)) # Limit + 1
    BY <1>4, PagingAssumption
  <2>2. ~IsTruncated
    BY <2>1 DEF ListPage, Found
  <2> QED
    BY <1>2, <2>2
<1> HIDE DEF S
<1> QED
  BY <1>1, <1>2, <1>3, <1>4, ServePage DEF Still

LEMMA ListNothingInv == ASSUME Inv, ListNothing, Still PROVE Inv'
<1>0. TypeOK /\ pc = "list" /\ backend = "s3"
  BY DEF Inv, ListNothing, Reading
<1>1. items = {} /\ Returned = {}
  <2>1. Limit + 1 \in Nat \ {0} /\ items \union Returned \in SUBSET Names
    BY <1>0, AllFound, PagingAssumption
  <2> QED
    BY <2>1, FirstNames DEF ListNothing, Found
<1>2. ASSUME NEW a \in always PROVE a <= cursor
  <2>1. a \in Nat /\ cursor \in Nat
    BY <1>0, Ranks
  <2>2. a <= position
    BY <1>0, <1>1, Response DEF Inv, Walked
  <2> QED
    BY <1>0, <1>1, <2>1, <2>2 DEF Inv, Reading
<1>3. CASE cursor = 0
  <2>1. always = {}
    BY <1>0, <1>2, <1>3, Ranks
  <2>2. pc' = "done" /\ status' = 404
        /\ UNCHANGED <<cursor, position, todo, items, more, collected>>
    BY <1>3 DEF ListNothing, Abort
  <2> QED
    BY <1>0, <2>1, <2>2 DEF Inv, Still, TypeOK, Labels, Walked, Reading, Served, Ended
<1>4. CASE cursor # 0
  <2>1. pc' = "probe" /\ UNCHANGED <<cursor, position, todo, items, more, collected, status>>
    BY <1>4 DEF ListNothing
  <2> QED
    BY <1>0, <1>2, <2>1 DEF Inv, Still, TypeOK, Labels, Walked, Reading, Served, Ended
<1> QED
  BY <1>3, <1>4

LEMMA ProbeFolderInv == ASSUME Inv, ProbeFolder, Still PROVE Inv'
<1>0. /\ TypeOK /\ pc = "probe" /\ backend = "s3"
      /\ \A a \in always : ~ (cursor < a)
  BY Ranks DEF Inv, ProbeFolder, Reading
<1>1. CASE present = {}
  <2>1. always = {}
    BY <1>1 DEF Inv, Walked
  <2>2. pc' = "done" /\ status' = 404
        /\ UNCHANGED <<cursor, position, todo, items, more, collected>>
    BY <1>1 DEF ProbeFolder, Abort
  <2> QED
    BY <1>0, <2>1, <2>2 DEF Inv, Still, TypeOK, Labels, Walked, Reading, Served, Ended
<1>2. CASE present # {}
  <2>1. /\ items' = {} /\ more' = FALSE /\ todo' = {}
        /\ pc' = IF metadata THEN "describe" ELSE "answer"
        /\ UNCHANGED <<cursor, position, collected, status>>
    BY <1>2 DEF ProbeFolder, Serve
  <2>2. Gapless(items)'
    BY <2>1 DEF Gapless
  <2>3. TypeOK'
    BY <1>0, <2>1 DEF Still, TypeOK, Labels
  <2>4. Walked' /\ Reading' /\ Ended'
    BY <1>0, <2>1 DEF Inv, Still, Walked, Reading, Ended
  <2>5. Served'
    BY <1>0, <2>1, <2>2 DEF Still, Served
  <2> QED
    BY <2>3, <2>4, <2>5 DEF Inv
<1> QED
  BY <1>1, <1>2

LEMMA DescribeInv == ASSUME Inv, Describe, Still PROVE Inv'
<1>0. TypeOK /\ pc = "describe" /\ metadata /\ todo \subseteq items
  BY DEF Inv, Describe, Served
<1>1. PICK n \in First(1, todo) :
          IF n \in present
          THEN /\ todo' = todo \ {n}
               /\ UNCHANGED <<pc, cursor, position, items, more, collected, status>>
          ELSE Abort(500)
  BY DEF Describe
<1>2. n \in items /\ n \in ever
  BY <1>0 DEF First, Inv, Walked
<1>3. CASE n \in present
  <2>1. todo' = todo \ {n} /\ UNCHANGED <<pc, cursor, position, items, more, collected, status>>
    BY <1>1, <1>3
  <2>2. Gapless(items)' <=> Gapless(items)
    BY <2>1 DEF Gapless, Still
  <2>3. TypeOK'
    BY <1>0, <2>1 DEF Still, TypeOK, Labels
  <2>4. Walked' /\ Reading' /\ Ended'
    BY <1>0, <2>1 DEF Inv, Still, Walked, Reading, Ended
  <2>5. Served'
    BY <1>0, <2>1, <2>2 DEF Inv, Still, Served
  <2> QED
    BY <2>3, <2>4, <2>5 DEF Inv
<1>4. CASE n \notin present
  <2>1. pc' = "done" /\ status' = 500
        /\ UNCHANGED <<cursor, position, todo, items, more, collected>>
    BY <1>1, <1>4 DEF Abort
  <2>2. ever # always
    BY <1>2, <1>4 DEF Inv, Walked
  <2> QED
    BY <1>0, <2>1, <2>2 DEF Inv, Still, TypeOK, Labels, Walked, Reading, Served, Ended
<1> QED
  BY <1>3, <1>4

LEMMA AllDescribedInv == ASSUME Inv, AllDescribed, Still PROVE Inv'
<1>1. Gapless(items)' <=> Gapless(items)
  BY DEF Gapless, AllDescribed, Still
<1>2. TypeOK'
  BY DEF Inv, AllDescribed, Still, TypeOK, Labels
<1>3. Walked' /\ Reading' /\ Ended'
  BY DEF Inv, AllDescribed, Still, Walked, Reading, Ended
<1>4. Served'
  BY <1>1 DEF Inv, AllDescribed, Still, Served
<1> QED
  BY <1>2, <1>3, <1>4 DEF Inv

LEMMA TurnInv == ASSUME Inv, Turn, Still PROVE Inv'
<1>0. /\ TypeOK /\ pc = "answer" /\ Gapless(items)
      /\ more => items # {}
      /\ ~more => \A a \in always : cursor < a => a \in items
      /\ collected' = collected \union items
      /\ UNCHANGED <<position, todo, items, more>>
      /\ UNCHANGED <<backend, present, changes, metadata, always, ever>>
  BY DEF Inv, Served, Turn, Still
<1>1. CASE more
  <2>1. PICK n \in items : IsLast(n, items) /\ cursor' = n
    BY <1>0, <1>1 DEF Turn
  <2>2. pc' = "request" /\ status' = status
    BY <1>0, <1>1 DEF Turn
  <2>3. n \in Names /\ cursor < n /\ \A m \in items : m <= n
    BY <1>0, <2>1 DEF IsLast, Gapless, TypeOK
  <2>4. TypeOK'
    <3>1. cursor' \in 0..N
      BY <2>1, <2>3, PagingAssumption DEF Names
    <3> QED
      BY <1>0, <2>2, <3>1 DEF TypeOK, Labels
  <2>5. Walked'
    <3>1. ASSUME NEW m \in collected \union items PROVE m <= n
      <4>1. m \in Nat /\ n \in Nat /\ cursor \in Nat
        BY <1>0, <2>3, Ranks
      <4> QED
        BY <1>0, <2>3, <4>1, <3>1 DEF Inv, Walked
    <3>2. ASSUME NEW a \in always, a <= n PROVE a \in collected \union items
      <4>1. a \in Nat /\ n \in Nat /\ cursor \in Nat
        BY <1>0, <2>3, Ranks
      <4>2. CASE a <= cursor
        BY <1>0, <4>2 DEF Inv, Walked
      <4>3. CASE cursor < a
        BY <1>0, <3>2, <4>3 DEF Gapless
      <4> QED
        BY <4>1, <4>2, <4>3
    <3> QED
      BY <1>0, <2>1, <3>1, <3>2 DEF Inv, Walked
  <2>6. Reading' /\ Served' /\ Ended'
    BY <1>0, <2>2 DEF Inv, Reading, Served, Ended
  <2> QED
    BY <2>4, <2>5, <2>6 DEF Inv
<1>2. CASE ~more
  <2>1. pc' = "done" /\ status' = 200 /\ cursor' = cursor
    BY <1>2 DEF Turn
  <2>2. ASSUME NEW a \in always PROVE a \in collected \union items
    <3>1. a \in Nat /\ cursor \in Nat
      BY <1>0, Ranks
    <3>2. a <= cursor \/ cursor < a
      BY <3>1
    <3> QED
      BY <1>0, <1>2, <3>2 DEF Inv, Walked
  <2>3. TypeOK'
    BY <1>0, <2>1 DEF TypeOK, Labels
  <2>4. Reading' /\ Served' /\ Ended'
    BY <1>0, <2>1, <2>2 DEF Inv, Reading, Served, Ended
  <2>5. Walked'
    BY <1>0, <2>1 DEF Inv, Walked
  <2> QED
    BY <2>3, <2>4, <2>5 DEF Inv
<1> QED
  BY <1>0, <1>1, <1>2 DEF TypeOK

LEMMA ChangeInv == ASSUME Inv, Change PROVE Inv'
<1>1. UNCHANGED <<backend, metadata, pc, cursor, position, todo, items, more, collected, status>>
      /\ always' = always \intersect present' /\ ever' = ever \union present'
      /\ pc # "done" /\ changes < MaxChanges /\ changes' = changes + 1
  BY DEF Change, server
<1>2. present' \subseteq Names
  BY DEF Change, Inv, TypeOK
<1>3. TypeOK'
  <2>1. changes' \in 0..MaxChanges
    BY <1>1, PagingAssumption DEF Inv, TypeOK
  <2> QED
    BY <1>1, <1>2, <2>1 DEF Inv, TypeOK, Labels
<1>4. Gapless(items) => Gapless(items)'
  BY <1>1 DEF Gapless
<1>5. Walked'
  BY <1>1 DEF Inv, Walked
<1>6. Reading'
  BY <1>1 DEF Inv, Reading
<1>7. Served'
  BY <1>1, <1>4 DEF Inv, Served
<1>8. Ended'
  BY <1>1 DEF Inv, Ended
<1> QED
  BY <1>3, <1>5, <1>6, <1>7, <1>8 DEF Inv

LEMMA StepInv == Inv /\ [Next]_vars => Inv'
<1> SUFFICES ASSUME Inv, [Next]_vars PROVE Inv'
  OBVIOUS
<1>1. CASE ServerStep
  <2>1. Still
    BY <1>1 DEF ServerStep, Still
  <2> QED
    BY <1>1, <2>1, ScanInv, CheckEntryInv, PageInv, StartListInv, ListMoreInv, ListPageInv,
       ListNothingInv, ProbeFolderInv, DescribeInv, AllDescribedInv, TurnInv DEF ServerStep
<1>2. CASE Change
  BY <1>2, ChangeInv
<1>3. CASE UNCHANGED vars
  <2>1. Gapless(items)' <=> Gapless(items)
    BY <1>3 DEF Gapless, vars, server
  <2> QED
    BY <1>3, <2>1 DEF Inv, TypeOK, Walked, Reading, Served, Ended, vars, server
<1> QED
  BY <1>1, <1>2, <1>3 DEF Next

LEMMA Invariance == Spec => []Inv
BY InitInv, StepInv, PTL DEF Spec

-------------------------------------------------------------------------------

\* Every variable of the walk has its type.
THEOREM TypeCorrectness == Spec => []TypeOK
<1>1. Inv => TypeOK
  BY DEF Inv
<1> QED
  BY <1>1, Invariance, PTL

\* No file comes twice, and the pages are in order (_page_response and the cursor),
\* for any folder and page size.
THEOREM InOrder == Spec => []NothingTwice
<1>1. Inv => NothingTwice
  <2> SUFFICES ASSUME Inv, pc = "answer", NEW n \in items, NEW m \in collected PROVE m < n
    BY DEF NothingTwice
  <2>1. m \in Nat /\ n \in Nat /\ cursor \in Nat
    BY Ranks DEF Inv
  <2>2. m <= cursor /\ cursor < n
    BY DEF Inv, Walked, Served, Gapless
  <2> QED
    BY <2>1, <2>2
<1> QED
  BY <1>1, Invariance, PTL

\* A walk that ends well has shown every file that was there all the time, for any
\* folder, page size, size of an S3 response and number of changes.
THEOREM Complete == Spec => []WalkIsComplete
<1>1. Inv => WalkIsComplete
  BY DEF Inv, Walked, Ended, WalkIsComplete
<1> QED
  BY <1>1, Invariance, PTL

\* Only a folder that changes during the walk, or one that is empty on S3, makes it
\* end with an error.
THEOREM NoSpuriousError == Spec => []OnlyChangesFail
<1>1. Inv => OnlyChangesFail
  BY DEF Inv, Ended, OnlyChangesFail
<1> QED
  BY <1>1, Invariance, PTL
===============================================================================
