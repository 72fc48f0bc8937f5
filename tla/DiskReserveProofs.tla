--------------------------- MODULE DiskReserveProofs ---------------------------
(***************************************************************************)
(* How far concurrent uploads can eat into the disk reserve, for any       *)
(* number of uploads and any sizes.                                        *)
(***************************************************************************)
EXTENDS DiskReserve, FiniteSetTheorems, TLAPS

Types ==
    /\ free \in Int
    /\ size \in [Uploads -> Sizes]
    /\ taken \in [Uploads -> Nat]
    /\ pc \in [Uploads -> Labels]

\* Each upload between its check and its write holds a chunk that the others
\* could not see when they checked.
Margin == free >= Reserve + Cardinality(Writing) - (Cardinality(Uploads) - 1)

Inv == Types /\ (Reserve > 0 => Margin)

\* The uploads that are writing are finitely many, at most all of them.
LEMMA WritingCount ==
    /\ Cardinality(Uploads) \in Nat /\ Cardinality(Uploads) >= 1
    /\ IsFiniteSet(Writing)
    /\ Cardinality(Writing) \in Nat
    /\ Cardinality(Writing) <= Cardinality(Uploads)
<1>1. IsFiniteSet(Uploads) /\ Writing \subseteq Uploads
  BY DiskAssumption DEF Writing
<1>2. Cardinality(Uploads) \in Nat /\ Cardinality(Uploads) # 0
  BY <1>1, FS_CardinalityType, FS_EmptySet, DiskAssumption
<1>3. IsFiniteSet(Writing) /\ Cardinality(Writing) <= Cardinality(Uploads)
  BY <1>1, FS_Subset
<1> QED
  BY <1>2, <1>3, FS_CardinalityType

\* The same of the next state.
LEMMA WritingCountNext ==
    /\ IsFiniteSet(Writing')
    /\ Cardinality(Writing') \in Nat
    /\ Cardinality(Writing') <= Cardinality(Uploads)
<1>1. IsFiniteSet(Uploads) /\ Writing' \subseteq Uploads
  BY DiskAssumption DEF Writing
<1>2. IsFiniteSet(Writing') /\ Cardinality(Writing') <= Cardinality(Uploads)
  BY <1>1, FS_Subset
<1> QED
  BY <1>2, FS_CardinalityType

\* An upload that leaves the writing set leaves it one smaller.
LEMMA LeaveWriting ==
    ASSUME Types, NEW u \in Uploads, pc[u] = "write", NEW label \in Labels \ {"write"},
           Goto(u, label)
    PROVE  Cardinality(Writing') = Cardinality(Writing) - 1
<1>1. Writing' = Writing \ {u} /\ u \in Writing
  BY DEF Types, Goto, Writing
<1> QED
  BY <1>1, WritingCount, FS_RemoveElement

LEMMA InitInv == Init => Inv
<1> SUFFICES ASSUME Init PROVE Inv
  OBVIOUS
<1>1. Types
  BY DiskAssumption DEF Init, Types, Labels
<1>2. Cardinality(Writing) = 0
  <2>1. Writing = {}
    BY DEF Init, Writing
  <2> QED
    BY <2>1, FS_EmptySet
<1>3. Margin
  <2>1. free \in Int /\ free >= Reserve /\ Reserve \in Nat
    BY DiskAssumption DEF Init
  <2>2. Cardinality(Uploads) \in Nat /\ Cardinality(Uploads) >= 1
    BY WritingCount
  <2> QED
    BY <1>2, <2>1, <2>2 DEF Margin
<1> QED
  BY <1>1, <1>3 DEF Inv

LEMMA StepInv == Inv /\ [Next]_vars => Inv'
<1> SUFFICES ASSUME Inv, [Next]_vars PROVE Inv'
  OBVIOUS
<1> USE DiskAssumption DEF Inv
<1>0. /\ Reserve \in Nat /\ free \in Int
      /\ Cardinality(Uploads) \in Nat /\ Cardinality(Writing) \in Nat
  BY WritingCount DEF Types
<1>w. /\ IsFiniteSet(Writing') /\ Cardinality(Writing') \in Nat
      /\ Cardinality(Writing') <= Cardinality(Uploads)
  BY WritingCountNext
<1>1. ASSUME NEW u \in Uploads, CheckPasses(u) PROVE Inv'
  <2>1. Types'
    BY <1>1 DEF CheckPasses, Goto, Types, Labels
  <2>2. ASSUME Reserve > 0 PROVE free' >= Reserve + 1
    BY <1>0, <1>1, <2>2 DEF CheckPasses, HasCapacity
  <2> QED
    BY <1>0, <1>w, <2>1, <2>2 DEF Margin, Types
<1>2. ASSUME NEW u \in Uploads, CheckFails(u) \/ Commit(u) PROVE Inv'
  <2>1. Types'
    BY <1>2 DEF CheckFails, Commit, Goto, Types, Labels
  <2>2. Writing' = Writing
    BY <1>2 DEF CheckFails, Commit, Goto, Types, Writing
  <2> QED
    BY <1>2, <2>1, <2>2 DEF CheckFails, Commit, Margin
<1>3. ASSUME NEW u \in Uploads, Write(u) PROVE Inv'
  <2>1. Types'
    BY <1>3 DEF Write, Goto, Types, Labels
  <2>2. Cardinality(Writing') = Cardinality(Writing) - 1
    BY <1>3, LeaveWriting DEF Write, Labels
  <2> QED
    BY <1>0, <1>3, <2>1, <2>2 DEF Write, Margin
<1>4. ASSUME NEW u \in Uploads, WriteFails(u) PROVE Inv'
  <2>1. Types'
    BY <1>4 DEF WriteFails, Goto, Types, Labels
  <2>2. Cardinality(Writing') = Cardinality(Writing) - 1
    BY <1>4, LeaveWriting DEF WriteFails, Labels
  <2> QED
    BY <1>0, <1>4, <2>1, <2>2 DEF WriteFails, Margin
<1>5. ASSUME NEW u \in Uploads, Discard(u) \/ Remove(u) PROVE Inv'
  <2>1. taken[u] \in Nat /\ free' = free + taken[u]
    BY <1>5 DEF Types, Discard, Remove, Release
  <2>2. Types'
    BY <1>0, <1>5, <2>1 DEF Discard, Remove, Release, Goto, Types, Labels
  <2>3. Writing' = Writing
    BY <1>5 DEF Discard, Remove, Goto, Types, Writing
  <2> QED
    BY <1>0, <2>1, <2>2, <2>3 DEF Margin
<1>6. CASE Crash
  <2>1. Types'
    BY <1>6 DEF Crash, Types, Labels
  <2>2. Writing' \subseteq Writing
    BY <1>6 DEF Crash, Types, Writing
  <2>3. Cardinality(Writing') <= Cardinality(Writing)
    BY <2>2, WritingCount, FS_Subset
  <2> QED
    BY <1>0, <1>w, <1>6, <2>1, <2>3 DEF Crash, Margin
<1>7. CASE UNCHANGED vars
  BY <1>7 DEF vars, Types, Margin, Writing
<1> QED
  BY <1>1, <1>2, <1>3, <1>4, <1>5, <1>6, <1>7 DEF Next

\* However many uploads run, whatever they send and wherever they crash, they
\* never take more of the reserve than one chunk for each but one of them.
THEOREM BoundedOvershoot == Spec => []OvershootIsBounded
<1>1. Inv => OvershootIsBounded
  <2> SUFFICES ASSUME Inv, Reserve > 0
               PROVE  free >= Reserve - (Cardinality(Uploads) - 1)
    BY DEF OvershootIsBounded
  <2>1. free \in Int /\ Margin
    BY DEF Inv, Types
  <2> QED
    BY <2>1, WritingCount, DiskAssumption DEF Margin
<1> QED
  BY <1>1, InitInv, StepInv, PTL DEF Spec

-------------------------------------------------------------------------------
(***************************************************************************)
(* That no space is made out of nothing.  What all uploads have taken is a *)
(* sum; counted as the set of the chunks taken, it needs no induction.     *)
(***************************************************************************)

\* The chunks on the disk: the upload, and which of its chunks.
Chunks == {c \in Uploads \X Nat : c[2] \in 1..taken[c[1]]}

Space ==
    /\ IsFiniteSet(Chunks)
    /\ free \in Nat
    /\ free + Cardinality(Chunks) <= DiskSize

LEMMA ChunksCount ==
    ASSUME IsFiniteSet(Chunks)
    PROVE  Cardinality(Chunks) \in Nat
BY FS_CardinalityType

\* A chunk that is written is a new one.
LEMMA WriteTakes ==
    ASSUME Types, Space, NEW u \in Uploads, Write(u)
    PROVE  Space'
<1>1. taken[u] \in Nat /\ taken' = [taken EXCEPT ![u] = taken[u] + 1]
  BY DEF Types, Write
<1>2. Chunks' = Chunks \union {<<u, taken[u] + 1>>}
  BY <1>1 DEF Chunks, Types
<1>3. <<u, taken[u] + 1>> \notin Chunks
  BY <1>1 DEF Chunks
<1>4. IsFiniteSet(Chunks') /\ Cardinality(Chunks') = Cardinality(Chunks) + 1
  BY <1>2, <1>3, FS_AddElement DEF Space
<1>5. free > 0 /\ free' = free - 1
  BY DEF Write
<1> QED
  BY <1>4, <1>5, ChunksCount DEF Space

\* The chunks of one upload are as many as it has taken.
LEMMA OwnChunks ==
    ASSUME NEW u, NEW n \in Nat
    PROVE  IsFiniteSet({u} \X (1..n)) /\ Cardinality({u} \X (1..n)) = n
<1>1. IsFiniteSet({u}) /\ Cardinality({u}) = 1
  BY FS_Singleton
<1>2. IsFiniteSet(1..n) /\ Cardinality(1..n) = IF 1 > n THEN 0 ELSE n - 1 + 1
  <2>1. 1 \in Int /\ n \in Int
    OBVIOUS
  <2> QED
    BY <2>1, FS_Interval
<1>3. /\ IsFiniteSet({u} \X (1..n))
      /\ Cardinality({u} \X (1..n)) = Cardinality({u}) * Cardinality(1..n)
  <2> DEFINE One == {u}
             Many == 1..n
  <2>1. IsFiniteSet(One) /\ IsFiniteSet(Many)
    BY <1>1, <1>2
  <2> HIDE DEF One, Many
  <2>2. /\ IsFiniteSet(One \X Many)
        /\ Cardinality(One \X Many) = Cardinality(One) * Cardinality(Many)
    BY <2>1, FS_Product
  <2> QED
    BY <2>2 DEF One, Many
<1> QED
  BY <1>1, <1>2, <1>3

\* An upload that is removed gives back as many chunks as it has.
LEMMA ReleaseGivesBack ==
    ASSUME Types, Space, NEW u \in Uploads, Release(u)
    PROVE  Space'
<1> DEFINE Own == {u} \X (1..taken[u])
<1>1. taken[u] \in Nat /\ taken' = [taken EXCEPT ![u] = 0] /\ free' = free + taken[u]
  BY DEF Types, Release
<1>2. IsFiniteSet(Own) /\ Cardinality(Own) = taken[u]
  BY <1>1, OwnChunks
<1>3. \A c : c \in Own <=> c \in Chunks /\ c[1] = u
  BY <1>1 DEF Chunks
<1>4. \A c : c \in Chunks' <=> c \in Chunks /\ c[1] # u
  <2>1. \A v \in Uploads : taken'[v] = IF v = u THEN 0 ELSE taken[v]
    BY <1>1 DEF Types
  <2>2. 1..0 = {}
    OBVIOUS
  <2> QED
    BY <2>1, <2>2 DEF Chunks
<1> HIDE DEF Own
<1>5. Chunks' = Chunks \ Own /\ Chunks \intersect Own = Own
  BY <1>3, <1>4
<1>6. /\ IsFiniteSet(Chunks \ Own)
      /\ Cardinality(Chunks \ Own) = Cardinality(Chunks) - Cardinality(Chunks \intersect Own)
  BY FS_Difference DEF Space
<1>7. IsFiniteSet(Chunks') /\ Cardinality(Chunks') = Cardinality(Chunks) - taken[u]
  BY <1>2, <1>5, <1>6
<1>8. free \in Nat /\ Cardinality(Chunks) \in Nat /\ free + Cardinality(Chunks) <= DiskSize
  BY ChunksCount DEF Space
<1> QED
  BY <1>1, <1>7, <1>8, DiskAssumption DEF Space

LEMMA InitSpace == Init => Space
<1> SUFFICES ASSUME Init PROVE Space
  OBVIOUS
<1>1. Chunks = {}
  BY DEF Init, Chunks
<1>2. IsFiniteSet(Chunks) /\ Cardinality(Chunks) = 0
  BY <1>1, FS_EmptySet
<1> QED
  BY <1>2, DiskAssumption DEF Init, Space

LEMMA StepSpace == Types /\ Space /\ [Next]_vars => Space'
<1> SUFFICES ASSUME Types, Space, [Next]_vars PROVE Space'
  OBVIOUS
<1>1. ASSUME NEW u \in Uploads, Write(u) PROVE Space'
  BY <1>1, WriteTakes
<1>2. ASSUME NEW u \in Uploads, Discard(u) \/ Remove(u) PROVE Space'
  BY <1>2, ReleaseGivesBack DEF Discard, Remove
<1>3. ASSUME UNCHANGED <<free, taken>> PROVE Space'
  BY <1>3 DEF Space, Chunks
<1> QED
  BY <1>1, <1>2, <1>3
  DEF Next, vars, CheckPasses, CheckFails, WriteFails, Commit, Crash

\* However uploads, failures, crashes and removals are mixed, the disk never has
\* more free than it had, and never less than nothing: every chunk that is given
\* back was taken, once.
THEOREM TypeCorrectness == Spec => []TypeOK
<1>1. Inv /\ Space => TypeOK
  <2> SUFFICES ASSUME Inv, Space PROVE TypeOK
    OBVIOUS
  <2>1. free \in 0..DiskSize
    BY ChunksCount, DiskAssumption DEF Space
  <2> QED
    BY <2>1 DEF Inv, Types, TypeOK
<1>2. Init => Inv /\ Space
  BY InitInv, InitSpace
<1>3. Inv /\ Space /\ [Next]_vars => (Inv /\ Space)'
  BY StepInv, StepSpace DEF Inv
<1> QED
  BY <1>1, <1>2, <1>3, PTL DEF Spec
===============================================================================
