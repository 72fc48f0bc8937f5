--------------------------- MODULE LocalSweepProofs ---------------------------
(***************************************************************************)
(* What a cycle of the cleaner takes away from the local backend, and what *)
(* it leaves, for any requests, files, calls and any bounds.               *)
(***************************************************************************)
EXTENDS LocalSweepHistory, LocalStorageProofs

-------------------------------------------------------------------------------
\* The inductive invariant, on top of that of LocalStorageProofs.

\* A name that stayed is still there.
Linked == stayed \subseteq {n \in Names : Exists(n)}

\* No file was written in the future.
Past == \A i \in Names : mtime[i] <= clock

Listed(n) ==
    n \in sweep.todo \/ (sweep.pc \in {"stat", "unlink"} /\ n = sweep.cur)

\* From its listing on, the cleaner has yet to look at what has expired and stayed.
Covered ==
    sweep.pc \in {"next", "stat", "unlink"} =>
        \A n \in stayed : Expired(dir[n]) => Listed(n)

\* A file that it is about to remove and that stayed has expired.
Judged ==
    (sweep.pc = "unlink" /\ sweep.cur \in Slots \intersect stayed) => Expired(dir[sweep.cur])

SweepInvariant == Linked /\ Past /\ Covered /\ Judged

-------------------------------------------------------------------------------
\* A step as the cleaner sees it.

\* A write makes a file younger, and only a file that is not yet committed.
LEMMA WritesAreLate ==
    ASSUME Inv, Past, [Next]_vars, NEW i \in Names
    PROVE  /\ mtime'[i] = mtime[i] \/ (mtime'[i] = clock /\ i \in Requests
                                      /\ pc[i] \in {"open_temp", "write"})
           /\ mtime[i] <= mtime'[i]
           /\ mtime'[i] <= clock'
<1> USE DEF Inv, TypeOK, FilesOK
<1>1. mtime[i] \in Nat /\ clock \in Nat /\ mtime[i] <= clock
  BY BoundsAssumption DEF Past
<1>2. mtime'[i] = mtime[i] \/ (mtime'[i] = clock /\ i \in Requests
                               /\ pc[i] \in {"open_temp", "write"})
  <2>1. ASSUME NEW r \in Requests, RequestStep(r)
        PROVE  mtime'[i] = mtime[i] \/ (mtime'[i] = clock /\ i \in Requests
                                        /\ pc[i] \in {"open_temp", "write"})
    <3>1. CASE OpenTemp(r)
      BY <3>1 DEF OpenTemp
    <3>2. CASE WriteChunk(r)
      BY <3>2 DEF WriteChunk
    <3>3. CASE UNCHANGED mtime
      BY <3>3
    <3> QED
      BY <2>1, <3>1, <3>2, <3>3
         DEF RequestStep, SaveStep, FindStep, files, RefuseIfExists, EnsureDir, FinalExists,
             LegacyExists, OpenTempFails, RejectSize, WriteFails, EndOfStream,
             CommitReplace, CommitLink, CommitFails, TempExists, TempUnlink,
             PurgeExists, PurgeUnlink, DirExists, CurrentExists, LegacyLookup, Stat,
             SendStat, Open, DeleteProbe, DeleteUnlink, DeleteEnd
  <2>2. CASE SweepStep \/ Tick \/ ServerCrash \/ CleanerCrash \/ UNCHANGED vars
    BY <2>2 DEF SweepStep, Tick, ServerCrash, CleanerCrash, files, vars
  <2> QED
    BY <2>1, <2>2 DEF Next
<1>3. clock' \in {clock, clock + 1}
  BY DEF Next, RequestStep, SweepStep, Tick, ServerCrash, CleanerCrash, vars
<1> QED
  BY <1>1, <1>2, <1>3

\* What a client can see is not written to any more.
LEMMA VisibleIsOld ==
    ASSUME Inv, Past, [Next]_vars, NEW s \in Slots, Exists(s)
    PROVE  mtime'[dir[s]] = mtime[dir[s]]
<1>1. s \in Names /\ dir[s] \in Names
  BY DEF Names, Inv, TypeOK, FilesOK, Exists
<1>2. dir[s] \in Requests => pc[dir[s]] \notin {"open_temp", "write"}
  BY DEF Inv, Visible
<1> QED
  BY <1>1, <1>2, WritesAreLate

\* Only the cleaner moves the cleaner, but for its crash.
LEMMA SweepMoves ==
    ASSUME [Next]_vars
    PROVE  \/ UNCHANGED sweep
           \/ Sleep /\ UNCHANGED dir
           \/ SweepStep
BY DEF Next, RequestStep, Tick, ServerCrash, CleanerCrash, files, vars

-------------------------------------------------------------------------------
\* A name that stays through a step.
LEMMA Staying ==
    ASSUME Inv, SweepInvariant, [Next]_vars, Remember, NEW n \in stayed'
    PROVE  /\ n \in Names /\ Exists(n) /\ dir'[n] = dir[n] /\ dir[n] \in Names
           /\ sweep'.pc # "sleep"
           /\ sweep.pc # "sleep" => n \in stayed
<1>1. /\ n \in IF sweep.pc = "sleep" THEN {m \in Names : Exists(m)} ELSE stayed
      /\ dir'[n] = dir[n] /\ sweep'.pc # "sleep"
  BY DEF Remember
<1>2. n \in Names /\ Exists(n)
  BY <1>1 DEF SweepInvariant, Linked
<1> QED
  BY <1>1, <1>2 DEF Inv, TypeOK, FilesOK, Exists

\* What has expired after a step, of the names that stay, had expired before, as
\* long as the cycle is the same.
LEMMA ExpiredBefore ==
    ASSUME Inv, SweepInvariant, [Next]_vars, Remember, NEW n \in stayed',
           sweep'.now = sweep.now, Expired(dir[n])'
    PROVE  Expired(dir[n])
<1>1. dir'[n] = dir[n] /\ dir[n] \in Names
  BY Staying
<1>2. mtime[dir[n]] <= mtime'[dir[n]]
  BY <1>1, WritesAreLate DEF SweepInvariant
<1>3. mtime[dir[n]] \in Nat /\ mtime'[dir[n]] \in Nat /\ sweep.now \in Nat /\ MaxAge \in Nat
  <2>1. Inv'
    BY StepInv
  <2> QED
    BY <1>1, <2>1, BoundsAssumption DEF Inv, TypeOK, FilesOK
<1> QED
  BY <1>1, <1>2, <1>3 DEF Expired

LEMMA CoveredStep ==
    ASSUME Inv, SweepInvariant, [Next]_vars, Remember
    PROVE  Covered'
<1> SUFFICES ASSUME NEW n \in stayed', sweep'.pc \in {"next", "stat", "unlink"},
                    Expired(dir[n])'
             PROVE  Listed(n)'
  BY DEF Covered
<1>0. /\ n \in Names /\ Exists(n) /\ dir'[n] = dir[n] /\ dir[n] \in Names
      /\ sweep.pc # "sleep" => n \in stayed
  BY Staying
<1>t. sweep \in [pc : {"sleep", "scan", "next", "stat", "unlink"},
                 now : 0..MaxClock, todo : SUBSET Names, cur : Names \union {NoFile}]
  BY DEF Inv, TypeOK
<1>1. CASE UNCHANGED sweep
  BY <1>0, <1>1, ExpiredBefore DEF SweepInvariant, Covered, Listed
<1>2. CASE Sleep
  BY <1>2, <1>t DEF Sleep
<1>3. CASE SweepBegin
  BY <1>3, <1>t DEF SweepBegin
<1>4. CASE SweepScan
  BY <1>0, <1>4, <1>t DEF SweepScan, Scanned, Listed
<1>5. CASE SweepNext
  <2>1. PICK m \in sweep.todo :
          sweep' = [sweep EXCEPT !.pc = IF Exists(m) THEN "stat" ELSE "next",
                                 !.todo = @ \ {m},
                                 !.cur = m]
    BY <1>5 DEF SweepNext
  <2>2. /\ sweep'.pc = IF Exists(m) THEN "stat" ELSE "next"
        /\ sweep'.todo = sweep.todo \ {m} /\ sweep'.cur = m /\ sweep'.now = sweep.now
    BY <1>t, <2>1
  <2>3. n \in sweep.todo
    BY <1>0, <1>5, <2>2, ExpiredBefore DEF SweepNext, SweepInvariant, Covered, Listed
  <2> QED
    BY <1>0, <2>2, <2>3 DEF Listed
<1>6. CASE SweepStat
  <2>1. Exists(sweep.cur)
    BY <1>6, <1>t DEF SweepStat, Sleep
  <2>2. /\ sweep'.pc = IF Expired(dir[sweep.cur]) THEN "unlink" ELSE "next"
        /\ sweep'.todo = sweep.todo /\ sweep'.cur = sweep.cur /\ sweep'.now = sweep.now
    BY <1>6, <1>t, <2>1 DEF SweepStat
  <2>3. Expired(dir[n]) /\ Listed(n)
    BY <1>0, <1>6, <2>2, ExpiredBefore DEF SweepStat, SweepInvariant, Covered
  <2> QED
    BY <2>2, <2>3 DEF Listed
<1>7. CASE SweepUnlink
  <2>1. Exists(sweep.cur)
    BY <1>7, <1>t DEF SweepUnlink, Sleep
  <2>2. /\ sweep'.todo = sweep.todo /\ sweep'.now = sweep.now
        /\ n # sweep.cur
    BY <1>0, <1>7, <1>t, <2>1 DEF SweepUnlink, Unlink, Inv, TypeOK, FilesOK, Exists
  <2>3. Listed(n)
    BY <1>0, <1>7, <2>2, ExpiredBefore DEF SweepUnlink, SweepInvariant, Covered
  <2> QED
    BY <2>2, <2>3 DEF Listed
<1>8. CASE SweepEnd
  BY <1>8, <1>t DEF SweepEnd, Sleep
<1> QED
  BY <1>1, <1>2, <1>3, <1>4, <1>5, <1>6, <1>7, <1>8, SweepMoves DEF SweepStep

LEMMA JudgedStep ==
    ASSUME Inv, SweepInvariant, [Next]_vars, Remember
    PROVE  Judged'
<1> DEFINE n == sweep'.cur
<1> SUFFICES ASSUME sweep'.pc = "unlink", n \in Slots, n \in stayed'
             PROVE  Expired(dir[sweep.cur])'
  BY DEF Judged
<1>0. Exists(n) /\ dir'[n] = dir[n] /\ (sweep.pc # "sleep" => n \in stayed)
  BY Staying
<1>t. sweep \in [pc : {"sleep", "scan", "next", "stat", "unlink"},
                 now : 0..MaxClock, todo : SUBSET Names, cur : Names \union {NoFile}]
  BY DEF Inv, TypeOK
<1>1. mtime'[dir[n]] = mtime[dir[n]]
  BY <1>0, VisibleIsOld DEF SweepInvariant
<1>2. CASE UNCHANGED sweep
  <2>1. Expired(dir[n])
    BY <1>0, <1>2 DEF SweepInvariant, Judged
  <2> QED
    BY <1>0, <1>1, <1>2, <2>1 DEF Expired
<1>3. CASE SweepStat
  <2>1. Exists(sweep.cur)
    BY <1>3, <1>t DEF SweepStat, Sleep
  <2>2. Expired(dir[sweep.cur]) /\ n = sweep.cur /\ sweep'.now = sweep.now
    BY <1>3, <1>t, <2>1 DEF SweepStat
  <2> QED
    BY <1>0, <1>1, <2>2 DEF Expired
<1>4. CASE Sleep \/ SweepBegin \/ SweepScan \/ SweepNext \/ SweepUnlink \/ SweepEnd
  <2>1. sweep'.pc # "unlink"
    BY <1>4, <1>t DEF Sleep, SweepBegin, SweepScan, SweepNext, SweepUnlink, SweepEnd
  <2> QED
    BY <2>1
<1> QED
  BY <1>2, <1>3, <1>4, SweepMoves DEF SweepStep

LEMMA SweepInvariantStep ==
    ASSUME Inv, SweepInvariant, [BNext]_bvars
    PROVE  SweepInvariant'
<1>1. [Next]_vars
  BY DEF BNext, bvars
<1>2. Past'
  BY <1>1, WritesAreLate DEF SweepInvariant, Past
<1>3. CASE Remember
  <2>1. Linked'
    <3>1. \A n \in stayed' : n \in Names /\ Exists(n) /\ dir'[n] = dir[n]
      BY <1>1, <1>3, Staying
    <3> QED
      BY <3>1 DEF Linked, Exists
  <2> QED
    BY <1>1, <1>2, <1>3, <2>1, CoveredStep, JudgedStep DEF SweepInvariant
<1>4. CASE UNCHANGED bvars
  BY <1>2, <1>4 DEF bvars, vars, files, SweepInvariant, Linked, Covered, Judged, Listed,
                    Expired, Exists
<1> QED
  BY <1>3, <1>4 DEF BNext

LEMMA SweepInvariance == BSpec => [](Inv /\ SweepInvariant)
<1>1. BInit => Inv /\ SweepInvariant
  <2> SUFFICES ASSUME BInit PROVE Inv /\ SweepInvariant
    OBVIOUS
  <2>1. Inv
    BY InitInv DEF BInit
  <2>2. stayed = {} /\ mtime = [n \in Names |-> 0] /\ clock = 0 /\ sweep.pc = "sleep"
    BY DEF BInit, Init
  <2> QED
    BY <2>1, <2>2 DEF SweepInvariant, Linked, Past, Covered, Judged
<1>2. Inv /\ SweepInvariant /\ [BNext]_bvars => (Inv /\ SweepInvariant)'
  <2>1. [BNext]_bvars => [Next]_vars
    BY DEF BNext, bvars
  <2> QED
    BY <2>1, StepInv, SweepInvariantStep
<1> QED
  BY <1>1, <1>2, PTL DEF BSpec

-------------------------------------------------------------------------------

\* cleanup_old_files: a cycle that comes to its end leaves nothing behind that was
\* there and had expired when it began, whatever uploads, deletes and crashes do.
THEOREM CyclesAreThorough == BSpec => []CycleIsThorough
<1>1. Inv /\ SweepInvariant => CycleIsThorough
  BY DEF SweepInvariant, Covered, Listed, CycleIsThorough
<1> QED
  BY <1>1, SweepInvariance, PTL

\* cleanup_old_files: a file that was there when the cycle began, and stayed, is
\* removed by it only if it had expired.
THEOREM FreshFilesSurvive == BSpec => FreshSurvives
<1>1. ASSUME Inv, SweepInvariant, [BNext]_bvars, NEW s \in Slots \intersect stayed,
             sweep.pc = "unlink", sweep' # sweep, dir'[s] # dir[s]
      PROVE  sweep.now > mtime[dir[s]] + MaxAge
  <2>1. [Next]_vars
    BY <1>1 DEF BNext, bvars
  <2>2. SweepUnlink
    BY <1>1, <2>1, SweepMoves
       DEF SweepStep, SweepBegin, SweepScan, SweepNext, SweepStat, SweepEnd
  <2>3. s = sweep.cur
    BY <1>1, <2>2 DEF SweepUnlink, Unlink, Inv, TypeOK, FilesOK, Names
  <2> QED
    BY <1>1, <2>3 DEF SweepInvariant, Judged, Expired
<1>2. Inv /\ SweepInvariant /\ [BNext]_bvars
        => [\A s \in Slots \intersect stayed :
               (sweep.pc = "unlink" /\ sweep' # sweep /\ dir'[s] # dir[s])
                   => sweep.now > mtime[dir[s]] + MaxAge]_bvars
  BY <1>1
<1> QED
  BY <1>2, SweepInvariance, PTL DEF BSpec, FreshSurvives
===============================================================================
