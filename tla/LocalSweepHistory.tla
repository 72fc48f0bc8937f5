-------------------------- MODULE LocalSweepHistory --------------------------
(***************************************************************************)
(* LocalStorage with a history variable: the names that nobody touched     *)
(* since the cycle of the cleaner began.  It says what a cycle must take   *)
(* away, and what it must leave.                                           *)
(***************************************************************************)
EXTENDS LocalStorage

VARIABLE stayed     \* the names that link to what they did when the cycle began

bvars == <<vars, stayed>>

Remember ==
    LET before == IF sweep.pc = "sleep" THEN {n \in Names : Exists(n)} ELSE stayed
    IN  stayed' = IF sweep'.pc = "sleep" THEN {} ELSE {n \in before : dir'[n] = dir[n]}

BInit == Init /\ stayed = {}
BNext == Next /\ Remember

BSpec == BInit /\ [][BNext]_bvars
BFairSpec == BSpec /\ Fairness

-------------------------------------------------------------------------------

\* local.py, cleanup_old_files: a cycle that comes to its end without an exception
\* has removed every name that was there when it began, temporary names included,
\* and whose file had expired by then, unless an upload put another file there.
CycleIsThorough ==
    sweep.pc = "next" /\ sweep.todo = {} => \A n \in stayed : ~Expired(dir[n])

\* The cleaner's unlink hits whatever the name links to by then.  A file that was
\* there when the cycle began and had not expired survives it all the same: only a
\* file that was put in place of an expired one in between can be lost.
FreshSurvives ==
    [][\A s \in Slots \intersect stayed :
          (sweep.pc = "unlink" /\ sweep' # sweep /\ dir'[s] # dir[s])
              => sweep.now > mtime[dir[s]] + MaxAge]_bvars
===============================================================================
