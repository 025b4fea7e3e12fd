------------------------------ MODULE MCClocks ------------------------------
(***************************************************************************)
(* Small instances of the parts that depend on time.  They share nothing   *)
(* but the clock, which the leases of jobs do not read: one is chosen at   *)
(* first and runs alone, so that the states explored are the sum of theirs.*)
(***************************************************************************)
EXTENDS EmailCodes, HostMap, WindowLimiter, BucketLimiter, JobLease

CONSTANTS r1, r2, r3, v1, v2, before, after

VARIABLE part   \* the part that runs

MCLimit  == [l \in Limiters |-> IF l = "signin" THEN 1 ELSE 2]
MCWindow == [l \in Limiters |-> IF l = "signin" THEN 2 ELSE 3]

\* What cmd/marketplace does: the holder is the version, one for all the calls
\* of a revision.  Here two are of the revision being replaced, and one of the
\* one that replaces it.
Calls == {r1, r2, r3}
Versions == [r \in Calls |-> IF r = r3 THEN after ELSE before]

Parts == {"codes", "hosts", "windows", "buckets", "leases"}

MCInit ==
  /\ part \in Parts /\ now = 0
  /\ EmailCodesInit /\ HostMapInit /\ WindowInit /\ BucketInit /\ Init

MCNext ==
  /\ \/ part = "codes"   /\ EmailCodesNext /\ UNCHANGED <<hostVars, windowVars, bucketVars, vars>>
     \/ part = "hosts"   /\ HostMapNext    /\ UNCHANGED <<codeVars, windowVars, bucketVars, vars>>
     \/ part = "windows" /\ WindowNext     /\ UNCHANGED <<codeVars, hostVars, bucketVars, vars>>
     \/ part = "buckets" /\ BucketNext     /\ UNCHANGED <<codeVars, hostVars, windowVars, vars>>
     \/ part = "leases"  /\ Next /\ UNCHANGED <<now, codeVars, hostVars, windowVars, bucketVars>>
  /\ UNCHANGED part

MCSpec ==
  /\ MCInit /\ [][MCNext]_<<now, codeVars, hostVars, windowVars, bucketVars, vars, part>>
  /\ (part = "leases" => Fairness)

\* RunsAgain where the leases are the part that runs: the job always runs
\* again, though runs are killed with their lease held (take, release).
JobRunsAgain == part = "leases" => RunsAgain
=============================================================================
