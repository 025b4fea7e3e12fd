------------------------------ MODULE JobLease ------------------------------
(***************************************************************************)
(* The lease a scheduled job runs under: internal/platform/jobs, over one  *)
(* row of job_lock, with the callback that asks for the job.               *)
(*                                                                         *)
(* A run is one call of Run, in the context of the request of Cloud        *)
(* Scheduler that asked for it. take and release are one transaction of    *)
(* one statement each, so each is one step; the job itself is not looked   *)
(* into. Time is the lease's end, which may come at any moment after it    *)
(* was taken: a run is late when its lease ended before it did.            *)
(***************************************************************************)
EXTENDS Integers, FiniteSets

CONSTANTS
  Run,        \* calls of Run that may be going on at once
  HolderOf,   \* the name each writes in the row: NewRunner's holder
  None

ASSUME NoneAssumption == None \notin Run

VARIABLES
  lease,      \* the job_lock row, and the call that took it
  run,        \* where each call is
  cancelled,  \* calls whose request has ended under them
  late,       \* calls that have outlived their lease
  onTime      \* no call has ever been late

vars == <<lease, run, cancelled, late, onTime>>

Holder == {HolderOf[r] : r \in Run}

(* by is not in the table: the call the lease was taken by, while it is    *)
(* still there to release it.                                              *)
Lease == [state : {"free", "held", "expired"}, holder : Holder \cup {None},
          by : Run \cup {None}]

Init ==
  /\ lease = [state |-> "free", holder |-> None, by |-> None]
  /\ run = [r \in Run |-> "idle"]
  /\ cancelled = {}
  /\ late = {}
  /\ onTime = TRUE

Working(r)  == run[r] = "working"
Returned(r) ==
  /\ run' = [run EXCEPT ![r] = "idle"]
  /\ cancelled' = cancelled \ {r}
  /\ late' = late \ {r}

(* A slip: the upsert without its WHERE. *)
Take_Always(r) ==
  /\ run[r] = "idle"
  /\ lease' = [state |-> "held", holder |-> HolderOf[r], by |-> r]
  /\ run' = [run EXCEPT ![r] = "working"]
  /\ UNCHANGED <<cancelled, late, onTime>>

(* A slip: a lease that only a release ends. *)
Take_Released(r) ==
  /\ run[r] = "idle"
  /\ lease.state = "free"
  /\ lease' = [state |-> "held", holder |-> HolderOf[r], by |-> r]
  /\ run' = [run EXCEPT ![r] = "working"]
  /\ UNCHANGED <<cancelled, late, onTime>>

(* take: inserted when nobody has run the job, updated when the lease is over. *)
Take(r) ==
  /\ run[r] = "idle"
  /\ lease.state # "held"
  /\ lease' = [state |-> "held", holder |-> HolderOf[r], by |-> r]
  /\ run' = [run EXCEPT ![r] = "working"]
  /\ UNCHANGED <<cancelled, late, onTime>>

(* The commit's answer is lost: taken, and Run returns the error. *)
TakeUnanswered(r) ==
  /\ run[r] = "idle"
  /\ lease.state # "held"
  /\ lease' = [state |-> "held", holder |-> HolderOf[r], by |-> None]
  /\ UNCHANGED <<run, cancelled, late, onTime>>

(* The job has run, and worked or failed. *)
Finish(r) ==
  /\ Working(r)
  /\ run' = [run EXCEPT ![r] = "releasing"]
  /\ UNCHANGED <<lease, cancelled, late, onTime>>

(* The request ends: its deadline, or its caller gone. *)
Cancel(r) ==
  /\ run[r] # "idle"
  /\ cancelled' = cancelled \cup {r}
  /\ UNCHANGED <<lease, run, late, onTime>>

(* A slip: the release without its holder. *)
Release_Anyones(r) ==
  /\ run[r] = "releasing"
  /\ r \notin cancelled
  /\ lease' = [lease EXCEPT !.state = "free", !.by = None]
  /\ Returned(r)
  /\ UNCHANGED onTime

(* release: the row, if it is this holder's. *)
Release(r) ==
  /\ run[r] = "releasing"
  /\ r \notin cancelled
  /\ lease' = IF lease.holder = HolderOf[r]
                THEN [lease EXCEPT !.state = "free", !.by = None]
                ELSE lease
  /\ Returned(r)
  /\ UNCHANGED onTime

(* release takes the request's context: nothing begins in one that ended. *)
ReleaseCancelled(r) ==
  /\ run[r] = "releasing"
  /\ r \in cancelled
  /\ Returned(r)
  /\ UNCHANGED <<lease, onTime>>

Abandoned(r) == lease' = [lease EXCEPT !.by = IF @ = r THEN None ELSE @]

(* The process ends, the job panics past release, or the database is away. *)
Gone(r) ==
  /\ run[r] # "idle"
  /\ Abandoned(r)
  /\ Returned(r)
  /\ UNCHANGED onTime

(* leased_until passes. The call it was taken by is late. *)
LeaseEnds ==
  /\ lease.state = "held"
  /\ lease' = [lease EXCEPT !.state = "expired"]
  /\ late' = late \cup {r \in Run : lease.by = r}
  /\ onTime' = (onTime /\ late' = late)
  /\ UNCHANGED <<run, cancelled>>

Next ==
  \/ LeaseEnds
  \/ \E r \in Run :
       \/ Take(r) \/ TakeUnanswered(r) \/ Finish(r) \/ Cancel(r)
       \/ Release(r) \/ ReleaseCancelled(r) \/ Gone(r)

(* Cloud Scheduler asks for the job again and again, and time passes. Not  *)
(* every commit loses its answer: that is the strong part. Nothing says    *)
(* that a job ends.                                                        *)
Fairness ==
  /\ WF_vars(LeaseEnds)
  /\ SF_vars(\E r \in Run : Take(r))
  /\ \A r \in Run : WF_vars(Release(r) \/ ReleaseCancelled(r))

Spec == Init /\ [][Next]_vars /\ Fairness

-----------------------------------------------------------------------------
(* Properties. *)

TypeOK ==
  /\ lease \in Lease
  /\ run \in [Run -> {"idle", "working", "releasing"}]
  /\ cancelled \in SUBSET Run
  /\ late \in SUBSET Run
  /\ onTime \in BOOLEAN

(* As long as no run has outlived its lease, no two work at once: what the *)
(* conditional upsert of take gives, whoever the holders are.              *)
AloneWhileOnTime ==
  onTime => \A q, r \in Run : Working(q) /\ Working(r) => q = r

(* No other call writes the same holder. *)
Own(r) == \A q \in Run : HolderOf[q] = HolderOf[r] => q = r

(* A run that is not late and whose holder is its own has the lease until it *)
(* ends, even when a run before it was late: nobody else's release frees it, *)
(* so nobody else takes it. In a deployment that is the first call of a new  *)
(* revision, against the calls of the one before it.                         *)
LeaseProtects ==
  \A r \in Run : Own(r) /\ Working(r) /\ r \notin late => lease.state = "held" /\ lease.by = r

(* The job always runs again, though runs are killed with their lease held. *)
RunsAgain == []<>(\E r \in Run : Working(r))

(* Said of Run (jobs.go:102): the lease is released whether the run worked *)
(* or not. So no call that has returned still has it.                      *)
ReturnedMeansReleased ==
  lease.state = "held" /\ lease.by # None => run[lease.by] # "idle"
=============================================================================
