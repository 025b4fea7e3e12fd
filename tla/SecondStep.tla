----------------------------- MODULE SecondStep -----------------------------
(***************************************************************************)
(* Proving a second factor: identity's answerChallenge with what it checks *)
(* (challenge.go, totp.go, key.go, challengestore.go) and the run of       *)
(* failures it keeps (failures.go), for one account answered to in         *)
(* parallel.                                                               *)
(*                                                                         *)
(* An answer holds the row of its challenge from its first statement to    *)
(* its end, so a challenge has one answer at a time: here, a request is a  *)
(* challenge and the answers to it, one after the other. What a challenge  *)
(* hears in all, and the session it opens, are SignIn's. Locks are taken   *)
(* in the code's order: the challenge, the rows of what is checked, the    *)
(* audit chain, the row of failures.                                       *)
(*                                                                         *)
(* A code of an app is the time step it belongs to, and a key's answer the *)
(* value of its counter: a signature that does not verify is not told from *)
(* a wrong code, no two steps have the same six digits, and every key      *)
(* keeps a counter.                                                        *)
(***************************************************************************)
EXTENDS Integers, FiniteSets

CONSTANTS
  Request,           \* challenges that may be answered at once
  App,               \* the account's authenticator apps
  Key,               \* the account's keys
  RecoveryCode,      \* the account's recovery codes
  Steps,             \* time steps the behaviour lasts, and values of a counter
  FailuresNotified,
  FailuresLocked,
  None

ASSUME RequestAssumption == IsFiniteSet(Request) /\ Request # {} /\ None \notin Request
ASSUME KindsAssumption ==
  /\ App \cap Key = {} /\ App \cap RecoveryCode = {} /\ Key \cap RecoveryCode = {}
  /\ {"apps", "keys", "audit", "failures"} \cap RecoveryCode = {}
ASSUME NumbersAssumption ==
  /\ Steps \in Nat \ {0}
  /\ FailuresNotified \in Nat \ {0}
  /\ FailuresLocked \in Nat
  /\ FailuresNotified < FailuresLocked

VARIABLES
  now,        \* the time step
  last,       \* of each app the last step accepted, of each key its counter
  recovery,   \* the recovery codes not used yet
  failures,   \* the row of failures, 0 when there is none
  lockedBy,   \* the request that holds each row
  answer,     \* the answer each challenge is hearing
  accepted,   \* times each proof was accepted
  missed,     \* wrong answers since the run of failures began
  told,       \* mails of each kind sent since then
  late        \* codes checked since then, while codes were locked

vars == <<now, last, recovery, failures, lockedBy, answer, accepted, missed, told, late>>

totpDrift == 1

Device == App \cup Key
Time   == 1 .. Steps
Proof  == (Device \X Time) \cup (RecoveryCode \X {0})
Method == {"app", "key", "recovery"}

(* The rows an answer locks: all the apps', all the keys', one code's, the  *)
(* head of the audit chain, the failures'.                                 *)
Row == {"apps", "keys", "audit", "failures"} \cup RecoveryCode

NoAnswer == [at |-> "idle", method |-> None, now |-> 0, proof |-> None, count |-> 0]

Init ==
  /\ now = 1
  /\ last = [d \in Device |-> 0]
  /\ recovery = RecoveryCode
  /\ failures = 0
  /\ lockedBy = [r \in Row |-> None]
  /\ answer = [p \in Request |-> NoAnswer]
  /\ accepted = [x \in Proof |-> 0]
  /\ missed = 0
  /\ told = [notified |-> 0, locked |-> 0]
  /\ late = 0

CodesLocked == failures >= FailuresLocked

(* A row lock is waited for, and kept to the transaction's end. *)
Lock(p, row) ==
  /\ lockedBy[row] \in {None, p}
  /\ lockedBy' = [lockedBy EXCEPT ![row] = p]

Unlock(p) == lockedBy' = [r \in Row |-> IF lockedBy[r] = p THEN None ELSE lockedBy[r]]

-----------------------------------------------------------------------------
(* answerChallenge: the time taken, and then the challenge locked, which    *)
(* may have been waited for. Only the code of an app is compared with it.  *)
Arrive(p) ==
  /\ answer[p].at = "idle"
  /\ \E m \in Method : \E t \in IF m = "app" THEN 1 .. now ELSE {0} :
       answer' = [answer EXCEPT ![p] =
         [at |-> "offers", method |-> m, now |-> t, proof |-> None, count |-> 0]]
  /\ UNCHANGED <<now, last, recovery, failures, lockedBy, accepted, missed, told, late>>

(* A slip: the lock on codes is not asked about. *)
Offers_Unlocked(p) ==
  /\ answer[p].at = "offers"
  /\ answer' = [answer EXCEPT ![p].at =
       IF answer[p].method = "recovery" /\ recovery = {} THEN "audit" ELSE "check"]
  /\ UNCHANGED <<now, last, recovery, failures, lockedBy, accepted, missed, told, late>>

(* offers, and the refusals before the check: a code while codes are       *)
(* locked, a recovery code when none is left. It reads without a lock. A   *)
(* refused answer is a wrong one.                                          *)
Offers(p) ==
  /\ answer[p].at = "offers"
  /\ answer' = [answer EXCEPT ![p].at =
       IF \/ answer[p].method = "app" /\ CodesLocked
          \/ answer[p].method = "recovery" /\ recovery = {}
         THEN "audit" ELSE "check"]
  /\ UNCHANGED <<now, last, recovery, failures, lockedBy, accepted, missed, told, late>>

Checked(p, proof) == answer' = [answer EXCEPT ![p].at = "audit", ![p].proof = proof]

(* A step within the drift of when the answer began, and after the last    *)
(* one accepted for this app.                                              *)
matchTOTP(p, proof) ==
  /\ proof[2] \in answer[p].now - totpDrift .. answer[p].now + totpDrift
  /\ proof[2] > last[proof[1]]

(* A slip: the apps are read without FOR UPDATE. *)
CheckApp_NotLocked(p, proof) ==
  /\ answer[p].at = "check" /\ answer[p].method = "app"
  /\ proof # None => proof[1] \in App /\ matchTOTP(p, proof)
  /\ Checked(p, proof)
  /\ late' = IF CodesLocked THEN late + 1 ELSE late
  /\ UNCHANGED <<now, last, recovery, failures, lockedBy, accepted, missed, told>>

(* checkApp: with the account's apps locked, a code that matches one of    *)
(* them. Any other code is no proof.                                       *)
CheckApp(p, proof) ==
  /\ answer[p].at = "check" /\ answer[p].method = "app"
  /\ Lock(p, "apps")
  /\ proof # None => proof[1] \in App /\ matchTOTP(p, proof)
  /\ Checked(p, proof)
  /\ late' = IF CodesLocked THEN late + 1 ELSE late
  /\ UNCHANGED <<now, last, recovery, failures, accepted, missed, told>>

(* checkKey: with the account's keys locked, a counter that moved forward. *)
CheckKey(p, proof) ==
  /\ answer[p].at = "check" /\ answer[p].method = "key"
  /\ Lock(p, "keys")
  /\ proof # None => proof[1] \in Key /\ proof[2] > last[proof[1]]
  /\ Checked(p, proof)
  /\ UNCHANGED <<now, last, recovery, failures, accepted, missed, told, late>>

(* useRecoveryCode: an update of the code's row where it is unused, which  *)
(* waits for whoever is using it. A code that is none takes no row.        *)
CheckRecovery(p, proof) ==
  /\ answer[p].at = "check" /\ answer[p].method = "recovery"
  /\ IF proof = None THEN UNCHANGED lockedBy
                     ELSE proof[1] \in recovery /\ Lock(p, proof[1])
  /\ Checked(p, proof)
  /\ UNCHANGED <<now, last, recovery, failures, accepted, missed, told, late>>

(* The answer is audited, right or wrong. *)
Audit(p) ==
  /\ answer[p].at = "audit"
  /\ Lock(p, "audit")
  /\ answer' = [answer EXCEPT ![p].at = "tally"]
  /\ UNCHANGED <<now, last, recovery, failures, accepted, missed, told, late>>

(* The count has no end in the code; beyond the lock its value is no       *)
(* longer told apart here.                                                 *)
More(n) == IF n > FailuresLocked THEN n ELSE n + 1

(* failed: countFailure's upsert waits for the row, or makes it.           *)
Count(p) ==
  /\ answer[p].at = "tally" /\ answer[p].proof = None
  /\ Lock(p, "failures")
  /\ answer' = [answer EXCEPT ![p].at = "commit", ![p].count = More(failures)]
  /\ UNCHANGED <<now, last, recovery, failures, accepted, missed, told, late>>

(* clearFailures: the delete takes the row, where there is one.            *)
Clear(p) ==
  /\ answer[p].at = "tally" /\ answer[p].proof # None
  /\ IF failures = 0 THEN UNCHANGED lockedBy ELSE Lock(p, "failures")
  /\ answer' = [answer EXCEPT ![p].at = "commit"]
  /\ UNCHANGED <<now, last, recovery, failures, accepted, missed, told, late>>

-----------------------------------------------------------------------------
(* The ends of a transaction. *)

(* A slip: told from the first count that matters on. *)
Tell_FromThen(count) ==
  told' = [notified |-> IF count >= FailuresNotified THEN told.notified + 1 ELSE told.notified,
           locked   |-> IF count = FailuresLocked THEN told.locked + 1 ELSE told.locked]

(* failed: the owner is told at exactly two counts. *)
Tell(count) ==
  told' = [notified |-> IF count = FailuresNotified THEN told.notified + 1 ELSE told.notified,
           locked   |-> IF count = FailuresLocked THEN told.locked + 1 ELSE told.locked]

Wrong(p) ==
  /\ answer[p].at = "commit" /\ answer[p].proof = None
  /\ failures' = answer[p].count
  /\ Tell(answer[p].count)
  /\ missed' = More(missed)
  /\ Unlock(p)
  /\ answer' = [answer EXCEPT ![p] = NoAnswer]
  /\ UNCHANGED <<now, last, recovery, accepted, late>>

NewRun ==
  /\ failures' = 0
  /\ missed' = 0
  /\ told' = [notified |-> 0, locked |-> 0]
  /\ late' = 0

(* usedApp, the key's new counter, or the recovery code used. *)
Spend(p) ==
  LET proof == answer[p].proof IN
  IF proof[1] \in Device
    THEN /\ last' = [last EXCEPT ![proof[1]] = proof[2]]
         /\ UNCHANGED recovery
    ELSE /\ recovery' = recovery \ {proof[1]}
         /\ UNCHANGED last

Right(p) ==
  /\ answer[p].at = "commit" /\ answer[p].proof # None
  /\ Spend(p)
  /\ accepted' = [accepted EXCEPT ![answer[p].proof] = @ + 1]
  /\ IF lockedBy["failures"] = p THEN NewRun ELSE UNCHANGED <<failures, missed, told, late>>
  /\ Unlock(p)
  /\ answer' = [answer EXCEPT ![p] = NoAnswer]
  /\ UNCHANGED now

(* An error, a lost connection, the process's end: nothing of it is seen. *)
Abort(p) ==
  /\ answer[p].at # "idle"
  /\ Unlock(p)
  /\ answer' = [answer EXCEPT ![p] = NoAnswer]
  /\ UNCHANGED <<now, last, recovery, failures, accepted, missed, told, late>>

(* ChangePassword ends the run too: it takes the chain, then the row, and  *)
(* commits.                                                                *)
PasswordChanged ==
  /\ lockedBy["audit"] = None /\ lockedBy["failures"] = None
  /\ failures > 0
  /\ NewRun
  /\ UNCHANGED <<now, last, recovery, lockedBy, answer, accepted>>

Tick ==
  /\ now < Steps
  /\ now' = now + 1
  /\ UNCHANGED <<last, recovery, failures, lockedBy, answer, accepted, missed, told, late>>

-----------------------------------------------------------------------------
Check(p) ==
  \E proof \in Proof \cup {None} :
    CheckApp(p, proof) \/ CheckKey(p, proof) \/ CheckRecovery(p, proof)

Next ==
  \/ \E p \in Request : \/ Arrive(p) \/ Offers(p) \/ Check(p) \/ Audit(p)
                        \/ Count(p) \/ Clear(p) \/ Wrong(p) \/ Right(p) \/ Abort(p)
  \/ PasswordChanged
  \/ Tick

Spec == Init /\ [][Next]_vars

-----------------------------------------------------------------------------
(* Properties. *)

TypeOK ==
  /\ now \in Time
  /\ last \in [Device -> 0 .. Steps]
  /\ recovery \in SUBSET RecoveryCode
  /\ failures \in 0 .. FailuresLocked + 1
  /\ lockedBy \in [Row -> Request \cup {None}]
  /\ answer \in [Request -> [at : {"idle", "offers", "check", "audit", "tally", "commit"},
                             method : Method \cup {None}, now : 0 .. Steps,
                             proof : Proof \cup {None}, count : 0 .. FailuresLocked + 1]]
  /\ accepted \in [Proof -> Nat]
  /\ missed \in 0 .. FailuresLocked + 1
  /\ told \in [notified : Nat, locked : Nat]
  /\ late \in Nat

(* Nothing proves a second factor twice, to whatever challenges it answers  *)
(* at once: a step of an app, a value of a key's counter, a recovery code.  *)
EachOnce == \A x \in Proof : accepted[x] <= 1

(* Every wrong answer that committed is counted, and the owner was told     *)
(* once at each count that matters, no more and no less, in this run of     *)
(* failures: failures in parallel do not step over the exact count.         *)
RunCounted ==
  /\ failures = missed
  /\ told.notified = IF failures >= FailuresNotified THEN 1 ELSE 0
  /\ told.locked = IF failures >= FailuresLocked THEN 1 ELSE 0

(* Of the answers checked though the codes were locked (failures.go:83)     *)
(* there are fewer than there are challenges: each was being checked when   *)
(* the lock fell, and the one it fell by was not one of them.               *)
FewWhileLocked == late < Cardinality(Request)
=============================================================================
