------------------------------ MODULE Factors ------------------------------
(***************************************************************************)
(* The second factors of one account, its recovery codes and the enrolments *)
(* in progress: internal/identity's factors.go, factorstore.go, key.go and  *)
(* the enrolling half of emailcode.go.                                     *)
(*                                                                         *)
(* A request is a slot that one HTTP request after another fills. Its      *)
(* transaction takes the account's row, decides by what is committed, and  *)
(* shows what it wrote at its commit; recovery codes are sets, named after *)
(* the request that issued them, and a factor after the one that added it. *)
(* What a code or a key proves is chosen: right or wrong. Left to other    *)
(* modules: the second step, which spends codes and locks factor rows, and *)
(* the limits on the codes sent.                                           *)
(***************************************************************************)
EXTENDS Integers, FiniteSets

CONSTANTS
  Request,   \* requests that may be going on at once
  Session,   \* sessions of the account
  None

ASSUME NoneAssumption == None \notin Request \cup Session

VARIABLES
  kind,           \* whose account it is
  factor,         \* second_factor, by the request that added each
  recovery,       \* recovery_code: the sets stored
  enrolment,      \* factor_enrolment, by session: what it adds
  emailCode,      \* a code that adds e-mail is live
  accountLock,    \* the transaction holding the account's row
  enrolmentLock,  \* the transaction holding each enrolment's row
  pc,             \* the next statement of each request
  request         \* what each request asked for and has written

rows == <<kind, factor, recovery, enrolment, emailCode>>
vars == <<rows, accountLock, enrolmentLock, pc, request>>

Strong == {"app", "key"}
Method == Strong \cup {"email"}
Flow   == {"begin", "confirm", "beginEmail", "confirmEmail", "remove", "regenerate"}

NoRequest == [flow |-> "begin", session |-> None, method |-> "app", target |-> None,
              stepped |-> FALSE, adds |-> FALSE, removes |-> {}, codes |-> "keep"]

(* Policy.Permits and Policy.Required, over the kinds that have accounts. *)
Permits(m) == kind = "staff" => m # "email"
Required   == kind = "staff"

Factors    == {p \in Request : factor[p] # "none"}
HasEmail   == \E p \in Request : factor[p] = "email"

Init ==
  /\ kind \in {"buyer", "staff"}
  /\ factor = [p \in Request |-> "none"]
  /\ recovery = {}
  /\ enrolment = [s \in Session |-> "none"]
  /\ emailCode = FALSE
  /\ accountLock = None
  /\ enrolmentLock = [s \in Session |-> None]
  /\ pc = [p \in Request |-> "idle"]
  /\ request = [p \in Request |-> NoRequest]

-----------------------------------------------------------------------------
(* Arriving and ending. *)

(* NeedsStepUp reads the session as the middleware authenticated it: an     *)
(* account that had no factor then is asked for no step-up. Whoever is      *)
(* asked and has none is refused, and does not arrive.                      *)
Arrive(p, step, asks) ==
  /\ pc[p] = "idle"
  /\ pc' = [pc EXCEPT ![p] = step]
  /\ request' = [request EXCEPT ![p] = [asks EXCEPT !.stepped = Factors # {}]]
  /\ UNCHANGED <<rows, accountLock, enrolmentLock>>

Asks(flow) == [NoRequest EXCEPT !.flow = flow]

Enrolling(flow, s, m) == [Asks(flow) EXCEPT !.session = s, !.method = m]

(* The row a request adds is a new one: nobody is removing it yet. *)
Adding(p) == factor[p] = "none" /\ \A q \in Request : request[q].target # p

ArriveAny(p) ==
  \/ \E s \in Session, m \in Strong :
       \/ Arrive(p, "put", Enrolling("begin", s, m))
       \/ Adding(p) /\ Arrive(p, "lock", Enrolling("confirm", s, m))
  \/ /\ Permits("email")
     /\ \/ Arrive(p, "peek", Asks("beginEmail"))
        \/ Adding(p) /\ Arrive(p, "lock", [Asks("confirmEmail") EXCEPT !.method = "email"])
  \/ \E t \in Factors : Arrive(p, "lock", [Asks("remove") EXCEPT !.target = t])
  \/ Arrive(p, "lock", Asks("regenerate"))

(* The transaction ends and lets go of its locks. *)
Over(p) ==
  /\ accountLock' = IF accountLock = p THEN None ELSE accountLock
  /\ enrolmentLock' = [s \in Session |-> IF enrolmentLock[s] = p THEN None ELSE enrolmentLock[s]]
  /\ pc' = [pc EXCEPT ![p] = "idle"]
  /\ request' = [request EXCEPT ![p] = NoRequest]

(* A refusal, an error or the process's end before the commit: rolled back. *)
Abort(p) ==
  /\ pc[p] # "idle"
  /\ Over(p)
  /\ UNCHANGED rows

-----------------------------------------------------------------------------
(* Enrolments. *)

(* BeginApp, BeginKey: putEnrolment, which takes no lock on the account. *)
PutEnrolment(p) ==
  LET s == request[p].session IN
  /\ pc[p] = "put"
  /\ enrolmentLock[s] = None
  /\ enrolment' = [enrolment EXCEPT ![s] = request[p].method]
  /\ Over(p)
  /\ UNCHANGED <<kind, factor, recovery, emailCode>>

(* To every statement an expired row is as good as none; one that expires   *)
(* after a confirmation has read it changes nothing.                        *)
EnrolmentExpires(s) ==
  /\ enrolment[s] # "none"
  /\ enrolmentLock[s] = None
  /\ enrolment' = [enrolment EXCEPT ![s] = "none"]
  /\ UNCHANGED <<kind, factor, recovery, emailCode, accountLock, enrolmentLock, pc, request>>

(* BeginEmail looks for an e-mail factor before it locks anything. *)
PeekEmail(p) ==
  /\ pc[p] = "peek"
  /\ ~HasEmail
  /\ pc' = [pc EXCEPT ![p] = "lock"]
  /\ UNCHANGED <<rows, accountLock, enrolmentLock, request>>

-----------------------------------------------------------------------------
(* Transactions under the account's lock. *)

(* A slip: the account is not locked. *)
LockAccount_NotTaken(p) == pc[p] = "lock" /\ UNCHANGED accountLock

(* lockAccount, and the same statement in enrolmentOf. *)
LockAccount(p) ==
  /\ pc[p] = "lock"
  /\ accountLock = None
  /\ accountLock' = p

(* What a transaction decides, from the moment it holds the account's row:  *)
(* nothing it reads then changes before its commit, so one step does both.  *)
Decide(p, flow) == request[p].flow = flow /\ LockAccount(p)

Wrote(p, adds, removes, codes) ==
  /\ pc' = [pc EXCEPT ![p] = "commit"]
  /\ request' = [request EXCEPT ![p] = [@ EXCEPT !.adds = adds, !.removes = removes, !.codes = codes]]

(* A slip: each new app or key comes with codes of its own. *)
FirstRecoverySet_Always == "add"

(* firstRecoverySet: added to what is stored, which is none by what it read. *)
FirstRecoverySet == IF recovery = {} THEN "add" ELSE "keep"

(* A slip: the enrolment is looked for, whatever has become of it. *)
Confirm_Spent(p) ==
  LET s == request[p].session IN
  /\ Decide(p, "confirm")
  /\ enrolmentLock[s] = None
  /\ enrolmentLock' = [enrolmentLock EXCEPT ![s] = p]
  /\ Wrote(p, TRUE, {}, FirstRecoverySet)
  /\ UNCHANGED rows

(* ConfirmApp, ConfirmKey with the right answer: enrolmentOf, the insert,   *)
(* dropEnrolment, firstRecoverySet.                                         *)
Confirm(p) ==
  LET s == request[p].session IN
  /\ Decide(p, "confirm")
  /\ enrolment[s] = request[p].method
  /\ enrolmentLock[s] = None
  /\ enrolmentLock' = [enrolmentLock EXCEPT ![s] = p]
  /\ Wrote(p, TRUE, {}, FirstRecoverySet)
  /\ UNCHANGED rows

(* sendCode, within its limits. *)
SendEnrolCode(p) ==
  /\ Decide(p, "beginEmail")
  /\ Wrote(p, FALSE, {}, "keep")
  /\ UNCHANGED <<rows, enrolmentLock>>

(* ConfirmEmail with the right code. *)
ConfirmEmail(p) ==
  /\ Decide(p, "confirmEmail")
  /\ ~HasEmail
  /\ emailCode
  /\ Wrote(p, TRUE, {}, "keep")
  /\ UNCHANGED <<rows, enrolmentLock>>

(* A slip: the factors are counted before the one removed is gone. *)
RemoveFactor_CountedBefore(p) ==
  LET t == request[p].target IN
  /\ Decide(p, "remove")
  /\ t \in Factors
  /\ ~(Factors = {} /\ Required)
  /\ Wrote(p, FALSE, {t}, IF Factors \ {t} = {} THEN "delete" ELSE "keep")
  /\ UNCHANGED <<rows, enrolmentLock>>

(* A slip: the codes outlive the last factor. *)
RemoveFactor_KeepsCodes(p) ==
  LET t == request[p].target IN
  /\ Decide(p, "remove")
  /\ t \in Factors
  /\ ~(Factors \ {t} = {} /\ Required)
  /\ Wrote(p, FALSE, {t}, "keep")
  /\ UNCHANGED <<rows, enrolmentLock>>

(* A slip: the codes go with any factor. *)
RemoveFactor_AlwaysDrops(p) ==
  LET t == request[p].target IN
  /\ Decide(p, "remove")
  /\ t \in Factors
  /\ ~(Factors \ {t} = {} /\ Required)
  /\ Wrote(p, FALSE, {t}, "delete")
  /\ UNCHANGED <<rows, enrolmentLock>>

(* RemoveFactor: deleteFactor, countFactors; the last of an account that    *)
(* must keep one is refused, and the last of any other takes the codes.     *)
RemoveFactor(p) ==
  LET t == request[p].target IN
  /\ Decide(p, "remove")
  /\ t \in Factors
  /\ ~(Factors \ {t} = {} /\ Required)
  /\ Wrote(p, FALSE, {t}, IF Factors \ {t} = {} THEN "delete" ELSE "keep")
  /\ UNCHANGED <<rows, enrolmentLock>>

(* RegenerateRecoveryCodes: replaceRecoveryCodes on an account with 2FA. *)
Regenerate(p) ==
  /\ Decide(p, "regenerate")
  /\ Factors # {}
  /\ Wrote(p, FALSE, {}, "replace")
  /\ UNCHANGED <<rows, enrolmentLock>>

Factor_After(p) ==
  [t \in Request |-> IF t \in request[p].removes THEN "none"
                     ELSE IF t = p /\ request[p].adds THEN request[p].method
                     ELSE factor[t]]

Recovery_After(p) ==
  CASE request[p].codes = "add"     -> recovery \cup {p}
    [] request[p].codes = "replace" -> {p}
    [] request[p].codes = "delete"  -> {}
    [] request[p].codes = "keep"    -> recovery

(* Every row the transaction wrote, seen at once by the others. *)
Commit(p) ==
  LET r == request[p] IN
  /\ pc[p] = "commit"
  /\ factor' = Factor_After(p)
  /\ recovery' = Recovery_After(p)
  /\ enrolment' = IF r.flow = "confirm" THEN [enrolment EXCEPT ![r.session] = "none"]
                                        ELSE enrolment
  /\ emailCode' = CASE r.flow = "beginEmail"   -> TRUE
                    [] r.flow = "confirmEmail" -> FALSE
                    [] OTHER                   -> emailCode
  /\ Over(p)
  /\ UNCHANGED kind

(* Ten minutes pass, or the fifth wrong code is typed. *)
EmailCodeDies ==
  /\ emailCode
  /\ emailCode' = FALSE
  /\ UNCHANGED <<kind, factor, recovery, enrolment, accountLock, enrolmentLock, pc, request>>

-----------------------------------------------------------------------------
Next ==
  \/ EmailCodeDies
  \/ \E s \in Session : EnrolmentExpires(s)
  \/ \E p \in Request :
       \/ ArriveAny(p) \/ PutEnrolment(p) \/ PeekEmail(p)
       \/ Confirm(p) \/ SendEnrolCode(p) \/ ConfirmEmail(p) \/ RemoveFactor(p) \/ Regenerate(p)
       \/ Commit(p) \/ Abort(p)

Spec == Init /\ [][Next]_vars

-----------------------------------------------------------------------------
(* Properties. *)

(* Staff may not have e-mail as a factor: its type says so too. *)
TypeOK ==
  /\ kind \in {"buyer", "staff"}
  /\ factor \in [Request -> (IF kind = "staff" THEN Strong ELSE Method) \cup {"none"}]
  /\ recovery \in SUBSET Request
  /\ enrolment \in [Session -> Strong \cup {"none"}]
  /\ emailCode \in BOOLEAN
  /\ accountLock \in Request \cup {None}
  /\ enrolmentLock \in [Session -> Request \cup {None}]
  /\ pc \in [Request -> {"idle", "put", "peek", "lock", "commit"}]
  /\ request \in [Request -> [flow : Flow, session : Session \cup {None}, method : Method,
                              target : Request \cup {None}, stepped : BOOLEAN, adds : BOOLEAN,
                              removes : SUBSET Request,
                              codes : {"keep", "add", "replace", "delete"}]]

(* Recovery codes never outlive two-factor authentication: removing the     *)
(* last factor deletes them, whatever is regenerating them at that moment   *)
(* (RemoveFactor, RegenerateRecoveryCodes).                                 *)
CodesMeanFactor == recovery # {} => Factors # {}

(* Whoever has an app or a key has been given a set of recovery codes: the  *)
(* first one issues it, and it stays, its codes spent or not, while a       *)
(* factor does (firstRecoverySet).                                          *)
StrongMeansCodes == (\E p \in Request : factor[p] \in Strong) => recovery # {}

(* One set at a time: two confirmations at once do not each issue the first *)
(* (the lock of enrolmentOf), so the codes shown are all that are stored.   *)
OneRecoverySet == Cardinality(recovery) <= 1

(* An enrolment adds one factor, however often its answer is posted: what   *)
(* a commit adds has its session's enrolment, not yet dropped, behind it.   *)
EnrolmentAddsOnce ==
  [][\A p \in Request :
       request[p].flow = "confirm" /\ factor[p] = "none" /\ factor'[p] # "none"
         => enrolment[request[p].session] # "none"]_vars

(* Staff who have a second factor always do: two removals at once do not    *)
(* take the last two (deleteFactor's lock, RemoveFactor's count).           *)
StaffKeepOne == [][Required /\ Factors # {} => Factors' # {}]_vars

(* Said of BeginApp (factors.go:117): like every change to the factors of   *)
(* an account that has 2FA, it needs a recent step-up.                      *)
ChangesAreSteppedUp ==
  \A p \in Request : pc[p] = "commit" /\ Factors # {} => request[p].stepped
=============================================================================
