------------------------------- MODULE SignIn -------------------------------
(***************************************************************************)
(* How a password opens sessions, and how changing it ends them: the       *)
(* flows of internal/identity over one account, statement by statement.    *)
(*                                                                         *)
(* A request is one HTTP request. It names the row it inserts too: a       *)
(* request mints at most one token, so the challenge or the session it     *)
(* opens is challenge[p] or session[p].                                    *)
(*                                                                         *)
(* Every flow runs its statements in one READ COMMITTED transaction. The   *)
(* variables secret, challenge and session are the committed rows; what a  *)
(* transaction has written is visible to the others only at its Commit     *)
(* action, and until then it holds the locks of the rows it wrote.         *)
(* argon2 runs between two transactions, so a request that verified a      *)
(* password holds nothing while it does.                                   *)
(*                                                                         *)
(* Kept by other modules: the audit chain, the failure run, the enrolled   *)
(* factors (here only whether there is one), mail.                         *)
(***************************************************************************)
EXTENDS Integers, FiniteSets

CONSTANTS
  Request,             \* every request the behaviour may see
  None,                \* no request: no owner of a lock, no session
  ChallengeAttempts    \* wrong answers a challenge accepts

ASSUME NoneAssumption == None \notin Request
ASSUME AttemptsAssumption == ChallengeAttempts \in Nat \ {0}

VARIABLES
  secret,         \* the credential row
  hasFactor,      \* the account has a second factor
  challenge,      \* sign_in_challenge, by the request that opened it
  session,        \* session, by the request that opened it
  secretLock,     \* the transaction holding the credential row
  challengeLock,  \* the transaction holding each challenge row
  sessionLock,    \* the transaction holding each session row
  pc,             \* the next statement of each request
  request         \* what each request asked for and has read

rows  == <<secret, hasFactor, challenge, session>>
locks == <<secretLock, challengeLock, sessionLock>>
vars  == <<rows, locks, pc, request>>

RequestOrNone == Request \cup {None}

(* A password is named by the request that set it, None for the first.     *)
(* A hash is salted, so each one made is different from every other.       *)
Password == RequestOrNone
Secret   == [password : Password, hash : RequestOrNone, stale : BOOLEAN]

(* A challenge and a session carry the password that opened them, which    *)
(* the tables do not keep: it is what the properties speak about.          *)
Challenge == [state    : {"absent", "open", "used"},
              session  : RequestOrNone,
              attempts : 0 .. ChallengeAttempts,
              expired  : BOOLEAN,
              password : Password]
Session   == [state     : {"absent", "live", "revoked"},
              steppedUp : BOOLEAN,
              from      : RequestOrNone,
              password  : Password]

Flow == {"signin", "answer", "stepup", "change", "end"}
Step == {"idle", "read", "lock", "open", "retire", "revoke", "challenge",
         "check", "mark", "begin", "end", "commit", "done"}
Outcome == {"none", "refused", "failed", "wrong", "right", "opened"}

(* flow, typed, target and as are what was asked; read, stepped, second    *)
(* and outcome what the request has learnt.                                *)
Asked == [flow    : Flow,
          typed   : Password,        \* the password typed
          target  : RequestOrNone,   \* the challenge answered
          as      : RequestOrNone,   \* the session the cookie holds
          read    : Secret,          \* the credential read before argon2
          second  : BOOLEAN,         \* the sign-in found a second factor
          stepped : BOOLEAN,         \* the cookie's session was stepped up
          outcome : Outcome]

NoChallenge == [state |-> "absent", session |-> None, attempts |-> 0,
                expired |-> FALSE, password |-> None]
NoSession   == [state |-> "absent", steppedUp |-> FALSE, from |-> None,
                password |-> None]

-----------------------------------------------------------------------------
(* What the statements' WHERE clauses say of a committed row.              *)

(* challengeForUpdate: not used, not expired, attempts left. *)
Answerable(c) ==
  /\ challenge[c].state = "open"
  /\ ~challenge[c].expired
  /\ challenge[c].attempts < ChallengeAttempts

(* The DELETE of insertChallenge: expired or used. *)
Dead(c) ==
  \/ challenge[c].state = "used"
  \/ challenge[c].state = "open" /\ challenge[c].expired

(* The DELETE of endSignIns: every sign-in challenge, none that names a session. *)
SignInRow(c) == challenge[c].state # "absent" /\ challenge[c].session = None

Live(s) == session[s].state = "live"

Unlocked(lock, S) == \A r \in S : lock[r] = None

DeadRows    == {c \in Request : Dead(c)}
SignInRows  == {c \in Request : SignInRow(c)}
LiveRows    == {s \in Request : Live(s)}

(* Rows locked by p's transaction, once it holds S too. *)
Hold(lock, S, p) == [r \in Request |-> IF r \in S THEN p ELSE lock[r]]
Release(lock, p) == [r \in Request |-> IF lock[r] = p THEN None ELSE lock[r]]

-----------------------------------------------------------------------------
Init ==
  /\ secret \in {[password |-> None, hash |-> None, stale |-> b] : b \in BOOLEAN}
  /\ hasFactor \in BOOLEAN
  /\ challenge = [c \in Request |-> NoChallenge]
  /\ session = [s \in Request |-> NoSession]
  /\ secretLock = None
  /\ challengeLock = [c \in Request |-> None]
  /\ sessionLock = [s \in Request |-> None]
  /\ pc = [p \in Request |-> "idle"]
  /\ request = [p \in Request |->
       [flow |-> "signin", typed |-> None, target |-> None, as |-> None,
        read |-> secret, second |-> FALSE, stepped |-> FALSE,
        outcome |-> "none"]]

(***************************************************************************)
(* What a request asks for. The session a cookie holds was live when the   *)
(* middleware authenticated it; nothing reads it again.                    *)
(***************************************************************************)
Begin(p, step, asked) ==
  /\ pc[p] = "idle"
  /\ pc' = [pc EXCEPT ![p] = step]
  /\ request' = [request EXCEPT ![p] = asked]
  /\ UNCHANGED <<rows, locks>>

BeginSignIn(p, typed) ==
  Begin(p, "read", [request[p] EXCEPT !.flow = "signin", !.typed = typed])

(* A step-up's page sends the session of its cookie, a sign-in's none. *)
BeginAnswer(p, c, as) ==
  /\ challenge[c].state # "absent"
  /\ as # None => Live(as)
  /\ Begin(p, "challenge", [request[p] EXCEPT !.flow = "answer", !.target = c, !.as = as])

BeginStepUp(p, s) ==
  /\ Live(s)
  /\ Begin(p, "begin", [request[p] EXCEPT !.flow = "stepup", !.as = s])

(* NeedsStepUp, on the session as it was authenticated. *)
BeginChange(p, s, typed) ==
  /\ Live(s)
  /\ hasFactor => session[s].steppedUp
  /\ Begin(p, "read", [request[p] EXCEPT !.flow = "change", !.typed = typed, !.as = s,
                                     !.stepped = session[s].steppedUp])

(* SignOut, and Supersede after a new sign-in. *)
BeginEnd(p, s) ==
  /\ Live(s)
  /\ Begin(p, "end", [request[p] EXCEPT !.flow = "end", !.as = s])

-----------------------------------------------------------------------------
(* One statement of a flow. *)

Goto(p, step) == pc' = [pc EXCEPT ![p] = step]

(* The transaction ends and its locks go. *)
Finish(p, outcome) ==
  /\ Goto(p, "done")
  /\ request' = [request EXCEPT ![p].outcome = outcome]
  /\ secretLock' = IF secretLock = p THEN None ELSE secretLock
  /\ challengeLock' = Release(challengeLock, p)
  /\ sessionLock' = Release(sessionLock, p)

Refuse(p) == Finish(p, "refused") /\ UNCHANGED rows

(* credentials, or passwordOf: read with no lock, in a transaction of its  *)
(* own, and then argon2 with none open.                                    *)
ReadSecret(p) ==
  /\ pc[p] = "read"
  /\ request[p].typed = secret.password
  /\ request' = [request EXCEPT ![p].read = secret]
  /\ Goto(p, "lock")
  /\ UNCHANGED <<rows, locks>>

WrongPassword(p) ==
  /\ pc[p] = "read"
  /\ request[p].typed # secret.password
  /\ Refuse(p)

(* A slip: the credential locked and not compared. *)
PasswordStill_NotCompared(p) ==
  /\ pc[p] = "lock"
  /\ secretLock = None
  /\ secretLock' = p
  /\ Goto(p, IF request[p].flow = "signin" THEN "open" ELSE "retire")
  /\ UNCHANGED <<rows, challengeLock, sessionLock, request>>

(* passwordStill: the credential FOR UPDATE, compared with what was verified. *)
PasswordStill(p) ==
  /\ pc[p] = "lock"
  /\ secretLock = None
  /\ secret.hash = request[p].read.hash
  /\ secretLock' = p
  /\ Goto(p, IF request[p].flow = "signin" THEN "open" ELSE "retire")
  /\ UNCHANGED <<rows, challengeLock, sessionLock, request>>

PasswordChanged(p) ==
  /\ pc[p] = "lock"
  /\ secretLock = None
  /\ secret.hash # request[p].read.hash
  /\ Refuse(p)

(* countFactors, which locks nothing. *)
CountFactors(p) ==
  /\ pc[p] = "open"
  /\ request' = [request EXCEPT ![p].second = hasFactor]
  /\ Goto(p, IF hasFactor THEN "begin" ELSE "commit")
  /\ UNCHANGED <<rows, locks>>

(* insertChallenge: the DELETE waits for the dead rows it removes. *)
InsertChallenge(p) ==
  /\ pc[p] = "begin"
  /\ Unlocked(challengeLock, DeadRows)
  /\ challengeLock' = Hold(challengeLock, DeadRows, p)
  /\ Goto(p, "commit")
  /\ UNCHANGED <<rows, secretLock, sessionLock, request>>

(* A slip: the challenge read without FOR UPDATE. *)
LockChallenge_NoLock(p) ==
  LET c == request[p].target IN
  /\ pc[p] = "challenge"
  /\ Answerable(c)
  /\ challenge[c].session = request[p].as
  /\ Goto(p, "check")
  /\ UNCHANGED <<rows, locks, request>>

(* challengeForUpdate, and the session the challenge must name. *)
LockChallenge(p) ==
  LET c == request[p].target IN
  /\ pc[p] = "challenge"
  /\ Answerable(c)
  /\ challengeLock[c] = None
  /\ challenge[c].session = request[p].as
  /\ challengeLock' = [challengeLock EXCEPT ![c] = p]
  /\ Goto(p, "check")
  /\ UNCHANGED <<rows, secretLock, sessionLock, request>>

ChallengeInvalid(p) ==
  LET c == request[p].target IN
  /\ pc[p] = "challenge"
  /\ \/ ~Answerable(c)
     \/ challengeLock[c] = None /\ challenge[c].session # request[p].as
  /\ Refuse(p)

(* check: whether the answer proves a factor is another module's question. *)
Check(p, right) ==
  /\ pc[p] = "check"
  /\ request' = [request EXCEPT ![p].outcome = IF right THEN "right" ELSE "wrong"]
  /\ Goto(p, IF right /\ request[p].as # None THEN "mark" ELSE "commit")
  /\ UNCHANGED <<rows, locks>>

(* markSteppedUp, or markEmailConfirmed: an UPDATE of the session's row. *)
MarkSession(p) ==
  LET s == request[p].as IN
  /\ pc[p] = "mark"
  /\ sessionLock[s] = None
  /\ sessionLock' = [sessionLock EXCEPT ![s] = p]
  /\ Goto(p, "commit")
  /\ UNCHANGED <<rows, secretLock, challengeLock, request>>

(* A slip: the DELETE leaves the challenges that are being answered. *)
EndSignIns_SkipLocked(p) ==
  /\ pc[p] = "retire"
  /\ challengeLock' = Hold(challengeLock, {c \in SignInRows : challengeLock[c] = None}, p)
  /\ Goto(p, "revoke")
  /\ UNCHANGED <<rows, secretLock, sessionLock, request>>

(* endSignIns: the DELETE waits for an answer that holds one of the rows. *)
EndSignIns(p) ==
  /\ pc[p] = "retire"
  /\ Unlocked(challengeLock, SignInRows)
  /\ challengeLock' = Hold(challengeLock, SignInRows, p)
  /\ Goto(p, "revoke")
  /\ UNCHANGED <<rows, secretLock, sessionLock, request>>

(* revokeSessions: an UPDATE of every live session of the account. *)
RevokeSessions(p) ==
  /\ pc[p] = "revoke"
  /\ Unlocked(sessionLock, LiveRows)
  /\ sessionLock' = Hold(sessionLock, LiveRows, p)
  /\ Goto(p, "commit")
  /\ UNCHANGED <<rows, secretLock, challengeLock, request>>

(* A slip: ending a session also deletes the account's dead challenges,    *)
(* which takes the session before the challenges.                          *)
EndSession_ThenChallenges(p) ==
  LET s == request[p].as IN
  /\ pc[p] = "end"
  /\ Live(s)
  /\ sessionLock[s] = None
  /\ sessionLock' = [sessionLock EXCEPT ![s] = p]
  /\ Goto(p, "begin")
  /\ UNCHANGED <<rows, secretLock, challengeLock, request>>

(* revokeSession: an UPDATE of one live session, or of none. *)
EndSession(p) ==
  LET s == request[p].as IN
  /\ pc[p] = "end"
  /\ Live(s)
  /\ sessionLock[s] = None
  /\ sessionLock' = [sessionLock EXCEPT ![s] = p]
  /\ Goto(p, "commit")
  /\ UNCHANGED <<rows, secretLock, challengeLock, request>>

NothingToEnd(p) ==
  /\ pc[p] = "end"
  /\ ~Live(request[p].as)
  /\ Refuse(p)

-----------------------------------------------------------------------------
(* The commits: what each transaction wrote, to the rows it holds.         *)

OpenSession(steppedUp, from, password) ==
  [state |-> "live", steppedUp |-> steppedUp, from |-> from, password |-> password]

OpenChallenge(as, password) ==
  [NoChallenge EXCEPT !.state = "open", !.session = as, !.password = password]

(* The dead rows p deleted, and the row it inserted. *)
ChallengesAfterInsert(p, row) ==
  [c \in Request |-> IF c = p THEN row
                     ELSE IF challengeLock[c] = p THEN NoChallenge ELSE challenge[c]]

(* A hash made with other parameters is made again, by the sign-in that    *)
(* has the password at hand.                                               *)
Rehash(p) == secret' = IF request[p].read.stale
                         THEN [secret EXCEPT !.hash = p, !.stale = FALSE]
                         ELSE secret

CommitSignIn(p) ==
  /\ pc[p] = "commit"
  /\ request[p].flow = "signin"
  /\ ~request[p].second
  /\ Rehash(p)
  /\ session' = [session EXCEPT ![p] = OpenSession(FALSE, None, request[p].typed)]
  /\ Finish(p, "opened")
  /\ UNCHANGED <<hasFactor, challenge>>

CommitFirstStep(p) ==
  /\ pc[p] = "commit"
  /\ request[p].flow = "signin"
  /\ request[p].second
  /\ Rehash(p)
  /\ challenge' = ChallengesAfterInsert(p, OpenChallenge(None, request[p].typed))
  /\ Finish(p, "opened")
  /\ UNCHANGED <<hasFactor, session>>

CommitStepUpBegun(p) ==
  LET s == request[p].as IN
  /\ pc[p] = "commit"
  /\ request[p].flow = "stepup"
  /\ challenge' = ChallengesAfterInsert(p, OpenChallenge(s, session[s].password))
  /\ Finish(p, "opened")
  /\ UNCHANGED <<secret, hasFactor, session>>

(* challengeAttempt: the last wrong answer allowed spends the challenge. *)
CommitWrong(p) ==
  LET c == request[p].target
      n == challenge[c].attempts + 1
  IN
  /\ pc[p] = "commit"
  /\ request[p].flow = "answer"
  /\ request[p].outcome = "wrong"
  /\ challenge' = [challenge EXCEPT ![c].attempts = n,
                     ![c].state = IF n >= ChallengeAttempts THEN "used" ELSE @]
  /\ Finish(p, "wrong")
  /\ UNCHANGED <<secret, hasFactor, session>>

(* A slip: the session opened and the challenge not spent. *)
CommitSecondStep_NotSpent(p) ==
  LET c == request[p].target IN
  /\ pc[p] = "commit"
  /\ request[p].flow = "answer"
  /\ request[p].outcome = "right"
  /\ request[p].as = None
  /\ session' = [session EXCEPT ![p] = OpenSession(TRUE, c, challenge[c].password)]
  /\ Finish(p, "right")
  /\ UNCHANGED <<secret, hasFactor, challenge>>

(* spendChallenge, and CompleteSignIn's session, stepped up from the start. *)
CommitSecondStep(p) ==
  LET c == request[p].target IN
  /\ pc[p] = "commit"
  /\ request[p].flow = "answer"
  /\ request[p].outcome = "right"
  /\ request[p].as = None
  /\ challenge' = [challenge EXCEPT ![c].state = "used"]
  /\ session' = [session EXCEPT ![p] = OpenSession(TRUE, c, challenge[c].password)]
  /\ Finish(p, "right")
  /\ UNCHANGED <<secret, hasFactor>>

(* spendChallenge, and StepUp's mark. proved is FALSE for a code to an     *)
(* address that is not a factor: it marks another column.                  *)
CommitStepUp(p, proved) ==
  LET c == request[p].target
      s == request[p].as
  IN
  /\ pc[p] = "commit"
  /\ request[p].flow = "answer"
  /\ request[p].outcome = "right"
  /\ s # None
  /\ challenge' = [challenge EXCEPT ![c].state = "used"]
  /\ session' = [session EXCEPT ![s].steppedUp = @ \/ proved]
  /\ Finish(p, "right")
  /\ UNCHANGED <<secret, hasFactor>>

(* ChangePassword: the new hash, the sign-ins waiting for their second     *)
(* step deleted, every live session revoked, and a new one for the browser *)
(* that asked, which keeps the step-up of the old.                         *)
CommitChange(p) ==
  /\ pc[p] = "commit"
  /\ request[p].flow = "change"
  /\ secret' = [password |-> p, hash |-> p, stale |-> FALSE]
  /\ challenge' = [c \in Request |->
       IF challengeLock[c] = p THEN NoChallenge ELSE challenge[c]]
  /\ session' = [r \in Request |->
       IF r = p THEN OpenSession(request[p].stepped, None, p)
       ELSE IF sessionLock[r] = p THEN [session[r] EXCEPT !.state = "revoked"]
       ELSE session[r]]
  /\ Finish(p, "opened")
  /\ UNCHANGED hasFactor

CommitEnd(p) ==
  /\ pc[p] = "commit"
  /\ request[p].flow = "end"
  /\ session' = [session EXCEPT ![request[p].as].state = "revoked"]
  /\ Finish(p, "opened")
  /\ UNCHANGED <<secret, hasFactor, challenge>>

(* The statement, the connection or the process fails: the transaction     *)
(* rolls back.                                                             *)
Abort(p) ==
  /\ pc[p] \notin {"idle", "done"}
  /\ Finish(p, "failed")
  /\ UNCHANGED rows

-----------------------------------------------------------------------------
(* What happens to the rows without a request: a challenge's lifetime ends *)
(* and other requests enrol the first factor or remove the last.           *)
Expire(c) ==
  /\ challenge[c].state = "open"
  /\ ~challenge[c].expired
  /\ challenge' = [challenge EXCEPT ![c].expired = TRUE]
  /\ UNCHANGED <<secret, hasFactor, session, locks, pc, request>>

FactorsChange ==
  /\ hasFactor' = ~hasFactor
  /\ UNCHANGED <<secret, challenge, session, locks, pc, request>>

Arrive(p) ==
  \/ \E typed \in Password : BeginSignIn(p, typed)
  \/ \E c \in Request, as \in RequestOrNone : BeginAnswer(p, c, as)
  \/ \E s \in Request : BeginStepUp(p, s) \/ BeginEnd(p, s)
  \/ \E s \in Request, typed \in Password : BeginChange(p, s, typed)

Commit(p) ==
  \/ CommitSignIn(p) \/ CommitFirstStep(p) \/ CommitStepUpBegun(p)
  \/ CommitWrong(p) \/ CommitSecondStep(p)
  \/ \E proved \in BOOLEAN : CommitStepUp(p, proved)
  \/ CommitChange(p) \/ CommitEnd(p)

Statement(p) ==
  \/ ReadSecret(p) \/ WrongPassword(p)
  \/ PasswordStill(p) \/ PasswordChanged(p)
  \/ CountFactors(p) \/ InsertChallenge(p)
  \/ LockChallenge(p) \/ ChallengeInvalid(p)
  \/ \E right \in BOOLEAN : Check(p, right)
  \/ MarkSession(p) \/ EndSignIns(p) \/ RevokeSessions(p)
  \/ EndSession(p) \/ NothingToEnd(p)

Next ==
  \/ \E p \in Request : Arrive(p) \/ Statement(p) \/ Commit(p) \/ Abort(p)
  \/ \E c \in Request : Expire(c)
  \/ FactorsChange

Spec == Init /\ [][Next]_vars

-----------------------------------------------------------------------------
(* Every variable holds what the tables and the requests can hold: among   *)
(* them, an attempt counter that never passes its limit.                   *)
TypeOK ==
  /\ secret \in Secret
  /\ hasFactor \in BOOLEAN
  /\ challenge \in [Request -> Challenge]
  /\ session \in [Request -> Session]
  /\ secretLock \in RequestOrNone
  /\ challengeLock \in [Request -> RequestOrNone]
  /\ sessionLock \in [Request -> RequestOrNone]
  /\ pc \in [Request -> Step]
  /\ request \in [Request -> Asked]

(* ChangePassword "ends every session of that account, and every sign-in   *)
(* waiting for its second step": once it has committed, whatever was in    *)
(* flight, no session lives and no sign-in waits that another password     *)
(* opened.                                                                 *)
OnlyCurrentPassword ==
  /\ \A s \in Request : Live(s) => session[s].password = secret.password
  /\ \A c \in Request : challenge[c].state = "open" /\ challenge[c].session = None
                          => challenge[c].password = secret.password

(* spendChallenge: "a right answer opens one session or one step-up, and   *)
(* never two", whatever the answers sent at the same time.                 *)
OneSessionPerChallenge ==
  \A s, t \in Request :
    s # t /\ session[s].from # None => session[s].from # session[t].from

(* No challenge has more answers checked than its attempts, counting those *)
(* sent at the same time: a wrong one is told so at most ChallengeAttempts *)
(* times, and a right one after that is not heard.                         *)
Answered(c, how) ==
  {p \in Request : /\ request[p].flow = "answer"
                   /\ request[p].target = c
                   /\ pc[p] = "done"
                   /\ request[p].outcome \in how}

AttemptsBounded ==
  \A c \in Request : Cardinality(Answered(c, {"wrong", "right"})) <= ChallengeAttempts

(* Who holds a row p's next statement waits for.                           *)
Blockers(p) ==
  CASE pc[p] = "lock"   -> {secretLock} \ {None}
    [] pc[p] = "begin"  -> {challengeLock[c] : c \in DeadRows} \ {None}
    [] pc[p] = "retire" -> {challengeLock[c] : c \in SignInRows} \ {None}
    [] pc[p] = "revoke" -> {sessionLock[s] : s \in LiveRows} \ {None}
    [] pc[p] \in {"mark", "end"} -> {sessionLock[request[p].as]} \ {None}
    [] pc[p] = "challenge" -> {challengeLock[request[p].target]} \ {None}
    [] OTHER -> {}

(* The lock order of ChangePassword's and answerChallenge's comments -     *)
(* credential, sign-in challenges, sessions - leaves no circle of requests *)
(* each waiting for a row the next one holds.                              *)
NoDeadlock ==
  \A D \in (SUBSET Request) \ {{}} : \E p \in D : Blockers(p) \cap D = {}

(* The flows are the steps of Account: each takes effect at its commit,    *)
(* entirely, on the password of that moment.                               *)
Promise == INSTANCE Account WITH
  Token    <- Request,
  First    <- None,
  password <- secret.password,
  live     <- {[token |-> s, password |-> session[s].password] : s \in LiveRows},
  waiting  <- {[token |-> c, password |-> challenge[c].password] :
                c \in {d \in SignInRows : challenge[d].state = "open"}}

FlowsAreAtomic == Promise!Spec
=============================================================================
