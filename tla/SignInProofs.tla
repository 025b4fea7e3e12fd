---------------------------- MODULE SignInProofs ----------------------------
(***************************************************************************)
(* Proofs about SignIn, for any number of requests and of attempts.        *)
(*                                                                         *)
(* The inductive invariant is Inv: what each request holds at each of its  *)
(* statements, and what follows for the rows. Its heart is Held: from      *)
(* EndSignIns on, a change holds every sign-in challenge, so no answer can *)
(* be opening a session; from RevokeSessions on it holds every live one.   *)
(***************************************************************************)
EXTENDS SignIn, FiniteSetTheorems, TLAPS

(* Which flow runs which statement. *)
FlowOf(p) ==
  /\ pc[p] \in {"read", "lock"} => request[p].flow \in {"signin", "change"}
  /\ pc[p] = "open" => request[p].flow = "signin"
  /\ pc[p] \in {"retire", "revoke"} => request[p].flow = "change"
  /\ pc[p] \in {"challenge", "check", "mark"} => request[p].flow = "answer"
  /\ pc[p] = "begin" => \/ request[p].flow = "signin" /\ request[p].second
                        \/ request[p].flow = "stepup"
  /\ pc[p] = "end" => request[p].flow = "end"
  /\ pc[p] = "mark" => request[p].as # None
  /\ pc[p] \notin {"idle", "done"} /\ request[p].flow \in {"stepup", "end", "change"}
       => request[p].as # None
  /\ pc[p] \notin {"idle", "done"} /\ request[p].flow = "answer"
       => request[p].target # None

Flows == \A p \in Request : FlowOf(p)

(* The statements at which p holds the credential, and the challenge it answers. *)
HoldsSecret(p) ==
  \/ pc[p] \in {"open", "retire", "revoke"}
  \/ pc[p] \in {"begin", "commit"} /\ request[p].flow \in {"signin", "change"}

HoldsChallenge(p) ==
  \/ pc[p] \in {"check", "mark"}
  \/ pc[p] = "commit" /\ request[p].flow = "answer"

(* Every hash there is was made by a request that has committed, so a hash *)
(* seen again is the same password.                                        *)
Hashes ==
  /\ secret.hash # None => pc[secret.hash] = "done"
  /\ \A p \in Request : pc[p] = "lock" =>
       /\ request[p].read.hash # None => pc[request[p].read.hash] = "done"
       /\ request[p].read.hash = secret.hash => request[p].typed = secret.password

(* What a transaction read under a lock is still so: the credential, the   *)
(* challenge answered, and for a change the rows it is about to end.       *)
HeldSecret(p) ==
  HoldsSecret(p) => /\ secretLock = p
                    /\ request[p].flow = "signin" => request[p].typed = secret.password

HeldChallenge(p) ==
  HoldsChallenge(p) => LET c == request[p].target IN
                       /\ challengeLock[c] = p
                       /\ challenge[c].state = "open"
                       /\ challenge[c].session = request[p].as

HeldSignIns(p) ==
  pc[p] = "revoke" \/ (pc[p] = "commit" /\ request[p].flow = "change")
    => \A c \in Request : SignInRow(c) => challengeLock[c] = p

HeldSessions(p) ==
  pc[p] = "commit" /\ request[p].flow = "change"
    => \A s \in Request : Live(s) => sessionLock[s] = p

Held == \A p \in Request :
  HeldSecret(p) /\ HeldChallenge(p) /\ HeldSignIns(p) /\ HeldSessions(p)

(* A request's challenge appears when it commits, a challenge that opened  *)
(* a session is open no more, and an open one has an attempt left.         *)
Fresh ==
  /\ \A p \in Request : pc[p] # "done" => challenge[p].state = "absent"
  /\ \A s \in Request : session[s].from # None =>
       /\ pc[session[s].from] = "done"
       /\ challenge[session[s].from].state # "open"
  /\ \A c \in Request : challenge[c].state = "open"
                          => challenge[c].attempts < ChallengeAttempts

Inv == TypeOK /\ Flows /\ Hashes /\ Held /\ Fresh /\ OnlyCurrentPassword /\ OneSessionPerChallenge

-----------------------------------------------------------------------------
LEMMA InitInv == Init => Inv
  BY NoneAssumption, AttemptsAssumption
  DEF Init, Inv, TypeOK, Flows, FlowOf, Hashes, Held, HeldSecret, HeldChallenge, HeldSignIns, HeldSessions,
      Fresh, OnlyCurrentPassword, OneSessionPerChallenge,
      HoldsSecret, HoldsChallenge, SignInRow, Live, NoChallenge, NoSession, RequestOrNone,
      Secret, Password, Challenge, Session, Asked, Flow, Step, Outcome

(***************************************************************************)
(* The types, action by action.                                            *)
(***************************************************************************)
LEMMA FinishTypes ==
  ASSUME TypeOK, NEW p \in Request, NEW o \in Outcome, Finish(p, o)
  PROVE  /\ secretLock' \in RequestOrNone
         /\ challengeLock' \in [Request -> RequestOrNone]
         /\ sessionLock' \in [Request -> RequestOrNone]
         /\ pc' \in [Request -> Step]
         /\ request' \in [Request -> Asked]
<1>1. request' \in [Request -> Asked]
  BY DEF TypeOK, Finish, Asked, Outcome
<1>2. pc' \in [Request -> Step]
  BY DEF TypeOK, Finish, Goto, Step
<1>3. QED
  BY <1>1, <1>2 DEF TypeOK, Finish, Release, RequestOrNone

LEMMA BeginTypes ==
  ASSUME TypeOK, NEW p \in Request, NEW step \in Step, NEW asked \in Asked, Begin(p, step, asked)
  PROVE  TypeOK'
  BY DEF TypeOK, Begin, rows, locks

LEMMA ArriveTypes ==
  ASSUME TypeOK, NEW p \in Request, Arrive(p)
  PROVE  TypeOK'
<1> request[p] \in Asked
  BY DEF TypeOK
<1>1. ASSUME NEW typed \in Password, BeginSignIn(p, typed) PROVE TypeOK'
  <2>1. [request[p] EXCEPT !.flow = "signin", !.typed = typed] \in Asked
    BY DEF Asked, Flow
  <2>2. QED
    BY <1>1, <2>1, BeginTypes DEF BeginSignIn, Step
<1>2. ASSUME NEW c \in Request, NEW as \in RequestOrNone, BeginAnswer(p, c, as) PROVE TypeOK'
  <2>1. [request[p] EXCEPT !.flow = "answer", !.target = c, !.as = as] \in Asked
    BY DEF Asked, Flow, RequestOrNone
  <2>2. QED
    BY <1>2, <2>1, BeginTypes DEF BeginAnswer, Step
<1>3. ASSUME NEW s \in Request, BeginStepUp(p, s) PROVE TypeOK'
  <2>1. [request[p] EXCEPT !.flow = "stepup", !.as = s] \in Asked
    BY DEF Asked, Flow, RequestOrNone
  <2>2. QED
    BY <1>3, <2>1, BeginTypes DEF BeginStepUp, Step
<1>4. ASSUME NEW s \in Request, BeginEnd(p, s) PROVE TypeOK'
  <2>1. [request[p] EXCEPT !.flow = "end", !.as = s] \in Asked
    BY DEF Asked, Flow, RequestOrNone
  <2>2. QED
    BY <1>4, <2>1, BeginTypes DEF BeginEnd, Step
<1>5. ASSUME NEW s \in Request, NEW typed \in Password, BeginChange(p, s, typed) PROVE TypeOK'
  <2>1. session[s].steppedUp \in BOOLEAN
    BY DEF TypeOK, Session
  <2>2. [request[p] EXCEPT !.flow = "change", !.typed = typed, !.as = s,
                           !.stepped = session[s].steppedUp] \in Asked
    BY <2>1 DEF Asked, Flow, RequestOrNone
  <2>3. QED
    BY <1>5, <2>2, BeginTypes DEF BeginChange, Step
<1>6. QED
  BY <1>1, <1>2, <1>3, <1>4, <1>5 DEF Arrive

LEMMA RefuseTypes ==
  ASSUME TypeOK, NEW p \in Request, Refuse(p)
  PROVE  TypeOK'
<1>1. Finish(p, "refused") /\ UNCHANGED rows
  BY DEF Refuse
<1>2. QED
  BY <1>1, FinishTypes DEF Outcome, TypeOK, rows

LEMMA StatementTypes ==
  ASSUME TypeOK, NEW p \in Request, Statement(p)
  PROVE  TypeOK'
<1> request[p] \in Asked
  BY DEF TypeOK
<1>1. CASE ReadSecret(p)
  <2>1. [request[p] EXCEPT !.read = secret] \in Asked
    BY DEF Asked, TypeOK
  <2>2. request' \in [Request -> Asked]
    BY <1>1, <2>1 DEF ReadSecret, TypeOK
  <2>3. QED
    BY <1>1, <2>2 DEF ReadSecret, Goto, Step, TypeOK, rows, locks
<1>2. CASE WrongPassword(p) \/ PasswordChanged(p) \/ ChallengeInvalid(p) \/ NothingToEnd(p)
  BY <1>2, RefuseTypes DEF WrongPassword, PasswordChanged, ChallengeInvalid, NothingToEnd
<1>3. CASE PasswordStill(p)
  BY <1>3 DEF PasswordStill, Goto, Step, TypeOK, rows, RequestOrNone
<1>4. CASE CountFactors(p)
  <2>1. [request[p] EXCEPT !.second = hasFactor] \in Asked
    BY DEF Asked, TypeOK
  <2>2. request' \in [Request -> Asked]
    BY <1>4, <2>1 DEF CountFactors, TypeOK
  <2>3. QED
    BY <1>4, <2>2 DEF CountFactors, Goto, Step, TypeOK, rows, locks
<1>5. CASE InsertChallenge(p) \/ EndSignIns(p) \/ LockChallenge(p)
  BY <1>5 DEF InsertChallenge, EndSignIns, LockChallenge, Goto, Hold, Step, TypeOK, rows, RequestOrNone
<1>6. CASE RevokeSessions(p) \/ MarkSession(p) \/ EndSession(p)
  BY <1>6 DEF RevokeSessions, MarkSession, EndSession, Goto, Hold, Step, TypeOK, rows, RequestOrNone
<1>7. ASSUME NEW right \in BOOLEAN, Check(p, right) PROVE TypeOK'
  <2>1. [request[p] EXCEPT !.outcome = IF right THEN "right" ELSE "wrong"] \in Asked
    BY DEF Asked, Outcome
  <2>2. request' \in [Request -> Asked]
    BY <1>7, <2>1 DEF Check, TypeOK
  <2>3. QED
    BY <1>7, <2>2 DEF Check, Goto, Step, TypeOK, rows, locks
<1>8. QED
  BY <1>1, <1>2, <1>3, <1>4, <1>5, <1>6, <1>7 DEF Statement

(* Only challengeAttempt needs more than the types: the challenge it       *)
(* counts against has an attempt left.                                     *)
LEMMA CommitTypes ==
  ASSUME Inv, NEW p \in Request, Commit(p)
  PROVE  TypeOK'
<1> USE NoneAssumption, AttemptsAssumption
<1> TypeOK /\ request[p] \in Asked /\ FlowOf(p)
  BY DEF Inv, TypeOK, Flows
<1> \A steppedUp \in BOOLEAN, from \in RequestOrNone, w \in Password :
      OpenSession(steppedUp, from, w) \in Session
  BY DEF OpenSession, Session
<1> NoChallenge \in Challenge
  BY DEF NoChallenge, Challenge, RequestOrNone, Password
<1> \A as \in RequestOrNone, w \in Password : OpenChallenge(as, w) \in Challenge
  BY DEF OpenChallenge, Challenge
<1> None \in RequestOrNone /\ None \in Password /\ p \in RequestOrNone /\ p \in Password
  BY DEF RequestOrNone, Password
<1> /\ request[p].typed \in Password
    /\ request[p].as \in RequestOrNone
    /\ request[p].stepped \in BOOLEAN
  BY DEF Asked
<1> /\ \A s \in Request : session[s] \in Session /\ session[s].password \in Password
    /\ \A c \in Request : challenge[c] \in Challenge /\ challenge[c].password \in Password
  BY DEF TypeOK, Session, Challenge
<1> ASSUME Rehash(p) PROVE secret' \in Secret
  BY DEF Rehash, TypeOK, Secret, RequestOrNone
<1>1. CASE CommitSignIn(p)
  <2>1. session' \in [Request -> Session] /\ secret' \in Secret
    BY <1>1 DEF CommitSignIn, TypeOK
  <2>2. QED
    BY <1>1, <2>1, FinishTypes DEF CommitSignIn, TypeOK, Outcome
<1>2. CASE CommitFirstStep(p)
  <2>1. challenge' \in [Request -> Challenge] /\ secret' \in Secret
    BY <1>2 DEF CommitFirstStep, ChallengesAfterInsert, TypeOK
  <2>2. QED
    BY <1>2, <2>1, FinishTypes DEF CommitFirstStep, TypeOK, Outcome
<1>3. CASE CommitStepUpBegun(p)
  <2>1. request[p].as \in Request
    BY <1>3 DEF CommitStepUpBegun, FlowOf, RequestOrNone
  <2>2. challenge' \in [Request -> Challenge]
    BY <1>3, <2>1 DEF CommitStepUpBegun, ChallengesAfterInsert, TypeOK
  <2>3. QED
    BY <1>3, <2>2, FinishTypes DEF CommitStepUpBegun, TypeOK, Outcome
<1>4. CASE CommitWrong(p)
  <2> DEFINE c == request[p].target
  <2>1. c \in Request
    BY <1>4 DEF CommitWrong, FlowOf, Asked, RequestOrNone
  <2>2. challenge[c].attempts \in Nat /\ challenge[c].attempts < ChallengeAttempts
    BY <1>4, <2>1 DEF CommitWrong, Inv, Held, HeldChallenge, HoldsChallenge, Fresh, Challenge
  <2>3. challenge[c].attempts + 1 \in 0 .. ChallengeAttempts
    BY <2>2
  <2> DEFINE n   == challenge[c].attempts + 1
             row == [challenge[c] EXCEPT !.attempts = n,
                       !.state = IF n >= ChallengeAttempts THEN "used" ELSE @]
  <2>4. row \in Challenge
    BY <2>1, <2>3 DEF Challenge
  <2>5. challenge' = [challenge EXCEPT ![c] = row]
    BY <1>4, <2>1 DEF CommitWrong, TypeOK
  <2>6. challenge' \in [Request -> Challenge]
    BY <2>1, <2>4, <2>5 DEF TypeOK
  <2>7. QED
    BY <1>4, <2>6, FinishTypes DEF CommitWrong, TypeOK, Outcome
<1>5. CASE CommitSecondStep(p)
  <2>1. request[p].target \in Request
    BY <1>5 DEF CommitSecondStep, FlowOf, Asked, RequestOrNone
  <2>2. [challenge[request[p].target] EXCEPT !.state = "used"] \in Challenge
    BY <2>1 DEF Challenge
  <2>3. challenge' \in [Request -> Challenge]
    BY <1>5, <2>1, <2>2 DEF CommitSecondStep, TypeOK
  <2>4. session' \in [Request -> Session]
    BY <1>5, <2>1 DEF CommitSecondStep, TypeOK, RequestOrNone
  <2>5. QED
    BY <1>5, <2>3, <2>4, FinishTypes DEF CommitSecondStep, TypeOK, Outcome
<1>6. ASSUME NEW proved \in BOOLEAN, CommitStepUp(p, proved) PROVE TypeOK'
  <2>1. challenge' \in [Request -> Challenge]
    BY <1>6 DEF CommitStepUp, Challenge, TypeOK
  <2>2. request[p].as \in Request
    BY <1>6 DEF CommitStepUp, RequestOrNone
  <2>3. [session[request[p].as] EXCEPT !.steppedUp = @ \/ proved] \in Session
    BY <2>2 DEF Session
  <2>4. session' \in [Request -> Session]
    BY <1>6, <2>2, <2>3 DEF CommitStepUp, TypeOK
  <2>5. QED
    BY <1>6, <2>1, <2>4, FinishTypes DEF CommitStepUp, TypeOK, Outcome
<1>7. CASE CommitChange(p)
  <2>1. secret' \in Secret
    BY <1>7 DEF CommitChange, Secret
  <2>2. challenge' \in [Request -> Challenge]
    BY <1>7 DEF CommitChange
  <2>3. session' \in [Request -> Session]
    BY <1>7 DEF CommitChange, Session
  <2>4. QED
    BY <1>7, <2>1, <2>2, <2>3, FinishTypes DEF CommitChange, TypeOK, Outcome
<1>8. CASE CommitEnd(p)
  <2>1. request[p].as \in Request
    BY <1>8 DEF CommitEnd, FlowOf, RequestOrNone
  <2>2. [session[request[p].as] EXCEPT !.state = "revoked"] \in Session
    BY <2>1 DEF Session
  <2>3. session' \in [Request -> Session]
    BY <1>8, <2>1, <2>2 DEF CommitEnd, TypeOK
  <2>4. QED
    BY <1>8, <2>3, FinishTypes DEF CommitEnd, TypeOK, Outcome
<1>9. QED
  BY <1>1, <1>2, <1>3, <1>4, <1>5, <1>6, <1>7, <1>8 DEF Commit

LEMMA TypeStep == Inv /\ [Next]_vars => TypeOK'
<1> SUFFICES ASSUME Inv, [Next]_vars PROVE TypeOK'
  OBVIOUS
<1> TypeOK
  BY DEF Inv
<1>1. ASSUME NEW p \in Request, Abort(p) PROVE TypeOK'
  BY <1>1, FinishTypes DEF Abort, Outcome, TypeOK, rows
<1>2. ASSUME NEW c \in Request, Expire(c) PROVE TypeOK'
  <2>1. challenge' \in [Request -> Challenge]
    BY <1>2 DEF Expire, TypeOK, Challenge
  <2>2. QED
    BY <1>2, <2>1 DEF Expire, TypeOK, locks
<1>3. CASE FactorsChange
  BY <1>3 DEF FactorsChange, TypeOK, locks
<1>4. CASE UNCHANGED vars
  BY <1>4 DEF vars, rows, locks, TypeOK
<1>5. QED
  BY <1>1, <1>2, <1>3, <1>4, ArriveTypes, StatementTypes, CommitTypes DEF Next

(***************************************************************************)
(* Which flow runs which statement.                                        *)
(***************************************************************************)
LEMMA ArriveFlows ==
  ASSUME Inv, NEW p \in Request, Arrive(p)
  PROVE  Flows'
<1> request \in [Request -> Asked] /\ pc \in [Request -> Step] /\ request[p] \in Asked
  BY DEF Inv, TypeOK
<1>1. ASSUME NEW q \in Request, q # p PROVE FlowOf(q)'
  <2>1. pc'[q] = pc[q] /\ request'[q] = request[q]
    BY <1>1 DEF Arrive, BeginSignIn, BeginAnswer, BeginStepUp, BeginEnd, BeginChange, Begin
  <2>2. QED
    BY <2>1 DEF Inv, Flows, FlowOf
<1>2. FlowOf(p)'
  <2>1. ASSUME NEW typed \in Password, BeginSignIn(p, typed) PROVE FlowOf(p)'
    <3>1. pc'[p] = "read" /\ request'[p].flow = "signin"
      BY <2>1 DEF BeginSignIn, Begin, Asked
    <3>2. QED
      BY <3>1 DEF FlowOf
  <2>2. ASSUME NEW c \in Request, NEW as \in RequestOrNone, BeginAnswer(p, c, as) PROVE FlowOf(p)'
    <3>1. pc'[p] = "challenge" /\ request'[p].flow = "answer" /\ request'[p].target = c
      BY <2>2 DEF BeginAnswer, Begin, Asked
    <3>2. QED
      BY <3>1, NoneAssumption DEF FlowOf
  <2>3. ASSUME NEW s \in Request, BeginStepUp(p, s) PROVE FlowOf(p)'
    <3>1. pc'[p] = "begin" /\ request'[p].flow = "stepup" /\ request'[p].as = s
      BY <2>3 DEF BeginStepUp, Begin, Asked
    <3>2. QED
      BY <3>1, NoneAssumption DEF FlowOf
  <2>4. ASSUME NEW s \in Request, BeginEnd(p, s) PROVE FlowOf(p)'
    <3>1. pc'[p] = "end" /\ request'[p].flow = "end" /\ request'[p].as = s
      BY <2>4 DEF BeginEnd, Begin, Asked
    <3>2. QED
      BY <3>1, NoneAssumption DEF FlowOf
  <2>5. ASSUME NEW s \in Request, NEW typed \in Password, BeginChange(p, s, typed) PROVE FlowOf(p)'
    <3>1. pc'[p] = "read" /\ request'[p].flow = "change" /\ request'[p].as = s
      BY <2>5 DEF BeginChange, Begin, Asked
    <3>2. QED
      BY <3>1, NoneAssumption DEF FlowOf
  <2>6. QED
    BY <2>1, <2>2, <2>3, <2>4, <2>5 DEF Arrive
<1>3. QED
  BY <1>1, <1>2 DEF Flows

LEMMA FinishFlows ==
  ASSUME Inv, NEW p \in Request, NEW o \in Outcome, Finish(p, o)
  PROVE  Flows'
<1>1. ASSUME NEW q \in Request PROVE FlowOf(q)'
  <2>1. CASE q = p
    BY <2>1 DEF Inv, TypeOK, Finish, Goto, FlowOf
  <2>2. CASE q # p
    BY <2>2 DEF Inv, TypeOK, Finish, Goto, Flows, FlowOf
  <2>3. QED
    BY <2>1, <2>2
<1>2. QED
  BY <1>1 DEF Flows

LEMMA StatementFlows ==
  ASSUME Inv, NEW p \in Request, Statement(p)
  PROVE  Flows'
<1> request \in [Request -> Asked] /\ pc \in [Request -> Step] /\ request[p] \in Asked /\ FlowOf(p)
  BY DEF Inv, TypeOK, Flows
<1>1. CASE WrongPassword(p) \/ PasswordChanged(p) \/ ChallengeInvalid(p) \/ NothingToEnd(p)
  BY <1>1, FinishFlows DEF WrongPassword, PasswordChanged, ChallengeInvalid, NothingToEnd, Refuse, Outcome
<1>2. CASE ~(WrongPassword(p) \/ PasswordChanged(p) \/ ChallengeInvalid(p) \/ NothingToEnd(p))
  <2>1. ASSUME NEW q \in Request, q # p PROVE FlowOf(q)'
    <3>1. pc'[q] = pc[q] /\ request'[q] = request[q]
      BY <1>2, <2>1 DEF Statement, ReadSecret, PasswordStill, CountFactors, InsertChallenge, LockChallenge,
         Check, MarkSession, EndSignIns, RevokeSessions, EndSession, Goto
    <3>2. QED
      BY <3>1 DEF Inv, Flows, FlowOf
  <2>2. FlowOf(p)'
    <3>1. CASE ReadSecret(p)
      BY <3>1 DEF ReadSecret, Goto, FlowOf, Asked
    <3>2. CASE PasswordStill(p)
      BY <3>2 DEF PasswordStill, Goto, FlowOf
    <3>3. CASE CountFactors(p)
      BY <3>3 DEF CountFactors, Goto, FlowOf, Asked
    <3>4. CASE InsertChallenge(p) \/ LockChallenge(p) \/ MarkSession(p) \/ EndSignIns(p)
                 \/ RevokeSessions(p) \/ EndSession(p)
      BY <3>4 DEF InsertChallenge, LockChallenge, MarkSession, EndSignIns, RevokeSessions, EndSession,
         Goto, FlowOf
    <3>5. ASSUME NEW right \in BOOLEAN, Check(p, right) PROVE FlowOf(p)'
      BY <3>5 DEF Check, Goto, FlowOf, Asked
    <3>6. QED
      BY <1>2, <3>1, <3>2, <3>3, <3>4, <3>5 DEF Statement
  <2>3. QED
    BY <2>1, <2>2 DEF Flows
<1>3. QED
  BY <1>1, <1>2

LEMMA FlowsStep == Inv /\ [Next]_vars => Flows'
<1> SUFFICES ASSUME Inv, [Next]_vars PROVE Flows'
  OBVIOUS
<1>1. ASSUME NEW p \in Request, Commit(p) PROVE Flows'
  BY <1>1, FinishFlows DEF Commit, CommitSignIn, CommitFirstStep, CommitStepUpBegun, CommitWrong,
     CommitSecondStep, CommitStepUp, CommitChange, CommitEnd, Outcome
<1>2. ASSUME NEW p \in Request, Abort(p) PROVE Flows'
  BY <1>2, FinishFlows DEF Abort, Outcome
<1>3. CASE UNCHANGED vars \/ FactorsChange \/ \E c \in Request : Expire(c)
  BY <1>3 DEF vars, FactorsChange, Expire, Inv, Flows, FlowOf
<1>4. QED
  BY <1>1, <1>2, <1>3, ArriveFlows, StatementFlows DEF Next

(***************************************************************************)
(* What a step of p leaves alone: the other requests, and their locks.     *)
(***************************************************************************)
Acts(p) == Arrive(p) \/ Statement(p) \/ Commit(p) \/ Abort(p)

Undisturbed(q) ==
  /\ pc'[q] = pc[q]
  /\ request'[q] = request[q]
  /\ secretLock = q => secretLock' = q
  /\ \A r \in Request : challengeLock[r] = q => challengeLock'[r] = q
  /\ \A r \in Request : sessionLock[r] = q => sessionLock'[r] = q

LEMMA FinishOthers ==
  ASSUME Inv, NEW p \in Request, NEW o, Finish(p, o), NEW q \in Request, q # p
  PROVE  Undisturbed(q)
  BY DEF Inv, TypeOK, Finish, Goto, Release, Undisturbed

LEMMA Others ==
  ASSUME Inv, NEW p \in Request, Acts(p), NEW q \in Request, q # p
  PROVE  Undisturbed(q)
<1> TypeOK
  BY DEF Inv
<1>1. CASE Arrive(p)
  BY <1>1 DEF Arrive, BeginSignIn, BeginAnswer, BeginStepUp, BeginEnd, BeginChange, Begin, locks,
     Undisturbed, TypeOK
<1>2. CASE Statement(p)
  <2>1. CASE WrongPassword(p) \/ PasswordChanged(p) \/ ChallengeInvalid(p) \/ NothingToEnd(p)
    BY <2>1, FinishOthers DEF WrongPassword, PasswordChanged, ChallengeInvalid, NothingToEnd, Refuse
  <2>2. CASE ReadSecret(p) \/ CountFactors(p) \/ \E right \in BOOLEAN : Check(p, right)
    BY <2>2 DEF ReadSecret, CountFactors, Check, Goto, locks, Undisturbed, TypeOK
  <2>3. CASE PasswordStill(p)
    BY <2>3, NoneAssumption DEF PasswordStill, Goto, Undisturbed, TypeOK
  <2>4. CASE InsertChallenge(p) \/ EndSignIns(p) \/ LockChallenge(p)
    BY <2>4, NoneAssumption DEF InsertChallenge, EndSignIns, LockChallenge, Goto, Hold, Unlocked,
       DeadRows, SignInRows, Undisturbed, TypeOK
  <2>5. CASE RevokeSessions(p) \/ MarkSession(p) \/ EndSession(p)
    BY <2>5, NoneAssumption DEF RevokeSessions, MarkSession, EndSession, Goto, Hold, Unlocked,
       LiveRows, Undisturbed, TypeOK
  <2>6. QED
    BY <1>2, <2>1, <2>2, <2>3, <2>4, <2>5 DEF Statement
<1>3. CASE Commit(p) \/ Abort(p)
  BY <1>3, FinishOthers DEF Commit, CommitSignIn, CommitFirstStep, CommitStepUpBegun, CommitWrong,
     CommitSecondStep, CommitStepUp, CommitChange, CommitEnd, Abort
<1>4. QED
  BY <1>1, <1>2, <1>3 DEF Acts

(* A step that is no request's: a challenge expires, the factors change,   *)
(* or nothing happens.                                                     *)
Idle ==
  \/ \E c \in Request : Expire(c)
  \/ FactorsChange
  \/ UNCHANGED vars

LEMMA IdleKeeps ==
  ASSUME Inv, Idle
  PROVE  /\ UNCHANGED <<secret, session, secretLock, challengeLock, sessionLock, pc, request>>
         /\ \A c \in Request : challenge'[c] = challenge[c]
                               \/ challenge'[c] = [challenge[c] EXCEPT !.expired = TRUE]
  BY DEF Idle, Expire, FactorsChange, vars, rows, locks, Inv, TypeOK

LEMMA Steps == [Next]_vars => (\E p \in Request : Acts(p)) \/ Idle
  BY DEF Next, Acts, Idle

LEMMA DoneStays ==
  ASSUME Inv, [Next]_vars, NEW q \in Request, pc[q] = "done"
  PROVE  pc'[q] = "done"
<1>1. CASE Idle
  BY <1>1, IdleKeeps
<1>2. ASSUME NEW p \in Request, Acts(p), p # q PROVE pc'[q] = "done"
  BY <1>2, Others DEF Undisturbed
<1>3. CASE Acts(q)
  BY <1>3 DEF Acts, Arrive, BeginSignIn, BeginAnswer, BeginStepUp, BeginEnd, BeginChange, Begin,
     Statement, ReadSecret, WrongPassword, PasswordStill, PasswordChanged, CountFactors,
     InsertChallenge, LockChallenge, ChallengeInvalid, Check, MarkSession, EndSignIns,
     RevokeSessions, EndSession, NothingToEnd, Commit, CommitSignIn, CommitFirstStep,
     CommitStepUpBegun, CommitWrong, CommitSecondStep, CommitStepUp, CommitChange, CommitEnd, Abort
<1>4. QED
  BY <1>1, <1>2, <1>3, Steps

(***************************************************************************)
(* The credential: only a commit of its holder changes it, to a hash made  *)
(* by that request.                                                        *)
(***************************************************************************)
LEMMA SecretChange ==
  ASSUME Inv, NEW p \in Request, Acts(p), secret' # secret
  PROVE  /\ pc[p] = "commit" /\ pc'[p] = "done"
         /\ request[p].flow \in {"signin", "change"}
         /\ secret'.hash = p
<1> pc \in [Request -> Step]
  BY DEF Inv, TypeOK
<1>1. CASE Arrive(p) \/ Statement(p) \/ Abort(p)
  BY <1>1 DEF Arrive, BeginSignIn, BeginAnswer, BeginStepUp, BeginEnd, BeginChange, Begin,
     Statement, ReadSecret, WrongPassword, PasswordStill, PasswordChanged, CountFactors,
     InsertChallenge, LockChallenge, ChallengeInvalid, Check, MarkSession, EndSignIns,
     RevokeSessions, EndSession, NothingToEnd, Abort, Refuse, rows
<1>2. CASE CommitSignIn(p) \/ CommitFirstStep(p)
  <2>1. secret' = [secret EXCEPT !.hash = p, !.stale = FALSE]
    BY <1>2 DEF CommitSignIn, CommitFirstStep, Rehash
  <2>2. secret \in Secret
    BY DEF Inv, TypeOK
  <2>3. secret'.hash = p
    BY <2>1, <2>2 DEF Secret
  <2>4. QED
    BY <1>2, <2>3 DEF CommitSignIn, CommitFirstStep, Finish, Goto
<1>3. CASE CommitChange(p)
  BY <1>3 DEF CommitChange, Finish, Goto
<1>4. QED
  BY <1>1, <1>2, <1>3 DEF Acts, Commit, CommitStepUpBegun, CommitWrong, CommitSecondStep, CommitStepUp, CommitEnd

LEMMA HashesStep == Inv /\ [Next]_vars => Hashes'
<1> SUFFICES ASSUME Inv, [Next]_vars PROVE Hashes'
  OBVIOUS
<1> TypeOK /\ Hashes /\ pc \in [Request -> Step] /\ request \in [Request -> Asked]
  BY DEF Inv, TypeOK
<1> secret \in Secret /\ secret.hash \in RequestOrNone
  BY DEF TypeOK, Secret
<1>1. CASE Idle
  BY <1>1, IdleKeeps DEF Hashes
<1>2. ASSUME NEW p \in Request, Acts(p) PROVE Hashes'
  <2>1. secret'.hash # None => pc'[secret'.hash] = "done"
    <3>1. CASE secret' = secret
      BY <3>1, DoneStays DEF Hashes, RequestOrNone
    <3>2. CASE secret' # secret
      BY <1>2, <3>2, SecretChange
    <3>3. QED
      BY <3>1, <3>2
  <2>2. ASSUME NEW q \in Request, q # p, pc'[q] = "lock"
        PROVE  /\ request'[q].read.hash # None => pc'[request'[q].read.hash] = "done"
               /\ request'[q].read.hash = secret'.hash => request'[q].typed = secret'.password
    <3>1. pc[q] = "lock" /\ request'[q] = request[q]
      BY <1>2, <2>2, Others DEF Undisturbed
    <3>2. request[q].read.hash \in RequestOrNone
      BY DEF Asked, Secret
    <3>3. request[q].read.hash # None => pc[request[q].read.hash] = "done"
      BY <3>1 DEF Hashes
    <3>4. CASE secret' = secret
      BY <3>1, <3>2, <3>3, <3>4, DoneStays DEF Hashes, RequestOrNone
    <3>5. CASE secret' # secret
      <4>1. secret'.hash = p /\ pc[p] # "done"
        BY <1>2, <3>5, SecretChange
      <4>2. request[q].read.hash # p
        BY <3>3, <4>1, NoneAssumption
      <4>3. QED
        BY <3>1, <3>2, <3>3, <4>1, <4>2, DoneStays DEF RequestOrNone
    <3>6. QED
      BY <3>4, <3>5
  <2>3. ASSUME pc'[p] = "lock"
        PROVE  /\ request'[p].read.hash # None => pc'[request'[p].read.hash] = "done"
               /\ request'[p].read.hash = secret'.hash => request'[p].typed = secret'.password
    <3>1. ReadSecret(p)
      BY <1>2, <2>3 DEF Acts, Arrive, BeginSignIn, BeginAnswer, BeginStepUp, BeginEnd, BeginChange, Begin,
         Statement, ReadSecret, WrongPassword, PasswordStill, PasswordChanged, CountFactors,
         InsertChallenge, LockChallenge, ChallengeInvalid, Check, MarkSession, EndSignIns,
         RevokeSessions, EndSession, NothingToEnd, Commit, CommitSignIn, CommitFirstStep,
         CommitStepUpBegun, CommitWrong, CommitSecondStep, CommitStepUp, CommitChange, CommitEnd,
         Abort, Refuse, Finish, Goto
    <3>2. request'[p].read = secret /\ request'[p].typed = secret.password /\ secret' = secret
      BY <3>1 DEF ReadSecret, Asked, rows
    <3>3. QED
      BY <3>2, DoneStays DEF Hashes, RequestOrNone
  <2>4. QED
    BY <2>1, <2>2, <2>3 DEF Hashes
<1>3. QED
  BY <1>1, <1>2, Steps

(***************************************************************************)
(* The rows: who may change a challenge, and which steps add a sign-in     *)
(* challenge or a live session.                                            *)
(***************************************************************************)
LEMMA ReadersKeepRows ==
  ASSUME NEW p \in Request, Arrive(p) \/ Statement(p) \/ Abort(p)
  PROVE  UNCHANGED <<secret, hasFactor, challenge, session>>
  BY DEF Arrive, BeginSignIn, BeginAnswer, BeginStepUp, BeginEnd, BeginChange, Begin,
     Statement, ReadSecret, WrongPassword, PasswordStill, PasswordChanged, CountFactors,
     InsertChallenge, LockChallenge, ChallengeInvalid, Check, MarkSession, EndSignIns,
     RevokeSessions, EndSession, NothingToEnd, Abort, Refuse, rows

LEMMA ChallengeChange ==
  ASSUME Inv, NEW p \in Request, Acts(p), NEW c \in Request, c # p, challengeLock[c] # p
  PROVE  challenge'[c] = challenge[c]
<1> TypeOK
  BY DEF Inv
<1>1. CASE Arrive(p) \/ Statement(p) \/ Abort(p)
  BY <1>1, ReadersKeepRows
<1>2. CASE CommitSignIn(p) \/ CommitEnd(p)
  BY <1>2 DEF CommitSignIn, CommitEnd
<1>3. CASE CommitFirstStep(p) \/ CommitStepUpBegun(p) \/ CommitChange(p)
  BY <1>3 DEF CommitFirstStep, CommitStepUpBegun, ChallengesAfterInsert, CommitChange
<1>4. CASE CommitWrong(p) \/ CommitSecondStep(p) \/ \E proved \in BOOLEAN : CommitStepUp(p, proved)
  <2>1. HoldsChallenge(p)
    BY <1>4 DEF CommitWrong, CommitSecondStep, CommitStepUp, HoldsChallenge
  <2>2. challengeLock[request[p].target] = p
    BY <2>1 DEF Inv, Held, HeldChallenge
  <2>3. request[p].target # c
    BY <2>2
  <2>4. QED
    BY <1>4, <2>3 DEF CommitWrong, CommitSecondStep, CommitStepUp, TypeOK
<1>5. QED
  BY <1>1, <1>2, <1>3, <1>4 DEF Acts, Commit

LEMMA NewSignInRow ==
  ASSUME Inv, NEW p \in Request, Acts(p), NEW c \in Request, SignInRow(c)', ~SignInRow(c)
  PROVE  CommitFirstStep(p)
<1> TypeOK
  BY DEF Inv
<1>1. ~(Arrive(p) \/ Statement(p) \/ Abort(p) \/ CommitSignIn(p) \/ CommitEnd(p))
  BY ReadersKeepRows DEF CommitSignIn, CommitEnd, SignInRow
<1>2. ~CommitStepUpBegun(p)
  <2>1. SUFFICES ASSUME CommitStepUpBegun(p) PROVE FALSE
    OBVIOUS
  <2>2. request[p].as # None
    BY <2>1 DEF CommitStepUpBegun, Inv, Flows, FlowOf
  <2>3. challenge'[p].session = request[p].as
    BY <2>1 DEF CommitStepUpBegun, ChallengesAfterInsert, OpenChallenge, NoChallenge
  <2>4. c # p => challenge'[c] \in {challenge[c], NoChallenge}
    BY <2>1 DEF CommitStepUpBegun, ChallengesAfterInsert
  <2>5. QED
    BY <2>2, <2>3, <2>4 DEF SignInRow, NoChallenge
<1>3. ~CommitChange(p)
  BY DEF CommitChange, SignInRow, NoChallenge
<1>4. ~(CommitWrong(p) \/ CommitSecondStep(p) \/ \E proved \in BOOLEAN : CommitStepUp(p, proved))
  <2>1. SUFFICES ASSUME CommitWrong(p) \/ CommitSecondStep(p) \/ \E proved \in BOOLEAN : CommitStepUp(p, proved)
                 PROVE  FALSE
    OBVIOUS
  <2>2. HoldsChallenge(p)
    BY <2>1 DEF CommitWrong, CommitSecondStep, CommitStepUp, HoldsChallenge
  <2> DEFINE d == request[p].target
  <2>3. challenge[d].state = "open"
    BY <2>2 DEF Inv, Held, HeldChallenge
  <2>4. c # d => challenge'[c] = challenge[c]
    BY <2>1 DEF CommitWrong, CommitSecondStep, CommitStepUp, TypeOK
  <2>5. challenge'[c].session = challenge[c].session
    <3>1. challenge[c] \in Challenge
      BY DEF TypeOK
    <3>2. CASE CommitWrong(p)
      <4> DEFINE n == challenge[d].attempts + 1
      <4>1. challenge' = [challenge EXCEPT ![d] = [challenge[d] EXCEPT !.attempts = n,
                            !.state = IF n >= ChallengeAttempts THEN "used" ELSE @]]
        BY <3>2 DEF CommitWrong, TypeOK
      <4>2. QED
        BY <3>1, <4>1 DEF TypeOK, Challenge
    <3>3. CASE CommitSecondStep(p) \/ \E proved \in BOOLEAN : CommitStepUp(p, proved)
      <4>1. challenge' = [challenge EXCEPT ![d] = [challenge[d] EXCEPT !.state = "used"]]
        BY <3>3 DEF CommitSecondStep, CommitStepUp
      <4>2. QED
        BY <3>1, <4>1 DEF TypeOK, Challenge
    <3>4. QED
      BY <2>1, <3>2, <3>3
  <2>6. QED
    BY <2>3, <2>4, <2>5 DEF SignInRow
<1>5. QED
  BY <1>1, <1>2, <1>3, <1>4 DEF Acts, Commit

LEMMA NewLiveSession ==
  ASSUME Inv, NEW p \in Request, Acts(p), NEW s \in Request, Live(s)', ~Live(s)
  PROVE  s = p /\ (CommitSignIn(p) \/ CommitSecondStep(p) \/ CommitChange(p))
<1> TypeOK /\ session \in [Request -> Session]
  BY DEF Inv, TypeOK
<1>1. ~(Arrive(p) \/ Statement(p) \/ Abort(p) \/ CommitFirstStep(p) \/ CommitStepUpBegun(p) \/ CommitWrong(p))
  BY ReadersKeepRows DEF CommitFirstStep, CommitStepUpBegun, CommitWrong, Live
<1>2. ~CommitEnd(p)
  BY DEF CommitEnd, Live, Session
<1>3. ASSUME NEW proved \in BOOLEAN, CommitStepUp(p, proved) PROVE FALSE
  <2> DEFINE r == request[p].as
  <2>1. session' = [session EXCEPT ![r] = [session[r] EXCEPT !.steppedUp = @ \/ proved]]
    BY <1>3 DEF CommitStepUp
  <2>2. session'[s].state = session[s].state
    BY <2>1 DEF Session
  <2>3. QED
    BY <2>2 DEF Live
<1>4. CASE CommitSignIn(p) \/ CommitSecondStep(p)
  BY <1>4 DEF CommitSignIn, CommitSecondStep, Live
<1>5. CASE CommitChange(p)
  BY <1>5 DEF CommitChange, Live, Session
<1>6. QED
  BY <1>1, <1>2, <1>3, <1>4, <1>5 DEF Acts, Commit

(***************************************************************************)
(* Held is kept: by the other requests first, then by p itself.            *)
(***************************************************************************)
LEMMA OnlyHolder ==
  ASSUME Inv, NEW p \in Request, NEW q \in Request, HoldsSecret(p), HoldsSecret(q)
  PROVE  p = q
  BY DEF Inv, Held, HeldSecret

LEMMA HeldByOthers ==
  ASSUME Inv, NEW p \in Request, Acts(p), NEW q \in Request, q # p
  PROVE  HeldSecret(q)' /\ HeldChallenge(q)' /\ HeldSignIns(q)' /\ HeldSessions(q)'
<1> Undisturbed(q)
  BY Others
<1> pc'[q] = pc[q] /\ request'[q] = request[q]
  BY DEF Undisturbed
<1> TypeOK /\ request[q] \in Asked /\ FlowOf(q)
  BY DEF Inv, TypeOK, Flows
<1> HeldSecret(q) /\ HeldChallenge(q) /\ HeldSignIns(q) /\ HeldSessions(q)
  BY DEF Inv, Held
<1>1. HeldSecret(q)'
  <2>1. SUFFICES ASSUME HoldsSecret(q) PROVE secretLock' = q /\ secret' = secret
    BY DEF HeldSecret, HoldsSecret
  <2>2. secretLock' = q
    BY <2>1 DEF HeldSecret, Undisturbed
  <2>3. secret' = secret
    <3>1. SUFFICES ASSUME secret' # secret PROVE FALSE
      OBVIOUS
    <3>2. HoldsSecret(p)
      BY <3>1, SecretChange DEF HoldsSecret
    <3>3. QED
      BY <2>1, <3>2, OnlyHolder
  <2>4. QED
    BY <2>2, <2>3
<1>2. HeldChallenge(q)'
  <2>1. SUFFICES ASSUME HoldsChallenge(q) PROVE HeldChallenge(q)'
    BY DEF HeldChallenge, HoldsChallenge
  <2> DEFINE c == request[q].target
  <2>2. challengeLock[c] = q /\ challenge[c].state = "open" /\ challenge[c].session = request[q].as
    BY <2>1 DEF HeldChallenge
  <2>3. c \in Request
    BY <2>1 DEF HoldsChallenge, FlowOf, Asked, RequestOrNone
  <2>4. c # p
    <3>1. CASE pc[p] = "done"
      BY <3>1 DEF Acts, Arrive, BeginSignIn, BeginAnswer, BeginStepUp, BeginEnd, BeginChange, Begin,
     Statement, ReadSecret, WrongPassword, PasswordStill, PasswordChanged, CountFactors,
     InsertChallenge, LockChallenge, ChallengeInvalid, Check, MarkSession, EndSignIns,
     RevokeSessions, EndSession, NothingToEnd, Commit, CommitSignIn, CommitFirstStep,
     CommitStepUpBegun, CommitWrong, CommitSecondStep, CommitStepUp, CommitChange, CommitEnd, Abort
    <3>2. CASE pc[p] # "done"
      BY <2>2, <3>2 DEF Inv, Fresh
    <3>3. QED
      BY <3>1, <3>2
  <2>5. challenge'[c] = challenge[c] /\ challengeLock'[c] = q
    BY <2>2, <2>3, <2>4, ChallengeChange DEF Undisturbed
  <2>6. QED
    BY <2>2, <2>5 DEF HeldChallenge
<1>3. HeldSignIns(q)'
  <2>1. SUFFICES ASSUME pc[q] = "revoke" \/ (pc[q] = "commit" /\ request[q].flow = "change"),
                        NEW c \in Request, SignInRow(c)'
                 PROVE  challengeLock'[c] = q
    BY DEF HeldSignIns
  <2>2. HoldsSecret(q)
    BY <2>1 DEF HoldsSecret
  <2>3. SignInRow(c)
    <3>1. SUFFICES ASSUME ~SignInRow(c) PROVE FALSE
      OBVIOUS
    <3>2. CommitFirstStep(p)
      BY <2>1, <3>1, NewSignInRow
    <3>3. HoldsSecret(p)
      BY <3>2 DEF CommitFirstStep, HoldsSecret
    <3>4. QED
      BY <2>2, <3>3, OnlyHolder
  <2>4. QED
    BY <2>1, <2>3 DEF HeldSignIns, Undisturbed
<1>4. HeldSessions(q)'
  <2>1. SUFFICES ASSUME pc[q] = "commit" /\ request[q].flow = "change", NEW s \in Request, Live(s)'
                 PROVE  sessionLock'[s] = q
    BY DEF HeldSessions
  <2>2. HoldsSecret(q)
    BY <2>1 DEF HoldsSecret
  <2>3. Live(s)
    <3>1. SUFFICES ASSUME ~Live(s) PROVE FALSE
      OBVIOUS
    <3>2. CommitSignIn(p) \/ CommitSecondStep(p) \/ CommitChange(p)
      BY <2>1, <3>1, NewLiveSession
    <3>3. CASE CommitSignIn(p) \/ CommitChange(p)
      <4>1. HoldsSecret(p)
        BY <3>3 DEF CommitSignIn, CommitChange, HoldsSecret
      <4>2. QED
        BY <2>2, <4>1, OnlyHolder
    <3>4. CASE CommitSecondStep(p)
      <4> DEFINE c == request[p].target
      <4>1. HoldsChallenge(p) /\ c \in Request
        BY <3>4 DEF CommitSecondStep, HoldsChallenge, Inv, Flows, FlowOf, TypeOK, Asked, RequestOrNone
      <4>2. challengeLock[c] = p /\ challenge[c].state = "open" /\ challenge[c].session = None
        BY <3>4, <4>1 DEF CommitSecondStep, Inv, Held, HeldChallenge
      <4>3. challengeLock[c] = q
        BY <2>1, <4>1, <4>2 DEF HeldSignIns, SignInRow
      <4>4. QED
        BY <4>2, <4>3
    <3>5. QED
      BY <3>2, <3>3, <3>4
  <2>4. QED
    BY <2>1, <2>3 DEF HeldSessions, Undisturbed
<1>5. QED
  BY <1>1, <1>2, <1>3, <1>4

LEMMA HeldByIdle ==
  ASSUME Inv, Idle, NEW q \in Request
  PROVE  HeldSecret(q)' /\ HeldChallenge(q)' /\ HeldSignIns(q)' /\ HeldSessions(q)'
<1> TypeOK /\ request[q] \in Asked /\ FlowOf(q)
  BY DEF Inv, TypeOK, Flows
<1> HeldSecret(q) /\ HeldChallenge(q) /\ HeldSignIns(q) /\ HeldSessions(q)
  BY DEF Inv, Held
<1>1. UNCHANGED <<secret, session, secretLock, challengeLock, sessionLock, pc, request>>
  BY IdleKeeps
<1>2. \A c \in Request : challenge'[c].state = challenge[c].state /\ challenge'[c].session = challenge[c].session
  BY IdleKeeps DEF TypeOK, Challenge
<1>3. HoldsChallenge(q) => request[q].target \in Request
  BY DEF HoldsChallenge, FlowOf, Asked, RequestOrNone
<1>4. QED
  BY <1>1, <1>2, <1>3 DEF HeldSecret, HeldChallenge, HeldSignIns, HeldSessions, HoldsSecret, HoldsChallenge,
     SignInRow, Live

HeldAll(p) == HeldSecret(p) /\ HeldChallenge(p) /\ HeldSignIns(p) /\ HeldSessions(p)

(* At the start and at the end a request holds nothing. *)
LEMMA HeldAtEnds ==
  ASSUME NEW p \in Request, NEW asked, request'[p] = asked,
         \/ pc'[p] \in {"read", "lock", "challenge", "end", "done"}
         \/ pc'[p] = "begin" /\ asked.flow = "stepup"
  PROVE  HeldAll(p)'
  BY DEF HeldAll, HeldSecret, HeldChallenge, HeldSignIns, HeldSessions, HoldsSecret, HoldsChallenge

LEMMA HeldBySelf ==
  ASSUME Inv, NEW p \in Request, Acts(p)
  PROVE  HeldAll(p)'
<1> TypeOK /\ request[p] \in Asked /\ pc \in [Request -> Step] /\ FlowOf(p) /\ request \in [Request -> Asked]
  BY DEF Inv, TypeOK, Flows
<1> HeldSecret(p) /\ HeldChallenge(p) /\ HeldSignIns(p) /\ HeldSessions(p)
  BY DEF Inv, Held
<1> USE DEF HeldAll, HeldSecret, HeldChallenge, HeldSignIns, HeldSessions, HoldsSecret, HoldsChallenge
<1>1. CASE Arrive(p)
  <2>1. \/ pc'[p] \in {"read", "challenge", "end"}
        \/ pc'[p] = "begin" /\ request'[p].flow = "stepup"
    <3>1. ASSUME NEW s \in Request, BeginStepUp(p, s)
          PROVE  pc'[p] = "begin" /\ request'[p].flow = "stepup"
      BY <3>1 DEF BeginStepUp, Begin, Asked
    <3>2. CASE ~\E s \in Request : BeginStepUp(p, s)
      BY <1>1, <3>2 DEF Arrive, BeginSignIn, BeginAnswer, BeginEnd, BeginChange, Begin
    <3>3. QED
      BY <3>1, <3>2
  <2>2. QED
    BY <2>1, HeldAtEnds
<1>2. CASE \/ WrongPassword(p) \/ PasswordChanged(p) \/ ChallengeInvalid(p) \/ NothingToEnd(p)
           \/ Commit(p) \/ Abort(p)
  <2>1. pc'[p] = "done"
    BY <1>2 DEF WrongPassword, PasswordChanged, ChallengeInvalid, NothingToEnd, Commit, CommitSignIn,
       CommitFirstStep, CommitStepUpBegun, CommitWrong, CommitSecondStep, CommitStepUp, CommitChange,
       CommitEnd, Abort, Refuse, Finish, Goto
  <2>2. QED
    BY <2>1, HeldAtEnds
<1>3. CASE ReadSecret(p)
  BY <1>3, HeldAtEnds DEF ReadSecret, Goto
<1>4. CASE PasswordStill(p)
  <2>1. request[p].typed = secret.password
    BY <1>4 DEF PasswordStill, Inv, Hashes
  <2>2. secretLock' = p /\ pc'[p] \in {"open", "retire"} /\ request'[p] = request[p] /\ secret' = secret
    BY <1>4 DEF PasswordStill, Goto, rows
  <2>3. QED
    BY <2>1, <2>2
<1>5. CASE CountFactors(p)
  <2>1. /\ pc[p] = "open" /\ pc'[p] \in {"begin", "commit"} /\ secretLock' = secretLock /\ secret' = secret
        /\ request'[p].flow = request[p].flow /\ request'[p].typed = request[p].typed
    BY <1>5 DEF CountFactors, Goto, locks, rows, Asked
  <2>2. request[p].flow = "signin"
    BY <2>1 DEF FlowOf
  <2>3. QED
    BY <2>1, <2>2
<1>6. CASE InsertChallenge(p)
  <2>1. /\ pc[p] = "begin" /\ pc'[p] = "commit" /\ secretLock' = secretLock /\ secret' = secret
        /\ request'[p] = request[p]
    BY <1>6 DEF InsertChallenge, Goto, rows
  <2>2. request[p].flow \in {"signin", "stepup"}
    BY <2>1 DEF FlowOf
  <2>3. QED
    BY <2>1, <2>2
<1>7. CASE LockChallenge(p)
  <2> DEFINE c == request[p].target
  <2>1. /\ pc'[p] = "check" /\ request'[p] = request[p] /\ challenge' = challenge
        /\ challenge[c].state = "open" /\ challenge[c].session = request[p].as
    BY <1>7 DEF LockChallenge, Goto, rows, Answerable
  <2>2. c \in Request
    BY <1>7 DEF LockChallenge, FlowOf, Asked, RequestOrNone
  <2>3. challengeLock'[c] = p
    BY <1>7, <2>2 DEF LockChallenge, TypeOK
  <2>4. QED
    BY <2>1, <2>3
<1>8. ASSUME NEW right \in BOOLEAN, Check(p, right) PROVE HeldAll(p)'
  <2>1. /\ pc[p] = "check" /\ pc'[p] \in {"mark", "commit"}
        /\ challengeLock' = challengeLock /\ challenge' = challenge
        /\ request'[p].flow = request[p].flow /\ request'[p].target = request[p].target
        /\ request'[p].as = request[p].as
    BY <1>8 DEF Check, Goto, locks, rows, Asked
  <2>2. request[p].flow = "answer"
    BY <2>1 DEF FlowOf
  <2>3. QED
    BY <2>1, <2>2
<1>9. CASE MarkSession(p)
  <2>1. /\ pc[p] = "mark" /\ pc'[p] = "commit" /\ request'[p] = request[p]
        /\ challengeLock' = challengeLock /\ challenge' = challenge
    BY <1>9 DEF MarkSession, Goto, rows
  <2>2. request[p].flow = "answer"
    BY <2>1 DEF FlowOf
  <2>3. QED
    BY <2>1, <2>2
<1>10. CASE EndSignIns(p)
  <2>1. /\ pc[p] = "retire" /\ pc'[p] = "revoke" /\ request'[p] = request[p]
        /\ secretLock' = secretLock /\ secret' = secret /\ challenge' = challenge
    BY <1>10 DEF EndSignIns, Goto, rows
  <2>2. \A c \in Request : SignInRow(c) => challengeLock'[c] = p
    BY <1>10 DEF EndSignIns, Hold, SignInRows
  <2>3. \A c \in Request : SignInRow(c)' => SignInRow(c)
    BY <2>1 DEF SignInRow
  <2>4. QED
    BY <2>1, <2>2, <2>3
<1>11. CASE RevokeSessions(p)
  <2>1. /\ pc[p] = "revoke" /\ pc'[p] = "commit" /\ request'[p] = request[p]
        /\ UNCHANGED <<secretLock, secret, challengeLock, challenge, session>>
    BY <1>11 DEF RevokeSessions, Goto, rows
  <2>2. \A s \in Request : Live(s) => sessionLock'[s] = p
    BY <1>11 DEF RevokeSessions, Hold, LiveRows
  <2>3. \A r \in Request : (SignInRow(r)' => SignInRow(r)) /\ (Live(r)' => Live(r))
    BY <2>1 DEF SignInRow, Live
  <2>4. request[p].flow = "change"
    BY <2>1 DEF FlowOf
  <2>5. QED
    BY <2>1, <2>2, <2>3, <2>4
<1>12. CASE EndSession(p)
  <2>1. pc[p] = "end" /\ pc'[p] = "commit" /\ request'[p] = request[p]
    BY <1>12 DEF EndSession, Goto
  <2>2. request[p].flow = "end"
    BY <2>1 DEF FlowOf
  <2>3. QED
    BY <2>1, <2>2
<1>13. QED
  BY <1>1, <1>2, <1>3, <1>4, <1>5, <1>6, <1>7, <1>8, <1>9, <1>10, <1>11, <1>12 DEF Acts, Statement

LEMMA HeldStep == Inv /\ [Next]_vars => Held'
<1> SUFFICES ASSUME Inv, [Next]_vars, NEW q \in Request PROVE HeldAll(q)'
  BY DEF Held, HeldAll
<1>1. CASE Idle
  BY <1>1, HeldByIdle DEF HeldAll
<1>2. ASSUME NEW p \in Request, Acts(p) PROVE HeldAll(q)'
  <2>1. CASE p = q
    BY <1>2, <2>1, HeldBySelf
  <2>2. CASE p # q
    BY <1>2, <2>2, HeldByOthers DEF HeldAll
  <2>3. QED
    BY <2>1, <2>2
<1>3. QED
  BY <1>1, <1>2, Steps

(***************************************************************************)
(* The rows after a commit. Every commit but CommitChange keeps the        *)
(* password, and updates or deletes rows, or adds the row of its request.  *)
(***************************************************************************)
Rows == Fresh /\ OnlyCurrentPassword /\ OneSessionPerChallenge

(* What was there, updated or deleted. *)
ChallengeUpdated(c) ==
  /\ challenge[c].state = "absent" => challenge'[c].state = "absent"
  /\ challenge'[c].state = "open" => /\ challenge[c].state = "open"
                                     /\ challenge'[c].session = challenge[c].session
                                     /\ challenge'[c].password = challenge[c].password
                                     /\ challenge'[c].attempts < ChallengeAttempts

SessionUpdated(s) ==
  /\ session'[s].from = session[s].from
  /\ session'[s].password = session[s].password
  /\ session'[s].state = "live" => session[s].state = "live"

(* Rows that are only updated, with the same password, stay right. *)
LEMMA UpdatedRows ==
  ASSUME Inv, [Next]_vars, secret'.password = secret.password,
         \A c \in Request : ChallengeUpdated(c),
         \A s \in Request : SessionUpdated(s)
  PROVE  Rows'
<1> TypeOK /\ Fresh /\ OnlyCurrentPassword /\ OneSessionPerChallenge
  BY DEF Inv
<1> \A s \in Request : session[s].from \in RequestOrNone
  BY DEF TypeOK, Session
<1>1. Fresh'
  BY DoneStays DEF Fresh, ChallengeUpdated, SessionUpdated, RequestOrNone
<1>2. OnlyCurrentPassword'
  BY DEF OnlyCurrentPassword, ChallengeUpdated, SessionUpdated, Live
<1>3. OneSessionPerChallenge'
  BY DEF OneSessionPerChallenge, SessionUpdated
<1>4. QED
  BY <1>1, <1>2, <1>3 DEF Rows

LEMMA SameChallenges ==
  ASSUME Inv, UNCHANGED challenge
  PROVE  \A c \in Request : ChallengeUpdated(c)
  BY DEF Inv, Fresh, ChallengeUpdated

LEMMA SameSessions ==
  ASSUME UNCHANGED session
  PROVE  \A s \in Request : SessionUpdated(s)
  BY DEF SessionUpdated

LEMMA IdleRows ==
  ASSUME Inv, [Next]_vars, Idle
  PROVE  Rows'
<1>1. ASSUME NEW c \in Request PROVE ChallengeUpdated(c)
  <2>1. challenge[c] \in Challenge /\ (challenge[c].state = "open" => challenge[c].attempts < ChallengeAttempts)
    BY DEF Inv, TypeOK, Fresh
  <2>2. CASE challenge'[c] = challenge[c]
    BY <2>1, <2>2 DEF ChallengeUpdated
  <2>3. CASE challenge'[c] = [challenge[c] EXCEPT !.expired = TRUE]
    BY <2>1, <2>3 DEF ChallengeUpdated, Challenge
  <2>4. QED
    BY <2>2, <2>3, IdleKeeps
<1>2. QED
  BY <1>1, IdleKeeps, SameSessions, UpdatedRows

LEMMA ReadersRows ==
  ASSUME Inv, [Next]_vars, NEW p \in Request, Arrive(p) \/ Statement(p) \/ Abort(p)
  PROVE  Rows'
  BY ReadersKeepRows, SameChallenges, SameSessions, UpdatedRows

LEMMA EndRows ==
  ASSUME Inv, [Next]_vars, NEW p \in Request, CommitEnd(p)
  PROVE  Rows'
<1>1. ASSUME NEW s \in Request PROVE SessionUpdated(s)
  <2>1. session[s] \in Session /\ session \in [Request -> Session]
    BY DEF Inv, TypeOK
  <2>2. session'[s] = session[s] \/ session'[s] = [session[s] EXCEPT !.state = "revoked"]
    BY <2>1 DEF CommitEnd
  <2>3. QED
    BY <2>1, <2>2 DEF Session, SessionUpdated
<1>2. QED
  BY <1>1, SameChallenges, UpdatedRows DEF CommitEnd

(* A commit that answers c keeps every challenge but c, which it holds. *)
LEMMA AnswerHolds ==
  ASSUME Inv, NEW p \in Request, pc[p] = "commit", request[p].flow = "answer"
  PROVE  /\ request[p].target \in Request
         /\ challenge[request[p].target].state = "open"
         /\ challenge[request[p].target].session = request[p].as
         /\ challenge[request[p].target].attempts < ChallengeAttempts
<1>1. request[p].target \in Request
  BY DEF Inv, Flows, FlowOf, TypeOK, Asked, RequestOrNone
<1>2. QED
  BY <1>1 DEF Inv, Held, HeldChallenge, HoldsChallenge, Fresh

LEMMA WrongRows ==
  ASSUME Inv, [Next]_vars, NEW p \in Request, CommitWrong(p)
  PROVE  Rows'
<1> DEFINE c == request[p].target
           n == challenge[c].attempts + 1
<1>1. c \in Request /\ challenge[c].state = "open"
  BY AnswerHolds DEF CommitWrong
<1>2. challenge' = [challenge EXCEPT ![c] = [challenge[c] EXCEPT !.attempts = n,
                      !.state = IF n >= ChallengeAttempts THEN "used" ELSE @]]
  BY DEF CommitWrong
<1>3. ASSUME NEW d \in Request PROVE ChallengeUpdated(d)
  <2>1. /\ challenge[d] \in Challenge
        /\ challenge \in [Request -> Challenge]
        /\ challenge[d].state = "open" => challenge[d].attempts < ChallengeAttempts
    BY DEF Inv, TypeOK, Fresh
  <2>2. CASE d # c
    BY <1>1, <1>2, <2>1, <2>2 DEF ChallengeUpdated
  <2>3. CASE d = c
    <3>1. challenge'[c] = [challenge[c] EXCEPT !.attempts = n,
                             !.state = IF n >= ChallengeAttempts THEN "used" ELSE @]
      BY <1>1, <1>2, <2>1
    <3>2. n \in Nat /\ challenge'[c].attempts = n
      BY <2>1, <2>3, <3>1, AttemptsAssumption DEF Challenge
    <3>3. challenge'[c].state = IF n >= ChallengeAttempts THEN "used" ELSE "open"
      BY <1>1, <2>1, <2>3, <3>1 DEF Challenge
    <3>4. challenge'[c].session = challenge[c].session /\ challenge'[c].password = challenge[c].password
      BY <2>1, <2>3, <3>1 DEF Challenge
    <3>5. QED
      BY <1>1, <2>3, <3>2, <3>3, <3>4, AttemptsAssumption DEF ChallengeUpdated
  <2>4. QED
    BY <2>2, <2>3
<1>4. QED
  BY <1>3, SameSessions, UpdatedRows DEF CommitWrong

(* spendChallenge. *)
LEMMA Spent ==
  ASSUME Inv, NEW c \in Request, challenge[c].state = "open",
         challenge' = [challenge EXCEPT ![c].state = "used"]
  PROVE  (\A d \in Request : ChallengeUpdated(d)) /\ challenge'[c].state = "used"
<1>1. challenge' = [challenge EXCEPT ![c] = [challenge[c] EXCEPT !.state = "used"]]
  OBVIOUS
<1>2. challenge \in [Request -> Challenge] /\ challenge[c] \in Challenge
  BY DEF Inv, TypeOK
<1>3. challenge'[c] = [challenge[c] EXCEPT !.state = "used"]
  BY <1>1, <1>2
<1>4. challenge'[c].state = "used" /\ ChallengeUpdated(c)
  BY <1>2, <1>3 DEF Challenge, ChallengeUpdated
<1>5. ASSUME NEW d \in Request, d # c PROVE ChallengeUpdated(d)
  <2>1. challenge'[d] = challenge[d]
    BY <1>1, <1>2, <1>5
  <2>2. QED
    BY <2>1 DEF ChallengeUpdated, Inv, Fresh
<1>6. QED
  BY <1>4, <1>5

LEMMA StepUpRows ==
  ASSUME Inv, [Next]_vars, NEW p \in Request, NEW proved \in BOOLEAN, CommitStepUp(p, proved)
  PROVE  Rows'
<1>1. \A c \in Request : ChallengeUpdated(c)
  BY AnswerHolds, Spent DEF CommitStepUp
<1>2. ASSUME NEW s \in Request PROVE SessionUpdated(s)
  <2> DEFINE r == request[p].as
  <2>1. session' = [session EXCEPT ![r] = [session[r] EXCEPT !.steppedUp = @ \/ proved]]
    BY DEF CommitStepUp
  <2>2. session[s] \in Session /\ session \in [Request -> Session]
    BY DEF Inv, TypeOK
  <2>3. session'[s] = session[s] \/ session'[s] = [session[s] EXCEPT !.steppedUp = @ \/ proved]
    BY <2>1, <2>2
  <2>4. QED
    BY <2>2, <2>3 DEF Session, SessionUpdated
<1>3. QED
  BY <1>1, <1>2, UpdatedRows DEF CommitStepUp

(***************************************************************************)
(* The commits that add a row, p's: a new challenge, or a new session with *)
(* the password of the moment.                                             *)
(***************************************************************************)
LEMMA AddedRows ==
  ASSUME Inv, [Next]_vars, secret'.password = secret.password,
         NEW p \in Request, pc[p] = "commit", pc'[p] = "done",
         \A c \in Request : c # p => ChallengeUpdated(c),
         \A s \in Request : s # p => SessionUpdated(s),
         \/ ChallengeUpdated(p)
         \/ /\ challenge'[p].attempts < ChallengeAttempts
            /\ challenge'[p].session = None => challenge'[p].password = secret.password,
         \/ SessionUpdated(p)
         \/ /\ session'[p].password = secret.password
            /\ session'[p].from # None =>
                 /\ session'[p].from \in Request
                 /\ challenge[session'[p].from].state = "open"
                 /\ challenge'[session'[p].from].state # "open"
  PROVE  Rows'
<1> TypeOK /\ Fresh /\ OnlyCurrentPassword /\ OneSessionPerChallenge
  BY DEF Inv
<1> \A s \in Request : session[s].from \in RequestOrNone
  BY DEF TypeOK, Session
<1>1. \A s \in Request : session[s].from # None => session[s].from # p
  BY DEF Fresh
<1>2. \A c \in Request : challenge[c].state = "open" => pc[c] = "done"
  BY DEF Fresh
<1>3. Fresh'
  <2>1. ASSUME NEW q \in Request, pc'[q] # "done" PROVE challenge'[q].state = "absent"
    <3>1. q # p /\ pc[q] # "done"
      BY <2>1, DoneStays
    <3>2. QED
      BY <3>1 DEF Fresh, ChallengeUpdated
  <2>2. ASSUME NEW s \in Request, session'[s].from # None
        PROVE  pc'[session'[s].from] = "done" /\ challenge'[session'[s].from].state # "open"
    <3>1. CASE SessionUpdated(s)
      <4>1. /\ session'[s].from = session[s].from
            /\ session[s].from \in Request
            /\ session[s].from # p
        BY <1>1, <2>2, <3>1 DEF SessionUpdated, RequestOrNone
      <4>2. pc[session[s].from] = "done" /\ challenge[session[s].from].state # "open"
        BY <4>1, NoneAssumption DEF Fresh
      <4>3. QED
        BY <4>1, <4>2, DoneStays DEF ChallengeUpdated
    <3>2. CASE ~SessionUpdated(s)
      <4>1. s = p
        BY <3>2
      <4>2. /\ session'[p].from \in Request
            /\ challenge[session'[p].from].state = "open"
            /\ challenge'[session'[p].from].state # "open"
        BY <2>2, <3>2, <4>1
      <4>3. QED
        BY <1>2, <4>1, <4>2, DoneStays
    <3>3. QED
      BY <3>1, <3>2
  <2>3. ASSUME NEW c \in Request, challenge'[c].state = "open"
        PROVE  challenge'[c].attempts < ChallengeAttempts
    BY <2>3 DEF ChallengeUpdated
  <2>4. QED
    BY <2>1, <2>2, <2>3 DEF Fresh
<1>4. OnlyCurrentPassword'
  BY DEF OnlyCurrentPassword, ChallengeUpdated, SessionUpdated, Live
<1>5. OneSessionPerChallenge'
  <2>1. ASSUME NEW s \in Request, NEW t \in Request, s # t, session'[s].from # None
        PROVE  session'[s].from # session'[t].from
    <3>1. CASE SessionUpdated(s) /\ SessionUpdated(t)
      BY <2>1, <3>1 DEF SessionUpdated, OneSessionPerChallenge
    <3>2. CASE ~SessionUpdated(s)
      <4>1. s = p /\ SessionUpdated(t) /\ challenge[session'[p].from].state = "open"
        BY <2>1, <3>2
      <4>2. session[t].from # None => challenge[session[t].from].state # "open"
        BY DEF Fresh
      <4>3. QED
        BY <2>1, <4>1, <4>2 DEF SessionUpdated
    <3>3. CASE ~SessionUpdated(t)
      <4>1. t = p /\ SessionUpdated(s)
        BY <2>1, <3>3
      <4>2. /\ session'[s].from = session[s].from
            /\ challenge[session[s].from].state # "open"
        BY <2>1, <4>1 DEF Fresh, SessionUpdated
      <4>3. session'[p].from # None => challenge[session'[p].from].state = "open"
        BY <3>3, <4>1
      <4>4. QED
        BY <2>1, <4>1, <4>2, <4>3
    <3>4. QED
      BY <3>1, <3>2, <3>3
  <2>2. QED
    BY <2>1 DEF OneSessionPerChallenge
<1>6. QED
  BY <1>3, <1>4, <1>5 DEF Rows

LEMMA RehashKeeps ==
  ASSUME TypeOK, NEW p \in Request, Rehash(p)
  PROVE  secret'.password = secret.password
  BY DEF TypeOK, Secret, Rehash

LEMMA NoFactorRows ==
  ASSUME Inv, [Next]_vars, NEW p \in Request, CommitSignIn(p)
  PROVE  Rows'
<1>1. pc[p] = "commit" /\ pc'[p] = "done" /\ secret'.password = secret.password
  BY RehashKeeps DEF CommitSignIn, Finish, Goto, Inv, TypeOK
<1>2. request[p].typed = secret.password
  BY <1>1 DEF CommitSignIn, Inv, Held, HeldSecret, HoldsSecret
<1>3. session'[p] = OpenSession(FALSE, None, request[p].typed)
  BY DEF CommitSignIn, Inv, TypeOK
<1>4. \A s \in Request : s # p => SessionUpdated(s)
  BY DEF CommitSignIn, SessionUpdated, Inv, TypeOK
<1>5. \A c \in Request : ChallengeUpdated(c)
  BY SameChallenges DEF CommitSignIn
<1>6. session'[p].password = secret.password /\ session'[p].from = None
  BY <1>2, <1>3 DEF OpenSession
<1>7. QED
  BY <1>1, <1>4, <1>5, <1>6, AddedRows

(* insertChallenge: the rows p holds are gone, and its own is there. *)
LEMMA Inserted ==
  ASSUME Inv, NEW p \in Request, NEW as, NEW w,
         challenge' = ChallengesAfterInsert(p, OpenChallenge(as, w))
  PROVE  /\ \A c \in Request : c # p => ChallengeUpdated(c)
         /\ challenge'[p].session = as /\ challenge'[p].password = w
         /\ challenge'[p].attempts < ChallengeAttempts
<1>1. challenge'[p] = OpenChallenge(as, w)
  BY DEF ChallengesAfterInsert
<1>2. ASSUME NEW c \in Request, c # p PROVE ChallengeUpdated(c)
  <2>1. challenge'[c] = challenge[c] \/ challenge'[c] = NoChallenge
    BY <1>2 DEF ChallengesAfterInsert
  <2>2. NoChallenge.state = "absent"
    BY DEF NoChallenge
  <2>3. challenge[c].state = "open" => challenge[c].attempts < ChallengeAttempts
    BY DEF Inv, Fresh
  <2>4. QED
    BY <2>1, <2>2, <2>3 DEF ChallengeUpdated
<1>3. /\ OpenChallenge(as, w).session = as
      /\ OpenChallenge(as, w).password = w
      /\ OpenChallenge(as, w).attempts = 0
  BY DEF OpenChallenge, NoChallenge
<1>4. 0 < ChallengeAttempts
  BY AttemptsAssumption
<1>5. QED
  BY <1>1, <1>2, <1>3, <1>4

LEMMA FirstStepRows ==
  ASSUME Inv, [Next]_vars, NEW p \in Request, CommitFirstStep(p)
  PROVE  Rows'
<1>1. pc[p] = "commit" /\ pc'[p] = "done" /\ secret'.password = secret.password
  BY RehashKeeps DEF CommitFirstStep, Finish, Goto, Inv, TypeOK
<1>2. request[p].typed = secret.password
  BY <1>1 DEF CommitFirstStep, Inv, Held, HeldSecret, HoldsSecret
<1>3. \A s \in Request : SessionUpdated(s)
  BY SameSessions DEF CommitFirstStep
<1>4. /\ \A c \in Request : c # p => ChallengeUpdated(c)
      /\ challenge'[p].password = secret.password
      /\ challenge'[p].attempts < ChallengeAttempts
  BY <1>2, Inserted DEF CommitFirstStep
<1>5. QED
  BY <1>1, <1>3, <1>4, AddedRows

LEMMA StepUpBegunRows ==
  ASSUME Inv, [Next]_vars, NEW p \in Request, CommitStepUpBegun(p)
  PROVE  Rows'
<1>1. pc[p] = "commit" /\ pc'[p] = "done" /\ secret'.password = secret.password
  BY DEF CommitStepUpBegun, Finish, Goto, Inv, TypeOK
<1>2. request[p].as # None
  BY DEF CommitStepUpBegun, Inv, Flows, FlowOf
<1>3. \A s \in Request : SessionUpdated(s)
  BY SameSessions DEF CommitStepUpBegun
<1>4. /\ \A c \in Request : c # p => ChallengeUpdated(c)
      /\ challenge'[p].session # None
      /\ challenge'[p].attempts < ChallengeAttempts
  BY <1>2, Inserted DEF CommitStepUpBegun
<1>5. QED
  BY <1>1, <1>3, <1>4, AddedRows

LEMMA SecondStepRows ==
  ASSUME Inv, [Next]_vars, NEW p \in Request, CommitSecondStep(p)
  PROVE  Rows'
<1> DEFINE c == request[p].target
<1>1. pc[p] = "commit" /\ pc'[p] = "done" /\ secret'.password = secret.password
  BY DEF CommitSecondStep, Finish, Goto, Inv, TypeOK
<1>2. c \in Request /\ challenge[c].state = "open" /\ challenge[c].session = None
  BY AnswerHolds DEF CommitSecondStep
<1>3. challenge[c].password = secret.password
  BY <1>2 DEF Inv, OnlyCurrentPassword
<1>4. (\A d \in Request : ChallengeUpdated(d)) /\ challenge'[c].state = "used"
  BY <1>2, Spent DEF CommitSecondStep
<1>5. session'[p] = OpenSession(TRUE, c, challenge[c].password)
  BY DEF CommitSecondStep, Inv, TypeOK
<1>6. \A s \in Request : s # p => SessionUpdated(s)
  BY DEF CommitSecondStep, SessionUpdated, Inv, TypeOK
<1>7. session'[p].password = secret.password /\ session'[p].from = c
  BY <1>3, <1>5 DEF OpenSession
<1>8. QED
  BY <1>1, <1>2, <1>4, <1>6, <1>7, AddedRows

(* ChangePassword: every live session and every sign-in challenge was held *)
(* by p, so none of another password is left.                              *)
LEMMA ChangeRows ==
  ASSUME Inv, [Next]_vars, NEW p \in Request, CommitChange(p)
  PROVE  Rows'
<1>1. TypeOK /\ Fresh /\ OneSessionPerChallenge
  BY DEF Inv
<1>2. ASSUME NEW c \in Request
      PROVE  challenge'[c] = NoChallenge \/ (challenge'[c] = challenge[c] /\ challengeLock[c] # p)
  BY DEF CommitChange
<1>3. session'[p].password = p /\ session'[p].from = None /\ secret'.password = p
  BY DEF CommitChange, OpenSession
<1>4. ASSUME NEW s \in Request, s # p
      PROVE  /\ session'[s].from = session[s].from
             /\ ~Live(s)'
  <2>1. session[s] \in Session
    BY <1>1 DEF TypeOK
  <2>2. CASE sessionLock[s] = p
    BY <1>4, <2>1, <2>2 DEF CommitChange, Session, Live
  <2>3. CASE sessionLock[s] # p
    <3>1. ~Live(s)
      BY <2>3 DEF CommitChange, Inv, Held, HeldSessions
    <3>2. QED
      BY <1>4, <2>3, <3>1 DEF CommitChange, Live
  <2>4. QED
    BY <2>2, <2>3
<1>5. Fresh'
  <2>1. ASSUME NEW s \in Request, session'[s].from # None
        PROVE  pc'[session'[s].from] = "done" /\ challenge'[session'[s].from].state # "open"
    <3>1. s # p /\ session'[s].from = session[s].from /\ session[s].from \in Request
      BY <1>1, <1>3, <1>4, <2>1 DEF TypeOK, Session, RequestOrNone
    <3>2. pc[session[s].from] = "done" /\ challenge[session[s].from].state # "open"
      BY <1>1, <2>1, <3>1 DEF Fresh
    <3>3. QED
      BY <1>2, <3>1, <3>2, DoneStays DEF NoChallenge
  <2>2. ASSUME NEW q \in Request
        PROVE  /\ pc'[q] # "done" => challenge'[q].state = "absent"
               /\ challenge'[q].state = "open" => challenge'[q].attempts < ChallengeAttempts
    BY <1>1, <1>2, DoneStays DEF Fresh, NoChallenge
  <2>3. QED
    BY <2>1, <2>2 DEF Fresh
<1>6. OnlyCurrentPassword'
  <2>1. ASSUME NEW c \in Request, challenge'[c].state = "open", challenge'[c].session = None
        PROVE  FALSE
    <3>1. challenge'[c] = challenge[c] /\ challengeLock[c] # p
      BY <1>2, <2>1 DEF NoChallenge
    <3>2. SignInRow(c)
      BY <2>1, <3>1 DEF SignInRow
    <3>3. QED
      BY <3>1, <3>2 DEF CommitChange, Inv, Held, HeldSignIns
  <2>2. QED
    BY <1>3, <1>4, <2>1 DEF OnlyCurrentPassword
<1>7. OneSessionPerChallenge'
  BY <1>1, <1>3, <1>4 DEF OneSessionPerChallenge
<1>8. QED
  BY <1>5, <1>6, <1>7 DEF Rows

LEMMA RowsStep == Inv /\ [Next]_vars => Rows'
<1> SUFFICES ASSUME Inv, [Next]_vars PROVE Rows'
  OBVIOUS
<1>1. ASSUME NEW p \in Request, Commit(p) PROVE Rows'
  BY <1>1, NoFactorRows, FirstStepRows, StepUpBegunRows, WrongRows, SecondStepRows, StepUpRows,
     ChangeRows, EndRows DEF Commit
<1>2. QED
  BY <1>1, IdleRows, ReadersRows, Steps DEF Acts

-----------------------------------------------------------------------------
LEMMA InvStep == Inv /\ [Next]_vars => Inv'
  BY TypeStep, FlowsStep, HashesStep, HeldStep, RowsStep DEF Inv, Rows

LEMMA InvHolds == Spec => []Inv
<1>1. QED
  BY InitInv, InvStep, PTL DEF Spec

(* The tables and the requests hold what their columns can hold: an answer *)
(* never counts past the attempts of its challenge (challengeAttempt), a   *)
(* step-up never marks a session that is none.                             *)
THEOREM TypeCorrect == Spec => []TypeOK
<1>1. Inv => TypeOK
  BY DEF Inv
<1>2. QED
  BY InvHolds, <1>1, PTL

(* ChangePassword ends every session and every sign-in that waits, for any *)
(* number of requests in flight: no row another password opened is live.   *)
THEOREM PasswordChangeEndsAll == Spec => []OnlyCurrentPassword
<1>1. Inv => OnlyCurrentPassword
  BY DEF Inv
<1>2. QED
  BY InvHolds, <1>1, PTL

(* spendChallenge: a sign-in challenge opens at most one session, however  *)
(* many answers arrive at once.                                            *)
THEOREM OneSession == Spec => []OneSessionPerChallenge
<1>1. Inv => OneSessionPerChallenge
  BY DEF Inv
<1>2. QED
  BY InvHolds, <1>1, PTL

(***************************************************************************)
(* The answers a challenge has heard. Tally joins Inv: while a challenge   *)
(* is open its attempts count every answer it has heard, and an answer     *)
(* names a challenge whose request has committed, so none was heard before *)
(* the row was there.                                                      *)
(***************************************************************************)
Heard(c) == Answered(c, {"wrong", "right"})

Names(p) == pc[p] # "idle" /\ request[p].flow = "answer"
              => request[p].target \in Request /\ pc[request[p].target] = "done"

Counted(c) ==
  /\ IsFiniteSet(Heard(c))
  /\ Cardinality(Heard(c)) <= ChallengeAttempts
  /\ challenge[c].state = "open" => Cardinality(Heard(c)) <= challenge[c].attempts

Tally == \A p \in Request : Names(p) /\ Counted(p)

LEMMA InitTally == Init => Tally
<1> SUFFICES ASSUME Init, NEW p \in Request PROVE Names(p) /\ Counted(p)
  BY DEF Tally
<1>1. Heard(p) = {}
  BY DEF Init, Heard, Answered
<1>2. Names(p)
  BY DEF Init, Names
<1>3. QED
  BY <1>1, <1>2, FS_EmptySet, AttemptsAssumption DEF Init, Counted, NoChallenge

(* A request that has arrived never changes what it answers, and one that  *)
(* is done does nothing.                                                   *)
LEMMA KeepsAsking ==
  ASSUME Inv, NEW p \in Request, Acts(p)
  PROVE  /\ pc[p] # "done"
         /\ pc[p] = "idle" => Arrive(p)
         /\ pc[p] # "idle" => request'[p].flow = request[p].flow /\ request'[p].target = request[p].target
<1> request \in [Request -> Asked] /\ request[p] \in Asked
  BY DEF Inv, TypeOK
<1>1. CASE Arrive(p)
  BY <1>1 DEF Arrive, BeginSignIn, BeginAnswer, BeginStepUp, BeginEnd, BeginChange, Begin
<1>2. ASSUME NEW o, Finish(p, o) PROVE request'[p].flow = request[p].flow /\ request'[p].target = request[p].target
  BY <1>2 DEF Finish, Asked
<1>3. CASE Commit(p) \/ Abort(p)
  BY <1>2, <1>3 DEF Commit, CommitSignIn, CommitFirstStep, CommitStepUpBegun, CommitWrong,
     CommitSecondStep, CommitStepUp, CommitChange, CommitEnd, Abort
<1>4. CASE WrongPassword(p) \/ PasswordChanged(p) \/ ChallengeInvalid(p) \/ NothingToEnd(p)
  BY <1>2, <1>4 DEF WrongPassword, PasswordChanged, ChallengeInvalid, NothingToEnd, Refuse
<1>5. CASE ReadSecret(p) \/ CountFactors(p) \/ \E right \in BOOLEAN : Check(p, right)
  BY <1>5 DEF ReadSecret, CountFactors, Check, Asked
<1>6. CASE PasswordStill(p) \/ InsertChallenge(p) \/ EndSignIns(p) \/ LockChallenge(p)
             \/ RevokeSessions(p) \/ MarkSession(p) \/ EndSession(p)
  BY <1>6 DEF PasswordStill, InsertChallenge, EndSignIns, LockChallenge, RevokeSessions, MarkSession, EndSession
<1>7. QED
  BY <1>1, <1>3, <1>4, <1>5, <1>6 DEF Acts, Statement

LEMMA NamesStep ==
  ASSUME Inv, Tally, [Next]_vars, NEW q \in Request
  PROVE  Names(q)'
<1>1. Names(q)
  BY DEF Tally
<1>2. CASE Idle
  BY <1>1, <1>2, IdleKeeps DEF Names
<1>3. ASSUME NEW p \in Request, Acts(p), p # q PROVE Names(q)'
  <2>1. pc'[q] = pc[q] /\ request'[q] = request[q]
    BY <1>3, Others DEF Undisturbed
  <2>2. QED
    BY <1>1, <2>1, DoneStays DEF Names
<1>4. CASE Acts(q)
  <2>1. CASE pc[q] # "idle"
    BY <1>1, <1>4, <2>1, KeepsAsking, DoneStays DEF Names
  <2>2. ASSUME NEW c \in Request, NEW as \in RequestOrNone, BeginAnswer(q, c, as) PROVE Names(q)'
    <3>1. request'[q].target = c
      BY <2>2 DEF BeginAnswer, Begin, Inv, TypeOK, Asked
    <3>2. pc[c] = "done"
      BY <2>2 DEF BeginAnswer, Inv, Fresh
    <3>3. QED
      BY <3>1, <3>2, DoneStays DEF Names
  <2>3. CASE \/ \E typed \in Password : BeginSignIn(q, typed)
             \/ \E s \in Request : BeginStepUp(q, s) \/ BeginEnd(q, s)
             \/ \E s \in Request, typed \in Password : BeginChange(q, s, typed)
    <3>1. request \in [Request -> Asked] /\ request[q] \in Asked
      BY DEF Inv, TypeOK
    <3>2. ASSUME NEW typed \in Password, BeginSignIn(q, typed) PROVE request'[q].flow = "signin"
      BY <3>1, <3>2 DEF BeginSignIn, Begin, Asked
    <3>3. ASSUME NEW s \in Request, BeginStepUp(q, s) PROVE request'[q].flow = "stepup"
      BY <3>1, <3>3 DEF BeginStepUp, Begin, Asked
    <3>4. ASSUME NEW s \in Request, BeginEnd(q, s) PROVE request'[q].flow = "end"
      BY <3>1, <3>4 DEF BeginEnd, Begin, Asked
    <3>5. ASSUME NEW s \in Request, NEW typed \in Password, BeginChange(q, s, typed)
          PROVE  request'[q].flow = "change"
      BY <3>1, <3>5 DEF BeginChange, Begin, Asked
    <3>6. request'[q].flow # "answer"
      BY <2>3, <3>2, <3>3, <3>4, <3>5
    <3>7. QED
      BY <3>6 DEF Names
  <2>4. QED
    BY <1>4, <2>1, <2>2, <2>3, KeepsAsking DEF Arrive
<1>5. QED
  BY <1>2, <1>3, <1>4, Steps

(* A step adds at most its own request to what a challenge has heard, and  *)
(* only by a commit that answers it.                                       *)
LEMMA HeardGrows ==
  ASSUME Inv, [Next]_vars, NEW p \in Request, Acts(p), NEW c \in Request
  PROVE  \/ Heard(c)' = Heard(c)
         \/ /\ Heard(c)' = Heard(c) \cup {p}
            /\ p \notin Heard(c)
            /\ request[p].target = c
            /\ CommitWrong(p) \/ CommitSecondStep(p) \/ \E proved \in BOOLEAN : CommitStepUp(p, proved)
<1>1. \A q \in Request : q # p => (q \in Heard(c)' <=> q \in Heard(c))
  BY Others DEF Undisturbed, Heard, Answered
<1>2. p \notin Heard(c)
  BY KeepsAsking DEF Heard, Answered
<1>3. Heard(c)' \subseteq Request /\ Heard(c) \subseteq Request
  BY DEF Heard, Answered
<1>4. ASSUME p \in Heard(c)'
      PROVE  /\ request[p].target = c
             /\ CommitWrong(p) \/ CommitSecondStep(p) \/ \E proved \in BOOLEAN : CommitStepUp(p, proved)
  <2>1. /\ pc'[p] = "done" /\ request'[p].outcome \in {"wrong", "right"}
        /\ request'[p].flow = "answer" /\ request'[p].target = c
    BY <1>4 DEF Heard, Answered
  <2>2. request \in [Request -> Asked] /\ request[p] \in Asked /\ pc \in [Request -> Step]
    BY DEF Inv, TypeOK
  <2>3. ~Arrive(p)
    BY <2>1, <2>2 DEF Arrive, BeginSignIn, BeginAnswer, BeginStepUp, BeginEnd, BeginChange, Begin
  <2>4. request[p].target = c /\ request[p].flow = "answer"
    BY <2>1, <2>3, KeepsAsking
  <2>5. ASSUME NEW o, Finish(p, o) PROVE o \in {"wrong", "right"}
    BY <2>1, <2>2, <2>5 DEF Finish, Asked
  <2>6. ~Abort(p)
    BY <2>5 DEF Abort
  <2>7. ~Statement(p)
    <3>1. ~(WrongPassword(p) \/ PasswordChanged(p) \/ ChallengeInvalid(p) \/ NothingToEnd(p))
      BY <2>5 DEF WrongPassword, PasswordChanged, ChallengeInvalid, NothingToEnd, Refuse
    <3>2. ~(ReadSecret(p) \/ CountFactors(p) \/ \E right \in BOOLEAN : Check(p, right))
      BY <2>1, <2>2 DEF ReadSecret, CountFactors, Check, Goto
    <3>3. ~(PasswordStill(p) \/ InsertChallenge(p) \/ EndSignIns(p) \/ LockChallenge(p)
             \/ RevokeSessions(p) \/ MarkSession(p) \/ EndSession(p))
      BY <2>1, <2>2 DEF PasswordStill, InsertChallenge, EndSignIns, LockChallenge, RevokeSessions,
         MarkSession, EndSession, Goto
    <3>4. QED
      BY <3>1, <3>2, <3>3 DEF Statement
  <2>8. Commit(p)
    BY <2>3, <2>6, <2>7 DEF Acts
  <2>9. QED
    BY <2>4, <2>8 DEF Commit, CommitSignIn, CommitFirstStep, CommitStepUpBegun, CommitChange, CommitEnd
<1>5. CASE p \in Heard(c)'
  <2>1. Heard(c)' = Heard(c) \cup {p}
    BY <1>1, <1>3, <1>5
  <2>2. QED
    BY <1>2, <1>4, <1>5, <2>1
<1>6. CASE p \notin Heard(c)'
  BY <1>1, <1>2, <1>3, <1>6
<1>7. QED
  BY <1>5, <1>6

(* An open challenge was open, with no more attempts, or is p's new one.   *)
LEMMA OpenBefore ==
  ASSUME Inv, [Next]_vars, NEW p \in Request, Acts(p), NEW c \in Request, challenge'[c].state = "open"
  PROVE  \/ c = p /\ pc[p] # "done"
         \/ challenge[c].state = "open" /\ challenge'[c].attempts >= challenge[c].attempts
<1> TypeOK /\ challenge \in [Request -> Challenge] /\ challenge[c] \in Challenge
  BY DEF Inv, TypeOK
<1> challenge[c].attempts \in Nat
  BY DEF Challenge
<1>1. CASE c = p
  BY <1>1, KeepsAsking
<1>2. CASE c # p /\ challengeLock[c] # p
  BY <1>2, ChallengeChange
<1>3. CASE c # p /\ challengeLock[c] = p
  <2>1. CASE Arrive(p) \/ Statement(p) \/ Abort(p)
    BY <2>1, ReadersKeepRows
  <2>2. CASE CommitSignIn(p) \/ CommitEnd(p)
    <3>1. challenge' = challenge
      BY <2>2 DEF CommitSignIn, CommitEnd
    <3>2. QED
      BY <3>1
  <2>3. CASE CommitFirstStep(p) \/ CommitStepUpBegun(p) \/ CommitChange(p)
    <3>1. challenge'[c] = NoChallenge
      BY <1>3, <2>3 DEF CommitFirstStep, CommitStepUpBegun, ChallengesAfterInsert, CommitChange
    <3>2. QED
      BY <3>1 DEF NoChallenge
  <2>4. CASE CommitWrong(p)
    <3> DEFINE n   == challenge[c].attempts + 1
               row == [challenge[c] EXCEPT !.attempts = n, !.state = IF n >= ChallengeAttempts THEN "used" ELSE @]
    <3>1. CASE request[p].target # c
      BY <2>4, <3>1 DEF CommitWrong
    <3>2. CASE request[p].target = c
      <4>1. challenge'[c] = row /\ challenge[c].state = "open"
        BY <2>4, <3>2, AnswerHolds DEF CommitWrong
      <4>2. row.attempts = n
        BY DEF Challenge
      <4>3. QED
        BY <4>1, <4>2
    <3>3. QED
      BY <3>1, <3>2
  <2>5. CASE CommitSecondStep(p) \/ \E proved \in BOOLEAN : CommitStepUp(p, proved)
    <3>1. challenge' = [challenge EXCEPT ![request[p].target] = [challenge[request[p].target] EXCEPT !.state = "used"]]
      BY <2>5 DEF CommitSecondStep, CommitStepUp
    <3>2. CASE request[p].target # c
      BY <3>1, <3>2
    <3>3. CASE request[p].target = c
      <4>1. challenge'[c] = [challenge[c] EXCEPT !.state = "used"]
        BY <3>1, <3>3
      <4>2. QED
        BY <4>1 DEF Challenge
    <3>4. QED
      BY <3>2, <3>3
  <2>6. QED
    BY <2>1, <2>2, <2>3, <2>4, <2>5 DEF Acts, Commit
<1>4. QED
  BY <1>1, <1>2, <1>3

LEMMA CountedStep ==
  ASSUME Inv, Tally, [Next]_vars, NEW c \in Request
  PROVE  Counted(c)'
<1> Counted(c) /\ IsFiniteSet(Heard(c))
  BY DEF Tally, Counted
<1> DEFINE n == Cardinality(Heard(c))
<1> n \in Nat
  BY FS_CardinalityType
<1> ChallengeAttempts \in Nat
  BY AttemptsAssumption
<1> challenge[c] \in Challenge /\ challenge[c].attempts \in Nat
  BY DEF Inv, TypeOK, Challenge
<1>1. CASE Idle
  <2>1. Heard(c)' = Heard(c)
    BY <1>1, IdleKeeps DEF Heard, Answered
  <2>2. challenge'[c].state = challenge[c].state /\ challenge'[c].attempts = challenge[c].attempts
    BY <1>1, IdleKeeps DEF Challenge
  <2>3. QED
    BY <2>1, <2>2 DEF Counted
<1>2. ASSUME NEW p \in Request, Acts(p) PROVE Counted(c)'
  <2>1. CASE Heard(c)' = Heard(c)
    <3>1. ASSUME challenge'[c].state = "open" PROVE n <= challenge'[c].attempts
      <4>1. CASE challenge[c].state = "open" /\ challenge'[c].attempts >= challenge[c].attempts
        <5>1. n <= challenge[c].attempts
          BY <4>1 DEF Counted
        <5>2. challenge'[c] \in Challenge
          BY TypeStep DEF TypeOK
        <5>3. challenge'[c].attempts \in Nat
          BY <5>2 DEF Challenge
        <5>4. QED
          BY <4>1, <5>1, <5>3
      <4>2. CASE c = p /\ pc[p] # "done"
        <5>1. Heard(c) = {}
          BY <4>2 DEF Tally, Names, Heard, Answered
        <5>2. n = 0
          BY <5>1, FS_EmptySet
        <5>3. challenge'[c] \in Challenge
          BY TypeStep DEF TypeOK
        <5>4. QED
          BY <5>2, <5>3 DEF Challenge
      <4>3. QED
        BY <1>2, <3>1, <4>1, <4>2, OpenBefore
    <3>2. QED
      BY <2>1, <3>1 DEF Counted
  <2>2. CASE /\ Heard(c)' = Heard(c) \cup {p}
             /\ p \notin Heard(c)
             /\ request[p].target = c
             /\ CommitWrong(p) \/ CommitSecondStep(p) \/ \E proved \in BOOLEAN : CommitStepUp(p, proved)
    <3>1. IsFiniteSet(Heard(c) \cup {p}) /\ Cardinality(Heard(c) \cup {p}) = n + 1
      BY <2>2, FS_AddElement
    <3>2. challenge[c].state = "open" /\ challenge[c].attempts < ChallengeAttempts
      BY <2>2, AnswerHolds DEF CommitWrong, CommitSecondStep, CommitStepUp
    <3>3. n <= challenge[c].attempts
      BY <3>2 DEF Counted
    <3>4. n + 1 <= ChallengeAttempts
      BY <3>2, <3>3
    <3>5. ASSUME challenge'[c].state = "open" PROVE n + 1 <= challenge'[c].attempts
      <4>1. ~(CommitSecondStep(p) \/ \E proved \in BOOLEAN : CommitStepUp(p, proved))
        BY <2>2, <3>2, <3>5, Spent DEF CommitSecondStep, CommitStepUp
      <4>2. CommitWrong(p)
        BY <2>2, <4>1
      <4> DEFINE m   == challenge[c].attempts + 1
                 row == [challenge[c] EXCEPT !.attempts = m, !.state = IF m >= ChallengeAttempts THEN "used" ELSE @]
      <4>3. challenge'[c] = row
        BY <2>2, <4>2 DEF CommitWrong, Inv, TypeOK
      <4>4. row.attempts = m
        BY DEF Challenge
      <4>5. QED
        BY <3>3, <4>3, <4>4
    <3>6. QED
      BY <2>2, <3>1, <3>4, <3>5 DEF Counted
  <2>3. QED
    BY <1>2, <2>1, <2>2, HeardGrows
<1>3. QED
  BY <1>1, <1>2, Steps

LEMMA TallyHolds == Spec => []Tally
<1>1. Inv /\ Tally /\ [Next]_vars => Tally'
  BY NamesStep, CountedStep DEF Tally
<1>2. QED
  BY InvHolds, InitTally, <1>1, PTL DEF Spec

(* challengeAttempt: a challenge has no more answers checked than its      *)
(* attempts, however many are sent at once, and a right one counts.        *)
THEOREM AnswersBounded == Spec => []AttemptsBounded
<1>1. Tally => AttemptsBounded
  BY DEF Tally, Counted, Heard, AttemptsBounded
<1>2. QED
  BY TallyHolds, <1>1, PTL

(***************************************************************************)
(* Nobody waits in a circle. Holders joins Inv: at which statements a      *)
(* request can be that holds a row of each table. Whoever holds a session  *)
(* is at its commit and waits for nobody; so whoever waits for a session   *)
(* is not in a circle, nor whoever waits for a challenge, and so on up.    *)
(***************************************************************************)
Holders ==
  /\ secretLock # None => pc[secretLock] \in {"open", "begin", "retire", "revoke", "commit"}
  /\ \A c \in Request : challengeLock[c] # None
                          => pc[challengeLock[c]] \in {"check", "mark", "revoke", "commit"}
  /\ \A s \in Request : sessionLock[s] # None => pc[sessionLock[s]] = "commit"

LEMMA FinishHolders ==
  ASSUME Inv, Holders, NEW p \in Request, NEW o, Finish(p, o)
  PROVE  Holders'
  BY NoneAssumption DEF Inv, TypeOK, Holders, Finish, Goto, Release, RequestOrNone

LEMMA HoldersStep ==
  ASSUME Inv, Holders, NEW p \in Request, Acts(p)
  PROVE  Holders'
<1> TypeOK /\ FlowOf(p)
  BY DEF Inv, Flows
<1> USE NoneAssumption
<1>1. CASE Arrive(p)
  <2>1. pc[p] = "idle" /\ UNCHANGED locks /\ \A q \in Request : q # p => pc'[q] = pc[q]
    BY <1>1 DEF Arrive, BeginSignIn, BeginAnswer, BeginStepUp, BeginEnd, BeginChange, Begin, TypeOK
  <2>2. QED
    BY <2>1 DEF Holders, TypeOK, RequestOrNone, locks
<1>2. CASE Commit(p) \/ Abort(p)
  BY <1>2, FinishHolders DEF Commit, CommitSignIn, CommitFirstStep, CommitStepUpBegun, CommitWrong,
     CommitSecondStep, CommitStepUp, CommitChange, CommitEnd, Abort
<1>3. CASE WrongPassword(p) \/ PasswordChanged(p) \/ ChallengeInvalid(p) \/ NothingToEnd(p)
  BY <1>3, FinishHolders DEF WrongPassword, PasswordChanged, ChallengeInvalid, NothingToEnd, Refuse
<1>4. CASE ReadSecret(p)
  BY <1>4 DEF ReadSecret, Goto, Holders, TypeOK, RequestOrNone, locks
<1>5. CASE PasswordStill(p)
  BY <1>5 DEF PasswordStill, Goto, Holders, TypeOK, RequestOrNone
<1>6. CASE CountFactors(p)
  BY <1>6 DEF CountFactors, Goto, Holders, TypeOK, RequestOrNone, locks
<1>7. CASE InsertChallenge(p) \/ LockChallenge(p)
  BY <1>7 DEF InsertChallenge, LockChallenge, Hold, Goto, Holders, TypeOK, RequestOrNone
<1>8. CASE \E right \in BOOLEAN : Check(p, right)
  BY <1>8 DEF Check, Goto, Holders, TypeOK, RequestOrNone, locks
<1>9. CASE EndSignIns(p)
  BY <1>9 DEF EndSignIns, Hold, Goto, Holders, TypeOK, RequestOrNone
<1>10. CASE MarkSession(p) \/ RevokeSessions(p) \/ EndSession(p)
  BY <1>10 DEF MarkSession, RevokeSessions, EndSession, Hold, Goto, Holders, TypeOK, RequestOrNone
<1>11. QED
  BY <1>1, <1>2, <1>3, <1>4, <1>5, <1>6, <1>7, <1>8, <1>9, <1>10 DEF Acts, Statement

LEMMA HoldersHold == Spec => []Holders
<1>1. Init => Holders
  BY DEF Init, Holders
<1>2. Inv /\ Holders /\ [Next]_vars => Holders'
  <2> SUFFICES ASSUME Inv, Holders, [Next]_vars PROVE Holders'
    OBVIOUS
  <2>1. CASE Idle
    BY <2>1, IdleKeeps DEF Holders
  <2>2. QED
    BY <2>1, HoldersStep, Steps
<1>3. QED
  BY InvHolds, <1>1, <1>2, PTL DEF Spec

(* The lock order of ChangePassword's and answerChallenge's comments       *)
(* leaves no set of requests each waiting for a row another of them holds. *)
THEOREM NeverDeadlocked == Spec => []NoDeadlock
<1>1. Inv /\ Holders => NoDeadlock
  <2> SUFFICES ASSUME Inv, Holders, NEW D \in SUBSET Request, D # {},
                      \A p \in D : Blockers(p) \cap D # {}
               PROVE  FALSE
    BY DEF NoDeadlock
  <2> \A p \in Request : FlowOf(p) /\ request[p] \in Asked
    BY DEF Inv, Flows, TypeOK
  <2> \A p \in Request : request[p].as \in RequestOrNone /\ request[p].target \in RequestOrNone
    BY DEF Asked
  <2> USE NoneAssumption
  <2>1. \A p \in D : pc[p] \notin {"open", "check", "commit"}
    BY DEF Blockers
  <2>2. ASSUME NEW p \in D, pc[p] \in {"mark", "end", "revoke"} PROVE FALSE
    <3>1. CASE pc[p] \in {"mark", "end"}
      <4>1. request[p].as \in Request
        BY <3>1 DEF FlowOf, RequestOrNone
      <4>2. Blockers(p) = {sessionLock[request[p].as]} \ {None}
        BY <3>1 DEF Blockers
      <4>3. QED
        BY <2>1, <4>1, <4>2 DEF Holders
    <3>2. CASE pc[p] = "revoke"
      <4>1. Blockers(p) = {sessionLock[s] : s \in LiveRows} \ {None}
        BY <3>2 DEF Blockers
      <4>2. QED
        BY <2>1, <4>1 DEF Holders, LiveRows
    <3>3. QED
      BY <2>2, <3>1, <3>2
  <2>3. ASSUME NEW p \in D, pc[p] \in {"begin", "retire", "challenge"} PROVE FALSE
    <3>1. CASE pc[p] = "challenge"
      <4>1. request[p].target \in Request
        BY <3>1 DEF FlowOf, RequestOrNone
      <4>2. Blockers(p) = {challengeLock[request[p].target]} \ {None}
        BY <3>1 DEF Blockers
      <4>3. QED
        BY <2>1, <2>2, <4>1, <4>2 DEF Holders
    <3>2. CASE pc[p] = "begin"
      <4>1. Blockers(p) = {challengeLock[c] : c \in DeadRows} \ {None}
        BY <3>2 DEF Blockers
      <4>2. QED
        BY <2>1, <2>2, <4>1 DEF Holders, DeadRows
    <3>3. CASE pc[p] = "retire"
      <4>1. Blockers(p) = {challengeLock[c] : c \in SignInRows} \ {None}
        BY <3>3 DEF Blockers
      <4>2. QED
        BY <2>1, <2>2, <4>1 DEF Holders, SignInRows
    <3>4. QED
      BY <2>3, <3>1, <3>2, <3>3
  <2>4. ASSUME NEW p \in D, pc[p] = "lock" PROVE FALSE
    <3>1. secretLock \in D /\ secretLock # None
      BY <2>4 DEF Blockers
    <3>2. QED
      BY <2>1, <2>2, <2>3, <3>1 DEF Holders
  <2>5. QED
    BY <2>1, <2>2, <2>3, <2>4 DEF Blockers
<1>2. QED
  BY InvHolds, HoldersHold, <1>1, PTL

(***************************************************************************)
(* The flows are the steps of Account. What Account speaks of: a session   *)
(* or a waiting sign-in is its token and the password that opened it.      *)
(***************************************************************************)
ByToken(t, w) == [token |-> t, password |-> w]
Waits(c) == SignInRow(c) /\ challenge[c].state = "open"

LiveSessions    == {ByToken(s, session[s].password) : s \in LiveRows}
WaitingSignIns  == {ByToken(c, challenge[c].password) : c \in {d \in Request : Waits(d)}}

seen == <<secret.password, LiveSessions, WaitingSignIns>>

LEMMA SeenIs ==
  /\ Promise!Init <=> secret.password = None /\ LiveSessions = {} /\ WaitingSignIns = {}
  /\ UNCHANGED Promise!avars <=> UNCHANGED seen
BY DEF Promise!Init, Promise!avars, seen, LiveSessions, WaitingSignIns, ByToken, SignInRows, Waits

(* A row of either set, seen through the tables. *)
LEMMA Members ==
  /\ \A s \in Request : Live(s) <=> ByToken(s, session[s].password) \in LiveSessions
  /\ \A c \in Request : Waits(c) <=> ByToken(c, challenge[c].password) \in WaitingSignIns
BY DEF LiveSessions, WaitingSignIns, LiveRows, ByToken

(* Sessions that stay live, and sign-ins that keep waiting, are seen alike. *)
LEMMA SameLive ==
  ASSUME \A s \in Request : /\ Live(s)' <=> Live(s)
                            /\ Live(s) => session'[s].password = session[s].password
  PROVE  LiveSessions' = LiveSessions
BY DEF LiveSessions, LiveRows, Live

LEMMA SameWaiting ==
  ASSUME \A c \in Request : /\ Waits(c)' <=> Waits(c)
                            /\ Waits(c) => challenge'[c].password = challenge[c].password
  PROVE  WaitingSignIns' = WaitingSignIns
BY DEF WaitingSignIns

LEMMA FewerWaiting ==
  ASSUME NEW p \in Request,
         \A c \in Request : c # p => ChallengeUpdated(c)
  PROVE  WaitingSignIns' \subseteq WaitingSignIns \cup {x \in {ByToken(p, challenge'[p].password)} : Waits(p)'}
<1>1. ASSUME NEW c \in Request, Waits(c)', c # p
      PROVE  Waits(c) /\ challenge'[c].password = challenge[c].password
  BY <1>1 DEF Waits, SignInRow, ChallengeUpdated
<1>2. ASSUME NEW x \in WaitingSignIns'
      PROVE  x \in WaitingSignIns \cup {y \in {ByToken(p, challenge'[p].password)} : Waits(p)'}
  <2>1. PICK c \in Request : Waits(c)' /\ x = ByToken(c, challenge'[c].password)
    BY <1>2 DEF WaitingSignIns
  <2>2. CASE c = p
    BY <2>1, <2>2
  <2>3. CASE c # p
    BY <1>1, <2>1, <2>3, Members
  <2>4. QED
    BY <2>2, <2>3
<1>3. QED
  BY <1>2

(* One more session, and only it. *)
LEMMA OneMoreLive ==
  ASSUME Inv, NEW p \in Request, NEW steppedUp, NEW from,
         session' = [session EXCEPT ![p] = OpenSession(steppedUp, from, secret.password)]
  PROVE  LiveSessions' = LiveSessions \cup {ByToken(p, secret.password)}
<1> session \in [Request -> Session]
  BY DEF Inv, TypeOK
<1>1. session'[p].state = "live" /\ session'[p].password = secret.password
  BY DEF OpenSession
<1>2. \A s \in Request : s # p => session'[s] = session[s]
  OBVIOUS
<1>3. Live(p) => session[p].password = secret.password
  BY DEF Inv, OnlyCurrentPassword
<1>4. ASSUME NEW x PROVE x \in LiveSessions' <=> x \in LiveSessions \cup {ByToken(p, secret.password)}
  <2>1. x \in LiveSessions' <=> \E s \in Request : session'[s].state = "live" /\ x = ByToken(s, session'[s].password)
    BY DEF LiveSessions, LiveRows, Live
  <2>2. x \in LiveSessions <=> \E s \in Request : session[s].state = "live" /\ x = ByToken(s, session[s].password)
    BY DEF LiveSessions, LiveRows, Live
  <2>3. QED
    BY <1>1, <1>2, <1>3, <2>1, <2>2 DEF Live
<1>5. QED
  BY <1>4

LEMMA SignInSeen ==
  ASSUME Inv, [Next]_vars, NEW p \in Request, CommitSignIn(p)
  PROVE  Promise!Next
<1>1. request[p].typed = secret.password
  BY DEF CommitSignIn, Inv, Held, HeldSecret, HoldsSecret
<1>2. secret'.password = secret.password
  BY RehashKeeps DEF CommitSignIn, Inv
<1>3. LiveSessions' = LiveSessions \cup {ByToken(p, secret.password)}
  BY <1>1, OneMoreLive DEF CommitSignIn
<1>4. WaitingSignIns' = WaitingSignIns
  BY SameWaiting DEF CommitSignIn, Waits, SignInRow
<1>5. Promise!SignIn(p)
  BY <1>2, <1>3, <1>4 DEF Promise!SignIn, Promise!By, LiveSessions, WaitingSignIns, ByToken, SignInRows, Waits
<1>6. QED
  BY <1>5 DEF Promise!Next

LEMMA FirstStepSeen ==
  ASSUME Inv, [Next]_vars, NEW p \in Request, CommitFirstStep(p)
  PROVE  Promise!Next
<1> DEFINE new == ByToken(p, secret.password)
<1>1. request[p].typed = secret.password
  BY DEF CommitFirstStep, Inv, Held, HeldSecret, HoldsSecret
<1>2. secret'.password = secret.password
  BY RehashKeeps DEF CommitFirstStep, Inv
<1>3. LiveSessions' = LiveSessions
  BY SameLive DEF CommitFirstStep, Live
<1>4. challenge'[p] = OpenChallenge(None, secret.password)
  BY <1>1 DEF CommitFirstStep, ChallengesAfterInsert
<1>5. Waits(p)' /\ challenge'[p].password = secret.password
  BY <1>4 DEF Waits, SignInRow, OpenChallenge, NoChallenge
<1>6. \A c \in Request : c # p => ChallengeUpdated(c)
  BY Inserted DEF CommitFirstStep
<1>7. WaitingSignIns' \subseteq WaitingSignIns \cup {new}
  BY <1>5, <1>6, FewerWaiting
<1>8. new \in WaitingSignIns'
  BY <1>5 DEF WaitingSignIns
<1> HIDE DEF new
<1>9. \E gone \in SUBSET WaitingSignIns : WaitingSignIns' = (WaitingSignIns \ gone) \cup {new}
  <2> DEFINE gone == WaitingSignIns \ WaitingSignIns'
  <2>1. gone \in SUBSET WaitingSignIns /\ WaitingSignIns' = (WaitingSignIns \ gone) \cup {new}
    BY <1>7, <1>8
  <2>2. QED
    BY <2>1
<1>10. Promise!FirstStep(p)
  BY <1>2, <1>3, <1>9
  DEF Promise!FirstStep, Promise!By, LiveSessions, WaitingSignIns, ByToken, SignInRows, Waits, new
<1>11. QED
  BY <1>10 DEF Promise!Next

(* Rows that go: expired, or answered wrong too often. *)
LEMMA GiveUpSeen ==
  ASSUME secret'.password = secret.password, LiveSessions' = LiveSessions,
         WaitingSignIns' \subseteq WaitingSignIns
  PROVE  Promise!Next
<1> DEFINE gone == WaitingSignIns \ WaitingSignIns'
<1>1. gone \in SUBSET WaitingSignIns /\ WaitingSignIns' = WaitingSignIns \ gone
  OBVIOUS
<1> HIDE DEF gone
<1>2. Promise!GiveUp
  BY <1>1 DEF Promise!GiveUp, LiveSessions, WaitingSignIns, ByToken, SignInRows, Waits
<1>3. QED
  BY <1>2 DEF Promise!Next

LEMMA StepUpBegunSeen ==
  ASSUME Inv, [Next]_vars, NEW p \in Request, CommitStepUpBegun(p)
  PROVE  Promise!Next
<1>1. request[p].as # None
  BY DEF CommitStepUpBegun, Inv, Flows, FlowOf
<1>2. challenge'[p].session # None
  BY <1>1, Inserted DEF CommitStepUpBegun
<1>3. \A c \in Request : c # p => ChallengeUpdated(c)
  BY Inserted DEF CommitStepUpBegun
<1>4. WaitingSignIns' \subseteq WaitingSignIns
  BY <1>2, <1>3, FewerWaiting DEF Waits, SignInRow
<1>5. LiveSessions' = LiveSessions
  BY SameLive DEF CommitStepUpBegun, Live
<1>6. QED
  BY <1>4, <1>5, GiveUpSeen DEF CommitStepUpBegun

LEMMA WrongSeen ==
  ASSUME Inv, [Next]_vars, NEW p \in Request, CommitWrong(p)
  PROVE  Promise!Next
<1> DEFINE c == request[p].target
           row == [challenge[c] EXCEPT !.attempts = challenge[c].attempts + 1,
                     !.state = IF challenge[c].attempts + 1 >= ChallengeAttempts THEN "used" ELSE @]
<1>1. c \in Request /\ challenge[c].state = "open" /\ challenge \in [Request -> Challenge]
  BY AnswerHolds DEF CommitWrong, Inv, TypeOK
<1>2. challenge' = [challenge EXCEPT ![c] = row]
  BY <1>1 DEF CommitWrong
<1>3. row.session = challenge[c].session /\ row.password = challenge[c].password
  BY <1>1 DEF Challenge
<1> HIDE DEF row
<1>4. \A d \in Request : challenge'[d].session = challenge[d].session /\ challenge'[d].password = challenge[d].password
  BY <1>1, <1>2, <1>3
<1>5. \A d \in Request : Waits(d)' => Waits(d)
  BY <1>1, <1>2, <1>4 DEF Waits, SignInRow
<1>6. WaitingSignIns' \subseteq WaitingSignIns
  BY <1>4, <1>5 DEF WaitingSignIns
<1>7. LiveSessions' = LiveSessions
  BY SameLive DEF CommitWrong, Live
<1>8. QED
  BY <1>6, <1>7, GiveUpSeen DEF CommitWrong

(* A challenge spent waits no more, and the others as before. *)
LEMMA SpentSeen ==
  ASSUME Inv, NEW c \in Request, challenge[c].state = "open",
         challenge' = [challenge EXCEPT ![c].state = "used"]
  PROVE  WaitingSignIns' = {x \in WaitingSignIns : x.token # c}
<1>1. challenge \in [Request -> Challenge]
  BY DEF Inv, TypeOK
<1>2. challenge'[c].state = "used"
  BY <1>1 DEF Challenge
<1>3. \A d \in Request : d # c => challenge'[d] = challenge[d]
  BY <1>1
<1>4. ~Waits(c)' /\ \A d \in Request : d # c => (Waits(d)' <=> Waits(d))
  BY <1>2, <1>3 DEF Waits, SignInRow
<1>5. QED
  BY <1>3, <1>4 DEF WaitingSignIns, ByToken

LEMMA SecondStepSeen ==
  ASSUME Inv, [Next]_vars, NEW p \in Request, CommitSecondStep(p)
  PROVE  Promise!Next
<1> DEFINE c == request[p].target
           x == ByToken(c, challenge[c].password)
<1>1. c \in Request /\ challenge[c].state = "open" /\ challenge[c].session = None
  BY AnswerHolds DEF CommitSecondStep
<1>2. challenge[c].password = secret.password
  BY <1>1 DEF Inv, OnlyCurrentPassword
<1>3. Waits(c)
  BY <1>1 DEF Waits, SignInRow
<1>4. x \in WaitingSignIns
  BY <1>1, <1>3, Members
<1>5. WaitingSignIns' = {y \in WaitingSignIns : y.token # c}
  BY <1>1, SpentSeen DEF CommitSecondStep
<1>6. WaitingSignIns' = WaitingSignIns \ {x}
  BY <1>5 DEF WaitingSignIns, ByToken
<1>7. LiveSessions' = LiveSessions \cup {ByToken(p, challenge[c].password)}
  BY <1>2, OneMoreLive DEF CommitSecondStep
<1>8. x.password = challenge[c].password
  BY DEF ByToken
<1> HIDE DEF x
<1>9. Promise!SecondStep(x, p)
  BY <1>4, <1>6, <1>7, <1>8
  DEF CommitSecondStep, Promise!SecondStep, Promise!By, LiveSessions, WaitingSignIns, ByToken, SignInRows, Waits
<1>10. QED
  BY <1>4, <1>9 DEF Promise!Next, WaitingSignIns, ByToken, SignInRows, Waits

LEMMA StepUpSeen ==
  ASSUME Inv, [Next]_vars, NEW p \in Request, NEW proved \in BOOLEAN, CommitStepUp(p, proved)
  PROVE  UNCHANGED seen
<1> DEFINE c == request[p].target
           s == request[p].as
<1>1. c \in Request /\ challenge[c].state = "open" /\ challenge[c].session = s /\ s # None
  BY AnswerHolds DEF CommitStepUp
<1>2. WaitingSignIns' = {x \in WaitingSignIns : x.token # c}
  BY <1>1, SpentSeen DEF CommitStepUp
<1>3. ~Waits(c)
  BY <1>1 DEF Waits, SignInRow
<1>4. WaitingSignIns' = WaitingSignIns
  BY <1>2, <1>3 DEF WaitingSignIns, ByToken
<1>5. LiveSessions' = LiveSessions
  <2>1. session \in [Request -> Session] /\ session' = [session EXCEPT ![s].steppedUp = @ \/ proved]
    BY DEF CommitStepUp, Inv, TypeOK
  <2>2. \A r \in Request : session'[r].state = session[r].state /\ session'[r].password = session[r].password
    BY <2>1 DEF Session
  <2>3. QED
    BY <2>2, SameLive DEF Live
<1>6. QED
  BY <1>4, <1>5 DEF CommitStepUp, seen

LEMMA ChangeSeen ==
  ASSUME Inv, [Next]_vars, NEW p \in Request, CommitChange(p)
  PROVE  Promise!Next
<1>1. secret'.password = p
  BY DEF CommitChange
<1>2. ASSUME NEW s \in Request, s # p PROVE ~Live(s)'
  <2>1. session[s] \in Session
    BY DEF Inv, TypeOK
  <2>2. CASE sessionLock[s] = p
    BY <1>2, <2>1, <2>2 DEF CommitChange, Session, Live
  <2>3. CASE sessionLock[s] # p
    <3>1. ~Live(s)
      BY <2>3 DEF CommitChange, Inv, Held, HeldSessions
    <3>2. QED
      BY <1>2, <2>3, <3>1 DEF CommitChange, Live
  <2>4. QED
    BY <2>2, <2>3
<1>3. session'[p].state = "live" /\ session'[p].password = p
  BY DEF CommitChange, OpenSession
<1>4. LiveSessions' = {ByToken(p, p)}
  BY <1>2, <1>3 DEF LiveSessions, LiveRows, Live
<1>5. ASSUME NEW c \in Request PROVE ~Waits(c)'
  <2>1. challenge'[c] = NoChallenge \/ (challenge'[c] = challenge[c] /\ challengeLock[c] # p)
    BY DEF CommitChange
  <2>2. SignInRow(c) => challengeLock[c] = p
    BY DEF CommitChange, Inv, Held, HeldSignIns
  <2>3. QED
    BY <2>1, <2>2 DEF Waits, SignInRow, NoChallenge
<1>6. WaitingSignIns' = {}
  BY <1>5 DEF WaitingSignIns
<1>7. Promise!ChangePassword(p)
  BY <1>1, <1>4, <1>6
  DEF Promise!ChangePassword, Promise!By, LiveSessions, WaitingSignIns, ByToken, SignInRows, Waits
<1>8. QED
  BY <1>7 DEF Promise!Next

LEMMA EndSeen ==
  ASSUME Inv, [Next]_vars, NEW p \in Request, CommitEnd(p)
  PROVE  Promise!Next \/ UNCHANGED seen
<1> DEFINE s == request[p].as
           x == ByToken(s, session[s].password)
<1>1. session \in [Request -> Session] /\ s \in Request
  BY DEF CommitEnd, Inv, TypeOK, Flows, FlowOf, Asked, RequestOrNone
<1>2. session'[s].state = "revoked" /\ \A r \in Request : r # s => session'[r] = session[r]
  BY <1>1 DEF CommitEnd, Session
<1>3. UNCHANGED <<secret, challenge>>
  BY DEF CommitEnd
<1>4. WaitingSignIns' = WaitingSignIns
  BY <1>3, SameWaiting DEF Waits, SignInRow
<1>5. LiveSessions' = LiveSessions \ {x}
  BY <1>1, <1>2 DEF LiveSessions, LiveRows, Live, ByToken
<1>6. CASE Live(s)
  <2>1. x \in LiveSessions
    BY <1>1, <1>6, Members
  <2> HIDE DEF x
  <2>2. Promise!SignOut(x)
    BY <1>3, <1>4, <1>5, <2>1
    DEF Promise!SignOut, LiveSessions, WaitingSignIns, ByToken, SignInRows, Waits
  <2>3. Promise!Next
    BY <2>1, <2>2 DEF Promise!Next, Promise!SignOut, LiveSessions, ByToken
  <2>4. QED
    BY <2>3
<1>7. CASE ~Live(s)
  <2>1. x \notin LiveSessions
    BY <1>1, <1>7, Members
  <2>2. QED
    BY <1>3, <1>4, <1>5, <2>1 DEF seen
<1>8. QED
  BY <1>6, <1>7

LEMMA IdleSeen ==
  ASSUME Inv, Idle
  PROVE  UNCHANGED seen
<1>1. challenge \in [Request -> Challenge]
  BY DEF Inv, TypeOK
<1>2. \A c \in Request : /\ challenge'[c].state = challenge[c].state
                         /\ challenge'[c].session = challenge[c].session
                         /\ challenge'[c].password = challenge[c].password
  BY <1>1, IdleKeeps DEF Challenge
<1>3. WaitingSignIns' = WaitingSignIns
  BY <1>2, SameWaiting DEF Waits, SignInRow
<1>4. LiveSessions' = LiveSessions
  BY IdleKeeps, SameLive DEF Live
<1>5. QED
  BY <1>3, <1>4, IdleKeeps DEF seen

LEMMA ReadersSeen ==
  ASSUME NEW p \in Request, Arrive(p) \/ Statement(p) \/ Abort(p)
  PROVE  UNCHANGED seen
<1>1. UNCHANGED <<secret, challenge, session>>
  BY ReadersKeepRows
<1>2. QED
  BY <1>1, SameLive, SameWaiting DEF seen, Live, Waits, SignInRow

(* Each flow takes effect at its commit, all of it at once, on the         *)
(* password of that moment: SignIn implements Account. Whatever a request  *)
(* read before its locks, whoever reads the account sees it sign in, pass  *)
(* the first or the second step, change its password or sign out as if it  *)
(* had been alone.                                                         *)
THEOREM Atomic == Spec => FlowsAreAtomic
<1>1. Init => Promise!Init
  BY SeenIs DEF Init, LiveSessions, WaitingSignIns, LiveRows, Live, Waits, SignInRow, NoSession, NoChallenge
<1>2. Inv /\ [Next]_vars => [Promise!Next]_Promise!avars
  <2> SUFFICES ASSUME Inv, [Next]_vars PROVE Promise!Next \/ UNCHANGED seen
    BY SeenIs
  <2>1. ASSUME NEW p \in Request, Commit(p) PROVE Promise!Next \/ UNCHANGED seen
    BY <2>1, SignInSeen, FirstStepSeen, StepUpBegunSeen, WrongSeen, SecondStepSeen, StepUpSeen, ChangeSeen, EndSeen
    DEF Commit
  <2>2. QED
    BY <2>1, IdleSeen, ReadersSeen, Steps DEF Acts
<1>3. QED
  BY InvHolds, <1>1, <1>2, PTL DEF Spec, FlowsAreAtomic, Promise!Spec
====
