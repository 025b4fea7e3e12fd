-------------------------- MODULE SecondStepProofs --------------------------
(* What SecondStep promises, for any challenges, apps, keys and recovery   *)
(* codes, any counts and any number of time steps.                         *)
EXTENDS SecondStep, FiniteSetTheorems, TLAPS

USE DEF Time, Device

-----------------------------------------------------------------------------
(* Types. *)

Answer == [at : {"idle", "offers", "check", "audit", "tally", "commit"},
           method : Method \cup {None}, now : 0 .. Steps,
           proof : Proof \cup {None}, count : 0 .. FailuresLocked + 1]

LEMMA AnswerTyped == TypeOK => answer \in [Request -> Answer]
BY DEF TypeOK, Answer

LEMMA MoreTyped ==
  /\ \A n \in 0 .. FailuresLocked + 1 : More(n) \in 0 .. FailuresLocked + 1
  /\ 0 \in 0 .. FailuresLocked + 1
BY NumbersAssumption DEF More

LEMMA LockTyped ==
  ASSUME TypeOK, NEW p \in Request, NEW r \in Row, Lock(p, r)
  PROVE  /\ lockedBy' \in [Row -> Request \cup {None}]
         /\ lockedBy'[r] = p /\ lockedBy[r] \in {None, p}
         /\ \A q \in Row \ {r} : lockedBy'[q] = lockedBy[q]
BY DEF TypeOK, Lock

LEMMA UnlockTyped ==
  ASSUME TypeOK, NEW p \in Request, Unlock(p)
  PROVE  /\ lockedBy' \in [Row -> Request \cup {None}]
         /\ \A r \in Row : lockedBy'[r] = IF lockedBy[r] = p THEN None ELSE lockedBy[r]
BY DEF TypeOK, Unlock

LEMMA NoAnswerTyped == NoAnswer \in Answer
BY NumbersAssumption DEF NoAnswer, Answer

LEMMA TypeInit == Init => TypeOK
BY NumbersAssumption DEF Init, TypeOK, NoAnswer

(* What an action leaves of the answers, and of the other variables. *)
LEMMA Unanswered ==
  ASSUME TypeOK, NEW p \in Request, answer' = [answer EXCEPT ![p] = NoAnswer]
  PROVE  /\ answer' \in [Request -> Answer]
         /\ answer'[p] = NoAnswer
         /\ \A q \in Request \ {p} : answer'[q] = answer[q]
BY AnswerTyped, NoAnswerTyped

LEMMA Moved ==
  ASSUME TypeOK, NEW p \in Request, NEW step \in {"check", "audit", "tally", "commit"},
         answer' = [answer EXCEPT ![p].at = step]
  PROVE  /\ answer' \in [Request -> Answer]
         /\ answer'[p].at = step
         /\ answer'[p].proof = answer[p].proof
         /\ answer'[p].count = answer[p].count
         /\ answer'[p].method = answer[p].method
         /\ \A q \in Request \ {p} : answer'[q] = answer[q]
<1>1. answer[p] \in Answer /\ answer \in [Request -> Answer]
  BY AnswerTyped
<1>2. answer' = [answer EXCEPT ![p] = [answer[p] EXCEPT !.at = step]]
  OBVIOUS
<1>3. [answer[p] EXCEPT !.at = step] \in Answer
  BY <1>1 DEF Answer
<1> QED
  BY <1>1, <1>2, <1>3 DEF Answer

LEMMA CheckedMoved ==
  ASSUME TypeOK, NEW p \in Request, NEW proof \in Proof \cup {None}, Checked(p, proof)
  PROVE  /\ answer' \in [Request -> Answer]
         /\ answer'[p].at = "audit"
         /\ answer'[p].proof = proof
         /\ answer'[p].method = answer[p].method
         /\ \A q \in Request \ {p} : answer'[q] = answer[q]
<1>1. answer[p] \in Answer /\ answer \in [Request -> Answer]
  BY AnswerTyped
<1>2. answer' = [answer EXCEPT ![p] = [answer[p] EXCEPT !.at = "audit", !.proof = proof]]
  BY <1>1 DEF Checked, Answer
<1>3. [answer[p] EXCEPT !.at = "audit", !.proof = proof] \in Answer
  BY <1>1 DEF Answer
<1> QED
  BY <1>1, <1>2, <1>3 DEF Answer

LEMMA CountMoved ==
  ASSUME TypeOK, NEW p \in Request, Count(p)
  PROVE  /\ answer' \in [Request -> Answer]
         /\ answer'[p].at = "commit"
         /\ answer'[p].proof = None
         /\ answer'[p].count = More(failures)
         /\ \A q \in Request \ {p} : answer'[q] = answer[q]
<1> DEFINE n == More(failures)
<1>1. answer[p] \in Answer /\ answer \in [Request -> Answer] /\ answer[p].proof = None
  BY AnswerTyped DEF Count
<1>2. n \in 0 .. FailuresLocked + 1
  BY MoreTyped DEF TypeOK
<1> HIDE DEF n
<1>3. answer' = [answer EXCEPT ![p] = [answer[p] EXCEPT !.at = "commit", !.count = n]]
  BY <1>1 DEF Count, Answer, n
<1>4. [answer[p] EXCEPT !.at = "commit", !.count = n] \in Answer
  BY <1>1, <1>2 DEF Answer
<1> QED
  BY <1>1, <1>3, <1>4 DEF Answer, n

LEMMA TypeNext == TypeOK /\ [Next]_vars => TypeOK'
<1> SUFFICES ASSUME TypeOK, [Next]_vars PROVE TypeOK'
  OBVIOUS
<1> USE DEF TypeOK
<1>a. ASSUME answer' \in [Request -> Answer] PROVE answer' \in
        [Request -> [at : {"idle", "offers", "check", "audit", "tally", "commit"},
                     method : Method \cup {None}, now : 0 .. Steps,
                     proof : Proof \cup {None}, count : 0 .. FailuresLocked + 1]]
  BY <1>a DEF Answer
<1>b. "apps" \in Row /\ "keys" \in Row /\ "audit" \in Row /\ "failures" \in Row
  BY DEF Row
<1>1. ASSUME NEW p \in Request, Arrive(p) PROVE TypeOK'
  <2>1. PICK m \in Method : \E t \in IF m = "app" THEN 1 .. now ELSE {0} :
          answer' = [answer EXCEPT ![p] =
            [at |-> "offers", method |-> m, now |-> t, proof |-> None, count |-> 0]]
    BY <1>1 DEF Arrive
  <2>2. PICK t \in IF m = "app" THEN 1 .. now ELSE {0} :
          answer' = [answer EXCEPT ![p] =
            [at |-> "offers", method |-> m, now |-> t, proof |-> None, count |-> 0]]
    BY <2>1
  <2>3. t \in 0 .. Steps
    BY NumbersAssumption
  <2>4. [at |-> "offers", method |-> m, now |-> t, proof |-> None, count |-> 0] \in Answer
    BY <2>3, NumbersAssumption DEF Answer
  <2>5. answer' \in [Request -> Answer]
    BY <2>2, <2>4, AnswerTyped
  <2> QED
    BY <1>1, <1>a, <2>5 DEF Arrive
<1>2. ASSUME NEW p \in Request, Offers(p) PROVE TypeOK'
  <2>1. answer' \in [Request -> Answer]
    BY <1>2, Moved DEF Offers
  <2> QED
    BY <1>2, <1>a, <2>1 DEF Offers
<1>3. ASSUME NEW p \in Request, NEW proof \in Proof \cup {None}, CheckApp(p, proof) PROVE TypeOK'
  <2>1. answer' \in [Request -> Answer] /\ lockedBy' \in [Row -> Request \cup {None}]
    BY <1>3, <1>b, CheckedMoved, LockTyped DEF CheckApp
  <2> QED
    BY <1>3, <1>a, <2>1 DEF CheckApp
<1>4. ASSUME NEW p \in Request, NEW proof \in Proof \cup {None}, CheckKey(p, proof) PROVE TypeOK'
  <2>1. answer' \in [Request -> Answer] /\ lockedBy' \in [Row -> Request \cup {None}]
    BY <1>4, <1>b, CheckedMoved, LockTyped DEF CheckKey
  <2> QED
    BY <1>4, <1>a, <2>1 DEF CheckKey
<1>5. ASSUME NEW p \in Request, NEW proof \in Proof \cup {None}, CheckRecovery(p, proof) PROVE TypeOK'
  <2>1. proof # None => proof[1] \in Row
    BY <1>5 DEF CheckRecovery, Row
  <2>2. answer' \in [Request -> Answer] /\ lockedBy' \in [Row -> Request \cup {None}]
    BY <1>5, <2>1, CheckedMoved, LockTyped DEF CheckRecovery
  <2> QED
    BY <1>5, <1>a, <2>2 DEF CheckRecovery
<1>6. ASSUME NEW p \in Request, Audit(p) PROVE TypeOK'
  <2>1. answer' \in [Request -> Answer] /\ lockedBy' \in [Row -> Request \cup {None}]
    BY <1>6, <1>b, Moved, LockTyped DEF Audit
  <2> QED
    BY <1>6, <1>a, <2>1 DEF Audit
<1>7. ASSUME NEW p \in Request, Count(p) PROVE TypeOK'
  <2>1. answer' \in [Request -> Answer] /\ lockedBy' \in [Row -> Request \cup {None}]
    BY <1>7, <1>b, CountMoved, LockTyped DEF Count
  <2> QED
    BY <1>7, <1>a, <2>1 DEF Count
<1>8. ASSUME NEW p \in Request, Clear(p) PROVE TypeOK'
  <2>1. answer' \in [Request -> Answer] /\ lockedBy' \in [Row -> Request \cup {None}]
    BY <1>8, <1>b, Moved, LockTyped DEF Clear
  <2> QED
    BY <1>8, <1>a, <2>1 DEF Clear
<1>9. ASSUME NEW p \in Request, Wrong(p) PROVE TypeOK'
  <2>1. answer' \in [Request -> Answer] /\ lockedBy' \in [Row -> Request \cup {None}]
    BY <1>9, Unanswered, UnlockTyped DEF Wrong
  <2>2. failures' \in 0 .. FailuresLocked + 1
    BY <1>9, AnswerTyped DEF Wrong, Answer
  <2>3. missed' \in 0 .. FailuresLocked + 1
    BY <1>9, MoreTyped DEF Wrong
  <2>4. told' \in [notified : Nat, locked : Nat]
    BY <1>9 DEF Wrong, Tell
  <2> QED
    BY <1>9, <1>a, <2>1, <2>2, <2>3, <2>4 DEF Wrong
<1>10. ASSUME NEW p \in Request, Right(p) PROVE TypeOK'
  <2> DEFINE proof == answer[p].proof
  <2>1. answer' \in [Request -> Answer] /\ lockedBy' \in [Row -> Request \cup {None}]
    BY <1>10, Unanswered, UnlockTyped DEF Right
  <2>2. proof \in Proof
    BY <1>10, AnswerTyped DEF Right, Answer
  <2>3. last' \in [Device -> 0 .. Steps] /\ recovery' \in SUBSET RecoveryCode
    <3>1. proof[1] \in Device => proof[2] \in 0 .. Steps
      BY <2>2, NumbersAssumption DEF Proof
    <3> QED
      BY <1>10, <3>1 DEF Right, Spend
  <2>4. accepted' \in [Proof -> Nat]
    BY <1>10, <2>2 DEF Right
  <2>5. /\ failures' \in 0 .. FailuresLocked + 1
        /\ missed' \in 0 .. FailuresLocked + 1
        /\ told' \in [notified : Nat, locked : Nat]
        /\ late' \in Nat
    BY <1>10, MoreTyped DEF Right, NewRun
  <2> QED
    BY <1>10, <1>a, <2>1, <2>3, <2>4, <2>5 DEF Right
<1>11. ASSUME NEW p \in Request, Abort(p) PROVE TypeOK'
  <2>1. answer' \in [Request -> Answer] /\ lockedBy' \in [Row -> Request \cup {None}]
    BY <1>11, Unanswered, UnlockTyped DEF Abort
  <2> QED
    BY <1>11, <1>a, <2>1 DEF Abort
<1>12. CASE PasswordChanged
  BY <1>12, MoreTyped DEF PasswordChanged, NewRun
<1>13. CASE Tick
  BY <1>13, NumbersAssumption DEF Tick
<1>14. CASE UNCHANGED vars
  BY <1>14 DEF vars
<1> QED
  BY <1>1, <1>2, <1>3, <1>4, <1>5, <1>6, <1>7, <1>8, <1>9, <1>10, <1>11, <1>12, <1>13, <1>14
     DEF Next, Check

(* Every row and answer stays within its type: a proof never moves the     *)
(* last step or the counter out of the window it was checked against.      *)
THEOREM TypeCorrect == Spec => []TypeOK
<1>1. Init => TypeOK
  BY TypeInit
<1>2. TypeOK /\ [Next]_vars => TypeOK'
  BY TypeNext
<1> QED
  BY <1>1, <1>2, PTL DEF Spec

-----------------------------------------------------------------------------
(* Nothing proves twice. Whoever has checked a proof holds the rows it was  *)
(* checked against, until it is spent; and what was accepted is behind the  *)
(* last step, or no longer among the unused codes.                          *)

Past(p) == answer[p].proof # None

Fresh(x) == IF x[1] \in Device THEN x[2] > last[x[1]] ELSE x[1] \in recovery

RowOf(x) == IF x[1] \in App THEN "apps" ELSE IF x[1] \in Key THEN "keys" ELSE x[1]

Held == \A p \in Request : Past(p) => Fresh(answer[p].proof) /\ lockedBy[RowOf(answer[p].proof)] = p

Spent == \A x \in Proof : accepted[x] = 0 \/ (accepted[x] = 1 /\ ~Fresh(x))

Once == Held /\ Spent

LEMMA RowOfProof == \A x \in Proof : RowOf(x) \in Row
BY DEF RowOf, Proof, Row

LEMMA OnceInit == Init => Once
BY DEF Init, Once, Held, Spent, Past, NoAnswer

(* A step that spends nothing, and releases no row of an answer that goes on. *)
LEMMA OnceUnspent ==
  ASSUME TypeOK, Once, NEW p \in Request, UNCHANGED <<last, recovery, accepted>>,
         \A q \in Request \ {p} : answer'[q] = answer[q],
         \A r \in Row : \A q \in Request \ {p} : lockedBy[r] = q => lockedBy'[r] = q,
         Past(p)' => Fresh(answer'[p].proof) /\ lockedBy'[RowOf(answer'[p].proof)] = p
  PROVE  Once'
<1>1. Spent'
  BY DEF Once, Spent, Fresh
<1>2. ASSUME NEW q \in Request, Past(q)'
      PROVE  Fresh(answer[q].proof)' /\ (lockedBy[RowOf(answer[q].proof)] = q)'
  <2>1. CASE q = p
    BY <1>2, <2>1 DEF Fresh, RowOf
  <2>2. CASE q # p
    <3>1. Past(q) /\ answer'[q].proof = answer[q].proof
      BY <1>2, <2>2 DEF Past
    <3>2. RowOf(answer[q].proof) \in Row
      BY <3>1, AnswerTyped, RowOfProof DEF Past, Answer
    <3> QED
      BY <3>1, <3>2, <2>2 DEF Once, Held, Fresh, RowOf
  <2> QED
    BY <2>1, <2>2
<1>3. Held'
  BY <1>2 DEF Held
<1> QED
  BY <1>1, <1>3 DEF Once

(* Locking a row takes it from nobody. *)
LEMMA LockKeeps ==
  ASSUME TypeOK, NEW p \in Request, NEW r \in Row, Lock(p, r)
  PROVE  \A s \in Row : \A q \in Request \ {p} : lockedBy[s] = q => lockedBy'[s] = q
BY LockTyped, RequestAssumption

LEMMA UnlockKeeps ==
  ASSUME TypeOK, NEW p \in Request, Unlock(p)
  PROVE  \A s \in Row : \A q \in Request \ {p} : lockedBy[s] = q => lockedBy'[s] = q
BY UnlockTyped

LEMMA OnceChecked ==
  ASSUME TypeOK, Once, NEW p \in Request, NEW proof \in Proof \cup {None},
         CheckApp(p, proof) \/ CheckKey(p, proof) \/ CheckRecovery(p, proof)
  PROVE  Once'
<1>1. /\ answer'[p].proof = proof
      /\ \A q \in Request \ {p} : answer'[q] = answer[q]
  BY CheckedMoved DEF CheckApp, CheckKey, CheckRecovery
<1>2. UNCHANGED <<last, recovery, accepted>>
  BY DEF CheckApp, CheckKey, CheckRecovery
<1>b. "apps" \in Row /\ "keys" \in Row
  BY DEF Row
<1>3. \A r \in Row : \A q \in Request \ {p} : lockedBy[r] = q => lockedBy'[r] = q
  <2>1. CASE CheckApp(p, proof) \/ CheckKey(p, proof)
    BY <2>1, <1>b, LockKeeps DEF CheckApp, CheckKey
  <2>2. CASE CheckRecovery(p, proof)
    <3>1. proof # None => proof[1] \in Row
      BY <2>2 DEF CheckRecovery, Row, TypeOK
    <3> QED
      BY <2>2, <3>1, LockKeeps DEF CheckRecovery
  <2> QED
    BY <2>1, <2>2
<1>4. ASSUME proof # None PROVE Fresh(proof) /\ lockedBy'[RowOf(proof)] = p
  <2>1. CASE CheckApp(p, proof)
    <3>1. lockedBy'["apps"] = p
      BY <2>1, <1>b, LockTyped DEF CheckApp
    <3> QED
      BY <2>1, <3>1, <1>4 DEF CheckApp, matchTOTP, Fresh, RowOf
  <2>2. CASE CheckKey(p, proof)
    <3>1. lockedBy'["keys"] = p
      BY <2>2, <1>b, LockTyped DEF CheckKey
    <3>2. proof[1] \in Key /\ proof[1] \notin App /\ proof[2] > last[proof[1]]
      BY <2>2, <1>4, KindsAssumption DEF CheckKey
    <3> QED
      BY <3>1, <3>2 DEF Fresh, RowOf
  <2>3. CASE CheckRecovery(p, proof)
    <3>1. proof[1] \in recovery /\ proof[1] \in Row /\ proof[1] \notin Device
      BY <2>3, <1>4, KindsAssumption DEF CheckRecovery, Row, TypeOK
    <3>2. lockedBy'[proof[1]] = p
      BY <2>3, <3>1, <1>4, LockTyped DEF CheckRecovery
    <3> QED
      BY <3>1, <3>2 DEF Fresh, RowOf
  <2> QED
    BY <2>1, <2>2, <2>3
<1>5. Past(p)' => Fresh(answer'[p].proof) /\ lockedBy'[RowOf(answer'[p].proof)] = p
  BY <1>1, <1>4 DEF Past
<1> QED
  BY <1>1, <1>2, <1>3, <1>5, OnceUnspent

LEMMA OnceRight ==
  ASSUME TypeOK, Once, NEW p \in Request, Right(p) PROVE Once'
<1> DEFINE proof == answer[p].proof
<1>1. proof \in Proof /\ Past(p)
  BY AnswerTyped DEF Right, Answer, Past
<1>2. Fresh(proof) /\ lockedBy[RowOf(proof)] = p /\ accepted[proof] = 0
  BY <1>1 DEF Once, Held, Spent
<1>3. /\ \A q \in Request \ {p} : answer'[q] = answer[q]
      /\ answer'[p].proof = None
  BY Unanswered DEF Right, NoAnswer
<1>4. /\ \A x \in Proof : x = proof => ~Fresh(x)'
      /\ \A x \in Proof : ~Fresh(x) => ~Fresh(x)'
      /\ \A x \in Proof : x[1] # proof[1] => (Fresh(x)' <=> Fresh(x))
  <2>1. CASE proof[1] \in Device
    <3>1. proof[2] \in Int /\ last[proof[1]] \in Int /\ proof[2] > last[proof[1]]
      BY <1>1, <1>2, <2>1, NumbersAssumption DEF Fresh, Proof, TypeOK
    <3>2. /\ last'[proof[1]] = proof[2]
          /\ \A d \in Device \ {proof[1]} : last'[d] = last[d]
          /\ UNCHANGED recovery
      BY <2>1 DEF Right, Spend, TypeOK
    <3>3. \A x \in Proof : x[1] \in Device => x[2] \in Int
      BY KindsAssumption, NumbersAssumption DEF Proof
    <3>4. ASSUME NEW x \in Proof, x = proof PROVE ~Fresh(x)'
      BY <2>1, <3>1, <3>2, <3>4 DEF Fresh
    <3>5. ASSUME NEW x \in Proof, x[1] # proof[1] PROVE Fresh(x)' <=> Fresh(x)
      BY <3>2, <3>5 DEF Fresh
    <3>6. ASSUME NEW x \in Proof, x[1] = proof[1], ~Fresh(x) PROVE ~Fresh(x)'
      BY <2>1, <3>1, <3>2, <3>3, <3>6 DEF Fresh
    <3> QED
      BY <3>4, <3>5, <3>6
  <2>2. CASE proof[1] \notin Device
    <3>1. recovery' = recovery \ {proof[1]} /\ UNCHANGED last
      BY <2>2 DEF Right, Spend
    <3>3. ASSUME NEW x \in Proof PROVE /\ x = proof => ~Fresh(x)'
                                       /\ ~Fresh(x) => ~Fresh(x)'
                                       /\ x[1] # proof[1] => (Fresh(x)' <=> Fresh(x))
      BY <2>2, <3>1 DEF Fresh
    <3> QED
      BY <3>3
  <2> QED
    BY <2>1, <2>2
<1>5. Spent'
  <2>1. accepted'[proof] = 1 /\ \A x \in Proof \ {proof} : accepted'[x] = accepted[x]
    BY <1>1, <1>2 DEF Right, TypeOK
  <2>2. ASSUME NEW x \in Proof PROVE accepted'[x] = 0 \/ (accepted'[x] = 1 /\ ~Fresh(x)')
    <3>1. CASE x = proof
      BY <2>1, <3>1, <1>4
    <3>2. CASE x # proof
      BY <2>1, <3>2, <1>4 DEF Once, Spent
    <3> QED
      BY <3>1, <3>2
  <2> QED
    BY <2>2 DEF Spent
<1>6. Held'
  <2> SUFFICES ASSUME NEW q \in Request, Past(q)'
               PROVE  Fresh(answer[q].proof)' /\ (lockedBy[RowOf(answer[q].proof)] = q)'
    BY DEF Held
  <2>1. q # p /\ Past(q) /\ answer'[q].proof = answer[q].proof
    BY <1>3 DEF Past
  <2>2. /\ answer[q].proof \in Proof
        /\ Fresh(answer[q].proof)
        /\ lockedBy[RowOf(answer[q].proof)] = q
        /\ RowOf(answer[q].proof) \in Row
    BY <2>1, AnswerTyped, RowOfProof DEF Past, Answer, Once, Held
  <2>3. lockedBy'[RowOf(answer[q].proof)] = q
    BY <2>1, <2>2, UnlockKeeps DEF Right
  <2>4. answer[q].proof[1] # proof[1]
    BY <1>2, <2>1, <2>2 DEF RowOf
  <2> QED
    BY <2>1, <2>2, <2>3, <2>4, <1>4 DEF Fresh, RowOf
<1> QED
  BY <1>5, <1>6 DEF Once

LEMMA OnceNext == TypeOK /\ Once /\ [Next]_vars => Once'
<1> SUFFICES ASSUME TypeOK, Once, [Next]_vars PROVE Once'
  OBVIOUS
<1>a. "audit" \in Row /\ "failures" \in Row
  BY DEF Row
<1>1. ASSUME NEW p \in Request, Arrive(p) PROVE Once'
  <2>1. /\ \A q \in Request \ {p} : answer'[q] = answer[q]
        /\ answer'[p].proof = None
    BY <1>1 DEF Arrive, TypeOK, NoAnswer
  <2> QED
    BY <1>1, <2>1, OnceUnspent DEF Arrive, Past
<1>5. ASSUME NEW p \in Request, Offers(p) PROVE Once'
  <2>1. /\ \A q \in Request \ {p} : answer'[q] = answer[q]
        /\ answer'[p].proof = answer[p].proof
    BY <1>5, Moved DEF Offers
  <2>2. UNCHANGED <<last, recovery, accepted, lockedBy>>
    BY <1>5 DEF Offers
  <2>3. Past(p)' => Fresh(answer'[p].proof) /\ lockedBy'[RowOf(answer'[p].proof)] = p
    BY <2>1, <2>2 DEF Once, Held, Past
  <2> QED
    BY <2>1, <2>2, <2>3, OnceUnspent
<1>2. ASSUME NEW p \in Request, Audit(p) \/ Count(p) \/ Clear(p) PROVE Once'
  <2>1. /\ \A q \in Request \ {p} : answer'[q] = answer[q]
        /\ answer'[p].proof = answer[p].proof
        /\ answer[p].at \in {"audit", "tally"}
    BY <1>2, Moved, CountMoved DEF Audit, Clear, Count
  <2>2. /\ UNCHANGED lockedBy \/ \E r \in Row : Lock(p, r)
        /\ UNCHANGED <<last, recovery, accepted>>
    BY <1>2, <1>a DEF Audit, Count, Clear
  <2>3. \A r \in Row : \A q \in Request \ {p} : lockedBy[r] = q => lockedBy'[r] = q
    BY <2>2, LockKeeps
  <2>4. \A r \in Row : lockedBy[r] = p => lockedBy'[r] = p
    BY <2>2, LockTyped
  <2>5. Past(p)' => Fresh(answer'[p].proof) /\ lockedBy'[RowOf(answer'[p].proof)] = p
    <3>1. SUFFICES ASSUME Past(p)' PROVE Fresh(answer[p].proof) /\ lockedBy'[RowOf(answer[p].proof)] = p
      BY <2>1
    <3>2. Past(p) /\ answer[p].proof \in Proof
      BY <2>1, <3>1, AnswerTyped DEF Past, Answer
    <3> QED
      BY <3>2, <2>4, RowOfProof DEF Once, Held
  <2> QED
    BY <2>1, <2>2, <2>3, <2>5, OnceUnspent
<1>3. ASSUME NEW p \in Request, Wrong(p) \/ Abort(p) PROVE Once'
  <2>1. /\ \A q \in Request \ {p} : answer'[q] = answer[q]
        /\ answer'[p].proof = None
    BY <1>3, Unanswered DEF Wrong, Abort, NoAnswer
  <2>2. \A r \in Row : \A q \in Request \ {p} : lockedBy[r] = q => lockedBy'[r] = q
    BY <1>3, UnlockKeeps DEF Wrong, Abort
  <2> QED
    BY <1>3, <2>1, <2>2, OnceUnspent DEF Wrong, Abort, Past
<1>4. CASE PasswordChanged \/ Tick \/ UNCHANGED vars
  <2>1. UNCHANGED <<last, recovery, accepted, answer, lockedBy>>
    BY <1>4 DEF PasswordChanged, Tick, vars
  <2> QED
    BY <2>1 DEF Once, Held, Spent, Past, Fresh, RowOf
<1> QED
  BY <1>1, <1>2, <1>3, <1>4, <1>5, OnceChecked, OnceRight DEF Next, Check

(* A step of an app, a value of a key's counter or a recovery code proves   *)
(* a second factor at most once, however many challenges it answers at      *)
(* once: appsForUpdate, keysForUpdate and the update of recovery_code.      *)
THEOREM AcceptedOnce == Spec => []EachOnce
<1>1. Init => TypeOK /\ Once
  BY TypeInit, OnceInit
<1>2. TypeOK /\ Once /\ [Next]_vars => (TypeOK /\ Once)'
  BY TypeNext, OnceNext
<1>3. TypeOK /\ Once => EachOnce
  BY DEF Once, Spent, EachOnce
<1> QED
  BY <1>1, <1>2, <1>3, PTL DEF Spec

-----------------------------------------------------------------------------
(* The run of failures. Only whoever is about to commit holds its row, and  *)
(* a wrong answer about to commit holds it with the count it read.          *)

Tallied(p) ==
  /\ lockedBy["failures"] = p => answer[p].at = "commit"
  /\ answer[p].at = "commit" /\ answer[p].proof = None
       => lockedBy["failures"] = p /\ answer[p].count = More(failures)

Tally == \A p \in Request : Tallied(p)

Counted == Tally /\ RunCounted

LEMMA CountedInit == Init => Counted
BY RequestAssumption, NumbersAssumption
   DEF Init, Counted, Tally, Tallied, RunCounted, NoAnswer, Row

(* The row stays as it is with everyone else. *)
LEMMA TallyKept ==
  ASSUME TypeOK, Tally, NEW p \in Request,
         \A q \in Request \ {p} : answer'[q] = answer[q],
         \A q \in Request \ {p} : lockedBy'["failures"] = q <=> lockedBy["failures"] = q,
         failures' = failures \/ lockedBy["failures"] = p,
         Tallied(p)'
  PROVE  Tally'
BY DEF Tally, Tallied, More

(* Taking another row, or none, moves the failures' to nobody. *)
LEMMA OtherRow ==
  ASSUME TypeOK, NEW p \in Request, NEW r \in Row, r # "failures", Lock(p, r)
  PROVE  lockedBy'["failures"] = lockedBy["failures"]
BY LockTyped DEF Row

LEMMA RowReleased ==
  ASSUME TypeOK, NEW p \in Request, Unlock(p)
  PROVE  /\ lockedBy'["failures"] # p
         /\ \A q \in Request \ {p} : lockedBy'["failures"] = q <=> lockedBy["failures"] = q
BY UnlockTyped, RequestAssumption DEF Row

LEMMA RowTaken ==
  ASSUME TypeOK, NEW p \in Request, Lock(p, "failures")
  PROVE  /\ lockedBy'["failures"] = p
         /\ \A q \in Request \ {p} : lockedBy'["failures"] = q <=> lockedBy["failures"] = q
BY LockTyped, RequestAssumption DEF Row

(* A wrong answer that commits counts one more, and tells at its two counts. *)
LEMMA WrongCounts ==
  ASSUME TypeOK, Counted, NEW p \in Request, Wrong(p) PROVE RunCounted'
<1>1. failures' = More(failures) /\ missed' = More(failures)
  BY DEF Counted, Tally, Tallied, RunCounted, Wrong
<1>2. failures \in Int /\ 0 <= failures /\ failures <= FailuresLocked + 1
  BY NumbersAssumption DEF TypeOK
<1>3. /\ told'.notified = IF failures' = FailuresNotified THEN told.notified + 1 ELSE told.notified
      /\ told'.locked = IF failures' = FailuresLocked THEN told.locked + 1 ELSE told.locked
  BY DEF Wrong, Tell
<1>4. /\ told.notified = IF failures >= FailuresNotified THEN 1 ELSE 0
      /\ told.locked = IF failures >= FailuresLocked THEN 1 ELSE 0
  BY DEF Counted, RunCounted
<1> QED
  BY <1>1, <1>2, <1>3, <1>4, NumbersAssumption DEF RunCounted, More

LEMMA NewRunCounted == NewRun => RunCounted'
BY NumbersAssumption DEF NewRun, RunCounted

LEMMA CountedNext == TypeOK /\ Counted /\ [Next]_vars => Counted'
<1> SUFFICES ASSUME TypeOK, Counted, [Next]_vars PROVE Counted'
  OBVIOUS
<1>a. Tally /\ RunCounted
  BY DEF Counted
<1>b. "apps" \in Row /\ "keys" \in Row /\ "audit" \in Row /\ "failures" \in Row
  BY DEF Row
<1>1. ASSUME NEW p \in Request, Arrive(p) \/ Offers(p) PROVE Counted'
  <2>1. /\ \A q \in Request \ {p} : answer'[q] = answer[q]
        /\ answer[p].at # "commit" /\ answer'[p].at # "commit"
    <3>1. CASE Arrive(p)
      BY <3>1 DEF Arrive, TypeOK
    <3>2. CASE Offers(p)
      BY <3>2, Moved DEF Offers
    <3> QED
      BY <1>1, <3>1, <3>2
  <2>2. UNCHANGED <<failures, lockedBy, missed, told>>
    BY <1>1 DEF Arrive, Offers
  <2>3. RunCounted'
    BY <1>a, <2>2 DEF RunCounted
  <2>4. Tallied(p)'
    BY <1>a, <2>1, <2>2 DEF Tally, Tallied
  <2> QED
    BY <1>a, <2>1, <2>2, <2>3, <2>4, TallyKept DEF Counted
<1>2. ASSUME NEW p \in Request, NEW proof \in Proof \cup {None},
             CheckApp(p, proof) \/ CheckKey(p, proof) \/ CheckRecovery(p, proof)
      PROVE  Counted'
  <2>1. /\ \A q \in Request \ {p} : answer'[q] = answer[q]
        /\ answer[p].at # "commit" /\ answer'[p].at # "commit"
    BY <1>2, CheckedMoved DEF CheckApp, CheckKey, CheckRecovery
  <2>2. UNCHANGED <<failures, missed, told>>
    BY <1>2 DEF CheckApp, CheckKey, CheckRecovery
  <2>3. lockedBy'["failures"] = lockedBy["failures"]
    <3>1. CASE CheckApp(p, proof) \/ CheckKey(p, proof)
      BY <3>1, <1>b, OtherRow DEF CheckApp, CheckKey
    <3>2. CASE CheckRecovery(p, proof)
      <4>1. proof # None => proof[1] \in Row /\ proof[1] # "failures"
        BY <3>2, KindsAssumption DEF CheckRecovery, Row, TypeOK
      <4> QED
        BY <3>2, <4>1, OtherRow DEF CheckRecovery
    <3> QED
      BY <1>2, <3>1, <3>2
  <2>4. RunCounted'
    BY <1>a, <2>2 DEF RunCounted
  <2>5. Tallied(p)'
    BY <1>a, <2>1, <2>3 DEF Tally, Tallied
  <2> QED
    BY <1>a, <2>1, <2>2, <2>3, <2>4, <2>5, TallyKept DEF Counted
<1>3. ASSUME NEW p \in Request, Audit(p) PROVE Counted'
  <2>1. /\ \A q \in Request \ {p} : answer'[q] = answer[q]
        /\ answer[p].at # "commit" /\ answer'[p].at # "commit"
    BY <1>3, Moved DEF Audit
  <2>2. UNCHANGED <<failures, missed, told>> /\ lockedBy'["failures"] = lockedBy["failures"]
    BY <1>3, <1>b, OtherRow DEF Audit
  <2>3. RunCounted'
    BY <1>a, <2>2 DEF RunCounted
  <2>4. Tallied(p)'
    BY <1>a, <2>1, <2>2 DEF Tally, Tallied
  <2> QED
    BY <1>a, <2>1, <2>2, <2>3, <2>4, TallyKept DEF Counted
<1>4. ASSUME NEW p \in Request, Count(p) PROVE Counted'
  <2>1. UNCHANGED <<failures, missed, told>>
    BY <1>4 DEF Count
  <2>2. RunCounted'
    BY <1>a, <2>1 DEF RunCounted
  <2>3. Tallied(p)'
    <3>1. answer'[p].count = More(failures)
      BY <1>4, CountMoved
    <3>2. answer'[p].at = "commit"
      BY <1>4, CountMoved
    <3>3. lockedBy'["failures"] = p
      BY <1>4, RowTaken DEF Count
    <3> QED
      BY <2>1, <3>1, <3>2, <3>3 DEF Tallied, More
  <2> QED
    BY <1>4, <1>a, <2>1, <2>2, <2>3, CountMoved, RowTaken, TallyKept DEF Counted, Count
<1>5. ASSUME NEW p \in Request, Clear(p) PROVE Counted'
  <2>1. UNCHANGED <<failures, missed, told>>
    BY <1>5 DEF Clear
  <2>2. RunCounted'
    BY <1>a, <2>1 DEF RunCounted
  <2>3. /\ answer'[p].at = "commit" /\ answer'[p].proof # None
        /\ \A q \in Request \ {p} : answer'[q] = answer[q]
    BY <1>5, Moved DEF Clear
  <2>4. \A q \in Request \ {p} : lockedBy'["failures"] = q <=> lockedBy["failures"] = q
    BY <1>5, RowTaken DEF Clear
  <2>5. Tallied(p)'
    BY <2>3 DEF Tallied
  <2> QED
    BY <1>a, <2>1, <2>2, <2>3, <2>4, <2>5, TallyKept DEF Counted
<1>6. ASSUME NEW p \in Request, Wrong(p) \/ Right(p) \/ Abort(p) PROVE Counted'
  <2>1. /\ answer'[p].at = "idle"
        /\ \A q \in Request \ {p} : answer'[q] = answer[q]
    BY <1>6, Unanswered DEF Wrong, Right, Abort, NoAnswer
  <2>2. /\ lockedBy'["failures"] # p
        /\ \A q \in Request \ {p} : lockedBy'["failures"] = q <=> lockedBy["failures"] = q
    BY <1>6, RowReleased DEF Wrong, Right, Abort
  <2>3. failures' = failures \/ lockedBy["failures"] = p
    BY <1>6, <1>a DEF Wrong, Right, Abort, Tally, Tallied
  <2>4. RunCounted'
    <3>1. CASE Wrong(p)
      BY <3>1, WrongCounts
    <3>2. CASE NewRun
      BY <3>2, NewRunCounted
    <3>3. CASE UNCHANGED <<failures, missed, told>>
      BY <3>3, <1>a DEF RunCounted
    <3> QED
      BY <1>6, <3>1, <3>2, <3>3 DEF Right, Abort
  <2>5. Tallied(p)'
    BY <2>1, <2>2 DEF Tallied
  <2> QED
    BY <1>a, <2>1, <2>2, <2>3, <2>4, <2>5, TallyKept DEF Counted
<1>7. CASE PasswordChanged
  <2>1. Tally'
    BY <1>7, <1>a, RequestAssumption DEF PasswordChanged, Tally, Tallied
  <2> QED
    BY <1>7, <2>1, NewRunCounted DEF PasswordChanged, Counted
<1>8. CASE Tick \/ UNCHANGED vars
  <2>1. UNCHANGED <<failures, missed, told, answer, lockedBy>>
    BY <1>8 DEF Tick, vars
  <2> QED
    BY <1>a, <2>1 DEF Counted, Tally, Tallied, RunCounted, More
<1> QED
  BY <1>1, <1>2, <1>3, <1>4, <1>5, <1>6, <1>7, <1>8 DEF Next, Check

(* Answers that fail in parallel are each counted, and the owner is told    *)
(* exactly once at each of the two counts: countFailure's upsert returns    *)
(* the count under the row's lock, and failed compares it for equality.     *)
THEOREM EachFailureCounts == Spec => []RunCounted
<1>1. Init => TypeOK /\ Counted
  BY TypeInit, CountedInit
<1>2. TypeOK /\ Counted /\ [Next]_vars => (TypeOK /\ Counted)'
  BY TypeNext, CountedNext
<1>3. TypeOK /\ Counted => RunCounted
  BY DEF Counted
<1> QED
  BY <1>1, <1>2, <1>3, PTL DEF Spec

-----------------------------------------------------------------------------
(* Codes checked while codes are locked. Each was being checked already     *)
(* when the lock fell: the ones still to come and the ones that came are    *)
(* together fewer than the challenges, as the one the lock fell by is       *)
(* neither.                                                                *)

Checking == {p \in Request : answer[p].at = "check" /\ answer[p].method = "app"}

Few == IF CodesLocked THEN late + Cardinality(Checking) < Cardinality(Request) ELSE late = 0

LEMMA CheckingFinite ==
  /\ IsFiniteSet(Checking) /\ Cardinality(Checking) \in Nat
  /\ Cardinality(Request) \in Nat /\ Cardinality(Request) > 0
<1>1. IsFiniteSet(Checking)
  BY RequestAssumption, FS_Subset DEF Checking
<1> QED
  BY <1>1, RequestAssumption, FS_CardinalityType, FS_EmptySet

LEMMA FewInit == Init => Few
BY NumbersAssumption DEF Init, Few, CodesLocked

(* Nobody new is being checked. *)
LEMMA FewKept ==
  ASSUME TypeOK, Few, UNCHANGED <<failures, late>>,
         CodesLocked => Checking' \subseteq Checking
  PROVE  Few'
<1>1. CASE CodesLocked
  <2>1. Cardinality(Checking') <= Cardinality(Checking) /\ Cardinality(Checking') \in Nat
    BY <1>1, CheckingFinite, FS_Subset, FS_CardinalityType
  <2> QED
    BY <1>1, <2>1, CheckingFinite DEF Few, CodesLocked, TypeOK
<1>2. CASE ~CodesLocked
  BY <1>2 DEF Few, CodesLocked
<1> QED
  BY <1>1, <1>2

LEMMA CheckingLess ==
  ASSUME NEW p \in Request, answer'[p].at # "check",
         \A q \in Request \ {p} : answer'[q] = answer[q]
  PROVE  Checking' \subseteq Checking \ {p}
BY DEF Checking

LEMMA FewCheckApp ==
  ASSUME TypeOK, Few, NEW p \in Request, NEW proof \in Proof \cup {None}, CheckApp(p, proof)
  PROVE  Few'
<1>1. Checking' \subseteq Checking \ {p} /\ p \in Checking
  <2>1. answer'[p].at # "check" /\ \A q \in Request \ {p} : answer'[q] = answer[q]
    BY CheckedMoved DEF CheckApp
  <2> QED
    BY <2>1, CheckingLess DEF Checking, CheckApp
<1>2. Cardinality(Checking \ {p}) = Cardinality(Checking) - 1 /\ IsFiniteSet(Checking \ {p})
  BY <1>1, CheckingFinite, FS_RemoveElement
<1>3. Cardinality(Checking') <= Cardinality(Checking) - 1 /\ Cardinality(Checking') \in Nat
  BY <1>1, <1>2, FS_Subset, FS_CardinalityType
<1>4. failures' = failures /\ late' = IF CodesLocked THEN late + 1 ELSE late
  BY DEF CheckApp
<1> QED
  BY <1>3, <1>4, CheckingFinite DEF Few, CodesLocked, TypeOK

LEMMA FewWrong ==
  ASSUME TypeOK, Counted, Few, NEW p \in Request, Wrong(p) PROVE Few'
<1>1. failures' = More(failures) /\ late' = late
  BY DEF Counted, Tally, Tallied, Wrong
<1>2. answer'[p].at # "check" /\ \A q \in Request \ {p} : answer'[q] = answer[q]
  BY Unanswered DEF Wrong, NoAnswer
<1>3. Checking' \subseteq Checking \ {p}
  BY <1>2, CheckingLess
<1>4. CASE CodesLocked
  <2>1. CodesLocked'
    BY <1>1, <1>4, NumbersAssumption DEF CodesLocked, More, TypeOK
  <2>2. Cardinality(Checking') <= Cardinality(Checking) /\ Cardinality(Checking') \in Nat
    BY <1>3, CheckingFinite, FS_Subset, FS_CardinalityType
  <2> QED
    BY <1>1, <1>4, <2>1, <2>2, CheckingFinite DEF Few, TypeOK
<1>5. CASE ~CodesLocked
  <2>1. Checking' \subseteq Request \ {p}
    BY <1>3 DEF Checking
  <2>2. Cardinality(Request \ {p}) = Cardinality(Request) - 1 /\ IsFiniteSet(Request \ {p})
    BY RequestAssumption, FS_RemoveElement
  <2>3. Cardinality(Checking') <= Cardinality(Request) - 1 /\ Cardinality(Checking') \in Nat
    BY <2>1, <2>2, FS_Subset, FS_CardinalityType
  <2> QED
    BY <1>1, <1>5, <2>3, CheckingFinite DEF Few
<1> QED
  BY <1>4, <1>5

LEMMA FewNext == TypeOK /\ Counted /\ Few /\ [Next]_vars => Few'
<1> SUFFICES ASSUME TypeOK, Counted, Few, [Next]_vars PROVE Few'
  OBVIOUS
<1>1. ASSUME NEW p \in Request, Arrive(p) PROVE Few'
  <2>1. answer'[p].at # "check" /\ \A q \in Request \ {p} : answer'[q] = answer[q]
    BY <1>1 DEF Arrive, TypeOK
  <2>2. Checking' \subseteq Checking
    BY <2>1, CheckingLess
  <2> QED
    BY <1>1, <2>2, FewKept DEF Arrive
<1>2. ASSUME NEW p \in Request, Offers(p) PROVE Few'
  <2>1. ASSUME CodesLocked PROVE Checking' \subseteq Checking
    <3>1. /\ answer'[p].method = answer[p].method
          /\ answer[p].method = "app" => answer'[p].at = "audit"
          /\ \A q \in Request \ {p} : answer'[q] = answer[q]
      BY <1>2, <2>1, Moved DEF Offers
    <3> QED
      BY <3>1 DEF Checking
  <2> QED
    BY <1>2, <2>1, FewKept DEF Offers
<1>3. ASSUME NEW p \in Request, NEW proof \in Proof \cup {None},
             CheckKey(p, proof) \/ CheckRecovery(p, proof)
      PROVE  Few'
  <2>1. answer'[p].at # "check" /\ \A q \in Request \ {p} : answer'[q] = answer[q]
    BY <1>3, CheckedMoved DEF CheckKey, CheckRecovery
  <2>2. Checking' \subseteq Checking
    BY <2>1, CheckingLess
  <2> QED
    BY <1>3, <2>2, FewKept DEF CheckKey, CheckRecovery
<1>4. ASSUME NEW p \in Request, Audit(p) \/ Count(p) \/ Clear(p) \/ Abort(p) PROVE Few'
  <2>1. answer'[p].at # "check" /\ \A q \in Request \ {p} : answer'[q] = answer[q]
    <3>1. CASE Audit(p) \/ Clear(p)
      BY <3>1, Moved DEF Audit, Clear
    <3>2. CASE Count(p)
      BY <3>2, CountMoved
    <3>3. CASE Abort(p)
      BY <3>3, Unanswered DEF Abort, NoAnswer
    <3> QED
      BY <1>4, <3>1, <3>2, <3>3
  <2>2. Checking' \subseteq Checking
    BY <2>1, CheckingLess
  <2> QED
    BY <1>4, <2>2, FewKept DEF Audit, Count, Clear, Abort
<1>5. ASSUME NEW p \in Request, Right(p) PROVE Few'
  <2>1. answer'[p].at # "check" /\ \A q \in Request \ {p} : answer'[q] = answer[q]
    BY <1>5, Unanswered DEF Right, NoAnswer
  <2>2. Checking' \subseteq Checking
    BY <2>1, CheckingLess
  <2>3. CASE NewRun
    BY <2>3, NumbersAssumption DEF NewRun, Few, CodesLocked
  <2>4. CASE UNCHANGED <<failures, late>>
    BY <2>2, <2>4, FewKept
  <2> QED
    BY <1>5, <2>3, <2>4 DEF Right
<1>6. CASE PasswordChanged
  BY <1>6, NumbersAssumption DEF PasswordChanged, NewRun, Few, CodesLocked
<1>7. CASE Tick \/ UNCHANGED vars
  BY <1>7 DEF Tick, vars, Few, CodesLocked, Checking
<1> QED
  BY <1>1, <1>2, <1>3, <1>4, <1>5, <1>6, <1>7, FewCheckApp, FewWrong DEF Next, Check

(* The lock on codes, which offers reads without a lock and before checkApp  *)
(* compares a code, lets fewer codes through than challenges were open.     *)
THEOREM LockHolds == Spec => []FewWhileLocked
<1>1. Init => TypeOK /\ Counted /\ Few
  BY TypeInit, CountedInit, FewInit
<1>2. TypeOK /\ Counted /\ Few /\ [Next]_vars => (TypeOK /\ Counted /\ Few)'
  BY TypeNext, CountedNext, FewNext
<1>3. TypeOK /\ Counted /\ Few => FewWhileLocked
  BY CheckingFinite DEF Few, FewWhileLocked, TypeOK
<1> QED
  BY <1>1, <1>2, <1>3, PTL DEF Spec
=============================================================================
