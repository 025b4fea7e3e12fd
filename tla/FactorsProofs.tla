--------------------------- MODULE FactorsProofs ---------------------------
(***************************************************************************)
(* What Factors promises, for any number of requests and sessions.         *)
(*                                                                         *)
(* A transaction decides by what is committed and writes it later: the     *)
(* properties hold because what it decided by is still so at its commit    *)
(* (StillSo). The account's row keeps the factors and the codes so, and    *)
(* the enrolment's row the enrolment, which others may begin anew without  *)
(* the account's.                                                          *)
(***************************************************************************)
EXTENDS Factors, FiniteSetTheorems, TLAPS

Codes == {"keep", "add", "replace", "delete"}

Ask == [flow : Flow, session : Session \cup {None}, method : Method,
        target : Request \cup {None}, stepped : BOOLEAN, adds : BOOLEAN,
        removes : SUBSET Request, codes : Codes]

\* What a request asked for is complete, and permitted.
Asked(p) ==
  pc[p] # "idle" =>
    /\ request[p].flow \in {"begin", "confirm"} =>
         request[p].session \in Session /\ request[p].method \in Strong
    /\ request[p].flow = "confirmEmail" => request[p].method = "email" /\ Permits("email")
    /\ pc[p] = "put" => request[p].flow = "begin"

\* What a transaction has written for its commit.
Leaves(r, adds, removes, codes) == r.adds = adds /\ r.removes = removes /\ r.codes = codes

\* What each flow decided by, and wrote for it.
StillSo(p) ==
  \/ /\ request[p].flow = "confirm"
     /\ enrolment[request[p].session] # "none" /\ enrolmentLock[request[p].session] = p
     /\ Leaves(request[p], TRUE, {}, IF recovery = {} THEN "add" ELSE "keep")
  \/ request[p].flow = "beginEmail" /\ Leaves(request[p], FALSE, {}, "keep")
  \/ request[p].flow = "confirmEmail" /\ Leaves(request[p], TRUE, {}, "keep")
  \/ /\ request[p].flow = "remove"
     /\ request[p].target \in Factors
     /\ ~(Factors \ {request[p].target} = {} /\ Required)
     /\ Leaves(request[p], FALSE, {request[p].target},
               IF Factors \ {request[p].target} = {} THEN "delete" ELSE "keep")
  \/ request[p].flow = "regenerate" /\ Factors # {} /\ Leaves(request[p], FALSE, {}, "replace")

Decided(p) == pc[p] = "commit" => accountLock = p /\ StillSo(p)

OneSet == recovery = {} \/ \E p \in Request : recovery = {p}

Codings == CodesMeanFactor /\ StrongMeansCodes /\ OneSet

IInv == TypeOK /\ (\A p \in Request : Asked(p) /\ Decided(p)) /\ Codings

-----------------------------------------------------------------------------
LEMMA Types ==
  TypeOK <=> /\ kind \in {"buyer", "staff"}
             /\ factor \in [Request -> (IF kind = "staff" THEN Strong ELSE Method) \cup {"none"}]
             /\ recovery \in SUBSET Request
             /\ enrolment \in [Session -> Strong \cup {"none"}]
             /\ emailCode \in BOOLEAN
             /\ accountLock \in Request \cup {None}
             /\ enrolmentLock \in [Session -> Request \cup {None}]
             /\ pc \in [Request -> {"idle", "put", "peek", "lock", "commit"}]
             /\ request \in [Request -> Ask]
BY DEF TypeOK, Ask, Codes

LEMMA TypesAfter ==
  TypeOK' <=> /\ kind' \in {"buyer", "staff"}
              /\ factor' \in [Request -> (IF kind' = "staff" THEN Strong ELSE Method) \cup {"none"}]
              /\ recovery' \in SUBSET Request
              /\ enrolment' \in [Session -> Strong \cup {"none"}]
              /\ emailCode' \in BOOLEAN
              /\ accountLock' \in Request \cup {None}
              /\ enrolmentLock' \in [Session -> Request \cup {None}]
              /\ pc' \in [Request -> {"idle", "put", "peek", "lock", "commit"}]
              /\ request' \in [Request -> Ask]
BY DEF TypeOK, Ask, Codes

LEMMA NoRequestTyped == NoRequest \in Ask
BY DEF NoRequest, Ask, Flow, Method, Strong, Codes

LEMMA Initially == Init => IInv
<1> SUFFICES ASSUME Init PROVE IInv
  OBVIOUS
<1>1. TypeOK
  BY NoRequestTyped, Types DEF Init
<1>2. \A p \in Request : Asked(p) /\ Decided(p)
  BY DEF Init, Asked, Decided
<1>3. Codings
  BY DEF Init, Codings, CodesMeanFactor, StrongMeansCodes, OneSet, Strong
<1> QED
  BY <1>1, <1>2, <1>3 DEF IInv

\* A step that leaves the rows of the account alone, and what p holds.
LEMMA OthersKeep ==
  ASSUME IInv, NEW p \in Request, UNCHANGED <<kind, factor, recovery>>,
         pc'[p] = pc[p], request'[p] = request[p],
         accountLock = p => accountLock' = p,
         \A s \in Session : enrolmentLock[s] = p =>
            enrolmentLock'[s] = p /\ enrolment'[s] = enrolment[s]
  PROVE  Asked(p)' /\ Decided(p)'
<1>1. Asked(p)'
  BY DEF IInv, Asked, Permits
<1>2. Decided(p)'
  <2> SUFFICES ASSUME pc[p] = "commit" PROVE (accountLock = p /\ StillSo(p))'
    BY DEF Decided
  <2>1. accountLock' = p /\ StillSo(p)
    BY DEF IInv, Decided
  <2>2. request[p].flow = "confirm" => request[p].session \in Session
    BY DEF IInv, Asked
  <2>3. Factors' = Factors
    BY DEF Factors
  <2> QED
    BY <2>1, <2>2, <2>3 DEF StillSo, Leaves, Required
<1> QED
  BY <1>1, <1>2

LEMMA CodingsKeep ==
  ASSUME Codings, UNCHANGED <<factor, recovery>> PROVE Codings'
BY DEF Codings, CodesMeanFactor, StrongMeansCodes, OneSet, Factors

\* A request at rest asks for nothing and has decided nothing.
LEMMA RestKeeps ==
  ASSUME NEW p, pc'[p] = "idle" PROVE Asked(p)' /\ Decided(p)'
BY DEF Asked, Decided

-----------------------------------------------------------------------------
(* Arriving and ending. *)

LEMMA ArriveKeeps ==
  ASSUME IInv, NEW p \in Request, NEW step \in {"put", "peek", "lock"}, NEW asks \in Ask,
         Arrive(p, step, asks),
         asks.flow \in {"begin", "confirm"} => asks.session \in Session /\ asks.method \in Strong,
         asks.flow = "confirmEmail" => asks.method = "email" /\ Permits("email"),
         step = "put" => asks.flow = "begin"
  PROVE  IInv'
<1> DEFINE asked == [asks EXCEPT !.stepped = Factors # {}]
<1>1. asked \in Ask
  BY DEF Ask
<1>2. request' = [request EXCEPT ![p] = asked] /\ pc' = [pc EXCEPT ![p] = step]
      /\ UNCHANGED <<rows, accountLock, enrolmentLock>>
  BY DEF Arrive
<1>3. asked.flow = asks.flow /\ asked.session = asks.session /\ asked.method = asks.method
  BY DEF Ask
<1> HIDE DEF asked
<1>4. TypeOK'
  BY <1>1, <1>2, Types, TypesAfter DEF IInv, rows
<1>5. Asked(p)' /\ Decided(p)'
  <2>1. request'[p] = asked /\ pc'[p] = step
    BY <1>2, Types DEF IInv
  <2> QED
    BY <1>2, <1>3, <2>1 DEF Asked, Decided, Permits, rows
<1>6. ASSUME NEW q \in Request, q # p PROVE Asked(q)' /\ Decided(q)'
  BY <1>2, <1>6, OthersKeep DEF rows
<1>7. Codings'
  BY <1>2, CodingsKeep DEF IInv, rows
<1> QED
  BY <1>4, <1>5, <1>6, <1>7 DEF IInv

LEMMA AskTyped ==
  ASSUME NEW flow \in Flow
  PROVE  /\ Asks(flow) \in Ask /\ Asks(flow).flow = flow
         /\ \A s \in Session, m \in Strong :
              /\ Enrolling(flow, s, m) \in Ask /\ Enrolling(flow, s, m).flow = flow
              /\ Enrolling(flow, s, m).session = s /\ Enrolling(flow, s, m).method = m
<1>1. Asks(flow) = [NoRequest EXCEPT !.flow = flow]
  BY DEF Asks
<1>2. Asks(flow) \in Ask /\ Asks(flow).flow = flow
  BY <1>1, NoRequestTyped DEF Ask
<1>3. ASSUME NEW s \in Session, NEW m \in Strong
      PROVE  /\ Enrolling(flow, s, m) \in Ask /\ Enrolling(flow, s, m).flow = flow
             /\ Enrolling(flow, s, m).session = s /\ Enrolling(flow, s, m).method = m
  <2>1. Enrolling(flow, s, m) = [Asks(flow) EXCEPT !.session = s, !.method = m]
    BY DEF Enrolling
  <2>2. m \in Method
    BY DEF Method
  <2> QED
    BY <1>2, <2>1, <2>2 DEF Ask
<1> QED
  BY <1>2, <1>3

LEMMA ArriveAnyKeeps == ASSUME IInv, NEW p \in Request, ArriveAny(p) PROVE IInv'
<1>1. CASE \E s \in Session, m \in Strong : Arrive(p, "put", Enrolling("begin", s, m))
  BY <1>1, AskTyped, ArriveKeeps DEF Flow
<1>2. CASE \E s \in Session, m \in Strong : Arrive(p, "lock", Enrolling("confirm", s, m))
  BY <1>2, AskTyped, ArriveKeeps DEF Flow
<1>3. CASE Arrive(p, "peek", Asks("beginEmail"))
  BY <1>3, AskTyped, ArriveKeeps DEF Flow
<1>4. CASE Permits("email") /\ Arrive(p, "lock", [Asks("confirmEmail") EXCEPT !.method = "email"])
  <2>1. Asks("confirmEmail") \in Ask /\ Asks("confirmEmail").flow = "confirmEmail"
    BY AskTyped DEF Flow
  <2> DEFINE asks == [Asks("confirmEmail") EXCEPT !.method = "email"]
  <2>2. asks \in Ask /\ asks.flow = "confirmEmail" /\ asks.method = "email"
    BY <2>1 DEF Ask, Method
  <2> HIDE DEF asks
  <2> QED
    BY <1>4, <2>2, ArriveKeeps DEF asks
<1>5. CASE \E t \in Factors : Arrive(p, "lock", [Asks("remove") EXCEPT !.target = t])
  <2>1. PICK t \in Factors : Arrive(p, "lock", [Asks("remove") EXCEPT !.target = t])
    BY <1>5
  <2>2. Asks("remove") \in Ask /\ Asks("remove").flow = "remove" /\ t \in Request
    BY AskTyped DEF Flow, Factors
  <2> DEFINE asks == [Asks("remove") EXCEPT !.target = t]
  <2>3. asks \in Ask /\ asks.flow = "remove"
    BY <2>2 DEF Ask
  <2> HIDE DEF asks
  <2> QED
    BY <2>1, <2>3, ArriveKeeps DEF asks
<1>6. CASE Arrive(p, "lock", Asks("regenerate"))
  BY <1>6, AskTyped, ArriveKeeps DEF Flow
<1> QED
  BY <1>1, <1>2, <1>3, <1>4, <1>5, <1>6 DEF ArriveAny

LEMMA OverTyped ==
  ASSUME TypeOK, NEW p \in Request, Over(p)
  PROVE  /\ accountLock' \in Request \cup {None}
         /\ enrolmentLock' \in [Session -> Request \cup {None}]
         /\ pc' \in [Request -> {"idle", "put", "peek", "lock", "commit"}]
         /\ request' \in [Request -> Ask]
         /\ pc'[p] = "idle"
         /\ \A q \in Request \ {p} :
              /\ pc'[q] = pc[q] /\ request'[q] = request[q]
              /\ accountLock = q => accountLock' = q
              /\ \A s \in Session : enrolmentLock[s] = q => enrolmentLock'[s] = q
BY NoRequestTyped, Types DEF Over

LEMMA AbortKeeps == ASSUME IInv, NEW p \in Request, Abort(p) PROVE IInv'
<1>1. Over(p) /\ UNCHANGED rows /\ TypeOK
  BY DEF Abort, IInv
<1>2. TypeOK'
  BY <1>1, OverTyped, Types, TypesAfter DEF rows
<1>3. Asked(p)' /\ Decided(p)'
  BY <1>1, OverTyped, RestKeeps
<1>4. ASSUME NEW q \in Request, q # p PROVE Asked(q)' /\ Decided(q)'
  BY <1>1, <1>4, OverTyped, OthersKeep DEF rows
<1>5. Codings'
  BY <1>1, CodingsKeep DEF IInv, rows
<1> QED
  BY <1>2, <1>3, <1>4, <1>5 DEF IInv

-----------------------------------------------------------------------------
(* Enrolments. *)

LEMMA PutEnrolmentKeeps == ASSUME IInv, NEW p \in Request, PutEnrolment(p) PROVE IInv'
<1> DEFINE s == request[p].session
<1>1. /\ Over(p) /\ UNCHANGED <<kind, factor, recovery, emailCode>> /\ TypeOK
      /\ enrolment' = [enrolment EXCEPT ![s] = request[p].method] /\ enrolmentLock[s] = None
  BY DEF PutEnrolment, IInv
<1>2. s \in Session /\ request[p].method \in Strong
  BY DEF IInv, Asked, PutEnrolment
<1>3. TypeOK'
  BY <1>1, <1>2, OverTyped, Types, TypesAfter
<1>4. Asked(p)' /\ Decided(p)'
  BY <1>1, OverTyped, RestKeeps
<1>5. ASSUME NEW q \in Request, q # p PROVE Asked(q)' /\ Decided(q)'
  <2>1. \A x \in Session : enrolmentLock[x] = q => enrolment'[x] = enrolment[x]
    BY <1>1, <1>2, NoneAssumption, Types
  <2> QED
    BY <1>1, <1>5, <2>1, OverTyped, OthersKeep
<1>6. Codings'
  BY <1>1, CodingsKeep DEF IInv
<1> QED
  BY <1>3, <1>4, <1>5, <1>6 DEF IInv

LEMMA EnrolmentExpiresKeeps ==
  ASSUME IInv, NEW s \in Session, EnrolmentExpires(s) PROVE IInv'
<1>1. /\ UNCHANGED <<kind, factor, recovery, emailCode, accountLock, enrolmentLock, pc, request>>
      /\ enrolment' = [enrolment EXCEPT ![s] = "none"] /\ enrolmentLock[s] = None /\ TypeOK
  BY DEF EnrolmentExpires, IInv
<1>2. TypeOK'
  BY <1>1, Types, TypesAfter
<1>3. ASSUME NEW q \in Request PROVE Asked(q)' /\ Decided(q)'
  <2>1. \A x \in Session : enrolmentLock[x] = q => enrolment'[x] = enrolment[x]
    BY <1>1, NoneAssumption, Types
  <2> QED
    BY <1>1, <2>1, OthersKeep
<1>4. Codings'
  BY <1>1, CodingsKeep DEF IInv
<1> QED
  BY <1>2, <1>3, <1>4 DEF IInv

LEMMA EmailCodeDiesKeeps == ASSUME IInv, EmailCodeDies PROVE IInv'
<1>1. /\ UNCHANGED <<kind, factor, recovery, enrolment, accountLock, enrolmentLock, pc, request>>
      /\ emailCode' = FALSE /\ TypeOK
  BY DEF EmailCodeDies, IInv
<1>2. TypeOK'
  BY <1>1, Types, TypesAfter
<1>3. ASSUME NEW q \in Request PROVE Asked(q)' /\ Decided(q)'
  BY <1>1, OthersKeep
<1>4. Codings'
  BY <1>1, CodingsKeep DEF IInv
<1> QED
  BY <1>2, <1>3, <1>4 DEF IInv

LEMMA PeekEmailKeeps == ASSUME IInv, NEW p \in Request, PeekEmail(p) PROVE IInv'
<1>1. /\ UNCHANGED <<rows, accountLock, enrolmentLock, request>>
      /\ pc' = [pc EXCEPT ![p] = "lock"] /\ pc[p] = "peek" /\ TypeOK
  BY DEF PeekEmail, IInv
<1>2. TypeOK'
  BY <1>1, Types, TypesAfter DEF rows
<1>3. Asked(p)' /\ Decided(p)'
  BY <1>1, Types DEF IInv, Asked, Decided, Permits, rows
<1>4. ASSUME NEW q \in Request, q # p PROVE Asked(q)' /\ Decided(q)'
  BY <1>1, <1>4, OthersKeep DEF rows
<1>5. Codings'
  BY <1>1, CodingsKeep DEF IInv, rows
<1> QED
  BY <1>2, <1>3, <1>4, <1>5 DEF IInv

-----------------------------------------------------------------------------
(* What is decided under the account's lock. *)

LEMMA WroteIs ==
  ASSUME TypeOK, NEW p \in Request, NEW adds \in BOOLEAN, NEW removes \in SUBSET Request,
         NEW codes \in Codes, Wrote(p, adds, removes, codes)
  PROVE  /\ request' \in [Request -> Ask]
         /\ pc' \in [Request -> {"idle", "put", "peek", "lock", "commit"}] /\ pc'[p] = "commit"
         /\ request'[p].flow = request[p].flow /\ request'[p].session = request[p].session
         /\ request'[p].method = request[p].method /\ request'[p].target = request[p].target
         /\ Leaves(request'[p], adds, removes, codes)
         /\ \A q \in Request \ {p} : pc'[q] = pc[q] /\ request'[q] = request[q]
<1> DEFINE wrote == [request[p] EXCEPT !.adds = adds, !.removes = removes, !.codes = codes]
<1>1. request' = [request EXCEPT ![p] = wrote] /\ pc' = [pc EXCEPT ![p] = "commit"]
  BY DEF Wrote
<1>2. request[p] \in Ask /\ p \in DOMAIN request
  BY Types
<1>3. wrote \in Ask
  <2>1. [request[p] EXCEPT !.adds = adds] \in Ask
    BY <1>2 DEF Ask
  <2>2. [request[p] EXCEPT !.adds = adds, !.removes = removes] \in Ask
    BY <1>2, <2>1 DEF Ask
  <2> QED
    BY <1>2, <2>2 DEF Ask
<1>4. /\ wrote.flow = request[p].flow /\ wrote.session = request[p].session
      /\ wrote.method = request[p].method /\ wrote.target = request[p].target
      /\ wrote.adds = adds /\ wrote.removes = removes /\ wrote.codes = codes
  BY <1>2 DEF Ask
<1> HIDE DEF wrote
<1> QED
  BY <1>1, <1>3, <1>4, Types DEF Leaves

LEMMA DecisionKeeps ==
  ASSUME IInv, NEW p \in Request, NEW adds \in BOOLEAN, NEW removes \in SUBSET Request,
         NEW codes \in Codes, LockAccount(p), Wrote(p, adds, removes, codes), UNCHANGED rows,
         enrolmentLock' \in [Session -> Request \cup {None}],
         \A s \in Session : enrolmentLock[s] \in Request => enrolmentLock'[s] = enrolmentLock[s],
         StillSo(p)', request[p].flow # "begin"
  PROVE  IInv'
<1>1. TypeOK /\ accountLock = None /\ accountLock' = p /\ pc[p] = "lock"
  BY DEF IInv, LockAccount
<1>2. TypeOK'
  BY <1>1, WroteIs, Types, TypesAfter DEF rows
<1>3. Asked(p)' /\ Decided(p)'
  BY <1>1, WroteIs DEF IInv, Asked, Decided, Permits, rows
<1>4. ASSUME NEW q \in Request, q # p PROVE Asked(q)' /\ Decided(q)'
  BY <1>1, <1>4, WroteIs, OthersKeep, NoneAssumption DEF rows
<1>5. Codings'
  BY CodingsKeep DEF IInv, rows
<1> QED
  BY <1>2, <1>3, <1>4, <1>5 DEF IInv

LEMMA ConfirmKeeps == ASSUME IInv, NEW p \in Request, Confirm(p) PROVE IInv'
<1> DEFINE s == request[p].session
<1>1. /\ request[p].flow = "confirm" /\ LockAccount(p) /\ UNCHANGED rows /\ TypeOK
      /\ enrolment[s] = request[p].method /\ enrolmentLock[s] = None
      /\ enrolmentLock' = [enrolmentLock EXCEPT ![s] = p]
      /\ Wrote(p, TRUE, {}, FirstRecoverySet)
  BY DEF Confirm, Decide, IInv
<1>2. s \in Session /\ request[p].method \in Strong
  BY <1>1 DEF IInv, Asked, LockAccount
<1>3. FirstRecoverySet \in Codes
      /\ FirstRecoverySet = IF recovery = {} THEN "add" ELSE "keep"
  BY DEF FirstRecoverySet, Codes
<1>4. /\ enrolmentLock' \in [Session -> Request \cup {None}] /\ enrolmentLock'[s] = p
      /\ \A x \in Session : enrolmentLock[x] \in Request => enrolmentLock'[x] = enrolmentLock[x]
  BY <1>1, <1>2, NoneAssumption, Types
<1>5. /\ request'[p].flow = "confirm" /\ request'[p].session = s
      /\ Leaves(request'[p], TRUE, {}, FirstRecoverySet)
  BY <1>1, <1>3, WroteIs
<1>6. StillSo(p)'
  BY <1>1, <1>2, <1>3, <1>4, <1>5 DEF StillSo, Strong, rows
<1> QED
  BY <1>1, <1>3, <1>4, <1>6, DecisionKeeps

LEMMA OtherDecisionsKeep ==
  ASSUME IInv, NEW p \in Request,
         SendEnrolCode(p) \/ ConfirmEmail(p) \/ RemoveFactor(p) \/ Regenerate(p)
  PROVE  IInv'
<1>1. /\ TypeOK /\ LockAccount(p) /\ UNCHANGED <<rows, enrolmentLock>>
      /\ enrolmentLock' \in [Session -> Request \cup {None}]
      /\ \A s \in Session : enrolmentLock'[s] = enrolmentLock[s]
  BY Types DEF SendEnrolCode, ConfirmEmail, RemoveFactor, Regenerate, Decide, IInv
<1>2. Factors' = Factors /\ Required' = Required
  BY <1>1 DEF Factors, Required, rows
<1>3. CASE SendEnrolCode(p)
  <2>1. request[p].flow = "beginEmail" /\ Wrote(p, FALSE, {}, "keep") /\ "keep" \in Codes
    BY <1>3 DEF SendEnrolCode, Decide, Codes
  <2>2. /\ request'[p].flow = "beginEmail" /\ Leaves(request'[p], FALSE, {}, "keep")
    BY <1>1, <2>1, WroteIs
  <2>3. StillSo(p)'
    BY <2>2 DEF StillSo
  <2> QED
    BY <1>1, <2>1, <2>3, DecisionKeeps
<1>4. CASE ConfirmEmail(p)
  <2>1. request[p].flow = "confirmEmail" /\ Wrote(p, TRUE, {}, "keep") /\ "keep" \in Codes
    BY <1>4 DEF ConfirmEmail, Decide, Codes
  <2>2. /\ request'[p].flow = "confirmEmail" /\ Leaves(request'[p], TRUE, {}, "keep")
    BY <1>1, <2>1, WroteIs
  <2>3. StillSo(p)'
    BY <2>2 DEF StillSo
  <2> QED
    BY <1>1, <2>1, <2>3, DecisionKeeps
<1>5. CASE RemoveFactor(p)
  <2> DEFINE t == request[p].target
             codes == IF Factors \ {t} = {} THEN "delete" ELSE "keep"
  <2>1. /\ request[p].flow = "remove" /\ Wrote(p, FALSE, {t}, codes)
        /\ t \in Factors /\ ~(Factors \ {t} = {} /\ Required)
    BY <1>5 DEF RemoveFactor, Decide
  <2>2. codes \in Codes /\ {t} \in SUBSET Request
    BY <2>1 DEF Codes, Factors
  <2>3. /\ request'[p].flow = "remove" /\ request'[p].target = t
        /\ Leaves(request'[p], FALSE, {t}, codes)
    BY <1>1, <2>1, <2>2, WroteIs
  <2>4. StillSo(p)'
    BY <1>2, <2>1, <2>3 DEF StillSo
  <2> HIDE DEF codes
  <2> QED
    BY <1>1, <2>1, <2>2, <2>4, DecisionKeeps
<1>6. CASE Regenerate(p)
  <2>1. /\ request[p].flow = "regenerate" /\ Wrote(p, FALSE, {}, "replace") /\ "replace" \in Codes
        /\ Factors # {}
    BY <1>6 DEF Regenerate, Decide, Codes
  <2>2. /\ request'[p].flow = "regenerate" /\ Leaves(request'[p], FALSE, {}, "replace")
    BY <1>1, <2>1, WroteIs
  <2>3. StillSo(p)'
    BY <1>2, <2>1, <2>2 DEF StillSo
  <2> QED
    BY <1>1, <2>1, <2>3, DecisionKeeps
<1> QED
  BY <1>3, <1>4, <1>5, <1>6

-----------------------------------------------------------------------------
(* The commit. *)

\* The factors after p's commit, and the codes.
LEMMA CommitIs ==
  ASSUME IInv, NEW p \in Request, Commit(p)
  PROVE  /\ StillSo(p) /\ accountLock = p
         /\ \A t \in Request :
              factor'[t] = IF t \in request[p].removes THEN "none"
                           ELSE IF t = p /\ request[p].adds THEN request[p].method
                           ELSE factor[t]
         /\ recovery' = CASE request[p].codes = "add"     -> recovery \cup {p}
                          [] request[p].codes = "replace" -> {p}
                          [] request[p].codes = "delete"  -> {}
                          [] request[p].codes = "keep"    -> recovery
         /\ request[p].adds =>
              /\ request[p].method \in Method /\ (kind = "staff" => request[p].method # "email")
              /\ request[p].flow = "confirmEmail" => request[p].method = "email"
<1>1. StillSo(p) /\ accountLock = p
  BY DEF Commit, IInv, Decided
<1>2. request[p].adds =>
              /\ request[p].method \in Method /\ (kind = "staff" => request[p].method # "email")
              /\ request[p].flow = "confirmEmail" => request[p].method = "email"
  BY <1>1, Types DEF Commit, IInv, Asked, StillSo, Leaves, Permits, Method, Strong
<1> QED
  BY <1>1, <1>2 DEF Commit, Factor_After, Recovery_After

LEMMA CommitTyped == ASSUME IInv, NEW p \in Request, Commit(p) PROVE TypeOK'
<1>1. TypeOK /\ Over(p) /\ kind' = kind
  BY DEF IInv, Commit
<1>2. factor' \in [Request -> (IF kind = "staff" THEN Strong ELSE Method) \cup {"none"}]
  <2>1. factor' = [t \in Request |-> factor'[t]]
    BY DEF Commit, Factor_After
  <2>2. ASSUME NEW t \in Request
        PROVE  factor'[t] \in (IF kind = "staff" THEN Strong ELSE Method) \cup {"none"}
    BY <1>1, CommitIs, Types DEF Method
  <2> QED
    BY <2>1, <2>2
<1>3. recovery' \in SUBSET Request
  <2>1. request[p].codes \in Codes /\ recovery \in SUBSET Request
    BY <1>1, Types DEF Ask
  <2> QED
    BY <2>1, CommitIs DEF Codes
<1>4. enrolment' \in [Session -> Strong \cup {"none"}]
  BY <1>1, Types DEF Commit
<1>5. emailCode' \in BOOLEAN
  BY <1>1, Types DEF Commit
<1> QED
  BY <1>1, <1>2, <1>3, <1>4, <1>5, OverTyped, Types, TypesAfter

LEMMA CommitCodings == ASSUME IInv, NEW p \in Request, Commit(p) PROVE Codings'
<1>1. Codings /\ StillSo(p) /\ TypeOK
  BY CommitIs DEF IInv
<1>2. ASSUME request[p].adds, request[p].removes = {}
      PROVE  Factors' = Factors \cup {p}
  BY <1>2, CommitIs DEF Factors, Method, Strong
<1>3. ASSUME ~request[p].adds
      PROVE  Factors' = Factors \ request[p].removes
             /\ \A t \in Request : factor'[t] \in Strong => factor[t] \in Strong
  BY <1>3, CommitIs DEF Factors, Strong
<1>4. CASE request[p].flow = "confirm"
  <2>1. /\ request[p].adds /\ request[p].removes = {}
        /\ recovery' # {} /\ (recovery = {} => recovery' = {p})
        /\ (recovery # {} => recovery' = recovery)
    BY <1>1, <1>4, CommitIs DEF StillSo, Leaves
  <2> QED
    BY <1>1, <1>2, <2>1 DEF Codings, CodesMeanFactor, StrongMeansCodes, OneSet
<1>5. CASE request[p].flow = "confirmEmail"
  <2>1. request[p].adds /\ request[p].removes = {} /\ recovery' = recovery
    BY <1>1, <1>5, CommitIs DEF StillSo, Leaves
  <2>2. \A t \in Request : factor'[t] \in Strong => factor[t] \in Strong
    BY <1>5, <2>1, CommitIs DEF Strong
  <2> QED
    BY <1>1, <1>2, <2>1, <2>2 DEF Codings, CodesMeanFactor, StrongMeansCodes, OneSet
<1>6. CASE request[p].flow = "beginEmail"
  <2>1. ~request[p].adds /\ request[p].removes = {} /\ recovery' = recovery
    BY <1>1, <1>6, CommitIs DEF StillSo, Leaves
  <2> QED
    BY <1>1, <1>3, <2>1 DEF Codings, CodesMeanFactor, StrongMeansCodes, OneSet
<1>7. CASE request[p].flow = "remove"
  <2>1. /\ ~request[p].adds /\ request[p].removes = {request[p].target}
        /\ Factors \ {request[p].target} = {} => recovery' = {}
        /\ Factors \ {request[p].target} # {} => recovery' = recovery
    BY <1>1, <1>7, CommitIs DEF StillSo, Leaves
  <2>2. CASE Factors \ {request[p].target} = {}
    <3>1. Factors' = {} /\ recovery' = {}
      BY <1>3, <2>1, <2>2
    <3>2. \A t \in Request : factor'[t] \notin Strong
      BY <3>1 DEF Factors, Strong
    <3> QED
      BY <3>1, <3>2 DEF Codings, CodesMeanFactor, StrongMeansCodes, OneSet
  <2>3. CASE Factors \ {request[p].target} # {}
    BY <1>1, <1>3, <2>1, <2>3 DEF Codings, CodesMeanFactor, StrongMeansCodes, OneSet
  <2> QED
    BY <2>2, <2>3
<1>8. CASE request[p].flow = "regenerate"
  <2>1. ~request[p].adds /\ request[p].removes = {} /\ recovery' = {p} /\ Factors # {}
    BY <1>1, <1>8, CommitIs DEF StillSo, Leaves
  <2> QED
    BY <1>3, <2>1 DEF Codings, CodesMeanFactor, StrongMeansCodes, OneSet
<1> QED
  BY <1>1, <1>4, <1>5, <1>6, <1>7, <1>8 DEF StillSo

LEMMA CommitKeeps == ASSUME IInv, NEW p \in Request, Commit(p) PROVE IInv'
<1>1. TypeOK /\ Over(p) /\ kind' = kind /\ accountLock = p
  BY CommitIs DEF Commit, IInv
<1>2. Asked(p)' /\ Decided(p)'
  BY <1>1, OverTyped, RestKeeps
<1>3. ASSUME NEW q \in Request, q # p PROVE Asked(q)' /\ Decided(q)'
  <2>1. pc'[q] = pc[q] /\ request'[q] = request[q]
    BY <1>1, <1>3, OverTyped
  <2>2. pc[q] # "commit"
    BY <1>1, <1>3 DEF IInv, Decided
  <2> QED
    BY <1>1, <2>1, <2>2 DEF IInv, Asked, Decided, Permits
<1> QED
  BY <1>2, <1>3, CommitTyped, CommitCodings DEF IInv

-----------------------------------------------------------------------------
LEMMA NextKeeps == IInv /\ [Next]_vars => IInv'
<1> SUFFICES ASSUME IInv, [Next]_vars PROVE IInv'
  OBVIOUS
<1>1. CASE EmailCodeDies
  BY <1>1, EmailCodeDiesKeeps
<1>2. ASSUME NEW s \in Session, EnrolmentExpires(s) PROVE IInv'
  BY <1>2, EnrolmentExpiresKeeps
<1>3. ASSUME NEW p \in Request,
             \/ ArriveAny(p) \/ PutEnrolment(p) \/ PeekEmail(p) \/ Abort(p)
             \/ Confirm(p) \/ SendEnrolCode(p) \/ ConfirmEmail(p) \/ RemoveFactor(p)
             \/ Regenerate(p) \/ Commit(p)
      PROVE  IInv'
  BY <1>3, ArriveAnyKeeps, PutEnrolmentKeeps, PeekEmailKeeps, AbortKeeps, ConfirmKeeps,
     OtherDecisionsKeep, CommitKeeps
<1>4. CASE UNCHANGED vars
  BY <1>4, Types, TypesAfter, OthersKeep, CodingsKeep DEF IInv, vars, rows
<1> QED
  BY <1>1, <1>2, <1>3, <1>4 DEF Next

LEMMA Always == Spec => []IInv
BY Initially, NextKeeps, PTL DEF Spec

\* The rows and every request stay within their types, and staff never have
\* e-mail as a factor, whatever was permitted when its code was asked for.
THEOREM TypeCorrect == Spec => []TypeOK
<1>1. IInv => TypeOK
  BY DEF IInv
<1> QED
  BY <1>1, Always, PTL

\* Recovery codes exist only with a second factor: the last one takes them,
\* whatever makes them again at that moment (RemoveFactor,
\* RegenerateRecoveryCodes).
THEOREM CodesGoWithFactors == Spec => []CodesMeanFactor
<1>1. IInv => CodesMeanFactor
  BY DEF IInv, Codings
<1> QED
  BY <1>1, Always, PTL

\* Whoever has an app or a key has recovery codes (firstRecoverySet).
THEOREM NobodyWithoutCodes == Spec => []StrongMeansCodes
<1>1. IInv => StrongMeansCodes
  BY DEF IInv, Codings
<1> QED
  BY <1>1, Always, PTL

\* The codes a person was shown are all there are: no two confirmations at
\* once issue a set each (enrolmentOf's lock, firstRecoverySet).
THEOREM OneSetAtATime == Spec => []OneRecoverySet
<1>1. IInv => OneRecoverySet
  <2> SUFFICES ASSUME OneSet PROVE OneRecoverySet
    BY DEF IInv, Codings
  <2>1. Cardinality({}) = 0 /\ \A p \in Request : Cardinality({p}) = 1
    BY FS_EmptySet, FS_Singleton
  <2> QED
    BY <2>1 DEF OneSet, OneRecoverySet
<1> QED
  BY <1>1, Always, PTL

\* Only a commit changes a factor, and only its own row to something.
LEMMA OnlyCommitAdds ==
  ASSUME IInv, [Next]_vars, NEW p \in Request, factor[p] = "none", factor'[p] # "none"
  PROVE  Commit(p)
<1>1. factor' # factor
  OBVIOUS
<1>2. PICK q \in Request : Commit(q)
  BY <1>1 DEF Next, vars, rows, EmailCodeDies, EnrolmentExpires, ArriveAny, Arrive, PutEnrolment,
     PeekEmail, Abort, Confirm, SendEnrolCode, ConfirmEmail, RemoveFactor, Regenerate
<1> QED
  BY <1>2, CommitIs

\* An enrolment's answer, posted twice, adds one factor: what a commit adds
\* has an enrolment behind it that is not yet dropped (dropEnrolment).
THEOREM AddsOnce == Spec => EnrolmentAddsOnce
<1>1. ASSUME IInv, [Next]_vars, NEW p \in Request,
             request[p].flow = "confirm", factor[p] = "none", factor'[p] # "none"
      PROVE  enrolment[request[p].session] # "none"
  BY <1>1, OnlyCommitAdds, CommitIs DEF StillSo
<1>2. IInv /\ [Next]_vars =>
        [\A p \in Request :
           request[p].flow = "confirm" /\ factor[p] = "none" /\ factor'[p] # "none"
             => enrolment[request[p].session] # "none"]_vars
  BY <1>1
<1> QED
  BY <1>2, Always, PTL DEF Spec, EnrolmentAddsOnce

\* Staff are never left without a second factor: two removals at once, each
\* of another factor, do not take the last (deleteFactor, countFactors).
THEOREM StaffAlwaysKeepOne == Spec => StaffKeepOne
<1>1. ASSUME IInv, [Next]_vars, Required, Factors # {} PROVE Factors' # {}
  <2>1. CASE factor' = factor
    BY <1>1, <2>1 DEF Factors
  <2>2. CASE factor' # factor
    <3>1. PICK p \in Request : Commit(p)
      BY <1>1, <2>2 DEF Next, vars, rows, EmailCodeDies, EnrolmentExpires, ArriveAny, Arrive,
         PutEnrolment, PeekEmail, Abort, Confirm, SendEnrolCode, ConfirmEmail, RemoveFactor, Regenerate
    <3>2. PICK t \in Factors : t \notin request[p].removes
      BY <1>1, <3>1, CommitIs DEF StillSo, Leaves
    <3>3. t \in Factors'
      BY <1>1, <3>1, <3>2, CommitIs DEF Factors, Method, Strong
    <3> QED
      BY <3>3
  <2> QED
    BY <2>1, <2>2
<1>2. IInv /\ [Next]_vars => [Required /\ Factors # {} => Factors' # {}]_vars
  BY <1>1
<1> QED
  BY <1>2, Always, PTL DEF Spec, StaffKeepOne
=============================================================================
