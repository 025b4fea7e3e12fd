--------------------------- MODULE JourneyProofs ---------------------------
(***************************************************************************)
(* What Journey promises of any scenes, tabs and tokens: the console shows *)
(* its pages only to staff with a second factor, a browser loses a live    *)
(* session's cookie only where answers cross or ending it failed, and, one *)
(* request at a time, it is never asked again for the second factor it has *)
(* just proved.                                                            *)
(***************************************************************************)
EXTENDS Journey, TLAPS

-----------------------------------------------------------------------------
(* The shapes. *)
TabFields == {"at", "page", "req", "session", "challenge", "secret", "valid", "token"}

JarFields == {"session", "challenge", "secret"}

Session == [stepped : BOOLEAN, enrolling : {"none"} \union Methods, endFailed : BOOLEAN]

Shaped ==
  /\ scene \in Scenes
  /\ account \in Accounts
  /\ DOMAIN tab = Tabs /\ tab = [t \in Tabs |-> tab[t]]
  /\ \A t \in Tabs : DOMAIN tab[t] = TabFields /\ tab[t] = [f \in TabFields |-> tab[t][f]]
  /\ DOMAIN jar = JarFields /\ jar = [f \in JarFields |-> jar[f]]
  /\ \A s \in DOMAIN sessions : sessions[s] \in Session

LEMMA ReplyIs ==
  ASSUME Shaped, NEW t \in Tabs, NEW cookies, NEW renewed, NEW next, Reply(t, cookies, renewed, next)
  PROVE  /\ DOMAIN tab' = Tabs /\ tab'[t] = next /\ \A u \in Tabs \ {t} : tab'[u] = tab[u]
         /\ tab' = [u \in Tabs |-> tab'[u]]
         /\ jar' = cookies /\ scene' = scene
BY DEF Shaped, Reply

LEMMA StoreIs ==
  ASSUME NEW ss, NEW cs, Store(ss, cs)
  PROVE  /\ DOMAIN sessions' \subseteq DOMAIN ss /\ \A s \in DOMAIN sessions' : sessions'[s] = ss[s]
         /\ DOMAIN challenges' \subseteq DOMAIN cs /\ \A c \in DOMAIN challenges' : challenges'[c] = cs[c]
BY DEF Store, Restrict

LEMMA IdleIs ==
  ASSUME NEW page
  PROVE  /\ DOMAIN Idle(page) = TabFields /\ Idle(page) = [f \in TabFields |-> Idle(page)[f]]
         /\ Idle(page).at = "idle" /\ Idle(page).page = page
BY DEF Idle, TabFields

LEMMA SentIs ==
  ASSUME NEW r, NEW cookies, NEW valid
  PROVE  /\ DOMAIN Sent(r, cookies, valid) = TabFields
         /\ Sent(r, cookies, valid) = [f \in TabFields |-> Sent(r, cookies, valid)[f]]
         /\ Sent(r, cookies, valid).at = "loading" /\ Sent(r, cookies, valid).page.view = ""
         /\ Sent(r, cookies, valid).session = cookies.session
BY DEF Sent, TabFields, Blank

LEMMA CookiesAre ==
  ASSUME Shaped, NEW t \in Tabs
  PROVE  /\ DOMAIN Cookies(t) = JarFields /\ Cookies(t) = [f \in JarFields |-> Cookies(t)[f]]
         /\ Cookies(t).session = IF tab[t].session # 0 /\ Me(t) = 0 THEN 0 ELSE jar.session
BY DEF Shaped, Cookies, JarFields

LEMMA PageIs ==
  ASSUME NEW t, NEW view, NEW path
  PROVE  /\ PageAt(t, view, path).view = view
         /\ \A x : [PageAt(t, view, path) EXCEPT !.has = x].view = view
         /\ \A x : [PageAt(t, view, path) EXCEPT !.asks = x].view = view
         /\ \A x : [PageAt(t, view, path) EXCEPT !.spent = x].view = view
         /\ DOMAIN PageAt(t, view, path) = DOMAIN Blank
BY DEF PageAt, Blank

LEMMA ChallengePageIs ==
  ASSUME NEW t, NEW a, NEW path, NEW args, NEW action, NEW next, NEW chosen
  PROVE  ChallengePageAt(t, a, path, args, action, next, chosen).view = "ChallengePage"
BY PageIs DEF ChallengePageAt, PageAt, Blank

-----------------------------------------------------------------------------
(* The inductive invariant, and the one of a browser that has one request  *)
(* in flight at a time: it carries the session of the browser's cookie,    *)
(* which is stepped up once a second factor was proved.                    *)
Inner == {"ConsoleHome", "SecurityPage", "Password"}

BrowserInv == Shaped /\ ConsoleNeedsFactor

OneAtATime == \A t, u \in Tabs : tab[t].at # "idle" /\ tab[u].at # "idle" => t = u

ProvedStepped ==
  proved # None /\ jar.session # 0 /\ jar.session \in DOMAIN sessions => sessions[jar.session].stepped

SoloInv ==
  /\ OneAtATime
  /\ \A t \in Tabs : tab[t].at # "idle" => tab[t].session = jar.session
  /\ ProvedStepped

\* What NoneLeftBehind says of a step.
LeavesNone ==
  \A s \in DOMAIN sessions' : s = jar.session /\ s # jar'.session
    => sessions'[s].endFailed \/ \E t \in Tabs : tab'[t] # tab[t] /\ tab[t].session # s

\* What every step keeps.
Kept == BrowserInv' /\ LeavesNone /\ (SoloInv /\ OneAtATime' => SoloInv')

\* What an answer to t must leave of the account and of the page it shows.
FactorsStay == host = "console" /\ HasFactor => account'.factors # {}
MayShow(page) == host = "console" /\ page.view \in Inner => HasFactor

\* An answer to t that leaves the browser its session, or ends it.
LEMMA AnswerKeeps ==
  ASSUME BrowserInv, NEW t \in Tabs, tab[t].at # "idle",
         scene' = scene, account' \in Accounts,
         DOMAIN tab' = Tabs, tab' = [u \in Tabs |-> tab'[u]],
         DOMAIN tab'[t] = TabFields, tab'[t] = [f \in TabFields |-> tab'[t][f]],
         \A u \in Tabs \ {t} : tab'[u] = tab[u],
         DOMAIN jar' = JarFields, jar' = [f \in JarFields |-> jar'[f]],
         \A s \in DOMAIN sessions' : sessions'[s] \in Session,
         FactorsStay, MayShow(tab'[t].page), LeavesNone,
         SoloInv => (tab'[t].at # "idle" => tab'[t].session = jar'.session),
         SoloInv => ProvedStepped'
  PROVE  Kept
<1>1. Shaped'
  BY DEF BrowserInv, Shaped, JarFields, Session
<1>2. ConsoleNeedsFactor'
  BY DEF BrowserInv, ConsoleNeedsFactor, FactorsStay, MayShow, Inner, HasFactor, host
<1>3. ASSUME SoloInv, OneAtATime' PROVE SoloInv'
  <2>1. ASSUME NEW u \in Tabs, tab'[u].at # "idle" PROVE tab'[u].session = jar'.session
    BY <1>3, <2>1 DEF SoloInv, OneAtATime
  <2> QED
    BY <1>3, <2>1 DEF SoloInv
<1> QED
  BY <1>1, <1>2, <1>3 DEF BrowserInv, Kept

\* The browser's cookie stays, and so do the sessions.
LEMMA CookieStays == ASSUME jar' = jar PROVE LeavesNone
BY DEF LeavesNone

LEMMA SoloSession ==
  ASSUME NEW t \in Tabs, tab[t].at # "idle", SoloInv PROVE tab[t].session = jar.session
BY DEF SoloInv

\* The sessions and whether they are stepped up stay, or some end.
LEMMA OrdinaryKeeps ==
  ASSUME BrowserInv, NEW t \in Tabs, tab[t].at # "idle",
         NEW cookies, NEW renewed, NEW next, NEW ss, NEW cs,
         Reply(t, cookies, renewed, next), Store(ss, cs), StillProved(t),
         cookies.session \in {jar.session, Cookies(t).session},
         DOMAIN cookies = JarFields, cookies = [f \in JarFields |-> cookies[f]],
         DOMAIN next = TabFields, next = [f \in TabFields |-> next[f]],
         next.at # "idle" => next.session = cookies.session,
         account' \in Accounts, FactorsStay, MayShow(next.page),
         DOMAIN ss \subseteq DOMAIN sessions,
         \A s \in DOMAIN ss : ss[s] \in Session /\ ss[s].stepped = sessions[s].stepped
  PROVE  Kept
<1>1. /\ DOMAIN tab' = Tabs /\ tab'[t] = next /\ \A u \in Tabs \ {t} : tab'[u] = tab[u]
      /\ tab' = [u \in Tabs |-> tab'[u]]
      /\ jar' = cookies /\ scene' = scene
  BY ReplyIs DEF BrowserInv
<1>2. DOMAIN sessions' \subseteq DOMAIN ss /\ \A s \in DOMAIN sessions' : sessions'[s] = ss[s]
  BY StoreIs
<1>3. \/ jar'.session = jar.session
      \/ jar'.session = 0 /\ tab[t].session # 0 /\ tab[t].session \notin DOMAIN sessions
  BY <1>1, CookiesAre DEF BrowserInv, Me
<1>4. LeavesNone
  <2> SUFFICES ASSUME NEW s \in DOMAIN sessions', s = jar.session, s # jar'.session
               PROVE  tab'[t] # tab[t] /\ tab[t].session # s
    BY DEF LeavesNone
  <2>1. jar'.session = 0 /\ tab[t].session # 0 /\ tab[t].session # s
    BY <1>2, <1>3
  <2>2. next.at = "idle" \/ next.session = 0
    BY <1>1, <2>1
  <2> QED
    BY <1>1, <2>1, <2>2
<1>5. ASSUME SoloInv PROVE ProvedStepped'
  BY <1>2, <1>3, <1>5 DEF StillProved, SoloInv, ProvedStepped
<1>6. \A s \in DOMAIN sessions' : sessions'[s] \in Session
  BY <1>2
<1>7. /\ DOMAIN tab'[t] = TabFields /\ tab'[t] = [f \in TabFields |-> tab'[t][f]]
      /\ DOMAIN jar' = JarFields /\ jar' = [f \in JarFields |-> jar'[f]]
      /\ MayShow(tab'[t].page) /\ (tab'[t].at # "idle" => tab'[t].session = jar'.session)
  BY <1>1
<1> QED
  BY <1>1, <1>4, <1>5, <1>6, <1>7, AnswerKeeps

-----------------------------------------------------------------------------
(* One answer at a time. *)
LEMMA ShowKeeps ==
  ASSUME BrowserInv, NEW t \in Tabs, tab[t].at # "idle",
         NEW page, NEW ss, NEW cs, Show(t, page), Store(ss, cs), StillProved(t),
         account' \in Accounts, FactorsStay, MayShow(page),
         DOMAIN ss \subseteq DOMAIN sessions,
         \A s \in DOMAIN ss : ss[s] \in Session /\ ss[s].stepped = sessions[s].stepped
  PROVE  Kept
<1>1. Reply(t, Cookies(t), FALSE, Idle(page))
  BY DEF Show
<1>2. DOMAIN Cookies(t) = JarFields /\ Cookies(t) = [f \in JarFields |-> Cookies(t)[f]]
  BY CookiesAre DEF BrowserInv
<1>3. /\ DOMAIN Idle(page) = TabFields /\ Idle(page) = [f \in TabFields |-> Idle(page)[f]]
      /\ Idle(page).at = "idle" /\ MayShow(Idle(page).page)
  BY IdleIs
<1> QED
  BY <1>1, <1>2, <1>3, OrdinaryKeeps

LEMMA GoKeeps ==
  ASSUME BrowserInv, NEW t \in Tabs, tab[t].at # "idle",
         NEW cookies, NEW renewed, NEW r, NEW ss, NEW cs,
         GoWith(t, cookies, renewed, r), Store(ss, cs), StillProved(t),
         cookies.session \in {jar.session, Cookies(t).session},
         DOMAIN cookies = JarFields, cookies = [f \in JarFields |-> cookies[f]],
         account' \in Accounts, FactorsStay,
         DOMAIN ss \subseteq DOMAIN sessions,
         \A s \in DOMAIN ss : ss[s] \in Session /\ ss[s].stepped = sessions[s].stepped
  PROVE  Kept
<1> DEFINE next == Sent(r, cookies, TRUE)
<1>1. Reply(t, cookies, renewed, next)
  BY DEF GoWith
<1>2. /\ DOMAIN next = TabFields /\ next = [f \in TabFields |-> next[f]]
      /\ next.page.view = "" /\ next.session = cookies.session
  BY DEF Sent, TabFields, Blank
<1> HIDE DEF next
<1>3. MayShow(next.page)
  BY <1>2 DEF MayShow, Inner
<1> QED
  BY <1>1, <1>2, <1>3, OrdinaryKeeps

LEMMA SessionsTyped == BrowserInv => \A s \in DOMAIN sessions : sessions[s] \in Session
BY DEF BrowserInv, Shaped

LEMMA AccountTyped == BrowserInv => account \in Accounts /\ DOMAIN account = {"status", "factors", "codes", "locked", "links"}
BY DEF BrowserInv, Shaped, Accounts

LEMMA AccountWith ==
  ASSUME BrowserInv
  PROVE  /\ \A status \in {"none", "unverified", "verified"}, links \in 0..MaxLinks :
              LET new == [account EXCEPT !.status = status, !.links = links]
              IN new \in Accounts /\ new.factors = account.factors
         /\ \A locked \in BOOLEAN, codes \in {"none", "used", "left"} :
              LET new == [account EXCEPT !.locked = locked, !.codes = codes]
              IN new \in Accounts /\ new.factors = account.factors
         /\ \A factors \in SUBSET Methods, codes \in {"none", "used", "left"} :
              LET new == [account EXCEPT !.factors = factors, !.codes = codes]
              IN new \in Accounts /\ new.factors = factors
BY AccountTyped DEF Accounts

LEMMA LinksTyped == BrowserInv => account.links \in 0..MaxLinks /\ MaxLinks \in Nat \ {0}
BY JourneyAssumption DEF BrowserInv, Shaped, Accounts

\* The answer follows to another page: nothing else is changed.
LEMMA GoesKeep ==
  ASSUME BrowserInv, NEW t \in Tabs, tab[t].at # "idle", NEW r, Goes(t, r)
  PROVE  Kept
<1>1. GoWith(t, Cookies(t), FALSE, r) /\ Store(sessions, challenges) /\ StillProved(t) /\ UNCHANGED account
  BY DEF Goes, Go, GoWith, Keep
<1> QED
  BY <1>1, GoKeeps, CookiesAre, SessionsTyped, AccountTyped DEF FactorsStay, HasFactor, BrowserInv

\* The answer is a page: nothing else is changed.
LEMMA ShowsKeep ==
  ASSUME BrowserInv, NEW t \in Tabs, tab[t].at # "idle", NEW page, Shows(t, page), MayShow(page)
  PROVE  Kept
<1>1. Show(t, page) /\ Store(sessions, challenges) /\ StillProved(t) /\ UNCHANGED account
  BY DEF Shows, Keep
<1> QED
  BY <1>1, ShowKeeps, SessionsTyped, AccountTyped DEF FactorsStay, HasFactor

\* What stands in front of a page of the console.
LEMMA Furnishes ==
  ASSUME NEW t, NEW verb, NEW path, At(t, verb, path)
  PROVE  /\ tab[t].at # "idle" /\ (Me(t) = tab[t].session \/ Me(t) = 0)
         /\ SignedInOnly(path) => Me(t) # 0 /\ Me(t) \in DOMAIN sessions /\ Me(t) = tab[t].session
         /\ host = "console" /\ path \in {"/", "/account/security", "/account/security/remove", "/account/password"}
              => HasFactor
BY DEF At, Loading, Open, Furnished, Known, Secured, SignedInOnly, ChangesFactors, Enrolment, Req, Me

\* The pages of anybody: no second factor is looked for.
LEMMA OuterPages ==
  ASSUME NEW page, page.view \notin Inner PROVE MayShow(page)
BY DEF MayShow

LEMMA BadPages == \A view \in {"refused", "forbidden", "missing", "failed", "Preparing"} : MayShow(Bad(view))
BY DEF MayShow, Inner, Bad, Blank

LEMMA SitePages ==
  ASSUME NEW t, NEW view, NEW path, view \notin Inner
  PROVE  /\ MayShow(Page(t, view)) /\ MayShow(PageAt(t, view, path))
         /\ \A x : MayShow([Page(t, view) EXCEPT !.spent = x])
         /\ \A x : MayShow([Page(t, view) EXCEPT !.asks = x])
         /\ \A x : MayShow([PageAt(t, view, path) EXCEPT !.asks = x])
BY PageIs DEF MayShow, Page

LEMMA InFront ==
  ASSUME BrowserInv, NEW t \in Tabs,
         Forbidden(t) \/ InPreparation(t) \/ NotFound(t) \/ ToSignIn(t) \/ ToEnrol(t) \/ ToStepUp(t) \/ Refused(t)
  PROVE  Kept
<1>1. tab[t].at # "idle"
  BY DEF Forbidden, InPreparation, NotFound, ToSignIn, ToEnrol, ToStepUp, Refused, Loading
<1>2. CASE Forbidden(t) \/ InPreparation(t)
  <2> DEFINE cookies == [jar EXCEPT !.secret = TRUE]
  <2>1. PICK view \in {"forbidden", "Preparing"} : Reply(t, cookies, FALSE, Idle(Bad(view)))
    BY <1>2 DEF Forbidden, InPreparation
  <2>2. Store(sessions, challenges) /\ StillProved(t) /\ UNCHANGED account
    BY <1>2 DEF Forbidden, InPreparation, Keep
  <2>3. cookies.session = jar.session /\ DOMAIN cookies = JarFields /\ cookies = [f \in JarFields |-> cookies[f]]
    BY DEF BrowserInv, Shaped, JarFields
  <2> HIDE DEF cookies
  <2>4. /\ DOMAIN Idle(Bad(view)) = TabFields /\ Idle(Bad(view)) = [f \in TabFields |-> Idle(Bad(view))[f]]
        /\ Idle(Bad(view)).at = "idle" /\ MayShow(Idle(Bad(view)).page)
    BY IdleIs, BadPages
  <2> QED
    BY <1>1, <2>1, <2>2, <2>3, <2>4, OrdinaryKeeps, SessionsTyped, AccountTyped DEF FactorsStay, HasFactor
<1>3. CASE NotFound(t) \/ Refused(t)
  BY <1>1, <1>3, ShowsKeep, BadPages DEF NotFound, Refused
<1>4. CASE ToSignIn(t) \/ ToEnrol(t) \/ ToStepUp(t)
  BY <1>1, <1>4, GoesKeep DEF ToSignIn, ToEnrol, ToStepUp
<1> QED
  BY <1>2, <1>3, <1>4

LEMMA EarlyKeeps == ASSUME BrowserInv, NEW t \in Tabs, RefusedEarly(t) PROVE Kept
<1> DEFINE next == Idle(Bad("refused"))
<1>1. tab[t].at # "idle" /\ tab' = [tab EXCEPT ![t] = next]
      /\ UNCHANGED <<scene, account, jar, stale>> /\ Store(sessions, challenges) /\ StillProved(t)
  BY DEF RefusedEarly, Loading, Keep
<1>2. DOMAIN next = TabFields /\ next = [f \in TabFields |-> next[f]] /\ next.at = "idle" /\ MayShow(next.page)
  BY IdleIs, BadPages
<1> HIDE DEF next
<1>3. /\ DOMAIN tab' = Tabs /\ tab' = [u \in Tabs |-> tab'[u]]
      /\ tab'[t] = next /\ \A u \in Tabs \ {t} : tab'[u] = tab[u]
  BY <1>1 DEF BrowserInv, Shaped
<1>4. DOMAIN sessions' \subseteq DOMAIN sessions /\ \A s \in DOMAIN sessions' : sessions'[s] = sessions[s]
  BY <1>1, StoreIs
<1>5. LeavesNone /\ (SoloInv => ProvedStepped')
  BY <1>1, <1>4, CookieStays DEF SoloInv, ProvedStepped, StillProved
<1>6. DOMAIN jar' = JarFields /\ jar' = [f \in JarFields |-> jar'[f]]
  BY <1>1 DEF BrowserInv, Shaped
<1>7. account' \in Accounts /\ FactorsStay
  BY <1>1, AccountTyped DEF FactorsStay, HasFactor
<1> QED
  BY <1>1, <1>2, <1>3, <1>4, <1>5, <1>6, <1>7, SessionsTyped, AnswerKeeps

\* Signing up and confirming the address.
LEMMA SignUpKeeps ==
  ASSUME BrowserInv, NEW t \in Tabs,
         \/ HomePage(t) \/ SwitchLanguage(t) \/ SignUpForm(t) \/ SignUpPost(t)
         \/ VerifyForm(t) \/ VerifyPost(t) \/ ResendForm(t) \/ ResendPost(t)
  PROVE  Kept
<1>1. tab[t].at # "idle"
  BY DEF HomePage, SwitchLanguage, SignUpForm, SignUpPost, VerifyForm, VerifyPost, ResendForm, ResendPost, At, Loading
<1>2. CASE HomePage(t)
  <2>1. At(t, "GET", "/") /\ Shows(t, Page(t, HomeView))
    BY <1>2 DEF HomePage
  <2>2. MayShow(Page(t, HomeView))
    BY <2>1, Furnishes DEF MayShow
  <2> QED
    BY <1>1, <2>1, <2>2, ShowsKeep
<1>3. CASE SwitchLanguage(t)
  BY <1>1, <1>3, GoesKeep DEF SwitchLanguage
<1>4. CASE SignUpForm(t) \/ VerifyForm(t) \/ ResendForm(t)
  <2>1. PICK view \in {"SignUp", "Verify", "Resend"} : Shows(t, Page(t, view))
    BY <1>4 DEF SignUpForm, VerifyForm, ResendForm
  <2> QED
    BY <1>1, <2>1, ShowsKeep, SitePages DEF Inner
<1>5. CASE SignUpPost(t)
  <2>1. CASE Shows(t, Page(t, "SignUp"))
    BY <1>1, <2>1, ShowsKeep, SitePages DEF Inner
  <2>2. CASE ~Shows(t, Page(t, "SignUp"))
    <3>1. /\ account' = IF account.status = "none"
                        THEN [account EXCEPT !.status = "unverified", !.links = 1] ELSE account
          /\ Show(t, Page(t, "CheckEmail")) /\ Store(sessions, challenges) /\ StillProved(t)
      BY <1>5, <2>2 DEF SignUpPost, Keep
    <3>2. account' \in Accounts /\ account'.factors = account.factors
      <4>1. 1 \in 0..MaxLinks
        BY LinksTyped
      <4>2. CASE account.status = "none"
        BY <3>1, <4>1, <4>2, AccountWith
      <4>3. CASE account.status # "none"
        BY <3>1, <4>3, AccountTyped
      <4> QED
        BY <4>2, <4>3
    <3> QED
      BY <1>1, <3>1, <3>2, ShowKeeps, SitePages, SessionsTyped DEF FactorsStay, HasFactor, Inner
  <2> QED
    BY <2>1, <2>2
<1>6. CASE VerifyPost(t)
  <2>1. CASE Args(t).item = "link" /\ account.links > 0
    <3>1. /\ account' = [account EXCEPT !.status = "verified", !.links = @ - 1]
          /\ GoWith(t, Cookies(t), FALSE, Get("/signin")) /\ Store(sessions, challenges) /\ StillProved(t)
      BY <1>6, <2>1 DEF VerifyPost, Keep, Go, GoWith
    <3>2. account' \in Accounts /\ account'.factors = account.factors
      <4>1. account.links - 1 \in 0..MaxLinks
        BY <2>1, LinksTyped
      <4> QED
        BY <3>1, <4>1, AccountWith
    <3> QED
      BY <1>1, <3>1, <3>2, GoKeeps, CookiesAre, SessionsTyped DEF FactorsStay, HasFactor, BrowserInv
  <2>2. CASE ~(Args(t).item = "link" /\ account.links > 0)
    BY <1>1, <1>6, <2>2, ShowsKeep, SitePages DEF VerifyPost, Inner
  <2> QED
    BY <2>1, <2>2
<1>7. CASE ResendPost(t)
  <2>1. /\ account' = IF account.status = "unverified" /\ account.links < MaxLinks
                      THEN [account EXCEPT !.links = @ + 1] ELSE account
        /\ Show(t, [Page(t, "Resend") EXCEPT !.spent = TRUE]) /\ Store(sessions, challenges) /\ StillProved(t)
    BY <1>7 DEF ResendPost, Keep
  <2>2. account' \in Accounts /\ account'.factors = account.factors
    BY <2>1, AccountTyped, JourneyAssumption DEF Accounts
  <2>3. MayShow([Page(t, "Resend") EXCEPT !.spent = TRUE])
    BY SitePages DEF Inner
  <2> QED
    BY <1>1, <2>1, <2>2, <2>3, ShowKeeps, SessionsTyped DEF FactorsStay, HasFactor
<1> QED
  BY <1>2, <1>3, <1>4, <1>5, <1>6, <1>7

\* What the end of a request's session leaves: not the session, or its mark.
LEMMA EndedIs ==
  ASSUME BrowserInv, NEW t, NEW ss \in Ended(t)
  PROVE  /\ DOMAIN ss \subseteq DOMAIN sessions
         /\ \A s \in DOMAIN ss : ss[s] \in Session /\ (s = tab[t].session => ss[s].endFailed)
<1>1. CASE ss = Without(sessions, {tab[t].session})
  BY <1>1, SessionsTyped DEF Without, Restrict
<1>2. CASE ss = [s \in DOMAIN sessions |-> [sessions[s] EXCEPT !.endFailed = @ \/ s = tab[t].session]]
  <2>1. ASSUME NEW s \in DOMAIN ss PROVE ss[s] \in Session /\ (s = tab[t].session => ss[s].endFailed)
    <3>1. sessions[s] \in Session /\ ss[s] = [sessions[s] EXCEPT !.endFailed = @ \/ s = tab[t].session]
      BY <1>2, <2>1, SessionsTyped
    <3> QED
      BY <3>1 DEF Session
  <2> QED
    BY <1>2, <2>1
<1> QED
  BY <1>1, <1>2 DEF Ended

\* An answer that ended the session its request came with, and sends another.
LEMMA EndedLeavesNone ==
  ASSUME BrowserInv, NEW t \in Tabs, Req(t).verb = "POST", tab'[t].req.verb = "GET",
         NEW ss \in Ended(t),
         \A s \in DOMAIN sessions' : s # jar'.session => s \in DOMAIN ss /\ sessions'[s] = ss[s]
  PROVE  LeavesNone
<1> SUFFICES ASSUME NEW s \in DOMAIN sessions', s = jar.session, s # jar'.session
             PROVE  sessions'[s].endFailed \/ (tab'[t] # tab[t] /\ tab[t].session # s)
  BY DEF LeavesNone
<1>1. s \in DOMAIN ss /\ sessions'[s] = ss[s]
  OBVIOUS
<1>2. tab'[t] # tab[t]
  BY DEF Req
<1> QED
  BY <1>1, <1>2, EndedIs

LEMMA NewRowTyped ==
  ASSUME NEW stepped \in BOOLEAN
  PROVE  NewRow(stepped) \in Session /\ NewRow(stepped).stepped = stepped
BY DEF NewRow, Session

\* Signing in with nothing more than a password, or the first run: whatever
\* session the request carried ends, and the new one is the browser's.
LEMMA OpensKeep ==
  ASSUME BrowserInv, NEW t \in Tabs, tab[t].at # "idle", Req(t).verb = "POST",
         NEW cookies, NEW stepped \in BOOLEAN, NEW r, NEW cs,
         OpenSession(t, cookies, stepped, r, cs), r.verb = "GET",
         DOMAIN cookies = JarFields, cookies = [f \in JarFields |-> cookies[f]],
         account' \in Accounts, FactorsStay,
         proved' # None => stepped
  PROVE  Kept
<1> DEFINE s == NewSession
           held == [cookies EXCEPT !.session = s]
           next == Sent(r, held, TRUE)
<1>0. /\ Reply(t, held, TRUE, next)
      /\ \E left \in Ended(t) : Store(With(left, s, NewRow(stepped)), cs)
  BY DEF OpenSession, GoWith
<1> PICK left \in Ended(t) : Store(With(left, s, NewRow(stepped)), cs)
  BY <1>0
<1> DEFINE ss == With(left, s, NewRow(stepped))
<1>1. Reply(t, held, TRUE, next) /\ Store(ss, cs)
  BY <1>0
<1>2. DOMAIN held = JarFields /\ held = [f \in JarFields |-> held[f]] /\ held.session = s
  BY DEF JarFields
<1>3. /\ DOMAIN ss = DOMAIN left \union {s}
      /\ \A x \in DOMAIN ss : ss[x] = IF x = s THEN NewRow(stepped) ELSE left[x]
  BY DEF With
<1> HIDE DEF s, held, ss
<1>4. /\ DOMAIN next = TabFields /\ next = [f \in TabFields |-> next[f]]
      /\ next.page.view = "" /\ next.session = held.session /\ next.req.verb = "GET"
  BY DEF Sent, TabFields, Blank
<1> HIDE DEF next
<1>5. /\ DOMAIN tab' = Tabs /\ tab'[t] = next /\ \A u \in Tabs \ {t} : tab'[u] = tab[u]
      /\ tab' = [u \in Tabs |-> tab'[u]]
      /\ jar' = held /\ scene' = scene
  BY <1>1, ReplyIs DEF BrowserInv
<1>6. DOMAIN sessions' \subseteq DOMAIN ss /\ \A x \in DOMAIN sessions' : sessions'[x] = ss[x]
  BY <1>1, StoreIs
<1>7. \A x \in DOMAIN sessions' : sessions'[x] \in Session
  <2>1. NewRow(stepped) \in Session /\ \A x \in DOMAIN left : left[x] \in Session
    BY NewRowTyped, EndedIs
  <2> QED
    BY <1>3, <1>6, <2>1
<1>8. LeavesNone
  <2>1. \A x \in DOMAIN sessions' : x # s => x \in DOMAIN left /\ sessions'[x] = left[x]
    BY <1>3, <1>6
  <2> QED
    BY <1>2, <1>4, <1>5, <2>1, EndedLeavesNone
<1>9. MayShow(tab'[t].page)
  BY <1>4, <1>5 DEF MayShow, Inner
<1>10. ProvedStepped'
  <2>1. s \in DOMAIN sessions' => sessions'[s].stepped = stepped
    BY <1>3, <1>6, NewRowTyped
  <2> QED
    BY <1>2, <1>5, <2>1 DEF ProvedStepped
<1>11. /\ DOMAIN tab'[t] = TabFields /\ tab'[t] = [f \in TabFields |-> tab'[t][f]]
       /\ DOMAIN jar' = JarFields /\ jar' = [f \in JarFields |-> jar'[f]]
       /\ tab'[t].session = jar'.session /\ jar'.session = s
  BY <1>2, <1>4, <1>5
<1> QED
  BY <1>5, <1>7, <1>8, <1>9, <1>10, <1>11, AnswerKeeps

LEMMA ChallengeCookie ==
  ASSUME BrowserInv, NEW t \in Tabs, NEW c
  PROVE  LET cookies == [Cookies(t) EXCEPT !.challenge = c]
         IN /\ DOMAIN cookies = JarFields /\ cookies = [f \in JarFields |-> cookies[f]]
            /\ cookies.session = Cookies(t).session
BY CookiesAre DEF BrowserInv, JarFields

LEMMA ToSignInAgainKeeps ==
  ASSUME BrowserInv, NEW t \in Tabs, tab[t].at # "idle", NEW cs, ToSignInAgain(t, cs), StillProved(t),
         account' \in Accounts, FactorsStay
  PROVE  Kept
<1>1. GoWith(t, [Cookies(t) EXCEPT !.challenge = 0], FALSE, Get("/signin")) /\ Store(sessions, cs)
  BY DEF ToSignInAgain
<1> QED
  BY <1>1, ChallengeCookie, GoKeeps, SessionsTyped

\* Right and wrong answers change neither the factors nor what is known of them.
LEMMA AnswersOnAccount ==
  ASSUME BrowserInv, NEW m, RightAnswer(m) \/ WrongAnswer(m)
  PROVE  account' \in Accounts /\ FactorsStay
<1>1. account.locked \in BOOLEAN /\ account.codes \in {"none", "used", "left"}
  BY AccountTyped DEF Accounts
<1>2. CASE RightAnswer(m)
  <2>1. PICK codes \in {"none", "used", "left"} : account' = [account EXCEPT !.locked = FALSE, !.codes = codes]
    BY <1>1, <1>2 DEF RightAnswer
  <2> QED
    BY <2>1, AccountWith DEF FactorsStay, HasFactor
<1>3. CASE WrongAnswer(m)
  <2>1. PICK locked \in BOOLEAN : account' = [account EXCEPT !.locked = locked]
    BY <1>1, <1>3 DEF WrongAnswer
  <2>2. account' = [account EXCEPT !.locked = locked, !.codes = account.codes]
    BY <2>1, AccountTyped
  <2> QED
    BY <1>1, <2>2, AccountWith DEF FactorsStay, HasFactor
<1> QED
  BY <1>2, <1>3

LEMMA SecondStepPages == \A t, a, chosen : MayShow(SecondStepPage(t, a, chosen))
BY ChallengePageIs DEF SecondStepPage, MayShow, Inner

LEMMA SignInKeeps ==
  ASSUME BrowserInv, NEW t \in Tabs, SignInPage(t) \/ SignInPost(t) \/ SecondStep(t) \/ SendSecondStepCode(t)
  PROVE  Kept
<1>1. tab[t].at # "idle"
  BY DEF SignInPage, SignInPost, SecondStep, SendSecondStepCode, At, Loading
<1>2. MayShow(Page(t, "SignIn")) /\ MayShow(Bad("missing"))
  BY SitePages, BadPages DEF Inner
<1>3. UNCHANGED account => account' \in Accounts /\ FactorsStay
  BY AccountTyped DEF FactorsStay, HasFactor
<1>4. BackToSignIn(t) => Kept
  BY <1>1, <1>3, ToSignInAgainKeeps DEF BackToSignIn
<1>5. ASSUME NEW page, Shows(t, page), MayShow(page) PROVE Kept
  BY <1>1, <1>5, ShowsKeep
<1>6. CASE SignInPage(t)
  BY <1>2, <1>5, <1>6 DEF SignInPage
<1>7. CASE SignInPost(t)
  <2>1. CASE Shows(t, Page(t, "SignIn"))
    BY <1>2, <1>5, <2>1
  <2>2. ASSUME NEW c,
               GoWith(t, [Cookies(t) EXCEPT !.challenge = c], FALSE, Get("/signin/verify")),
               Store(sessions, With(challenges, c, [session |-> 0, action |-> ""])),
               StillProved(t), UNCHANGED account
        PROVE  Kept
    BY <1>1, <1>3, <2>2, ChallengeCookie, GoKeeps, SessionsTyped
  <2>3. ASSUME OpenSession(t, Cookies(t), FALSE, Get("/"), challenges), proved' = None, UNCHANGED account
        PROVE  Kept
    <3>1. Req(t).verb = "POST" /\ Get("/").verb = "GET"
      BY <1>7 DEF SignInPost, At, Get, GetWith
    <3> QED
      BY <1>1, <1>3, <2>3, <3>1, CookiesAre, OpensKeep DEF BrowserInv
  <2> QED
    BY <1>7, <2>1, <2>2, <2>3 DEF SignInPost
<1>8. CASE SecondStep(t)
  BY <1>4, <1>5, <1>8, SecondStepPages DEF SecondStep
<1>9. CASE SendSecondStepCode(t)
  <2>1. ASSUME NEW r, Goes(t, r) PROVE Kept
    BY <1>1, <2>1, GoesKeep
  <2>2. MayShow(SecondStepPage(t, account, "email"))
    BY SecondStepPages
  <2> QED
    BY <1>2, <1>4, <1>5, <1>9, <2>1, <2>2 DEF SendSecondStepCode
<1> QED
  BY <1>6, <1>7, <1>8, <1>9

LEMMA AnswerSecondStepKeeps == ASSUME BrowserInv, NEW t \in Tabs, AnswerSecondStep(t) PROVE Kept
<1> DEFINE m == Args(t).method
           c == tab[t].challenge
           to == IF m = "recovery" THEN Get("/account/security") ELSE Get("/")
<1>1. tab[t].at # "idle"
  BY DEF AnswerSecondStep, At, Loading
<1>2. CASE BackToSignIn(t)
  <2>1. account' \in Accounts /\ FactorsStay
    BY <1>2, AccountTyped DEF BackToSignIn, FactorsStay, HasFactor
  <2> QED
    BY <1>1, <1>2, <2>1, ToSignInAgainKeeps DEF BackToSignIn
<1>3. ASSUME RightAnswer(m),
             OpenSession(t, [Cookies(t) EXCEPT !.challenge = 0], TRUE, to, Without(challenges, {c}))
      PROVE  Kept
  <2>1. Req(t).verb = "POST" /\ to.verb = "GET"
    BY DEF AnswerSecondStep, At, Get, GetWith
  <2> HIDE DEF to, m, c
  <2> QED
    BY <1>1, <1>3, <2>1, AnswersOnAccount, ChallengeCookie, OpensKeep
<1>4. ASSUME WrongAnswer(m), StillProved(t), ToSignInAgain(t, Without(challenges, {c})) PROVE Kept
  BY <1>1, <1>4, AnswersOnAccount, ToSignInAgainKeeps
<1>5. ASSUME WrongAnswer(m), StillProved(t), Show(t, SecondStepPage(t, account', m)), Keep PROVE Kept
  BY <1>1, <1>5, AnswersOnAccount, SecondStepPages, ShowKeeps, SessionsTyped DEF Keep
<1> QED
  BY <1>2, <1>3, <1>4, <1>5 DEF AnswerSecondStep

LEMMA SignOutKeeps == ASSUME BrowserInv, NEW t \in Tabs, SignOut(t) PROVE Kept
<1> DEFINE cookies == [Cookies(t) EXCEPT !.session = 0]
           next == Sent(Get("/"), cookies, TRUE)
<1>0. PICK ss \in Ended(t) : Store(ss, challenges)
  BY DEF SignOut
<1>1. /\ tab[t].at # "idle" /\ Req(t).verb = "POST" /\ Reply(t, cookies, FALSE, next)
      /\ proved' = None /\ UNCHANGED account
  BY DEF SignOut, At, Loading, GoWith
<1>2. DOMAIN cookies = JarFields /\ cookies = [f \in JarFields |-> cookies[f]] /\ cookies.session = 0
  BY CookiesAre DEF BrowserInv, JarFields
<1> HIDE DEF cookies
<1>4. /\ DOMAIN next = TabFields /\ next = [f \in TabFields |-> next[f]]
      /\ next.page.view = "" /\ next.session = cookies.session /\ next.req.verb = "GET"
  BY DEF Sent, TabFields, Blank, Get, GetWith
<1> HIDE DEF next
<1>5. /\ DOMAIN tab' = Tabs /\ tab'[t] = next /\ \A u \in Tabs \ {t} : tab'[u] = tab[u]
      /\ tab' = [u \in Tabs |-> tab'[u]]
      /\ jar' = cookies /\ scene' = scene
  BY <1>1, ReplyIs DEF BrowserInv
<1>6. DOMAIN sessions' \subseteq DOMAIN ss /\ \A s \in DOMAIN sessions' : sessions'[s] = ss[s]
  BY <1>0, StoreIs
<1>7. LeavesNone /\ ProvedStepped'
  BY <1>1, <1>4, <1>5, <1>6, EndedLeavesNone DEF ProvedStepped
<1>8. \A s \in DOMAIN sessions' : sessions'[s] \in Session
  BY <1>6, EndedIs
<1>9. account' \in Accounts /\ FactorsStay
  BY <1>1, AccountTyped DEF FactorsStay, HasFactor
<1>10. MayShow(tab'[t].page)
  BY <1>4, <1>5 DEF MayShow, Inner
<1>11. /\ DOMAIN tab'[t] = TabFields /\ tab'[t] = [f \in TabFields |-> tab'[t][f]]
       /\ DOMAIN jar' = JarFields /\ jar' = [f \in JarFields |-> jar'[f]]
       /\ tab'[t].session = jar'.session
  BY <1>2, <1>4, <1>5
<1> QED
  BY <1>1, <1>5, <1>7, <1>8, <1>9, <1>10, <1>11, AnswerKeeps

-----------------------------------------------------------------------------
(* The step-up. *)
LEMMA RendersKeep ==
  ASSUME BrowserInv, NEW t \in Tabs, tab[t].at # "idle",
         NEW c, NEW cs, Renders(t, c, sessions, cs), account' \in Accounts, FactorsStay
  PROVE  Kept
<1>1. /\ tab' = [tab EXCEPT ![t].at = "rendering", ![t].token = c]
      /\ StillProved(t) /\ UNCHANGED <<scene, jar, stale>> /\ Store(sessions, cs)
  BY DEF Renders
<1>2. /\ DOMAIN tab' = Tabs /\ tab' = [u \in Tabs |-> tab'[u]]
      /\ DOMAIN tab'[t] = TabFields /\ tab'[t] = [f \in TabFields |-> tab'[t][f]]
      /\ tab'[t].page = tab[t].page /\ tab'[t].session = tab[t].session
      /\ \A u \in Tabs \ {t} : tab'[u] = tab[u]
  BY <1>1 DEF BrowserInv, Shaped, TabFields
<1>3. DOMAIN sessions' \subseteq DOMAIN sessions /\ \A s \in DOMAIN sessions' : sessions'[s] = sessions[s]
  BY <1>1, StoreIs
<1>4. MayShow(tab'[t].page)
  BY <1>2 DEF BrowserInv, ConsoleNeedsFactor, MayShow, Inner
<1>5. LeavesNone /\ (SoloInv => tab'[t].session = jar'.session /\ ProvedStepped')
  BY <1>1, <1>2, <1>3, SoloSession, CookieStays DEF SoloInv, ProvedStepped, StillProved
<1>6. DOMAIN jar' = JarFields /\ jar' = [f \in JarFields |-> jar'[f]]
  BY <1>1 DEF BrowserInv, Shaped
<1> QED
  BY <1>1, <1>2, <1>3, <1>4, <1>5, <1>6, SessionsTyped, AnswerKeeps

LEMMA StepUpPageKeeps ==
  ASSUME BrowserInv, NEW t \in Tabs, StepUpPage(t) \/ SendStepUpCode(t) PROVE Kept
<1>1. tab[t].at # "idle"
  BY DEF StepUpPage, SendStepUpCode, At, Loading
<1>2. Shows(t, Bad("missing")) => Kept
  BY <1>1, ShowsKeep, BadPages
<1>3. ASSUME NEW r, Goes(t, r) PROVE Kept
  BY <1>1, <1>3, GoesKeep
<1>4. ASSUME NEW c, NEW cs, Renders(t, c, sessions, cs), UNCHANGED account PROVE Kept
  BY <1>1, <1>4, RendersKeep, AccountTyped DEF FactorsStay, HasFactor
<1> QED
  BY <1>2, <1>3, <1>4 DEF StepUpPage, SendStepUpCode

LEMMA RenderKeeps == ASSUME BrowserInv, NEW t \in Tabs, Render(t) PROVE Kept
<1>1. PICK page, n :
        /\ MayShow(page)
        /\ Reply(t, [jar EXCEPT !.challenge = n, !.secret = TRUE], FALSE, Idle(page))
  <2> DEFINE shown == ChallengePageAt(t, account, "/account/verify",
                        [NoArgs EXCEPT !.for = Args(t).for, !.next = Args(t).next],
                        challenges[tab[t].token].action, Args(t).next, Chosen(t))
             page == IF Pending(tab[t].token, tab[t].session)
                     THEN [shown EXCEPT !.signed = TRUE] ELSE Bad("failed")
             n == IF tab[t].token # tab[t].challenge THEN tab[t].token ELSE jar.challenge
  <2>1. Reply(t, [jar EXCEPT !.challenge = n, !.secret = TRUE], FALSE, Idle(page))
    BY DEF Render
  <2>2. [shown EXCEPT !.signed = TRUE].view = "ChallengePage"
    BY DEF ChallengePageAt, PageAt, Blank
  <2>3. MayShow(page)
    BY <2>2, BadPages DEF MayShow, Inner
  <2> QED
    BY <2>1, <2>3
<1>2. tab[t].at # "idle" /\ Store(sessions, challenges) /\ StillProved(t) /\ UNCHANGED account
  BY DEF Render, Keep
<1> DEFINE cookies == [jar EXCEPT !.challenge = n, !.secret = TRUE]
           next == Idle(page)
<1>3. cookies.session = jar.session /\ DOMAIN cookies = JarFields /\ cookies = [f \in JarFields |-> cookies[f]]
  BY DEF BrowserInv, Shaped, JarFields
<1>4. DOMAIN next = TabFields /\ next = [f \in TabFields |-> next[f]] /\ next.at = "idle" /\ MayShow(next.page)
  BY <1>1, IdleIs
<1>5. Reply(t, cookies, FALSE, next)
  BY <1>1
<1> HIDE DEF cookies, next
<1>6. account' \in Accounts /\ FactorsStay
  BY <1>2, AccountTyped DEF FactorsStay, HasFactor
<1> QED
  BY <1>2, <1>3, <1>4, <1>5, <1>6, OrdinaryKeeps, SessionsTyped

\* The session that steps up is the one of the request's cookie.
LEMMA StepsUpKeeps ==
  ASSUME BrowserInv, NEW t \in Tabs, tab[t].at # "idle", NEW r, NEW cs,
         Me(t) # 0, Me(t) \in DOMAIN sessions, Me(t) = tab[t].session,
         GoWith(t, [Cookies(t) EXCEPT !.challenge = 0], FALSE, r),
         Store([sessions EXCEPT ![Me(t)].stepped = TRUE], cs),
         account' \in Accounts, FactorsStay
  PROVE  Kept
<1> DEFINE cookies == [Cookies(t) EXCEPT !.challenge = 0]
           next == Sent(r, cookies, TRUE)
           ss == [sessions EXCEPT ![Me(t)].stepped = TRUE]
<1>1. Reply(t, cookies, FALSE, next) /\ Store(ss, cs)
  BY DEF GoWith
<1>2. DOMAIN cookies = JarFields /\ cookies = [f \in JarFields |-> cookies[f]]
      /\ cookies.session = jar.session
  BY ChallengeCookie, CookiesAre DEF BrowserInv
<1>3. DOMAIN ss = DOMAIN sessions /\ ss[Me(t)] = [sessions[Me(t)] EXCEPT !.stepped = TRUE]
      /\ \A s \in DOMAIN sessions : s # Me(t) => ss[s] = sessions[s]
  OBVIOUS
<1>4. ss[Me(t)] \in Session /\ ss[Me(t)].stepped
  BY <1>3, SessionsTyped DEF Session
<1> HIDE DEF cookies, ss
<1>5. /\ DOMAIN next = TabFields /\ next = [f \in TabFields |-> next[f]]
      /\ next.page.view = "" /\ next.session = cookies.session
  BY DEF Sent, TabFields, Blank
<1> HIDE DEF next
<1>6. /\ DOMAIN tab' = Tabs /\ tab'[t] = next /\ \A u \in Tabs \ {t} : tab'[u] = tab[u]
      /\ tab' = [u \in Tabs |-> tab'[u]]
      /\ jar' = cookies /\ scene' = scene
  BY <1>1, ReplyIs DEF BrowserInv
<1>7. DOMAIN sessions' \subseteq DOMAIN ss /\ \A s \in DOMAIN sessions' : sessions'[s] = ss[s]
  BY <1>1, StoreIs
<1>8. \A s \in DOMAIN sessions' : sessions'[s] \in Session
  BY <1>3, <1>4, <1>7, SessionsTyped
<1>9. LeavesNone /\ (SoloInv => ProvedStepped')
  <2>1. jar'.session = jar.session
    BY <1>2, <1>6
  <2>2. ASSUME SoloInv, jar'.session \in DOMAIN sessions' PROVE sessions'[jar'.session].stepped
    BY <1>4, <1>7, <2>1, <2>2, SoloSession
  <2> QED
    BY <2>1, <2>2 DEF LeavesNone, ProvedStepped
<1>10. MayShow(tab'[t].page)
  BY <1>5, <1>6 DEF MayShow, Inner
<1>11. /\ DOMAIN tab'[t] = TabFields /\ tab'[t] = [f \in TabFields |-> tab'[t][f]]
       /\ DOMAIN jar' = JarFields /\ jar' = [f \in JarFields |-> jar'[f]]
       /\ tab'[t].session = jar'.session
  BY <1>2, <1>5, <1>6
<1> QED
  BY <1>6, <1>8, <1>9, <1>10, <1>11, AnswerKeeps

LEMMA AnswerStepUpKeeps == ASSUME BrowserInv, NEW t \in Tabs, AnswerStepUp(t) PROVE Kept
<1> DEFINE m == Args(t).method
           c == tab[t].challenge
<1>1. tab[t].at # "idle" /\ At(t, "POST", "/account/verify")
  BY DEF AnswerStepUp, At, Loading
<1>2. Me(t) # 0 /\ Me(t) \in DOMAIN sessions /\ Me(t) = tab[t].session
  BY <1>1, Furnishes DEF SignedInOnly
<1>3. Shows(t, Bad("missing")) => Kept
  BY <1>1, ShowsKeep, BadPages
<1>4. ASSUME NEW r, Goes(t, r) PROVE Kept
  BY <1>1, <1>4, GoesKeep
<1>5. ASSUME RightAnswer(m), GoWith(t, [Cookies(t) EXCEPT !.challenge = 0], FALSE, Get(Args(t).next)),
             Store([sessions EXCEPT ![Me(t)].stepped = TRUE], Without(challenges, {c}))
      PROVE  Kept
  BY <1>1, <1>2, <1>5, StepsUpKeeps, AnswersOnAccount
<1>6. ASSUME WrongAnswer(m), Go(t, StepUpAgain(t)), Store(sessions, Without(challenges, {c})), StillProved(t)
      PROVE  Kept
  <2>1. GoWith(t, Cookies(t), FALSE, StepUpAgain(t))
    BY <1>6 DEF Go, GoWith
  <2> QED
    BY <1>1, <1>6, <2>1, GoKeeps, AnswersOnAccount, CookiesAre, SessionsTyped DEF BrowserInv
<1>7. ASSUME WrongAnswer(m), Renders(t, c, sessions, challenges) PROVE Kept
  BY <1>1, <1>7, RendersKeep, AnswersOnAccount
<1> QED
  BY <1>3, <1>4, <1>5, <1>6, <1>7 DEF AnswerStepUp

-----------------------------------------------------------------------------
(* The password and the second factors. *)
LEMMA PasswordKeeps ==
  ASSUME BrowserInv, NEW t \in Tabs, PasswordForm(t) \/ ChangePassword(t) PROVE Kept
<1>1. tab[t].at # "idle" /\ \E verb : At(t, verb, "/account/password")
  BY DEF PasswordForm, ChangePassword, At, Loading
<1>2. Me(t) # 0 /\ Me(t) \in DOMAIN sessions /\ Me(t) = tab[t].session
      /\ (host = "console" => HasFactor)
  BY <1>1, Furnishes DEF SignedInOnly
<1>3. CASE Shows(t, Page(t, "Password"))
  BY <1>1, <1>2, <1>3, ShowsKeep DEF MayShow
<1>4. CASE ~Shows(t, Page(t, "Password"))
  <2> DEFINE s == NewSession
             cookies == [Cookies(t) EXCEPT !.session = s]
             next == Sent(Get("/account/password"), cookies, TRUE)
             ss == [x \in {s} |-> NewRow(sessions[Me(t)].stepped)]
             cs == Restrict(challenges, {c \in DOMAIN challenges : challenges[c].session # 0})
  <2>1. /\ account' = [account EXCEPT !.locked = FALSE]
        /\ Reply(t, cookies, TRUE, next) /\ Store(ss, cs) /\ StillProved(t)
    BY <1>4 DEF PasswordForm, ChangePassword, GoWith
  <2>2. DOMAIN cookies = JarFields /\ cookies = [f \in JarFields |-> cookies[f]] /\ cookies.session = s
    BY CookiesAre DEF BrowserInv, JarFields
  <2>3. DOMAIN ss = {s} /\ ss[s] = NewRow(sessions[Me(t)].stepped)
    OBVIOUS
  <2>4. ss[s] \in Session /\ ss[s].stepped = sessions[Me(t)].stepped
    <3>1. sessions[Me(t)].stepped \in BOOLEAN
      BY <1>2, SessionsTyped DEF Session
    <3> QED
      BY <2>3, <3>1, NewRowTyped
  <2> HIDE DEF s, cookies, ss
  <2>5. /\ DOMAIN next = TabFields /\ next = [f \in TabFields |-> next[f]]
        /\ next.page.view = "" /\ next.session = cookies.session
    BY DEF Sent, TabFields, Blank
  <2> HIDE DEF next, cs
  <2>6. /\ DOMAIN tab' = Tabs /\ tab'[t] = next /\ \A u \in Tabs \ {t} : tab'[u] = tab[u]
        /\ tab' = [u \in Tabs |-> tab'[u]]
        /\ jar' = cookies /\ scene' = scene
    BY <2>1, ReplyIs DEF BrowserInv
  <2>7. DOMAIN sessions' \subseteq DOMAIN ss /\ \A x \in DOMAIN sessions' : sessions'[x] = ss[x]
    BY <2>1, StoreIs
  <2>8. account' \in Accounts /\ FactorsStay
    <3>1. account.codes \in {"none", "used", "left"}
      BY AccountTyped DEF Accounts
    <3>2. account' = [account EXCEPT !.locked = FALSE, !.codes = account.codes]
      BY <2>1, AccountTyped
    <3> QED
      BY <3>1, <3>2, AccountWith DEF FactorsStay, HasFactor
  <2>9. \A x \in DOMAIN sessions' : sessions'[x] \in Session /\ x = s
    BY <2>3, <2>4, <2>7
  <2>10. ASSUME SoloInv PROVE ProvedStepped'
    <3> SUFFICES ASSUME proved' # None, jar'.session \in DOMAIN sessions' PROVE sessions'[jar'.session].stepped
      BY DEF ProvedStepped
    <3>1. proved # None
      BY <2>1 DEF StillProved
    <3>2. Me(t) = jar.session
      BY <1>1, <1>2, <2>10, SoloSession
    <3>3. sessions[Me(t)].stepped
      BY <1>2, <2>10, <3>1, <3>2 DEF SoloInv, ProvedStepped
    <3> QED
      BY <2>3, <2>4, <2>7, <3>3
  <2>13. LeavesNone
    BY <2>2, <2>6, <2>9 DEF LeavesNone
  <2>11. MayShow(tab'[t].page)
    BY <2>5, <2>6 DEF MayShow, Inner
  <2>12. /\ DOMAIN tab'[t] = TabFields /\ tab'[t] = [f \in TabFields |-> tab'[t][f]]
         /\ DOMAIN jar' = JarFields /\ jar' = [f \in JarFields |-> jar'[f]]
         /\ tab'[t].session = jar'.session /\ jar'.session = s
    BY <2>2, <2>5, <2>6
  <2> QED
    BY <1>1, <2>6, <2>8, <2>9, <2>10, <2>11, <2>12, <2>13, AnswerKeeps
<1> QED
  BY <1>3, <1>4

\* What a handler records of the session's enrolment.
LEMMA EnrollingIs ==
  ASSUME BrowserInv, NEW s \in DOMAIN sessions, NEW kind \in {"none"} \union Methods
  PROVE  LET ss == [sessions EXCEPT ![s].enrolling = kind]
         IN /\ DOMAIN ss = DOMAIN sessions
            /\ \A x \in DOMAIN ss : ss[x] \in Session /\ ss[x].stepped = sessions[x].stepped
<1>1. sessions[s] \in Session
  BY SessionsTyped
<1>2. [sessions[s] EXCEPT !.enrolling = kind] \in Session
      /\ [sessions[s] EXCEPT !.enrolling = kind].stepped = sessions[s].stepped
  BY <1>1 DEF Session
<1> QED
  BY <1>2, SessionsTyped

LEMMA EnrolsKeep ==
  ASSUME BrowserInv, NEW t \in Tabs, tab[t].at # "idle", Me(t) \in DOMAIN sessions,
         NEW view, view \notin Inner, NEW kind \in Methods, Enrols(t, view, kind)
  PROVE  Kept
<1> DEFINE ss == [sessions EXCEPT ![Me(t)].enrolling = kind]
<1>1. Show(t, Page(t, view)) /\ Store(ss, challenges) /\ StillProved(t) /\ UNCHANGED account
  BY DEF Enrols
<1>2. DOMAIN ss = DOMAIN sessions /\ \A x \in DOMAIN ss : ss[x] \in Session /\ ss[x].stepped = sessions[x].stepped
  BY EnrollingIs
<1> HIDE DEF ss
<1>3. MayShow(Page(t, view)) /\ account' \in Accounts /\ FactorsStay
  BY <1>1, SitePages, AccountTyped DEF FactorsStay, HasFactor
<1> QED
  BY <1>1, <1>2, <1>3, ShowKeeps

LEMMA AddFactorKeeps ==
  ASSUME BrowserInv, NEW t \in Tabs, tab[t].at # "idle", Me(t) \in DOMAIN sessions,
         NEW kind \in Methods, AddFactor(t, kind)
  PROVE  Kept
<1> DEFINE first == account.codes = "none" /\ kind # "email"
           as == IF kind = "email" THEN sessions[Me(t)].enrolling ELSE "none"
           ss == [sessions EXCEPT ![Me(t)].enrolling = as]
           shown == PageAt(t, "RecoveryCodes", "/account/security")
<1>1. /\ account' = [account EXCEPT !.factors = @ \union {kind}, !.codes = IF first THEN "left" ELSE @]
      /\ IF first THEN Show(t, shown) ELSE Go(t, Get("/account/security"))
      /\ Store(ss, challenges) /\ StillProved(t)
  BY DEF AddFactor
<1>2. as \in {"none"} \union Methods
  BY SessionsTyped DEF Session
<1> HIDE DEF as
<1>3. DOMAIN ss = DOMAIN sessions /\ \A x \in DOMAIN ss : ss[x] \in Session /\ ss[x].stepped = sessions[x].stepped
  BY <1>2, EnrollingIs
<1> HIDE DEF ss
<1>4. account' \in Accounts /\ FactorsStay
  <2> DEFINE factors == account.factors \union {kind}
             codes == IF first THEN "left" ELSE account.codes
  <2>1. factors \in SUBSET Methods /\ codes \in {"none", "used", "left"}
    BY AccountTyped DEF Accounts
  <2>2. account' = [account EXCEPT !.factors = factors, !.codes = codes]
    BY <1>1, AccountTyped
  <2>3. factors # {}
    OBVIOUS
  <2> HIDE DEF factors, codes
  <2> QED
    BY <2>1, <2>2, <2>3, AccountWith DEF FactorsStay
<1>5. CASE first
  BY <1>1, <1>3, <1>4, <1>5, ShowKeeps, SitePages DEF Inner
<1>6. CASE ~first
  <2>1. GoWith(t, Cookies(t), FALSE, Get("/account/security"))
    BY <1>1, <1>6 DEF Go, GoWith
  <2> QED
    BY <1>1, <1>3, <1>4, <2>1, GoKeeps, CookiesAre DEF BrowserInv
<1> QED
  BY <1>5, <1>6

LEMMA AddingKeeps ==
  ASSUME BrowserInv, NEW t \in Tabs,
         \/ AppForm(t) \/ AddApp(t) \/ KeyForm(t) \/ AddKey(t)
         \/ EmailForm(t) \/ SendEmailCode(t) \/ AddEmail(t)
  PROVE  Kept
<1>1. PICK path \in ChangesFactors : At(t, "GET", path) \/ At(t, "POST", path)
  <2>1. {"/account/security/app", "/account/security/key", "/account/security/email",
         "/account/security/email/send"} \subseteq ChangesFactors
    BY DEF ChangesFactors, Enrolment
  <2> QED
    BY <2>1 DEF AppForm, AddApp, KeyForm, AddKey, EmailForm, SendEmailCode, AddEmail
<1>2. tab[t].at # "idle" /\ Me(t) \in DOMAIN sessions
  BY <1>1, Furnishes DEF At, Loading, SignedInOnly
<1>3. ASSUME NEW page, Shows(t, page), MayShow(page) PROVE Kept
  BY <1>2, <1>3, ShowsKeep
<1>4. ASSUME NEW r, Goes(t, r) PROVE Kept
  BY <1>2, <1>4, GoesKeep
<1>5. ASSUME NEW kind \in Methods, AddFactor(t, kind) PROVE Kept
  BY <1>2, <1>5, AddFactorKeeps
<1>6. ASSUME NEW view \in {"EnrolApp", "EnrolKey"}, NEW kind \in Methods, Enrols(t, view, kind) PROVE Kept
  BY <1>2, <1>6, EnrolsKeep DEF Inner
<1>7. /\ MayShow(Page(t, "EnrolApp"))
      /\ \A x : MayShow([Page(t, "EnrolEmail") EXCEPT !.asks = x])
      /\ \A x : MayShow([PageAt(t, "EnrolEmail", "/account/security/email") EXCEPT !.asks = x])
  BY SitePages DEF Inner
<1>8. {"webauthn", "totp", "email"} \subseteq Methods
  BY DEF Methods
<1>9. CASE AppForm(t) \/ KeyForm(t)
  BY <1>6, <1>8, <1>9 DEF AppForm, KeyForm
<1>10. CASE AddApp(t)
  BY <1>3, <1>4, <1>5, <1>7, <1>8, <1>10 DEF AddApp
<1>11. CASE AddKey(t)
  BY <1>4, <1>5, <1>6, <1>8, <1>11 DEF AddKey
<1>12. CASE EmailForm(t)
  BY <1>3, <1>7, <1>12 DEF EmailForm
<1>13. CASE SendEmailCode(t)
  BY <1>3, <1>4, <1>7, <1>13 DEF SendEmailCode
<1>14. CASE AddEmail(t)
  BY <1>3, <1>4, <1>5, <1>7, <1>8, <1>14 DEF AddEmail
<1> QED
  BY <1>9, <1>10, <1>11, <1>12, <1>13, <1>14

LEMMA SecurityKeeps ==
  ASSUME BrowserInv, NEW t \in Tabs, Security(t) \/ RemoveFactor(t) \/ RegenerateCodes(t)
  PROVE  Kept
<1>1. tab[t].at # "idle"
  BY DEF Security, RemoveFactor, RegenerateCodes, At, Loading
<1>2. ASSUME Security(t) \/ RemoveFactor(t), NEW path
      PROVE  /\ MayShow([Page(t, "SecurityPage") EXCEPT !.has = account.factors])
             /\ MayShow([PageAt(t, "SecurityPage", path) EXCEPT !.has = account.factors])
  <2>1. host = "console" => HasFactor
    BY <1>2, Furnishes DEF Security, RemoveFactor
  <2> QED
    BY <2>1 DEF MayShow
<1>3. CASE Security(t)
  BY <1>1, <1>2, <1>3, ShowsKeep DEF Security
<1>4. CASE RemoveFactor(t)
  <2> DEFINE kept == account.factors \ {Args(t).item}
             codes == IF kept = {} THEN "none" ELSE account.codes
  <2>1. CASE Shows(t, Bad("missing"))
    BY <1>1, <2>1, ShowsKeep, BadPages
  <2>2. CASE Shows(t, [PageAt(t, "SecurityPage", "/account/security") EXCEPT !.has = account.factors])
    BY <1>1, <1>2, <1>4, <2>2, ShowsKeep
  <2>3. ASSUME kept # {} \/ host # "console",
               account' = [account EXCEPT !.factors = kept, !.codes = IF kept = {} THEN "none" ELSE @],
               Go(t, Get("/account/security")), Keep, StillProved(t)
        PROVE  Kept
    <3>1. kept \in SUBSET Methods /\ codes \in {"none", "used", "left"}
      BY AccountTyped DEF Accounts
    <3>2. account' = [account EXCEPT !.factors = kept, !.codes = codes]
      BY <2>3, AccountTyped
    <3> HIDE DEF kept, codes
    <3>3. account' \in Accounts /\ account'.factors = kept
      BY <3>1, <3>2, AccountWith
    <3>4. FactorsStay
      BY <2>3, <3>3 DEF FactorsStay
    <3>5. GoWith(t, Cookies(t), FALSE, Get("/account/security")) /\ Store(sessions, challenges)
      BY <2>3 DEF Go, GoWith, Keep
    <3> QED
      BY <1>1, <2>3, <3>3, <3>4, <3>5, GoKeeps, CookiesAre, SessionsTyped DEF BrowserInv
  <2> QED
    BY <1>4, <2>1, <2>2, <2>3 DEF RemoveFactor
<1>5. CASE RegenerateCodes(t)
  <2>1. CASE HasFactor
    <3>1. account' = [account EXCEPT !.codes = "left"] /\ Show(t, PageAt(t, "RecoveryCodes", "/account/security"))
          /\ Store(sessions, challenges) /\ StillProved(t)
      BY <1>5, <2>1 DEF RegenerateCodes, Keep
    <3>2. account.locked \in BOOLEAN /\ account' = [account EXCEPT !.locked = account.locked, !.codes = "left"]
      BY <3>1, AccountTyped DEF Accounts
    <3>3. account' \in Accounts /\ FactorsStay
      BY <3>2, AccountWith DEF FactorsStay, HasFactor
    <3> QED
      BY <1>1, <3>1, <3>3, ShowKeeps, SitePages, SessionsTyped DEF Inner
  <2>2. CASE ~HasFactor
    BY <1>1, <1>5, <2>2, GoesKeep DEF RegenerateCodes
  <2> QED
    BY <2>1, <2>2
<1> QED
  BY <1>3, <1>4, <1>5

LEMMA SetupKeeps ==
  ASSUME BrowserInv, NEW t \in Tabs, EnrolPage(t) \/ SetupForm(t) \/ SetupPost(t)
  PROVE  Kept
<1>1. tab[t].at # "idle"
  BY DEF EnrolPage, SetupForm, SetupPost, At, Loading
<1>2. MayShow(Page(t, "ConsoleEnrol")) /\ MayShow(Page(t, "Setup")) /\ MayShow(Bad("missing"))
  BY SitePages, BadPages DEF Inner
<1>3. ASSUME NEW page, Shows(t, page), MayShow(page) PROVE Kept
  BY <1>1, <1>3, ShowsKeep
<1>4. CASE EnrolPage(t)
  BY <1>1, <1>2, <1>3, <1>4, GoesKeep DEF EnrolPage
<1>5. CASE SetupForm(t)
  BY <1>2, <1>3, <1>5 DEF SetupForm
<1>6. CASE SetupPost(t)
  <2>1. ASSUME account' = [account EXCEPT !.status = "verified"],
               OpenSession(t, Cookies(t), FALSE, Get("/enrol"), challenges), proved' = None
        PROVE  Kept
    <3>1. account' = [account EXCEPT !.status = "verified", !.links = account.links]
      BY <2>1, AccountTyped
    <3>2. account' \in Accounts /\ FactorsStay
      BY <3>1, AccountWith, LinksTyped DEF FactorsStay, HasFactor
    <3>3. Req(t).verb = "POST" /\ Get("/enrol").verb = "GET"
      BY <1>6 DEF SetupPost, At, Get, GetWith
    <3> QED
      BY <1>1, <2>1, <3>2, <3>3, OpensKeep, CookiesAre DEF BrowserInv
  <2> QED
    BY <1>2, <1>3, <1>6, <2>1 DEF SetupPost
<1> QED
  BY <1>4, <1>5, <1>6

-----------------------------------------------------------------------------
(* The person and what happens elsewhere. *)
LEMMA SendKeeps ==
  ASSUME BrowserInv, NEW t \in Tabs, tab[t].at = "idle", NEW r, Send(t, r) PROVE Kept
<1> DEFINE next == Sent(r, jar, t \notin stale /\ tab[t].page.view # "Preparing")
<1>1. tab' = [tab EXCEPT ![t] = next] /\ UNCHANGED <<scene, serverVars, jar, proved>>
  BY DEF Send
<1>2. /\ DOMAIN next = TabFields /\ next = [f \in TabFields |-> next[f]]
      /\ next.page.view = "" /\ next.session = jar.session
  BY DEF Sent, TabFields, Blank
<1> HIDE DEF next
<1>3. /\ DOMAIN tab' = Tabs /\ tab' = [u \in Tabs |-> tab'[u]]
      /\ tab'[t] = next /\ \A u \in Tabs \ {t} : tab'[u] = tab[u]
  BY <1>1 DEF BrowserInv, Shaped
<1>4. Shaped'
  <2>1. \A u \in Tabs : DOMAIN tab'[u] = TabFields /\ tab'[u] = [f \in TabFields |-> tab'[u][f]]
    BY <1>2, <1>3 DEF BrowserInv, Shaped
  <2>2. scene' = scene /\ account' = account /\ jar' = jar /\ sessions' = sessions
    BY <1>1 DEF serverVars
  <2> QED
    BY <1>3, <2>1, <2>2 DEF BrowserInv, Shaped
<1>5. ConsoleNeedsFactor'
  BY <1>1, <1>2, <1>3 DEF BrowserInv, ConsoleNeedsFactor, HasFactor, host, serverVars
<1>6. SoloInv /\ OneAtATime' => SoloInv'
  BY <1>1, <1>2, <1>3 DEF SoloInv, ProvedStepped, serverVars
<1>7. LeavesNone
  BY <1>1, CookieStays
<1> QED
  BY <1>4, <1>5, <1>6, <1>7 DEF BrowserInv, Kept

LEMMA ElsewhereKeeps ==
  ASSUME BrowserInv, NEW ss, NEW cs, Elsewhere(ss, cs), DOMAIN ss \subseteq DOMAIN sessions,
         \A s \in DOMAIN ss : ss[s] \in Session, account' \in Accounts, account'.factors = account.factors
  PROVE  Kept
<1>1. proved' = None /\ UNCHANGED <<scene, jar, tab, stale>> /\ Store(ss, cs)
  BY DEF Elsewhere
<1>2. DOMAIN sessions' \subseteq DOMAIN ss /\ \A s \in DOMAIN sessions' : sessions'[s] = ss[s]
  BY <1>1, StoreIs
<1>3. Shaped'
  BY <1>1, <1>2 DEF BrowserInv, Shaped
<1>4. ConsoleNeedsFactor'
  BY <1>1 DEF BrowserInv, ConsoleNeedsFactor, HasFactor, host
<1>5. LeavesNone /\ (SoloInv => SoloInv')
  BY <1>1, CookieStays DEF SoloInv, OneAtATime, ProvedStepped
<1> QED
  BY <1>3, <1>4, <1>5 DEF BrowserInv, Kept

LEMMA EnvironmentKeeps == ASSUME BrowserInv, Environment PROVE Kept
<1>1. UNCHANGED account => account' \in Accounts /\ account'.factors = account.factors
  BY AccountTyped
<1>2. CASE StepUpEnds
  <2>1. PICK s \in DOMAIN sessions :
          Elsewhere([sessions EXCEPT ![s].stepped = FALSE], challenges) /\ UNCHANGED account
    BY <1>2 DEF StepUpEnds
  <2> DEFINE ss == [sessions EXCEPT ![s].stepped = FALSE]
  <2>2. [sessions[s] EXCEPT !.stepped = FALSE] \in Session
    BY SessionsTyped DEF Session
  <2>3. DOMAIN ss = DOMAIN sessions /\ \A x \in DOMAIN ss : ss[x] \in Session
    BY <2>2, SessionsTyped
  <2> HIDE DEF ss
  <2> QED
    BY <1>1, <2>1, <2>3, ElsewhereKeeps DEF ss
<1>3. CASE EnrolmentEnds
  <2>1. PICK s \in DOMAIN sessions :
          Elsewhere([sessions EXCEPT ![s].enrolling = "none"], challenges) /\ UNCHANGED account
    BY <1>3 DEF EnrolmentEnds
  <2> QED
    BY <1>1, <2>1, EnrollingIs, ElsewhereKeeps
<1>4. CASE SessionEnds
  <2>1. PICK s \in DOMAIN sessions : Elsewhere(Without(sessions, {s}), challenges) /\ UNCHANGED account
    BY <1>4 DEF SessionEnds
  <2>2. /\ DOMAIN Without(sessions, {s}) \subseteq DOMAIN sessions
        /\ \A x \in DOMAIN Without(sessions, {s}) : Without(sessions, {s})[x] \in Session
    BY SessionsTyped DEF Without, Restrict
  <2> QED
    BY <1>1, <2>1, <2>2, ElsewhereKeeps
<1>5. CASE ChallengeEnds
  BY <1>1, <1>5, SessionsTyped, ElsewhereKeeps DEF ChallengeEnds
<1>6. CASE LinkEnds
  <2>1. account.links - 1 \in 0..MaxLinks
    BY <1>6, LinksTyped DEF LinkEnds
  <2>2. account.status \in {"none", "unverified", "verified"}
    BY AccountTyped DEF Accounts
  <2>3. account' = [account EXCEPT !.status = account.status, !.links = account.links - 1]
    BY <1>6, AccountTyped DEF LinkEnds
  <2>4. account' \in Accounts /\ account'.factors = account.factors
    BY <2>1, <2>2, <2>3, AccountWith
  <2> QED
    BY <1>6, <2>4, SessionsTyped, ElsewhereKeeps DEF LinkEnds
<1>7. CASE PasswordElsewhere
  <2>1. account.codes \in {"none", "used", "left"}
    BY AccountTyped DEF Accounts
  <2>2. account' = [account EXCEPT !.locked = FALSE, !.codes = account.codes]
    BY <1>7, AccountTyped DEF PasswordElsewhere
  <2>3. account' \in Accounts /\ account'.factors = account.factors
    BY <2>1, <2>2, AccountWith
  <2>4. DOMAIN << >> = {}
    OBVIOUS
  <2> QED
    BY <1>7, <2>3, <2>4, ElsewhereKeeps DEF PasswordElsewhere
<1> QED
  BY <1>2, <1>3, <1>4, <1>5, <1>6, <1>7 DEF Environment

-----------------------------------------------------------------------------
LEMMA BrowserInit == Init => BrowserInv
<1> SUFFICES ASSUME Init PROVE BrowserInv
  OBVIOUS
<1> DEFINE idle == Idle([Blank EXCEPT !.view = "blank"])
<1>1. DOMAIN idle = TabFields /\ idle = [f \in TabFields |-> idle[f]] /\ idle.at = "idle" /\ idle.page.view = "blank"
  BY DEF Idle, TabFields, Blank
<1>2. tab = [t \in Tabs |-> idle]
  BY DEF Init
<1> HIDE DEF idle
<1>3. DOMAIN sessions = {}
  BY DEF Init
<1>4. DOMAIN jar = JarFields /\ jar = [f \in JarFields |-> jar[f]]
  BY DEF Init, JarFields
<1>5. account \in Accounts /\ scene \in Scenes
  BY JourneyAssumption DEF Init
<1>6. Shaped
  BY <1>1, <1>2, <1>3, <1>4, <1>5 DEF Shaped
<1>7. ConsoleNeedsFactor
  BY <1>1, <1>2 DEF ConsoleNeedsFactor
<1> QED
  BY <1>6, <1>7 DEF BrowserInv

LEMMA BrowserNext == ASSUME BrowserInv, [Next]_vars PROVE Kept
<1>1. ASSUME NEW t \in Tabs, Serve(t) PROVE Kept
  BY <1>1, InFront, EarlyKeeps, SignUpKeeps, SignInKeeps, AnswerSecondStepKeeps, SignOutKeeps,
     StepUpPageKeeps, RenderKeeps, AnswerStepUpKeeps, PasswordKeeps, AddingKeeps, SecurityKeeps, SetupKeeps
     DEF Serve, Answer
<1>2. ASSUME NEW t \in Tabs, Click(t) \/ Type(t) PROVE Kept
  BY <1>2, SendKeeps DEF Click, Type
<1>3. CASE UNCHANGED vars
  <2>1. BrowserInv'
    BY <1>3 DEF vars, serverVars, BrowserInv, Shaped, ConsoleNeedsFactor, HasFactor, host
  <2>2. LeavesNone /\ (SoloInv => SoloInv')
    BY <1>3, CookieStays DEF vars, serverVars, SoloInv, OneAtATime, ProvedStepped
  <2> QED
    BY <2>1, <2>2 DEF Kept
<1> QED
  BY <1>1, <1>2, <1>3, EnvironmentKeeps DEF Next

LEMMA BrowserAlways == Spec => []BrowserInv
<1>1. BrowserInv /\ [Next]_vars => BrowserInv'
  BY BrowserNext DEF Kept
<1> QED
  BY <1>1, BrowserInit, PTL DEF Spec

LEMMA SoloAlways == Spec /\ []OneAtATime => []SoloInv
<1>1. Init => SoloInv
  <2> SUFFICES ASSUME Init PROVE SoloInv
    OBVIOUS
  <2>1. \A t \in Tabs : tab[t].at = "idle"
    BY DEF Init, Idle
  <2> QED
    BY <2>1 DEF Init, SoloInv, OneAtATime, ProvedStepped
<1>2. BrowserInv /\ SoloInv /\ OneAtATime' /\ [Next]_vars => SoloInv'
  BY BrowserNext DEF Kept
<1> QED
  BY <1>1, <1>2, BrowserAlways, PTL DEF Spec

\* Whoever is shown a page of the console has a second factor, and cannot
\* remove the last while it is open: Guard of the console, RemoveFactor.
THEOREM ConsoleAlwaysGuarded == Spec => []ConsoleNeedsFactor
<1>1. BrowserInv => ConsoleNeedsFactor
  BY DEF BrowserInv
<1> QED
  BY <1>1, BrowserAlways, PTL

\* Whatever handler answers, and however many requests are under way, the
\* browser loses a live session's cookie only to an answer whose request was
\* sent with another, or to one whose Supersede or SignOut failed: openSession,
\* signOut, changePassword, and Sessions clearing a cookie that opens nothing.
THEOREM NothingLeftBehind == Spec => NoneLeftBehind
<1>1. BrowserInv /\ [Next]_vars => LeavesNone
  BY BrowserNext DEF Kept
<1>2. [][LeavesNone]_vars => NoneLeftBehind
  BY PTL DEF NoneLeftBehind, LeavesNone
<1> QED
  BY <1>1, <1>2, BrowserAlways, PTL DEF Spec

\* A browser that never has two requests in flight is not asked again for the
\* second factor that a tab has proved: the step-up is the session's, and the
\* session that replaces it keeps it.
THEOREM NeverAskedTwice == Spec /\ []OneAtATime => NotAskedTwice
<1> DEFINE A == \A t \in Tabs : proved = t => ~ToStepUp(t)
<1>1. ASSUME SoloInv, NEW t \in Tabs, proved = t, ToStepUp(t) PROVE FALSE
  <2>1. Me(t) # 0 /\ Me(t) = tab[t].session /\ Me(t) \in DOMAIN sessions /\ NeedsStepUp(Me(t))
    BY <1>1 DEF ToStepUp, Furnished, Known, Open, Guarded, SignedInOnly, Me
  <2>3. Me(t) = jar.session
    BY <1>1, <2>1, SoloSession DEF ToStepUp, Loading
  <2>2. proved # None
    BY <1>1, JourneyAssumption
  <2> QED
    BY <1>1, <2>1, <2>2, <2>3 DEF SoloInv, ProvedStepped, NeedsStepUp
<1>2. SoloInv => A
  BY <1>1
<1> QED
  BY <1>2, SoloAlways, PTL DEF NotAskedTwice
=============================================================================
