------------------------------ MODULE Journey ------------------------------
(***************************************************************************)
(* A person going through the site in one browser, several tabs at a time: *)
(* the pages shown, the requests they send, the cookies they share, and    *)
(* what the server keeps behind them.  A request carries the cookies as    *)
(* they were when it was sent; the server answers it with a page or a      *)
(* redirect, and the browser applies the answer's cookies with the answer. *)
(* One account, one browser; the same account may be changed elsewhere.    *)
(*                                                                         *)
(* Handlers are src/internal/platform/httpx; pages and what they offer are *)
(* Views.  What the flows do inside their transactions (SignIn, Factors,   *)
(* SecondStep) is here one step each: whether an answer is right is a      *)
(* choice, and so is whether a wrong one was the last a challenge takes or *)
(* the one that locks the account's codes.  Of the failures of the         *)
(* database only the two that a handler goes on after are here, of ending  *)
(* a session: after any other the page is an error, or a visitor's.        *)
(***************************************************************************)
EXTENDS Views, Naturals, FiniteSets, Functions

CONSTANTS
  Tabs,       \* the browser's tabs
  None,       \* no tab
  Scenes,     \* where the person starts, and what they go through
  MaxLinks,   \* confirmation links kept at once
  MaxTokens   \* session tokens, and challenge tokens, told apart at once

Accounts ==
  [status : {"none", "unverified", "verified"}, factors : SUBSET Methods,
   codes : {"none", "used", "left"}, locked : BOOLEAN, links : 0..MaxLinks]

NoAccount == [status |-> "none", factors |-> {}, codes |-> "none", locked |-> FALSE, links |-> 0]

\* A scene: a host, the account as it is at first, the second factors the
\* person has the means to add (one of each), the tabs they use, the addresses
\* they type or follow from a mail, the paths they ever send a request to, and
\* whether time passes and the account changes elsewhere meanwhile.
ASSUME JourneyAssumption ==
  /\ None \notin Tabs
  /\ \A scene \in Scenes :
       /\ scene.host \in {"store", "console", "platform", "preparing"}
       /\ scene.account \in Accounts
       /\ scene.kinds \subseteq Methods /\ scene.tabs \subseteq Tabs
  /\ MaxLinks \in Nat \ {0}
  /\ MaxTokens \in Nat /\ MaxTokens > 2 * Cardinality(Tabs) + 1

VARIABLES
  scene,       \* the scene, chosen at first
  account,     \* the account's row, factors, recovery codes, lock and links
  sessions,    \* live sessions: stepped up?, the factor being added, an end that failed?
  challenges,  \* live challenges: the session stepped up (0 at sign-in), the action
  jar,         \* the browser's cookies
  tab,         \* what each tab shows, or waits for
  stale,       \* tabs whose page's token is from an older CSRF secret
  only,        \* the tab whose page nothing else has happened since
  proved       \* the tab that proved a second factor, nothing else since

serverVars == <<account, sessions, challenges>>
vars == <<scene, serverVars, jar, tab, stale, only, proved>>

Tokens == 1..MaxTokens
host  == scene.host
Kinds == scene.kinds

Idle(page) == [at |-> "idle", page |-> page, req |-> Get("/"), session |-> 0,
               challenge |-> 0, secret |-> FALSE, valid |-> FALSE, token |-> 0]

\* A request on its way, with the cookies and the token it was sent with.
Sent(r, cookies, valid) ==
  [at |-> "loading", page |-> Blank, req |-> r, session |-> cookies.session,
   challenge |-> cookies.challenge, secret |-> cookies.secret, valid |-> valid, token |-> 0]

Init ==
  /\ scene \in Scenes
  /\ account = scene.account
  /\ sessions = << >>
  /\ challenges = << >>
  /\ jar = [session |-> 0, challenge |-> 0, secret |-> FALSE]
  /\ tab = [t \in Tabs |-> Idle([Blank EXCEPT !.view = "blank"])]
  /\ stale = {}
  /\ only = None
  /\ proved = None

(***************************************************************************)
(* What the policy says of this host's accounts: staff on the console,     *)
(* buyers and stores elsewhere.                                            *)
(***************************************************************************)
Permits(method) == host # "console" \/ method # "email"

HasFactor == account.factors # {}

\* Only the two actions a page of the site leads to.
Actions == {"password", "factors"}

\* A step-up that is not remembered by the session.
NeedsStepUp_Again(s) == HasFactor

\* Both ask whoever has a second factor, unless proved a moment ago.
NeedsStepUp(s) == HasFactor /\ ~sessions[s].stepped

Locks(a, method) == a.locked /\ method \in {"totp", "email"}

\* What a challenge of account a accepts.
Answerable(a) == {m \in a.factors : Permits(m) /\ ~Locks(a, m)}
Recovery(a)   == a.codes = "left"
CanBeRight(a, m) == m \in Answerable(a) \/ (m = "recovery" /\ Recovery(a))

Strongest(ms) ==
  CASE "webauthn" \in ms -> "webauthn"
    [] "webauthn" \notin ms /\ "totp" \in ms -> "totp"
    [] ms = {"email"} -> "email"

\* The method a challenge page shows: the one chosen, or the strongest, or none.
ShownMethod(a, chosen) ==
  CASE CanBeRight(a, chosen) -> chosen
    [] ~CanBeRight(a, chosen) /\ Answerable(a) # {} -> Strongest(Answerable(a))
    [] ~CanBeRight(a, chosen) /\ Answerable(a) = {} -> IF Recovery(a) THEN "recovery" ELSE ""

(***************************************************************************)
(* The routes of each host, and what stands in front of each handler.      *)
(***************************************************************************)
Both(paths)   == {"GET", "POST"} \X paths
Enrolment     == {"/account/security/app", "/account/security/key"}

PlatformRoutes == {<<"GET", "/">>, <<"POST", "/language">>}

StoreRoutes ==
  PlatformRoutes
  \union Both({"/signup", "/verify", "/verify/resend", "/signin", "/signin/verify",
               "/account/password", "/account/verify", "/account/security/email"} \union Enrolment)
  \union {"GET"} \X {"/account/security"}
  \union {"POST"} \X {"/signout", "/signin/verify/email", "/account/verify/email",
                      "/account/security/remove", "/account/security/recovery",
                      "/account/security/email/send"}

ConsoleRoutes ==
  PlatformRoutes
  \union Both({"/setup", "/signin", "/signin/verify", "/account/password", "/account/verify"}
              \union Enrolment)
  \union {"GET"} \X {"/enrol", "/account/security"}
  \union {"POST"} \X {"/signout", "/account/security/remove", "/account/security/recovery"}

Routes ==
  CASE host = "store" -> StoreRoutes
    [] host = "console" -> ConsoleRoutes
    [] OTHER -> PlatformRoutes

\* What each changes: the pages behind a step-up, by the action it is for.
ChangesFactors ==
  Enrolment \union {"/account/security/email", "/account/security/email/send",
                    "/account/security/remove", "/account/security/recovery"}
Guarded(path) ==
  CASE path = "/account/password" -> "password"
    [] path \in ChangesFactors -> "factors"
    [] OTHER -> ""

SignedInOnly(path) ==
  \/ path \in ChangesFactors \union {"/account/security", "/account/password",
                                     "/account/verify", "/account/verify/email"}
  \/ host = "console" /\ path \in {"/", "/enrol"}

\* Enrolling a key waits for a factor as well: nobody can enrol.
Secured_Enrolment(path) == host = "console" /\ SignedInOnly(path)

\* The account's own pages are left out: a session half enrolled reads them.
Secured_HomeOnly(path) == host = "console" /\ path = "/"

\* On the console, what waits for the first factor.
Secured(path) == host = "console" /\ SignedInOnly(path) /\ path \notin Enrolment \union {"/enrol"}

\* Where a step-up in front of path returns to.
Back(path) ==
  CASE path = "/account/security/email/send" -> "/account/security/email"
    [] path \in {"/account/security/remove", "/account/security/recovery"} -> "/account/security"
    [] OTHER -> path

RateLimited ==
  {"/signup", "/verify/resend", "/signin", "/signin/verify", "/signin/verify/email",
   "/account/password", "/account/verify", "/account/verify/email", "/setup"}

(***************************************************************************)
(* A request in the server's hands, and how far it gets.                   *)
(***************************************************************************)
Req(t) == tab[t].req
Args(t) == Req(t).args
Loading(t) == tab[t].at = "loading"

\* The session the middleware finds, or 0.
Me(t) == IF tab[t].session \in DOMAIN sessions THEN tab[t].session ELSE 0

Admitted(t)  == Req(t).verb = "GET" \/ tab[t].valid
Routed(t)    == Admitted(t) /\ host # "preparing" /\ <<Req(t).verb, Req(t).path>> \in Routes
Known(t)     == Routed(t) /\ (SignedInOnly(Req(t).path) => Me(t) # 0)
Furnished(t) == Known(t) /\ (Secured(Req(t).path) => HasFactor)
Open(t)      == Furnished(t) /\ (Guarded(Req(t).path) # "" => ~NeedsStepUp(Me(t)))

At(t, verb, path) == Loading(t) /\ Req(t).verb = verb /\ Req(t).path = path /\ Open(t)

(***************************************************************************)
(* The answer.  Its cookies: a session cookie that opens nothing is        *)
(* cleared, and a browser with no CSRF secret is given one.                *)
(***************************************************************************)
Cookies(t) ==
  [jar EXCEPT !.session = IF tab[t].session # 0 /\ Me(t) = 0 THEN 0 ELSE @, !.secret = TRUE]

\* An answer with cookies; renewed when it carries a new CSRF secret too.
Reply(t, cookies, renewed, next) ==
  LET new  == renewed \/ ~tab[t].secret
      old  == IF new THEN Tabs \ {t} ELSE stale
  IN /\ jar' = cookies
     /\ tab' = [tab EXCEPT ![t] = next]
     /\ stale' = IF next.at = "loading" \/ ~tab[t].secret THEN old \ {t} ELSE old
     /\ only' = IF next.at = "idle"
                THEN IF /\ t \notin stale'
                        /\ <<jar.session, jar.challenge>> = <<tab[t].session, tab[t].challenge>>
                     THEN t ELSE None
                ELSE IF only = t THEN t ELSE None
     /\ UNCHANGED scene

Show(t, page) == Reply(t, Cookies(t), FALSE, Idle(page))
Go(t, r)      == Reply(t, Cookies(t), FALSE, Sent(r, Cookies(t), TRUE))
GoWith(t, cookies, renewed, r) == Reply(t, cookies, renewed, Sent(r, cookies, TRUE))

\* What the server keeps of ss and cs: a token the browser does not hold is
\* forgotten, a session's one answer after its cookie was lost.
Store(ss, cs) ==
  LET heldChallenges == {jar'.challenge} \union UNION {{tab'[u].challenge, tab'[u].token} : u \in Tabs}
      kept == Restrict(cs, DOMAIN cs \intersect heldChallenges)
      heldSessions == {jar.session, jar'.session} \union {tab'[u].session : u \in Tabs}
  IN /\ challenges' = kept
     /\ sessions' = Restrict(ss, DOMAIN ss \intersect heldSessions)

Keep == Store(sessions, challenges)

\* Tokens never met before: none held, none named.
NewSession ==
  LET used == {jar.session} \union DOMAIN sessions \union {tab[t].session : t \in Tabs}
                \union {challenges[c].session : c \in DOMAIN challenges}
  IN CHOOSE n \in Tokens : n \notin used /\ \A m \in 1..(n - 1) : m \in used
NewChallenge ==
  LET used == {jar.challenge} \union DOMAIN challenges
                \union UNION {{tab[t].challenge, tab[t].token} : t \in Tabs}
  IN CHOOSE n \in Tokens : n \notin used /\ \A m \in 1..(n - 1) : m \in used

With(f, key, value) == [x \in DOMAIN f \union {key} |-> IF x = key THEN value ELSE f[x]]
Without(f, keys) == Restrict(f, DOMAIN f \ keys)

\* Nothing but t's own requests since it proved a second factor.
StillProved(t) == proved' = IF proved = t THEN t ELSE None

\* A page of the site, prepared for t's request.
PageAt(t, view, path) ==
  [Blank EXCEPT !.view = view, !.path = path,
                !.args = IF Req(t).verb = "GET" THEN Args(t) ELSE NoArgs,
                !.signed = Me(t) # 0,
                !.menu = host = "console" /\ Me(t) # 0 /\ HasFactor]
Page(t, view) == PageAt(t, view, Req(t).path)

\* Answers that change nothing but the cookies.
Shows(t, page) == Show(t, page) /\ Keep /\ StillProved(t) /\ UNCHANGED account
Goes(t, r)     == Go(t, r) /\ Keep /\ StillProved(t) /\ UNCHANGED account

Bad(view) == [Blank EXCEPT !.view = view]

(***************************************************************************)
(* The requests no handler sees.                                           *)
(***************************************************************************)
\* The general limit runs before the CSRF check: the answer carries no cookie.
RefusedEarly(t) ==
  /\ Loading(t)
  /\ tab' = [tab EXCEPT ![t] = Idle(Bad("refused"))]
  /\ only' = IF only = t THEN t ELSE None
  /\ UNCHANGED <<scene, account, jar, stale>>
  /\ Keep /\ StillProved(t)

\* The CSRF check runs before the session is looked up.
Forbidden(t) ==
  /\ Loading(t) /\ ~Admitted(t)
  /\ Reply(t, [jar EXCEPT !.secret = TRUE], FALSE, Idle(Bad("forbidden")))
  /\ Keep /\ StillProved(t) /\ UNCHANGED account

InPreparation(t) ==
  /\ Loading(t) /\ Admitted(t) /\ host = "preparing"
  /\ Reply(t, [jar EXCEPT !.secret = TRUE], FALSE, Idle(Bad("Preparing")))
  /\ Keep /\ StillProved(t) /\ UNCHANGED account

NotFound(t) ==
  /\ Loading(t) /\ Admitted(t) /\ host # "preparing" /\ ~Routed(t)
  /\ Shows(t, Bad("missing"))

ToSignIn(t) == Loading(t) /\ Routed(t) /\ ~Known(t) /\ Goes(t, Get("/signin"))

ToEnrol(t) == Loading(t) /\ Known(t) /\ ~Furnished(t) /\ Goes(t, Get("/enrol"))

ToStepUp(t) ==
  /\ Loading(t) /\ Furnished(t) /\ ~Open(t)
  /\ Goes(t, GetWith("/account/verify", [NoArgs EXCEPT !.for = Guarded(Req(t).path),
                                                       !.next = Back(Req(t).path)]))

\* A route's own limit, counted only for who may use the route.
Refused(t) ==
  /\ Loading(t) /\ Open(t) /\ Req(t).verb = "POST" /\ Req(t).path \in RateLimited
  /\ Shows(t, Bad("refused"))

(***************************************************************************)
(* The site's own pages.                                                   *)
(***************************************************************************)
HomeView == CASE host = "store" -> "Home" [] host = "console" -> "ConsoleHome" [] OTHER -> "Platform"
HomePage(t) == At(t, "GET", "/") /\ Shows(t, Page(t, HomeView))

SwitchLanguage(t) ==
  /\ At(t, "POST", "/language")
  /\ Goes(t, GetWith(Args(t).to, [Args(t) EXCEPT !.to = ""]))

SignUpForm(t) == At(t, "GET", "/signup") /\ Shows(t, Page(t, "SignUp"))

\* The same page answers whether or not the address was free.
SignUpPost(t) ==
  /\ At(t, "POST", "/signup")
  /\ \/ Shows(t, Page(t, "SignUp"))
     \/ /\ account' = IF account.status = "none"
                      THEN [account EXCEPT !.status = "unverified", !.links = 1] ELSE account
        /\ Show(t, Page(t, "CheckEmail"))
        /\ Keep /\ StillProved(t)

VerifyForm(t) == At(t, "GET", "/verify") /\ Shows(t, Page(t, "Verify"))

VerifyPost(t) ==
  /\ At(t, "POST", "/verify")
  /\ IF Args(t).item = "link" /\ account.links > 0
     THEN /\ account' = [account EXCEPT !.status = "verified", !.links = @ - 1]
          /\ Go(t, Get("/signin")) /\ Keep /\ StillProved(t)
     ELSE Shows(t, [Page(t, "Verify") EXCEPT !.spent = TRUE])

ResendForm(t) == At(t, "GET", "/verify/resend") /\ Shows(t, Page(t, "Resend"))

ResendPost(t) ==
  /\ At(t, "POST", "/verify/resend")
  /\ account' = IF account.status = "unverified" /\ account.links < MaxLinks
                THEN [account EXCEPT !.links = @ + 1] ELSE account
  /\ Show(t, [Page(t, "Resend") EXCEPT !.spent = TRUE])
  /\ Keep /\ StillProved(t)

(***************************************************************************)
(* Signing in, with and without a second step, and out.                    *)
(***************************************************************************)
NewRow(stepped) == [stepped |-> stepped, enrolling |-> "none", endFailed |-> FALSE]

\* The sessions once the one the request's cookie opened is ended, or could
\* not be: its handler logs that and goes on.
Ended(t) ==
  {Without(sessions, {tab[t].session}),
   [s \in DOMAIN sessions |-> [sessions[s] EXCEPT !.endFailed = @ \/ s = tab[t].session]]}

\* The session the request's cookie opened is left open.
OpenSession_Another(t, cookies, stepped, r, cs) ==
  LET s == NewSession
  IN /\ GoWith(t, [cookies EXCEPT !.session = s], TRUE, r)
     /\ Store(With(sessions, s, NewRow(stepped)), cs)

\* The session the request's cookie opened is ended, and the secret renewed.
OpenSession(t, cookies, stepped, r, cs) ==
  LET s == NewSession
  IN /\ GoWith(t, [cookies EXCEPT !.session = s], TRUE, r)
     /\ \E ss \in Ended(t) : Store(With(ss, s, NewRow(stepped)), cs)

SignInPage(t) == At(t, "GET", "/signin") /\ Shows(t, Page(t, "SignIn"))

SignInPost(t) ==
  /\ At(t, "POST", "/signin")
  /\ \/ Shows(t, Page(t, "SignIn"))
     \/ /\ account.status = "verified" /\ HasFactor
        /\ LET c == NewChallenge
           IN /\ GoWith(t, [Cookies(t) EXCEPT !.challenge = c], FALSE, Get("/signin/verify"))
              /\ Store(sessions, With(challenges, c, [session |-> 0, action |-> ""]))
        /\ StillProved(t) /\ UNCHANGED account
     \/ /\ account.status = "verified" /\ ~HasFactor
        /\ OpenSession(t, Cookies(t), FALSE, Get("/"), challenges)
        /\ proved' = None /\ UNCHANGED account

\* The challenge token c opened can be answered by session s (0 at sign-in).
Pending(c, s) == c \in DOMAIN challenges /\ challenges[c].session = s

\* A challenge's page, as the account is now.
ChallengePageAt(t, a, path, args, action, next, chosen) ==
  [PageAt(t, "ChallengePage", path) EXCEPT
     !.args = IF Req(t).verb = "GET" THEN Args(t) ELSE [args EXCEPT !.method = ShownMethod(a, chosen)],
     !.action = action, !.next = next,
     !.has = Answerable(a) \union (IF Recovery(a) THEN {"recovery"} ELSE {}),
     !.shown = ShownMethod(a, chosen)]

SecondStepPage(t, a, chosen) == ChallengePageAt(t, a, "/signin/verify", NoArgs, "", "", chosen)

ToSignInAgain(t, cs) ==
  GoWith(t, [Cookies(t) EXCEPT !.challenge = 0], FALSE, Get("/signin")) /\ Store(sessions, cs)

BackToSignIn(t) == ToSignInAgain(t, challenges) /\ StillProved(t) /\ UNCHANGED account

SecondStep(t) ==
  /\ At(t, "GET", "/signin/verify")
  /\ IF Pending(tab[t].challenge, 0)
     THEN Shows(t, SecondStepPage(t, account, Args(t).method))
     ELSE BackToSignIn(t)

\* A right answer lifts the lock; a recovery code may be the last.
RightAnswer(m) ==
  \E left \in {"left", "used"} :
     account' = [account EXCEPT !.locked = FALSE,
                                !.codes = IF m = "recovery" THEN left ELSE @]

\* A wrong one with a second factor may be the one that locks the codes.
WrongAnswer(m) ==
  \E locked \in {account.locked} \union (IF m # "email" \/ "email" \in account.factors THEN {TRUE} ELSE {}) :
     account' = [account EXCEPT !.locked = locked]

AnswerSecondStep(t) ==
  /\ At(t, "POST", "/signin/verify")
  /\ LET m == Args(t).method
         c == tab[t].challenge
     IN \/ ~Pending(c, 0) /\ BackToSignIn(t)
        \/ /\ Pending(c, 0) /\ CanBeRight(account, m)
           /\ RightAnswer(m)
           /\ OpenSession(t, [Cookies(t) EXCEPT !.challenge = 0], TRUE,
                          IF m = "recovery" THEN Get("/account/security") ELSE Get("/"),
                          Without(challenges, {c}))
           /\ proved' = t
        \/ /\ Pending(c, 0)
           /\ WrongAnswer(m)
           /\ StillProved(t)
           /\ \/ ToSignInAgain(t, Without(challenges, {c}))
              \/ Show(t, SecondStepPage(t, account', m)) /\ Keep

SendSecondStepCode(t) ==
  /\ At(t, "POST", "/signin/verify/email")
  /\ LET c == tab[t].challenge
         sent == [NoArgs EXCEPT !.method = "email", !.sent = TRUE]
     IN \/ ~Pending(c, 0) /\ BackToSignIn(t)
        \/ /\ Pending(c, 0) /\ "email" \notin Answerable(account)
           /\ IF account.locked THEN Shows(t, SecondStepPage(t, account, "email"))
              ELSE Shows(t, Bad("missing"))
        \/ /\ Pending(c, 0) /\ "email" \in Answerable(account)
           /\ \/ Goes(t, GetWith("/signin/verify", sent))
              \/ Shows(t, SecondStepPage(t, account, "email"))

SignOut(t) ==
  /\ At(t, "POST", "/signout")
  /\ GoWith(t, [Cookies(t) EXCEPT !.session = 0], FALSE, Get("/"))
  /\ \E ss \in Ended(t) : Store(ss, challenges)
  /\ proved' = None /\ UNCHANGED account

(***************************************************************************)
(* The step-up.  Its page is read in a second transaction, after the one   *)
(* that found, opened or answered the challenge: "rendering".              *)
(***************************************************************************)
\* The page is still to be read, for the challenge token c.
Renders(t, c, ss, cs) ==
  /\ tab' = [tab EXCEPT ![t].at = "rendering", ![t].token = c]
  /\ only' = IF only = t THEN t ELSE None
  /\ StillProved(t)
  /\ UNCHANGED <<scene, jar, stale>>
  /\ Store(ss, cs)

StepUpPage(t) ==
  /\ At(t, "GET", "/account/verify")
  /\ LET action == Args(t).for
         c == tab[t].challenge
         live == Pending(c, Me(t)) /\ challenges[c].action = action
         nothing == Answerable(account) = {} /\ ~Recovery(account) /\ ~account.locked
     IN \/ action \notin Actions /\ Shows(t, Bad("missing"))
        \/ /\ action \in Actions /\ ~live /\ nothing
           /\ Shows(t, Bad("missing"))
        \/ /\ action \in Actions /\ live
           /\ Renders(t, c, sessions, challenges) /\ UNCHANGED account
        \/ /\ action \in Actions /\ ~live /\ ~nothing
           /\ LET new == NewChallenge
              IN Renders(t, new, sessions, With(challenges, new, [session |-> Me(t), action |-> action]))
           /\ UNCHANGED account

\* The answer to a GET names a method; to a request for a code, e-mail.
Chosen(t) == IF Req(t).path = "/account/verify/email" THEN "email" ELSE Args(t).method

Render(t) ==
  LET c == tab[t].token
      cookies == [jar EXCEPT !.challenge = IF c # tab[t].challenge THEN c ELSE @, !.secret = TRUE]
      page == ChallengePageAt(t, account, "/account/verify",
                [NoArgs EXCEPT !.for = Args(t).for, !.next = Args(t).next],
                challenges[c].action, Args(t).next, Chosen(t))
  IN /\ tab[t].at = "rendering"
     /\ Reply(t, cookies, FALSE,
              Idle(IF Pending(c, tab[t].session) THEN [page EXCEPT !.signed = TRUE] ELSE Bad("failed")))
     /\ Keep /\ StillProved(t) /\ UNCHANGED account

StepUpAgain(t) ==
  GetWith("/account/verify", [NoArgs EXCEPT !.for = Args(t).for, !.next = Args(t).next])

AnswerStepUp(t) ==
  /\ At(t, "POST", "/account/verify")
  /\ LET m == Args(t).method
         c == tab[t].challenge
     IN \/ Args(t).for \notin Actions /\ Shows(t, Bad("missing"))
        \/ Args(t).for \in Actions /\ ~Pending(c, Me(t)) /\ Goes(t, StepUpAgain(t))
        \/ /\ Args(t).for \in Actions /\ Pending(c, Me(t)) /\ CanBeRight(account, m)
           /\ RightAnswer(m)
           /\ GoWith(t, [Cookies(t) EXCEPT !.challenge = 0], FALSE, Get(Args(t).next))
           /\ Store([sessions EXCEPT ![Me(t)].stepped = TRUE], Without(challenges, {c}))
           /\ proved' = t
        \/ /\ Args(t).for \in Actions /\ Pending(c, Me(t))
           /\ WrongAnswer(m)
           /\ \/ /\ Go(t, StepUpAgain(t)) /\ Store(sessions, Without(challenges, {c}))
                 /\ StillProved(t)
              \/ Renders(t, c, sessions, challenges)

SendStepUpCode(t) ==
  /\ At(t, "POST", "/account/verify/email")
  /\ LET c == tab[t].challenge
         sent == [StepUpAgain(t) EXCEPT !.args.method = "email", !.args.sent = TRUE]
     IN \/ Args(t).for \notin Actions /\ Shows(t, Bad("missing"))
        \/ Args(t).for \in Actions /\ ~Pending(c, Me(t)) /\ Goes(t, StepUpAgain(t))
        \/ /\ Args(t).for \in Actions /\ Pending(c, Me(t)) /\ "email" \notin Answerable(account)
           /\ IF account.locked THEN Renders(t, c, sessions, challenges) /\ UNCHANGED account
              ELSE Shows(t, Bad("missing"))
        \/ /\ Args(t).for \in Actions /\ Pending(c, Me(t)) /\ "email" \in Answerable(account)
           /\ \/ Goes(t, sent)
              \/ Renders(t, c, sessions, challenges) /\ UNCHANGED account

(***************************************************************************)
(* The password, and the second factors.                                   *)
(***************************************************************************)
PasswordForm(t) == At(t, "GET", "/account/password") /\ Shows(t, Page(t, "Password"))

\* Every session of the account ends, and every sign-in half way; the new one
\* keeps the step-up; the lock is lifted.
ChangePassword(t) ==
  /\ At(t, "POST", "/account/password")
  /\ \/ Shows(t, Page(t, "Password"))
     \/ /\ account' = [account EXCEPT !.locked = FALSE]
        /\ LET s == NewSession
           IN /\ GoWith(t, [Cookies(t) EXCEPT !.session = s], TRUE, Get("/account/password"))
              /\ Store([x \in {s} |-> NewRow(sessions[Me(t)].stepped)],
                       Restrict(challenges, {c \in DOMAIN challenges : challenges[c].session # 0}))
        /\ StillProved(t)

Security(t) ==
  /\ At(t, "GET", "/account/security")
  /\ Shows(t, [Page(t, "SecurityPage") EXCEPT !.has = account.factors])

\* A page of an enrolment, which the session now has in progress.
Enrols(t, view, kind) ==
  /\ Show(t, Page(t, view))
  /\ Store([sessions EXCEPT ![Me(t)].enrolling = kind], challenges)
  /\ StillProved(t) /\ UNCHANGED account

AppForm(t) == At(t, "GET", "/account/security/app") /\ Enrols(t, "EnrolApp", "totp")
KeyForm(t) == At(t, "GET", "/account/security/key") /\ Enrols(t, "EnrolKey", "webauthn")

\* The first app or key brings the recovery codes, shown once.
AddFactor(t, kind) ==
  LET first == account.codes = "none" /\ kind # "email"
  IN /\ account' = [account EXCEPT !.factors = @ \union {kind},
                                   !.codes = IF first THEN "left" ELSE @]
     /\ IF first THEN Show(t, PageAt(t, "RecoveryCodes", "/account/security"))
        ELSE Go(t, Get("/account/security"))
     /\ Store([sessions EXCEPT ![Me(t)].enrolling = IF kind = "email" THEN @ ELSE "none"], challenges)
     /\ StillProved(t)

\* One factor of each kind is the bound: a second of a kind is never proved.
AddApp(t) ==
  /\ At(t, "POST", "/account/security/app")
  /\ IF sessions[Me(t)].enrolling = "totp"
     THEN Shows(t, Page(t, "EnrolApp")) \/ ("totp" \in Kinds \ account.factors /\ AddFactor(t, "totp"))
     ELSE Goes(t, Get("/account/security/app"))

AddKey(t) ==
  /\ At(t, "POST", "/account/security/key")
  /\ \/ Enrols(t, "EnrolKey", "webauthn")
     \/ sessions[Me(t)].enrolling # "webauthn" /\ Goes(t, Get("/account/security/key"))
     \/ /\ sessions[Me(t)].enrolling = "webauthn" /\ "webauthn" \in Kinds \ account.factors
        /\ AddFactor(t, "webauthn")

EmailForm(t) ==
  /\ At(t, "GET", "/account/security/email")
  /\ Shows(t, [Page(t, "EnrolEmail") EXCEPT !.asks = Args(t).sent])

SendEmailCode(t) ==
  /\ At(t, "POST", "/account/security/email/send")
  /\ IF "email" \in account.factors THEN Goes(t, Get("/account/security"))
     ELSE \/ Goes(t, GetWith("/account/security/email", [NoArgs EXCEPT !.sent = TRUE]))
          \/ Shows(t, [PageAt(t, "EnrolEmail", "/account/security/email") EXCEPT !.asks = TRUE])

AddEmail(t) ==
  /\ At(t, "POST", "/account/security/email")
  /\ IF "email" \in account.factors THEN Goes(t, Get("/account/security"))
     ELSE \/ Shows(t, [Page(t, "EnrolEmail") EXCEPT !.asks = TRUE])
          \/ "email" \in Kinds /\ AddFactor(t, "email")

\* Staff keep one; anybody else's last takes the recovery codes with it.
RemoveFactor(t) ==
  /\ At(t, "POST", "/account/security/remove")
  /\ LET kept == account.factors \ {Args(t).item}
     IN \/ Args(t).item \notin account.factors /\ Shows(t, Bad("missing"))
        \/ /\ kept # account.factors /\ kept = {} /\ host = "console"
           /\ Shows(t, [PageAt(t, "SecurityPage", "/account/security") EXCEPT !.has = account.factors])
        \/ /\ kept # account.factors /\ (kept # {} \/ host # "console")
           /\ account' = [account EXCEPT !.factors = kept,
                                         !.codes = IF kept = {} THEN "none" ELSE @]
           /\ Go(t, Get("/account/security")) /\ Keep /\ StillProved(t)

RegenerateCodes(t) ==
  /\ At(t, "POST", "/account/security/recovery")
  /\ IF HasFactor
     THEN /\ account' = [account EXCEPT !.codes = "left"]
          /\ Show(t, PageAt(t, "RecoveryCodes", "/account/security")) /\ Keep /\ StillProved(t)
     ELSE Goes(t, Get("/account/security"))

(***************************************************************************)
(* The console's own pages.                                                *)
(***************************************************************************)
EnrolPage(t) ==
  /\ At(t, "GET", "/enrol")
  /\ IF HasFactor THEN Goes(t, Get("/")) ELSE Shows(t, Page(t, "ConsoleEnrol"))

\* The first run, while there is no owner.
SetupForm(t) ==
  /\ At(t, "GET", "/setup")
  /\ Shows(t, IF account.status = "none" THEN Page(t, "Setup") ELSE Bad("missing"))

SetupPost(t) ==
  /\ At(t, "POST", "/setup")
  /\ \/ Shows(t, IF account.status = "none" THEN Page(t, "Setup") ELSE Bad("missing"))
     \/ /\ account.status = "none"
        /\ account' = [account EXCEPT !.status = "verified"]
        /\ OpenSession(t, Cookies(t), FALSE, Get("/enrol"), challenges)
        /\ proved' = None

(***************************************************************************)
(* The person, and what happens elsewhere.                                 *)
(***************************************************************************)
Send(t, r) ==
  /\ tab' = [tab EXCEPT ![t] = Sent(r, jar, t \notin stale /\ tab[t].page.view # "Preparing")]
  /\ stale' = IF r.verb = "GET" THEN stale \ {t} ELSE stale
  /\ UNCHANGED <<scene, serverVars, jar, proved>>

\* Something the page offers.
Click(t) ==
  /\ t \in scene.tabs /\ tab[t].at = "idle"
  /\ \E r \in Offers(host, tab[t].page) : r.path \in scene.visits /\ Send(t, r)
  /\ UNCHANGED only

\* An address typed, or a link in a mail.
Type(t) ==
  /\ t \in scene.tabs /\ tab[t].at = "idle"
  /\ \E r \in scene.typed : Send(t, r)
  /\ only' = None

Elsewhere(ss, cs) ==
  /\ only' = None /\ proved' = None
  /\ UNCHANGED <<scene, jar, tab, stale>>
  /\ Store(ss, cs)

StepUpEnds ==
  \E s \in DOMAIN sessions :
     sessions[s].stepped /\ Elsewhere([sessions EXCEPT ![s].stepped = FALSE], challenges) /\ UNCHANGED account
EnrolmentEnds ==
  \E s \in DOMAIN sessions :
     /\ sessions[s].enrolling # "none"
     /\ Elsewhere([sessions EXCEPT ![s].enrolling = "none"], challenges) /\ UNCHANGED account
SessionEnds ==
  \E s \in DOMAIN sessions : Elsewhere(Without(sessions, {s}), challenges) /\ UNCHANGED account
ChallengeEnds ==
  \E c \in DOMAIN challenges : Elsewhere(sessions, Without(challenges, {c})) /\ UNCHANGED account
LinkEnds ==
  account.links > 0 /\ account' = [account EXCEPT !.links = @ - 1] /\ Elsewhere(sessions, challenges)
\* Another browser changes the password.
PasswordElsewhere ==
  /\ account.status = "verified"
  /\ account' = [account EXCEPT !.locked = FALSE]
  /\ Elsewhere(<< >>, Restrict(challenges, {c \in DOMAIN challenges : challenges[c].session # 0}))

\* A request is answered by its handler, or by what stands in front of it.
Answer(t) ==
  \/ Forbidden(t) \/ InPreparation(t) \/ NotFound(t)
  \/ ToSignIn(t) \/ ToEnrol(t) \/ ToStepUp(t)
  \/ HomePage(t) \/ SwitchLanguage(t)
  \/ SignUpForm(t) \/ SignUpPost(t) \/ VerifyForm(t) \/ VerifyPost(t) \/ ResendForm(t) \/ ResendPost(t)
  \/ SignInPage(t) \/ SignInPost(t) \/ SecondStep(t) \/ AnswerSecondStep(t)
  \/ SendSecondStepCode(t) \/ SignOut(t)
  \/ StepUpPage(t) \/ Render(t) \/ AnswerStepUp(t) \/ SendStepUpCode(t)
  \/ PasswordForm(t) \/ ChangePassword(t)
  \/ Security(t) \/ AppForm(t) \/ AddApp(t) \/ KeyForm(t) \/ AddKey(t)
  \/ EmailForm(t) \/ SendEmailCode(t) \/ AddEmail(t) \/ RemoveFactor(t) \/ RegenerateCodes(t)
  \/ EnrolPage(t) \/ SetupForm(t) \/ SetupPost(t)

Serve(t) == RefusedEarly(t) \/ Refused(t) \/ Answer(t)

Environment ==
  StepUpEnds \/ EnrolmentEnds \/ SessionEnds \/ ChallengeEnds \/ LinkEnds \/ PasswordElsewhere

Next ==
  \/ \E t \in Tabs : Serve(t) \/ Click(t) \/ Type(t)
  \/ scene.elsewhere /\ Environment

\* The server answers every request it is sent, and no limit has to refuse one.
Fairness == \A t \in Tabs : WF_vars(Answer(t))

Spec == Init /\ [][Next]_vars /\ Fairness

(***************************************************************************)
(* Properties.                                                             *)
(***************************************************************************)
DeadEnds == {"forbidden", "missing", "failed"}

\* What a page offers is served, when nothing else has happened since it was
\* shown: no link leads to a page that is not there, no form to a refusal of
\* its token, no redirect to an error.
OffersWork ==
  [][\A t \in Tabs : only = t /\ tab[t].at # "idle" /\ tab'[t].at = "idle"
                       => tab'[t].page.view \notin DeadEnds]_vars

\* The language switch of the page in front of the person is served:
\* "LanguageSwitch is the manual choice every page carries".
SwitchServed ==
  [][\A t \in Tabs : only = t /\ tab[t].req.path = "/language" /\ tab[t].at # "idle"
                       => tab'[t].page.view \notin DeadEnds]_vars

\* A second factor proved in a tab lets that tab go on without being asked again.
NotAskedTwice == [][\A t \in Tabs : proved = t => ~ToStepUp(t)]_vars

\* The console shows its pages only to a staff member who has a second factor,
\* and who goes on having one for as long as the page is open.
ConsoleNeedsFactor ==
  host = "console" =>
    \A t \in Tabs : tab[t].page.view \in {"ConsoleHome", "SecurityPage", "Password"} => HasFactor

\* The browser loses the cookie of a live session in two ways only: to an
\* answer whose request was sent before that cookie was there, or to an answer
\* that tried to end the session and could not.
NoneLeftBehind ==
  [][\A s \in DOMAIN sessions' : s = jar.session /\ s # jar'.session
       => sessions'[s].endFailed \/ \E t \in Tabs : tab'[t] # tab[t] /\ tab[t].session # s]_vars

\* A session whose cookie another takes the place of is ended, if nothing fails:
\* "the cookie is about to be replaced, and a session nobody holds a cookie for
\* must not stay valid on the server".
ReplacedIsEnded ==
  [][\A s \in DOMAIN sessions' : s = jar.session /\ jar'.session \notin {0, s}
       => sessions'[s].endFailed]_vars

\* Every request ends on a page, however many redirects it takes.
LoadsEnd == \A t \in Tabs : tab[t].at # "idle" ~> tab[t].at = "idle"
=============================================================================
