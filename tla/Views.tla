------------------------------- MODULE Views -------------------------------
(***************************************************************************)
(* What each page of the site offers: the links it shows and the forms it  *)
(* posts, as the set of requests a person can make from it.  One operator  *)
(* per template of src/web.  Words, fields and layout are left out; what a *)
(* form carries besides what the person types is kept, because the         *)
(* handlers read it back (what a step-up guards, where it returns to).     *)
(*                                                                         *)
(* A page is prepared before it is rendered (web.Page and the view structs *)
(* beside it), and a template reads nothing else:                          *)
(*   view            the template                                          *)
(*   path, args      its address and the query the language switch repeats *)
(*   signed, menu    the account named in the header; the console's menu   *)
(*   has             factors the account has, or methods a challenge takes *)
(*   shown           the method a challenge page asks for                  *)
(*   action, next    what a step-up guards and where it returns to         *)
(*   asks            the code's form is shown (a code was sent or refused) *)
(*   spent           the page's own form is gone: sent, or no longer good  *)
(***************************************************************************)

Methods == {"webauthn", "totp", "email"}

\* The arguments of a request: its query, or the fields of its form.
NoArgs == [for |-> "", next |-> "", method |-> "", item |-> "", to |-> "", sent |-> FALSE]

Get(path)           == [verb |-> "GET", path |-> path, args |-> NoArgs]
GetWith(path, args) == [verb |-> "GET", path |-> path, args |-> args]
Post(path)          == [verb |-> "POST", path |-> path, args |-> NoArgs]
PostWith(path, args) == [verb |-> "POST", path |-> path, args |-> args]

Blank == [view |-> "", path |-> "/", args |-> NoArgs, signed |-> FALSE, menu |-> FALSE,
          has |-> {}, shown |-> "", action |-> "", next |-> "", asks |-> FALSE, spent |-> FALSE]

\* A new tab, and the answers that are not a page: a few words, no way on.
Bare == {"blank", "forbidden", "refused", "missing", "failed"}

(***************************************************************************)
(* The shells.                                                             *)
(***************************************************************************)
\* One form per language; it posts the page's own address back.
LanguageSwitch(p) == {PostWith("/language", [p.args EXCEPT !.to = p.path])}

\* The way out and the account's pages, or the two ways in.
SignedInNav  == {Post("/signout"), Get("/account/password"), Get("/account/security")}
SignedOutNav == {Get("/signin"), Get("/signup")}
AccountNav(p) == IF p.signed THEN SignedInNav ELSE SignedOutNav

ConsoleMenu(p) ==
  IF p.menu THEN {Get("/"), Get("/account/security"), Get("/account/password")} ELSE {}

ConsoleLayout(p) ==
  LanguageSwitch(p) \union (IF p.signed THEN {Post("/signout")} ELSE {}) \union ConsoleMenu(p)

\* Accounts exist where a marketplace serves: page.Accounts.
StoreLayout(host, p) ==
  LanguageSwitch(p) \union (IF host = "store" THEN AccountNav(p) ELSE {})

Layout(host, p) == IF host = "console" THEN ConsoleLayout(p) ELSE StoreLayout(host, p)

(***************************************************************************)
(* The identity pages.                                                     *)
(***************************************************************************)
Home(p)        == {}
Preparing(p)   == {}
Platform(p)    == {}
ConsoleHome(p) == {}

SignUp(p)     == {Post("/signup"), Get("/signin")}
CheckEmail(p) == {Get("/verify/resend")}

Verify(p) ==
  IF p.spent THEN {Get("/verify/resend")}
  ELSE {PostWith("/verify", [NoArgs EXCEPT !.item = p.args.item])}

Resend(p) == IF p.spent THEN {} ELSE {Post("/verify/resend")}

SignInForm(p)        == {Post("/signin")}
SignInLinks(host, p) == IF host = "console" THEN {} ELSE {Get("/signup"), Get("/verify/resend")}

Password(p) == {Post("/account/password")}
Setup(p)    == {Post("/setup")}

ConsoleEnrol(p) == {Get("/account/security/key"), Get("/account/security/app")}

(***************************************************************************)
(* The challenge page: the second step of a sign-in when it guards no      *)
(* action, a step-up when it does.                                         *)
(***************************************************************************)
StepUpArgs(p) == [NoArgs EXCEPT !.for = p.action, !.next = p.next]

\* The form an answer is posted in.
ChallengeForm(p) ==
  IF p.action = ""
  THEN {PostWith("/signin/verify", [NoArgs EXCEPT !.method = p.shown])}
  ELSE {PostWith("/account/verify", [StepUpArgs(p) EXCEPT !.method = p.shown])}

\* The form that asks for a code by e-mail.
SendCodeForm(p) ==
  IF p.action = "" THEN {Post("/signin/verify/email")}
  ELSE {PostWith("/account/verify/email", StepUpArgs(p))}

ChallengeMethod(p) ==
  ChallengeForm(p) \union (IF p.shown = "email" THEN SendCodeForm(p) ELSE {})

\* The links to the other methods complete the page's own address (Base),
\* which names the action the request named.
ChallengeOthers(p) ==
  {GetWith(p.path, [NoArgs EXCEPT !.for = p.args.for, !.next = p.next, !.method = m]) :
     m \in p.has \ {p.shown}}

ChallengePage(p) ==
  ChallengeOthers(p) \union (IF p.shown = "" THEN {} ELSE ChallengeMethod(p))

(***************************************************************************)
(* The security page and the pages that add a second factor.               *)
(***************************************************************************)
SecurityFactors(p) ==
  {PostWith("/account/security/remove", [NoArgs EXCEPT !.item = m]) : m \in p.has}

\* E-mail offered to staff, whom the policy does not permit it.
SecurityAdd_Everyone(host, p) ==
  {Get("/account/security/key"), Get("/account/security/app")}
    \union (IF "email" \in p.has THEN {} ELSE {Get("/account/security/email")})

\* E-mail is offered once, and never to staff.
SecurityAdd(host, p) ==
  {Get("/account/security/key"), Get("/account/security/app")}
    \union (IF "email" \in p.has \/ host = "console" THEN {} ELSE {Get("/account/security/email")})

SecurityRecovery(p) == IF p.has = {} THEN {} ELSE {Post("/account/security/recovery")}

SecurityPage(host, p) ==
  SecurityFactors(p) \union SecurityAdd(host, p) \union SecurityRecovery(p)

BackLink == {Get("/account/security")}

EnrolApp(p)      == {Post("/account/security/app")} \union BackLink
EnrolKey(p)      == {Post("/account/security/key")} \union BackLink
RecoveryCodes(p) == BackLink
EmailCodeForm == {Post("/account/security/email")}
EnrolEmail(p) ==
  {Post("/account/security/email/send")} \union BackLink \union (IF p.asks THEN EmailCodeForm ELSE {})

(***************************************************************************)
(* Everything a page offers.                                               *)
(***************************************************************************)
Content(host, p) ==
  CASE p.view = "SignUp"        -> SignUp(p)
    [] p.view = "CheckEmail"    -> CheckEmail(p)
    [] p.view = "Verify"        -> Verify(p)
    [] p.view = "Resend"        -> Resend(p)
    [] p.view = "SignIn"        -> SignInForm(p) \union SignInLinks(host, p)
    [] p.view = "Password"      -> Password(p)
    [] p.view = "ChallengePage" -> ChallengePage(p)
    [] p.view = "SecurityPage"  -> SecurityPage(host, p)
    [] p.view = "EnrolApp"      -> EnrolApp(p)
    [] p.view = "EnrolKey"      -> EnrolKey(p)
    [] p.view = "EnrolEmail"    -> EnrolEmail(p)
    [] p.view = "RecoveryCodes" -> RecoveryCodes(p)
    [] p.view = "ConsoleEnrol"  -> ConsoleEnrol(p)
    [] p.view = "ConsoleHome"   -> ConsoleHome(p)
    [] p.view = "Setup"         -> Setup(p)
    [] p.view = "Home"          -> Home(p)
    [] p.view = "Platform"      -> Platform(p)
    [] p.view = "Preparing"     -> Preparing(p)

Offers(host, p) ==
  IF p.view \in Bare THEN {} ELSE Layout(host, p) \union Content(host, p)
=============================================================================
