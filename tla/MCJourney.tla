----------------------------- MODULE MCJourney -----------------------------
(***************************************************************************)
(* Small scenes of Journey: one tab through everything a store, the        *)
(* console and the platform's host offer, and two tabs through signing in, *)
(* signing out and changing the password.                                  *)
(***************************************************************************)
EXTENDS Journey

CONSTANTS a, b

Link == GetWith("/verify", [NoArgs EXCEPT !.item = "link"])

Everywhere ==
  {"/", "/language"} \union {r[2] : r \in StoreRoutes \union ConsoleRoutes}

Scene(h, kinds, typed) ==
  [host |-> h, account |-> NoAccount, kinds |-> kinds, tabs |-> {a}, typed |-> typed,
   visits |-> Everywhere, elsewhere |-> TRUE]

Verified == [NoAccount EXCEPT !.status = "verified"]

\* Signing in and out, and changing the password, in two tabs.
TwoSignIns ==
  [host |-> "store", account |-> Verified, kinds |-> {}, tabs |-> {a, b}, typed |-> {Get("/signin")},
   visits |-> {"/signin", "/signout", "/account/password"}, elsewhere |-> FALSE]

\* A marketplace that does not serve yet: its page's own form is left out, and
\* left to the run that is about it.
Preparation == [Scene("preparing", {}, {Get("/")}) EXCEPT !.visits = {"/"}]

MCScenes ==
  {Scene("store", {"totp", "email"}, {Get("/"), Link}),
   Scene("console", {"webauthn"}, {Get("/"), Get("/setup")}),
   Scene("platform", {}, {Get("/"), Get("/signin")}), Preparation, TwoSignIns}

MCTwoSignIns == {TwoSignIns}

MCPreparing == {[Preparation EXCEPT !.visits = Everywhere]}
=============================================================================
