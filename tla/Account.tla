------------------------------ MODULE Account -------------------------------
(***************************************************************************)
(* What the password flows promise of one account, each as one step: a     *)
(* password opens a session, or a second step that opens one, and a new    *)
(* password ends them all but the session of the browser that asked.       *)
(* SignIn implements it.                                                   *)
(***************************************************************************)
CONSTANTS Token,     \* what a request can mint
          First      \* the password the account starts with

VARIABLES password,  \* named by the token of the change that set it
          live,      \* the sessions that still open the account
          waiting    \* the sign-ins waiting for their second step

avars == <<password, live, waiting>>

(* A session or a waiting sign-in, and the password that opened it. *)
Opened == [token : Token, password : Token \cup {First}]
By(t, w) == [token |-> t, password |-> w]

Init == password = First /\ live = {} /\ waiting = {}

SignIn(t) ==
  /\ live' = live \cup {By(t, password)}
  /\ UNCHANGED <<password, waiting>>

(* Sign-ins that can no longer be answered may go at the same time. *)
FirstStep(t) ==
  /\ \E gone \in SUBSET waiting : waiting' = (waiting \ gone) \cup {By(t, password)}
  /\ UNCHANGED <<password, live>>

SecondStep(c, t) ==
  /\ c \in waiting
  /\ waiting' = waiting \ {c}
  /\ live' = live \cup {By(t, c.password)}
  /\ UNCHANGED password

(* Expired, exhausted. *)
GiveUp ==
  /\ \E gone \in SUBSET waiting : waiting' = waiting \ gone
  /\ UNCHANGED <<password, live>>

ChangePassword(t) ==
  /\ password' = t
  /\ live' = {By(t, t)}
  /\ waiting' = {}

SignOut(s) ==
  /\ s \in live
  /\ live' = live \ {s}
  /\ UNCHANGED <<password, waiting>>

Next ==
  \/ \E t \in Token : SignIn(t) \/ FirstStep(t) \/ ChangePassword(t)
  \/ \E c \in waiting, t \in Token : SecondStep(c, t)
  \/ \E s \in live : SignOut(s)
  \/ GiveUp

Spec == Init /\ [][Next]_avars
=============================================================================
