---------------------------- MODULE MailDelivery ----------------------------
(***************************************************************************)
(* What mail's two consumers do inside outbox's Deliver, in one process:   *)
(* mail.send and mail.event (mail/mailer.go, mail/store.go), each with the *)
(* transaction of its claim open around it (outbox/consumer.go) and with   *)
(* transactions of its own, on connections of the same small pool          *)
(* (db/db.go). The queue calls back again until it is answered well, and   *)
(* sometimes after.                                                        *)
(*                                                                         *)
(* A transaction of one statement takes a connection, commits and gives it *)
(* back at once. What is typed in a message and what the languages are     *)
(* make no difference here, but for a template that does not exist. There  *)
(* is a database. The provider is external: it takes a message or not, and *)
(* its answer arrives or not.                                              *)
(***************************************************************************)
EXTENDS Integers, FiniteSets

CONSTANTS
  Sending,      \* messages the outbox hands over
  Report,       \* events that say they come from the provider
  Address,
  To,           \* the address of each
  Broken,       \* messages whose template does not exist
  Genuine,      \* reports the provider confirms
  Callback,     \* deliveries at once
  Connections,  \* connections of the pool
  Tries,        \* callbacks of an event
  None

Event == Sending \cup Report

ASSUME EventAssumption ==
  /\ Sending \cap Report = {} /\ None \notin Event
  /\ Broken \subseteq Sending /\ Genuine \subseteq Report
  /\ To \in [Event -> Address]
ASSUME CallbackAssumption == IsFiniteSet(Callback) /\ Callback # {}
ASSUME NumbersAssumption == Connections \in Nat \ {0} /\ Tries \in Nat

VARIABLES
  delivered,    \* events whose claim has committed
  suppression,  \* addresses never to be written to again
  log,          \* lines of the sending log, of each message and state
  callback,     \* each delivery
  tries,        \* callbacks made
  taken,        \* times the provider took each message
  unasked,      \* reports the provider refused to be asked about
  after         \* messages taken for each address after its suppression

vars == <<delivered, suppression, log, callback, tries, taken, unasked, after>>

State == {"sent", "skipped", "failed"}

Idle == [at |-> "idle", event |-> None, state |-> None]

Init ==
  /\ delivered = {}
  /\ suppression = {}
  /\ log = [m \in Sending |-> [s \in State |-> 0]]
  /\ callback = [h \in Callback |-> Idle]
  /\ tries = [e \in Event |-> 0]
  /\ taken = [m \in Sending |-> 0]
  /\ unasked = {}
  /\ after = [a \in Address |-> 0]

-----------------------------------------------------------------------------
(* A delivery keeps its transaction's connection from Begin to its end, and *)
(* one that asks for another waits while none is free.                     *)
Holding == {h \in Callback : callback[h].at \notin {"idle", "begin"}}

Free == Cardinality(Holding) < Connections

(* Those whose claim is written and not committed yet. *)
Claims(h) == callback[h].at \in {"check", "call", "record", "confirm", "suppress", "commit"}

Goto(h, at) ==
  callback' = [callback EXCEPT ![h] = [at |-> at, event |-> callback[h].event, state |-> None]]

Became(h, state) ==
  callback' = [callback EXCEPT ![h] = [at |-> "record", event |-> callback[h].event, state |-> state]]

End(h) == callback' = [callback EXCEPT ![h] = Idle]

(* The queue calls back. *)
Call(h, e) ==
  /\ callback[h].at = "idle"
  /\ tries[e] < Tries
  /\ tries' = [tries EXCEPT ![e] = @ + 1]
  /\ callback' = [callback EXCEPT ![h] = [at |-> "begin", event |-> e, state |-> None]]
  /\ UNCHANGED <<delivered, suppression, log, taken, unasked, after>>

Begin(h) ==
  /\ callback[h].at = "begin"
  /\ Free
  /\ Goto(h, "claim")
  /\ UNCHANGED <<delivered, suppression, log, tries, taken, unasked, after>>

(* claim: the insert waits for another of the same event, finds that it has *)
(* been handled, or goes on to the consumer of its kind.                   *)
Claim(h) ==
  LET e == callback[h].event IN
  /\ callback[h].at = "claim"
  /\ \A g \in Callback \ {h} : callback[g].event = e => ~Claims(g)
  /\ IF e \in delivered THEN End(h) ELSE Goto(h, IF e \in Sending THEN "check" ELSE "confirm")
  /\ UNCHANGED <<delivered, suppression, log, tries, taken, unasked, after>>

-----------------------------------------------------------------------------
(* mail.send *)

(* A slip: the list is not asked. *)
Check_NotAsked(h) ==
  /\ callback[h].at = "check"
  /\ Free
  /\ IF callback[h].event \in Broken THEN Became(h, "failed") ELSE Goto(h, "call")
  /\ UNCHANGED <<delivered, suppression, log, tries, taken, unasked, after>>

(* Send up to the provider's call: the suppression list is asked in a      *)
(* transaction of its own, and the template rendered.                      *)
Check(h) ==
  /\ callback[h].at = "check"
  /\ Free
  /\ IF To[callback[h].event] \in suppression THEN Became(h, "skipped")
     ELSE IF callback[h].event \in Broken THEN Became(h, "failed")
     ELSE Goto(h, "call")
  /\ UNCHANGED <<delivered, suppression, log, tries, taken, unasked, after>>

(* What the provider does with a message. *)
Takes(m, yes) ==
  /\ taken' = [taken EXCEPT ![m] = IF yes THEN @ + 1 ELSE @]
  /\ after' = [after EXCEPT ![To[m]] = IF yes /\ To[m] \in suppression THEN @ + 1 ELSE @]

(* A slip: any answer is taken for a yes. *)
Send_AnyAnswer(h) ==
  /\ callback[h].at = "call"
  /\ \E yes \in BOOLEAN : Takes(callback[h].event, yes)
  /\ Became(h, "sent")
  /\ UNCHANGED <<delivered, suppression, log, tries, unasked>>

(* The provider's call: an error is a refusal, or an answer that never came *)
(* of a message that was taken all the same.                               *)
Send(h) ==
  /\ callback[h].at = "call"
  /\ \E yes \in BOOLEAN : \E error \in BOOLEAN :
       /\ yes \/ error
       /\ Takes(callback[h].event, yes)
       /\ Became(h, IF error THEN "failed" ELSE "sent")
  /\ UNCHANGED <<delivered, suppression, log, tries, unasked>>

Line(h) == log' = [log EXCEPT ![callback[h].event][callback[h].state] = @ + 1]

(* A slip: a failure that was recorded is not returned. *)
Record_Swallowed(h) ==
  /\ callback[h].at = "record"
  /\ Free
  /\ Line(h)
  /\ Goto(h, "commit")
  /\ UNCHANGED <<delivered, suppression, tries, taken, unasked, after>>

(* record, in a transaction of its own: a failure is returned after it, and *)
(* rolls the claim back.                                                   *)
Record(h) ==
  /\ callback[h].at = "record"
  /\ Free
  /\ Line(h)
  /\ IF callback[h].state = "failed" THEN End(h) ELSE Goto(h, "commit")
  /\ UNCHANGED <<delivered, suppression, tries, taken, unasked, after>>

-----------------------------------------------------------------------------
(* mail.event *)

(* A slip: a question that failed is treated like a question refused. *)
Confirm_NotRetried(h) ==
  LET e == callback[h].event IN
  /\ callback[h].at = "confirm"
  /\ \/ Goto(h, "commit") /\ unasked' = unasked \cup {e}
     \/ Goto(h, "commit") /\ UNCHANGED unasked
     \/ Goto(h, IF e \in Genuine THEN "suppress" ELSE "commit") /\ UNCHANGED unasked
  /\ UNCHANGED <<delivered, suppression, log, tries, taken, after>>

(* Apply: the provider is asked whether it says so. It refuses the question *)
(* (done, and nothing is retried), fails to answer, or answers.            *)
Confirm(h) ==
  LET e == callback[h].event IN
  /\ callback[h].at = "confirm"
  /\ \/ Goto(h, "commit") /\ unasked' = unasked \cup {e}
     \/ End(h) /\ UNCHANGED unasked
     \/ Goto(h, IF e \in Genuine THEN "suppress" ELSE "commit") /\ UNCHANGED unasked
  /\ UNCHANGED <<delivered, suppression, log, tries, taken, after>>

(* Suppress, in a transaction of its own. *)
Suppress(h) ==
  /\ callback[h].at = "suppress"
  /\ Free
  /\ suppression' = suppression \cup {To[callback[h].event]}
  /\ Goto(h, "commit")
  /\ UNCHANGED <<delivered, log, tries, taken, unasked, after>>

-----------------------------------------------------------------------------
(* The claim commits, and the queue is told. *)
Commit(h) ==
  /\ callback[h].at = "commit"
  /\ delivered' = delivered \cup {callback[h].event}
  /\ End(h)
  /\ UNCHANGED <<suppression, log, tries, taken, unasked, after>>

(* A statement fails, the request's time is over, the process ends: the    *)
(* claim rolls back, and what the consumer committed itself stays.         *)
Abort(h) ==
  /\ callback[h].at # "idle"
  /\ End(h)
  /\ UNCHANGED <<delivered, suppression, log, tries, taken, unasked, after>>

Next == \E h \in Callback :
  \/ \E e \in Event : Call(h, e)
  \/ Begin(h) \/ Claim(h)
  \/ Check(h) \/ Send(h) \/ Record(h)
  \/ Confirm(h) \/ Suppress(h)
  \/ Commit(h) \/ Abort(h)

Spec == Init /\ [][Next]_vars

-----------------------------------------------------------------------------
(* Properties. *)

Delivery ==
  {Idle}
  \cup [at : {"begin", "claim", "commit"}, event : Event, state : {None}]
  \cup [at : {"check", "call"}, event : Sending, state : {None}]
  \cup [at : {"record"}, event : Sending, state : State]
  \cup [at : {"confirm", "suppress"}, event : Report, state : {None}]

TypeOK ==
  /\ delivered \subseteq Event
  /\ suppression \subseteq Address
  /\ log \in [Sending -> [State -> Nat]]
  /\ callback \in [Callback -> Delivery]
  /\ tries \in [Event -> 0 .. Tries]
  /\ taken \in [Sending -> Nat]
  /\ unasked \subseteq Report
  /\ after \in [Address -> Nat]

(* A message that is done is in the sending log, as sent or as skipped,     *)
(* whatever transactions were lost on the way: none disappears without a   *)
(* line (00007_email.sql:31-33).                                           *)
DoneIsLogged == \A m \in delivered \cap Sending : log[m]["sent"] + log[m]["skipped"] > 0

(* The log says sent no oftener than the provider took the message, and     *)
(* skipped only of an address that is suppressed.                          *)
LogIsTrue == \A m \in Sending :
  /\ log[m]["sent"] <= taken[m]
  /\ log[m]["skipped"] > 0 => To[m] \in suppression

(* After its suppression an address is written to only by deliveries that   *)
(* had asked before it (mailer.go:113-116): fewer than there are at once,   *)
(* for however long the queue repeats the messages.                        *)
FewAfterSuppression == \A a \in Address : after[a] < Cardinality(Callback)

(* An address is suppressed by what the provider confirmed and by nothing   *)
(* else; and a confirmed report that is done has suppressed it, unless the  *)
(* provider would not be asked.                                            *)
SuppressionIsJust ==
  /\ \A a \in suppression : \E e \in Genuine : To[e] = a
  /\ \A e \in delivered \cap Genuine : To[e] \in suppression \/ e \in unasked
=============================================================================
