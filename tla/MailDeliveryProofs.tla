------------------------- MODULE MailDeliveryProofs -------------------------
(* What MailDelivery promises, for any messages and reports, deliveries,   *)
(* connections and tries.                                                  *)
EXTENDS MailDelivery, FiniteSetTheorems, TLAPS

-----------------------------------------------------------------------------
(* Types, and what a step does to the deliveries. *)

Others(h) == \A g \in Callback \ {h} : callback'[g] = callback[g]

LEMMA Went ==
  ASSUME TypeOK, NEW h \in Callback, NEW at, Goto(h, at)
  PROVE  /\ callback'[h].at = at
         /\ callback'[h].event = callback[h].event
         /\ Others(h)
<1> DEFINE d == [at |-> at, event |-> callback[h].event, state |-> None]
<1>1. callback'[h] = d /\ Others(h)
  BY DEF TypeOK, Goto, Others
<1>2. d.at = at /\ d.event = callback[h].event
  OBVIOUS
<1> QED
  BY <1>1, <1>2

LEMMA WentTyped ==
  ASSUME TypeOK, NEW h \in Callback, NEW at, Goto(h, at),
         [at |-> at, event |-> callback[h].event, state |-> None] \in Delivery
  PROVE  callback' \in [Callback -> Delivery]
BY DEF TypeOK, Goto

LEMMA BecameTyped ==
  ASSUME TypeOK, NEW h \in Callback, NEW s \in State, callback[h].event \in Sending, Became(h, s)
  PROVE  /\ callback' \in [Callback -> Delivery]
         /\ callback'[h].at = "record"
         /\ callback'[h].event = callback[h].event
         /\ callback'[h].state = s
         /\ Others(h)
<1> DEFINE d == [at |-> "record", event |-> callback[h].event, state |-> s]
<1>1. d \in Delivery
  BY DEF Delivery
<1>2. callback' = [callback EXCEPT ![h] = d]
  BY DEF Became
<1>3. d.at = "record" /\ d.event = callback[h].event /\ d.state = s
  OBVIOUS
<1> HIDE DEF d
<1>4. callback'[h] = d /\ Others(h) /\ callback' \in [Callback -> Delivery]
  BY <1>1, <1>2 DEF TypeOK, Others
<1> QED
  BY <1>3, <1>4

LEMMA Ended ==
  ASSUME TypeOK, NEW h \in Callback, End(h)
  PROVE  /\ callback' \in [Callback -> Delivery]
         /\ callback'[h] = Idle
         /\ callback'[h].at = "idle"
         /\ Others(h)
<1>1. Idle \in Delivery /\ Idle.at = "idle"
  BY DEF Delivery, Idle
<1>2. callback'[h] = Idle /\ Others(h) /\ callback' \in [Callback -> Delivery]
  BY <1>1 DEF TypeOK, End, Others
<1> QED
  BY <1>1, <1>2

LEMMA Called ==
  ASSUME TypeOK, NEW h \in Callback, NEW e \in Event, Call(h, e)
  PROVE  /\ callback' \in [Callback -> Delivery]
         /\ callback'[h].at = "begin"
         /\ Others(h)
<1> DEFINE d == [at |-> "begin", event |-> e, state |-> None]
<1>1. d \in Delivery /\ d.at = "begin"
  BY DEF Delivery
<1>2. callback' = [callback EXCEPT ![h] = d]
  BY DEF Call
<1> HIDE DEF d
<1>3. callback'[h] = d /\ Others(h) /\ callback' \in [Callback -> Delivery]
  BY <1>1, <1>2 DEF TypeOK, Others
<1> QED
  BY <1>1, <1>3

(* What a delivery is about at each step. *)
LEMMA About ==
  ASSUME TypeOK, NEW h \in Callback
  PROVE  /\ callback[h].at # "idle" => callback[h].event \in Event
         /\ callback[h].at \in {"check", "call", "record"} => callback[h].event \in Sending
         /\ callback[h].at \in {"confirm", "suppress"} => callback[h].event \in Report
         /\ callback[h].at = "record" => callback[h].state \in State
BY DEF TypeOK, Delivery, Idle, Event

LEMMA TakenTyped ==
  ASSUME TypeOK, NEW m \in Sending, NEW yes \in BOOLEAN, Takes(m, yes)
  PROVE  /\ taken' \in [Sending -> Nat] /\ after' \in [Address -> Nat]
         /\ taken'[m] = IF yes THEN taken[m] + 1 ELSE taken[m]
         /\ \A n \in Sending \ {m} : taken'[n] = taken[n]
         /\ \A a \in Address : after'[a] =
              IF a = To[m] /\ yes /\ a \in suppression THEN after[a] + 1 ELSE after[a]
<1>1. taken[m] \in Nat /\ To[m] \in Address
  BY EventAssumption DEF TypeOK, Event
<1>2. CASE yes /\ To[m] \in suppression
  <2>1. taken' = [taken EXCEPT ![m] = taken[m] + 1] /\ after' = [after EXCEPT ![To[m]] = after[To[m]] + 1]
    BY <1>2 DEF Takes
  <2> QED
    BY <1>1, <1>2, <2>1 DEF TypeOK
<1>3. CASE yes /\ To[m] \notin suppression
  <2>1. taken' = [taken EXCEPT ![m] = taken[m] + 1] /\ after' = [after EXCEPT ![To[m]] = after[To[m]]]
    BY <1>3 DEF Takes
  <2> QED
    BY <1>1, <1>3, <2>1 DEF TypeOK
<1>4. CASE ~yes
  <2>1. taken' = [taken EXCEPT ![m] = taken[m]] /\ after' = [after EXCEPT ![To[m]] = after[To[m]]]
    BY <1>4 DEF Takes
  <2> QED
    BY <1>1, <1>4, <2>1 DEF TypeOK
<1> QED
  BY <1>2, <1>3, <1>4

LEMMA TypeInit == Init => TypeOK
BY NumbersAssumption DEF Init, TypeOK, Delivery, State

LEMMA TypeNext == TypeOK /\ [Next]_vars => TypeOK'
<1> SUFFICES ASSUME TypeOK, [Next]_vars PROVE TypeOK'
  OBVIOUS
<1>1. ASSUME NEW h \in Callback, NEW e \in Event, Call(h, e) PROVE TypeOK'
  <2>1. tries' \in [Event -> 0 .. Tries]
    BY <1>1, NumbersAssumption DEF Call, TypeOK
  <2> QED
    BY <1>1, <2>1, Called DEF Call, TypeOK
<1>2. ASSUME NEW h \in Callback, Begin(h) PROVE TypeOK'
  <2>1. [at |-> "claim", event |-> callback[h].event, state |-> None] \in Delivery
    BY <1>2, About DEF Begin, Delivery
  <2> QED
    BY <1>2, <2>1, WentTyped DEF Begin, TypeOK
<1>3. ASSUME NEW h \in Callback, Claim(h) PROVE TypeOK'
  <2>1. CASE callback[h].event \in delivered
    BY <1>3, <2>1, Ended DEF Claim, TypeOK
  <2>2. CASE callback[h].event \notin delivered /\ callback[h].event \in Sending
    <3>1. [at |-> "check", event |-> callback[h].event, state |-> None] \in Delivery
      BY <2>2 DEF Delivery
    <3> QED
      BY <1>3, <2>2, <3>1, WentTyped DEF Claim, TypeOK
  <2>3. CASE callback[h].event \notin delivered /\ callback[h].event \notin Sending
    <3>1. [at |-> "confirm", event |-> callback[h].event, state |-> None] \in Delivery
      BY <1>3, <2>3, About DEF Delivery, Event, Claim
    <3> QED
      BY <1>3, <2>3, <3>1, WentTyped DEF Claim, TypeOK
  <2> QED
    BY <2>1, <2>2, <2>3
<1>4. ASSUME NEW h \in Callback, Check(h) PROVE TypeOK'
  <2>1. callback[h].event \in Sending
    BY <1>4, About DEF Check
  <2>2. [at |-> "call", event |-> callback[h].event, state |-> None] \in Delivery
    BY <2>1 DEF Delivery
  <2>3. callback' \in [Callback -> Delivery]
    <3>1. CASE Became(h, "skipped") \/ Became(h, "failed")
      BY <2>1, <3>1, BecameTyped DEF State
    <3>2. CASE Goto(h, "call")
      BY <2>2, <3>2, WentTyped
    <3> QED
      BY <1>4, <3>1, <3>2 DEF Check
  <2> QED
    BY <1>4, <2>3 DEF Check, TypeOK
<1>5. ASSUME NEW h \in Callback, Send(h) PROVE TypeOK'
  <2>1. callback[h].event \in Sending
    BY <1>5, About DEF Send
  <2>2. PICK yes \in BOOLEAN, error \in BOOLEAN :
          Takes(callback[h].event, yes) /\ Became(h, IF error THEN "failed" ELSE "sent")
    BY <1>5 DEF Send
  <2>3. callback' \in [Callback -> Delivery]
    BY <2>1, <2>2, BecameTyped DEF State
  <2>4. taken' \in [Sending -> Nat] /\ after' \in [Address -> Nat]
    BY <2>1, <2>2, TakenTyped
  <2> QED
    BY <1>5, <2>3, <2>4 DEF Send, TypeOK
<1>6. ASSUME NEW h \in Callback, Record(h) PROVE TypeOK'
  <2>1. callback[h].event \in Sending /\ callback[h].state \in State
    BY <1>6, About DEF Record
  <2>2. log' \in [Sending -> [State -> Nat]]
    BY <1>6, <2>1 DEF Record, Line, TypeOK
  <2>3. [at |-> "commit", event |-> callback[h].event, state |-> None] \in Delivery
    BY <2>1 DEF Delivery, Event
  <2>4. callback' \in [Callback -> Delivery]
    BY <1>6, <2>3, WentTyped, Ended DEF Record
  <2> QED
    BY <1>6, <2>2, <2>4 DEF Record, TypeOK
<1>7. ASSUME NEW h \in Callback, Confirm(h) PROVE TypeOK'
  <2>1. callback[h].event \in Report
    BY <1>7, About DEF Confirm
  <2>2. /\ [at |-> "commit", event |-> callback[h].event, state |-> None] \in Delivery
        /\ [at |-> "suppress", event |-> callback[h].event, state |-> None] \in Delivery
    BY <2>1 DEF Delivery, Event
  <2>3. callback' \in [Callback -> Delivery]
    BY <1>7, <2>2, WentTyped, Ended DEF Confirm
  <2> QED
    BY <1>7, <2>1, <2>3 DEF Confirm, TypeOK
<1>8. ASSUME NEW h \in Callback, Suppress(h) PROVE TypeOK'
  <2>1. callback[h].event \in Report /\ To[callback[h].event] \in Address
    BY <1>8, About, EventAssumption DEF Suppress, Event
  <2>2. [at |-> "commit", event |-> callback[h].event, state |-> None] \in Delivery
    BY <2>1 DEF Delivery, Event
  <2>3. callback' \in [Callback -> Delivery]
    BY <1>8, <2>2, WentTyped DEF Suppress
  <2> QED
    BY <1>8, <2>1, <2>3 DEF Suppress, TypeOK
<1>9. ASSUME NEW h \in Callback, Commit(h) PROVE TypeOK'
  BY <1>9, About, Ended DEF Commit, TypeOK
<1>10. ASSUME NEW h \in Callback, Abort(h) PROVE TypeOK'
  BY <1>10, Ended DEF Abort, TypeOK
<1>11. CASE UNCHANGED vars
  BY <1>11 DEF vars, TypeOK
<1> QED
  BY <1>1, <1>2, <1>3, <1>4, <1>5, <1>6, <1>7, <1>8, <1>9, <1>10, <1>11 DEF Next

(* A delivery is at a step of the consumer its event has, and the log, the  *)
(* list and the counts stay of their types.                                *)
THEOREM TypeCorrect == Spec => []TypeOK
<1>1. Init => TypeOK
  BY TypeInit
<1>2. TypeOK /\ [Next]_vars => TypeOK'
  BY TypeNext
<1> QED
  BY <1>1, <1>2, PTL DEF Spec

-----------------------------------------------------------------------------
(* The log and the list. A delivery past its claim is alone with its event, *)
(* and what it is about to write, or to commit, is true already.           *)

Exclusive == \A g, h \in Callback :
  g # h /\ Claims(g) /\ Claims(h) => callback[g].event # callback[h].event

Knows(h) ==
  LET e == callback[h].event IN
  /\ callback[h].at = "record" /\ callback[h].state = "sent" => log[e]["sent"] < taken[e]
  /\ callback[h].at = "record" /\ callback[h].state = "skipped" => To[e] \in suppression
  /\ callback[h].at = "commit" /\ e \in Sending => log[e]["sent"] + log[e]["skipped"] > 0
  /\ callback[h].at = "suppress" => e \in Genuine
  /\ callback[h].at = "commit" /\ e \in Genuine => To[e] \in suppression \/ e \in unasked

Books ==
  /\ Exclusive
  /\ \A h \in Callback : Knows(h)
  /\ DoneIsLogged /\ LogIsTrue /\ SuppressionIsJust

LEMMA BooksInit == Init => Books
BY DEF Init, Books, Exclusive, Claims, Knows, Idle, DoneIsLogged, LogIsTrue, SuppressionIsJust, State

(* Only a claim makes a delivery claim. *)
LEMMA ExclusiveKept ==
  ASSUME TypeOK, Exclusive, NEW h \in Callback, Others(h),
         Claims(h)' => Claims(h) /\ callback'[h].event = callback[h].event
  PROVE  Exclusive'
BY DEF Exclusive, Others, Claims

(* What the others know stays so while the books only grow. *)
LEMMA OthersKnow ==
  ASSUME TypeOK, Books, NEW h \in Callback, Others(h),
         suppression \subseteq suppression', unasked \subseteq unasked',
         \A m \in Sending : taken'[m] >= taken[m],
         taken' \in [Sending -> Nat],
         \A g \in Callback \ {h} : Claims(g) /\ callback[g].event \in Sending =>
            log'[callback[g].event] = log[callback[g].event]
  PROVE  \A g \in Callback \ {h} : Knows(g)'
<1> SUFFICES ASSUME NEW g \in Callback \ {h} PROVE Knows(g)'
  OBVIOUS
<1>1. Knows(g) /\ callback'[g] = callback[g]
  BY DEF Books, Others
<1> DEFINE e == callback[g].event
<1>2. CASE callback[g].at = "record"
  <2>1. e \in Sending /\ log'[e] = log[e]
    BY <1>2, About DEF Claims
  <2>2. taken'[e] >= taken[e] /\ taken'[e] \in Nat /\ taken[e] \in Nat /\ log[e]["sent"] \in Nat
    BY <2>1 DEF TypeOK, State
  <2> QED
    BY <1>1, <1>2, <2>1, <2>2 DEF Knows
<1>3. CASE callback[g].at = "commit"
  BY <1>1, <1>3 DEF Knows, Claims
<1>4. CASE callback[g].at \notin {"record", "commit"}
  BY <1>1, <1>4 DEF Knows
<1> QED
  BY <1>2, <1>3, <1>4

(* A step that writes nothing. *)
LEMMA BooksQuiet ==
  ASSUME TypeOK, Books, NEW h \in Callback, Others(h),
         UNCHANGED <<delivered, suppression, log, taken, unasked>>,
         Exclusive', Knows(h)'
  PROVE  Books'
<1>1. \A m \in Sending : taken'[m] >= taken[m]
  BY DEF TypeOK
<1>2. \A g \in Callback \ {h} : Knows(g)'
  BY <1>1, OthersKnow DEF TypeOK
<1>3. DoneIsLogged' /\ LogIsTrue' /\ SuppressionIsJust'
  BY DEF Books, DoneIsLogged, LogIsTrue, SuppressionIsJust
<1> QED
  BY <1>2, <1>3 DEF Books

LEMMA BooksClaim ==
  ASSUME TypeOK, Books, NEW h \in Callback, Claim(h) PROVE Books'
<1>1. Others(h) /\ (callback'[h] = Idle \/ (/\ callback'[h].event = callback[h].event
                                           /\ callback'[h].at \in {"check", "confirm"}))
  BY Went, Ended DEF Claim
<1>2. Exclusive'
  BY <1>1 DEF Books, Exclusive, Others, Claims, Claim, Idle
<1>3. Knows(h)'
  BY <1>1 DEF Knows, Idle
<1> QED
  BY <1>1, <1>2, <1>3, BooksQuiet DEF Claim

LEMMA BooksCheck ==
  ASSUME TypeOK, Books, NEW h \in Callback, Check(h) PROVE Books'
<1>1. callback[h].event \in Sending
  BY About DEF Check
<1>2. /\ Others(h) /\ callback'[h].event = callback[h].event
      /\ \/ callback'[h].at = "record" /\ callback'[h].state = "skipped"
            /\ To[callback[h].event] \in suppression
         \/ callback'[h].at = "record" /\ callback'[h].state = "failed"
         \/ callback'[h].at = "call"
  <2>1. CASE Became(h, "skipped") /\ To[callback[h].event] \in suppression
    BY <1>1, <2>1, BecameTyped DEF State
  <2>2. CASE Became(h, "failed")
    BY <1>1, <2>2, BecameTyped DEF State
  <2>3. CASE Goto(h, "call")
    BY <2>3, Went
  <2> QED
    BY <2>1, <2>2, <2>3 DEF Check
<1>3. Exclusive'
  BY <1>2, ExclusiveKept DEF Books, Claims, Check
<1>4. Knows(h)'
  BY <1>2 DEF Knows, Check
<1> QED
  BY <1>2, <1>3, <1>4, BooksQuiet DEF Check

LEMMA BooksSend ==
  ASSUME TypeOK, Books, NEW h \in Callback, Send(h) PROVE Books'
<1> DEFINE m == callback[h].event
<1>1. m \in Sending
  BY About DEF Send
<1>2. PICK yes \in BOOLEAN, error \in BOOLEAN :
        (yes \/ error) /\ Takes(m, yes) /\ Became(h, IF error THEN "failed" ELSE "sent")
  BY DEF Send
<1>3. /\ Others(h) /\ callback'[h].event = m
      /\ callback'[h].at = "record" /\ callback'[h].state = IF error THEN "failed" ELSE "sent"
  BY <1>1, <1>2, BecameTyped DEF State
<1>4. /\ taken' \in [Sending -> Nat]
      /\ taken'[m] = IF yes THEN taken[m] + 1 ELSE taken[m]
      /\ \A n \in Sending \ {m} : taken'[n] = taken[n]
  BY <1>1, <1>2, TakenTyped
<1>5. \A n \in Sending : taken'[n] >= taken[n] /\ log[n]["sent"] \in Nat /\ taken[n] \in Nat
  BY <1>4 DEF TypeOK, State
<1>6. UNCHANGED <<delivered, suppression, log, unasked>>
  BY DEF Send
<1>7. Exclusive'
  BY <1>3, ExclusiveKept DEF Books, Claims, Send
<1>8. \A g \in Callback \ {h} : Knows(g)'
  BY <1>3, <1>4, <1>5, <1>6, OthersKnow
<1>9. Knows(h)'
  <2>1. ~error => log[m]["sent"] < taken'[m]
    BY <1>1, <1>2, <1>4, <1>5 DEF Books, LogIsTrue
  <2> QED
    BY <1>3, <1>6, <2>1 DEF Knows
<1>10. LogIsTrue'
  BY <1>4, <1>5, <1>6 DEF Books, LogIsTrue
<1>11. DoneIsLogged' /\ SuppressionIsJust'
  BY <1>6 DEF Books, DoneIsLogged, SuppressionIsJust
<1> QED
  BY <1>7, <1>8, <1>9, <1>10, <1>11 DEF Books

LEMMA BooksRecord ==
  ASSUME TypeOK, Books, NEW h \in Callback, Record(h) PROVE Books'
<1> DEFINE m == callback[h].event
           s == callback[h].state
<1>1. m \in Sending /\ s \in State
  BY About DEF Record
<1>2. /\ log' \in [Sending -> [State -> Nat]]
      /\ log'[m][s] = log[m][s] + 1
      /\ \A t \in State \ {s} : log'[m][t] = log[m][t]
      /\ \A n \in Sending \ {m} : log'[n] = log[n]
  BY <1>1 DEF Record, Line, TypeOK
<1>3. /\ Others(h)
      /\ callback'[h] = Idle \/ (/\ callback'[h].at = "commit" /\ callback'[h].event = m
                                 /\ s # "failed")
  BY Went, Ended DEF Record
<1>4. UNCHANGED <<delivered, suppression, taken, unasked>> /\ callback[h].at = "record"
  BY DEF Record
<1>5. Exclusive'
  BY <1>3, <1>4, ExclusiveKept DEF Books, Claims, Idle
<1>6. \A g \in Callback \ {h} : Claims(g) => callback[g].event # m
  BY <1>4 DEF Books, Exclusive, Claims
<1>7. \A g \in Callback \ {h} : Knows(g)'
  <2>1. \A n \in Sending : taken'[n] >= taken[n]
    BY <1>4 DEF TypeOK
  <2> QED
    BY <1>2, <1>3, <1>4, <1>6, <2>1, OthersKnow DEF TypeOK
<1>8. \A n \in Sending : \A t \in State : log[n][t] \in Nat /\ log'[n][t] \in Nat /\ log'[n][t] >= log[n][t]
  BY <1>1, <1>2 DEF TypeOK
<1>9. Knows(h)'
  <2>1. CASE callback'[h] = Idle
    BY <2>1 DEF Knows, Idle
  <2>2. CASE callback'[h].at = "commit" /\ callback'[h].event = m /\ s # "failed"
    <3>1. log'[m]["sent"] + log'[m]["skipped"] > 0
      BY <1>1, <1>2, <1>8, <2>2 DEF State
    <3>2. m \notin Genuine
      BY <1>1, EventAssumption
    <3> QED
      BY <2>2, <3>1, <3>2 DEF Knows
  <2> QED
    BY <1>3, <2>1, <2>2
<1>10. LogIsTrue'
  <2> SUFFICES ASSUME NEW n \in Sending
               PROVE  /\ log'[n]["sent"] <= taken'[n]
                      /\ log'[n]["skipped"] > 0 => To[n] \in suppression'
    BY DEF LogIsTrue
  <2>1. /\ log[n]["sent"] <= taken[n] /\ log[n]["sent"] \in Nat /\ taken[n] \in Nat
        /\ log[n]["skipped"] > 0 => To[n] \in suppression
    BY DEF Books, LogIsTrue, TypeOK, State
  <2>2. CASE n # m
    BY <1>2, <1>4, <2>1, <2>2
  <2>3. CASE n = m
    <3>1. Knows(h)
      BY DEF Books
    <3>2. s = "sent" => log[m]["sent"] < taken[m]
      BY <1>4, <3>1 DEF Knows
    <3>3. s = "skipped" => To[m] \in suppression
      BY <1>4, <3>1 DEF Knows
    <3>4. "sent" \in State /\ "skipped" \in State
      BY DEF State
    <3>5. log'[m]["sent"] <= taken[m]
      BY <1>2, <2>1, <2>3, <3>2, <3>4
    <3>6. log'[m]["skipped"] > 0 => To[m] \in suppression
      BY <1>2, <2>1, <2>3, <3>3, <3>4
    <3> QED
      BY <1>4, <2>3, <3>5, <3>6
  <2> QED
    BY <2>2, <2>3
<1>11. DoneIsLogged'
  <2> SUFFICES ASSUME NEW n \in delivered \cap Sending
               PROVE  log'[n]["sent"] + log'[n]["skipped"] > 0
    BY <1>4 DEF DoneIsLogged
  <2>1. log[n]["sent"] + log[n]["skipped"] > 0
    BY DEF Books, DoneIsLogged
  <2> QED
    BY <1>8, <2>1 DEF State
<1>12. SuppressionIsJust'
  BY <1>4 DEF Books, SuppressionIsJust
<1> QED
  BY <1>5, <1>7, <1>9, <1>10, <1>11, <1>12 DEF Books

LEMMA BooksReport ==
  ASSUME TypeOK, Books, NEW h \in Callback, Confirm(h) \/ Suppress(h) PROVE Books'
<1> DEFINE e == callback[h].event
<1>1. e \in Report /\ e \notin Sending
  BY About, EventAssumption DEF Confirm, Suppress
<1>2. /\ Others(h)
      /\ \/ callback'[h] = Idle
         \/ /\ callback'[h].event = e
            /\ \/ callback'[h].at = "suppress" /\ e \in Genuine
               \/ callback'[h].at = "commit" /\ (e \in Genuine => To[e] \in suppression' \/ e \in unasked')
  BY Went, Ended DEF Confirm, Suppress
<1>3. /\ UNCHANGED <<delivered, log, taken>>
      /\ suppression \subseteq suppression' /\ unasked \subseteq unasked'
      /\ suppression' = suppression \/ (e \in Genuine /\ suppression' = suppression \cup {To[e]})
  BY DEF Confirm, Suppress, Books, Knows
<1>4. Exclusive'
  BY <1>2, ExclusiveKept DEF Books, Claims, Idle, Confirm, Suppress
<1>5. \A g \in Callback \ {h} : Knows(g)'
  <2>1. \A n \in Sending : taken'[n] >= taken[n]
    BY <1>3 DEF TypeOK
  <2> QED
    BY <1>2, <1>3, <2>1, OthersKnow DEF TypeOK
<1>6. Knows(h)'
  BY <1>1, <1>2 DEF Knows, Idle
<1>7. DoneIsLogged' /\ LogIsTrue'
  BY <1>3 DEF Books, DoneIsLogged, LogIsTrue
<1>8. SuppressionIsJust'
  BY <1>3 DEF Books, SuppressionIsJust
<1> QED
  BY <1>4, <1>5, <1>6, <1>7, <1>8 DEF Books

LEMMA BooksCommit ==
  ASSUME TypeOK, Books, NEW h \in Callback, Commit(h) PROVE Books'
<1>1. Others(h) /\ callback'[h] = Idle
  BY Ended DEF Commit
<1>2. /\ UNCHANGED <<suppression, log, taken, unasked>>
      /\ delivered' = delivered \cup {callback[h].event} /\ callback[h].at = "commit"
  BY DEF Commit
<1>3. Exclusive'
  BY <1>1, ExclusiveKept DEF Books, Claims, Idle
<1>4. \A g \in Callback \ {h} : Knows(g)'
  <2>1. \A n \in Sending : taken'[n] >= taken[n]
    BY <1>2 DEF TypeOK
  <2> QED
    BY <1>1, <1>2, <2>1, OthersKnow DEF TypeOK
<1>5. Knows(h)'
  BY <1>1 DEF Knows, Idle
<1>6. Knows(h)
  BY DEF Books
<1>7. DoneIsLogged'
  BY <1>2, <1>6 DEF Books, DoneIsLogged, Knows
<1>8. SuppressionIsJust'
  BY <1>2, <1>6 DEF Books, SuppressionIsJust, Knows
<1>9. LogIsTrue'
  BY <1>2 DEF Books, LogIsTrue
<1> QED
  BY <1>3, <1>4, <1>5, <1>7, <1>8, <1>9 DEF Books

LEMMA BooksNext == TypeOK /\ Books /\ [Next]_vars => Books'
<1> SUFFICES ASSUME TypeOK, Books, [Next]_vars PROVE Books'
  OBVIOUS
<1>1. ASSUME NEW h \in Callback, NEW e \in Event, Call(h, e) PROVE Books'
  <2>1. Others(h) /\ callback'[h].at = "begin"
    BY <1>1, Called
  <2>2. Exclusive' /\ Knows(h)'
    BY <2>1, ExclusiveKept DEF Books, Claims, Knows
  <2> QED
    BY <1>1, <2>1, <2>2, BooksQuiet DEF Call
<1>2. ASSUME NEW h \in Callback, Begin(h) PROVE Books'
  <2>1. Others(h) /\ callback'[h].at = "claim"
    BY <1>2, Went DEF Begin
  <2>2. Exclusive' /\ Knows(h)'
    BY <2>1, ExclusiveKept DEF Books, Claims, Knows
  <2> QED
    BY <1>2, <2>1, <2>2, BooksQuiet DEF Begin
<1>3. ASSUME NEW h \in Callback, Abort(h) PROVE Books'
  <2>1. Others(h) /\ callback'[h] = Idle
    BY <1>3, Ended DEF Abort
  <2>2. Exclusive' /\ Knows(h)'
    BY <2>1, ExclusiveKept DEF Books, Claims, Knows, Idle
  <2> QED
    BY <1>3, <2>1, <2>2, BooksQuiet DEF Abort
<1>4. CASE UNCHANGED vars
  BY <1>4 DEF vars, Books, Exclusive, Claims, Knows, DoneIsLogged, LogIsTrue, SuppressionIsJust
<1> QED
  BY <1>1, <1>2, <1>3, <1>4, BooksClaim, BooksCheck, BooksSend, BooksRecord, BooksReport, BooksCommit
     DEF Next

LEMMA BooksKept == Spec => [](TypeOK /\ Books)
<1>1. Init => TypeOK /\ Books
  BY TypeInit, BooksInit
<1>2. TypeOK /\ Books /\ [Next]_vars => (TypeOK /\ Books)'
  BY TypeNext, BooksNext
<1> QED
  BY <1>1, <1>2, PTL DEF Spec

(* Whatever of a delivery is lost, a message that is done has a line that    *)
(* says it was sent or skipped: record commits before the claim does.       *)
THEOREM NoneVanishes == Spec => []DoneIsLogged
<1>1. Books => DoneIsLogged
  BY DEF Books
<1> QED
  BY <1>1, BooksKept, PTL

(* The sending log never claims more than the provider took, nor a skip      *)
(* without a suppression, though it commits apart from the claim.           *)
THEOREM TrueLog == Spec => []LogIsTrue
<1>1. Books => LogIsTrue
  BY DEF Books
<1> QED
  BY <1>1, BooksKept, PTL

(* Apply suppresses exactly what the provider confirmed.                     *)
THEOREM JustSuppression == Spec => []SuppressionIsJust
<1>1. Books => SuppressionIsJust
  BY DEF Books
<1> QED
  BY <1>1, BooksKept, PTL

-----------------------------------------------------------------------------
(* After a suppression. The deliveries about to call the provider for an    *)
(* address, and the messages taken since it was suppressed, are together    *)
(* fewer than the deliveries: the one that suppressed it is neither, and    *)
(* whoever asks afterwards is told.                                        *)

Calling(a) == {h \in Callback : callback[h].at = "call" /\ To[callback[h].event] = a}

FewTo(a) == IF a \in suppression
              THEN after[a] + Cardinality(Calling(a)) < Cardinality(Callback)
              ELSE after[a] = 0

Few == \A a \in Address : FewTo(a)

LEMMA CallingFinite ==
  ASSUME NEW a \in Address
  PROVE  /\ IsFiniteSet(Calling(a)) /\ Cardinality(Calling(a)) \in Nat
         /\ Cardinality(Callback) \in Nat /\ Cardinality(Callback) > 0
<1>1. IsFiniteSet(Calling(a))
  BY CallbackAssumption, FS_Subset DEF Calling
<1> QED
  BY <1>1, CallbackAssumption, FS_CardinalityType, FS_EmptySet

LEMMA FewInit == Init => Few
BY DEF Init, Few, FewTo

LEMMA CallingLess ==
  ASSUME NEW h \in Callback, Others(h), callback'[h].at # "call", NEW a \in Address
  PROVE  Calling(a)' \subseteq Calling(a) \ {h}
BY DEF Calling, Others

LEMMA FewKept ==
  ASSUME TypeOK, Few, UNCHANGED <<suppression, after>>,
         \A a \in suppression : Calling(a)' \subseteq Calling(a)
  PROVE  Few'
<1> SUFFICES ASSUME NEW a \in Address PROVE FewTo(a)'
  BY DEF Few
<1>1. FewTo(a) /\ after[a] \in Nat
  BY DEF Few, TypeOK
<1>2. CASE a \in suppression
  <2>1. Cardinality(Calling(a)') <= Cardinality(Calling(a)) /\ Cardinality(Calling(a)') \in Nat
    BY <1>2, CallingFinite, FS_Subset, FS_CardinalityType
  <2> QED
    BY <1>1, <1>2, <2>1, CallingFinite DEF FewTo
<1>3. CASE a \notin suppression
  BY <1>1, <1>3 DEF FewTo
<1> QED
  BY <1>2, <1>3

LEMMA FewLeaves ==
  ASSUME TypeOK, Few, UNCHANGED <<suppression, after>>,
         NEW h \in Callback, Others(h), callback'[h].at # "call"
  PROVE  Few'
<1>1. \A a \in suppression : Calling(a)' \subseteq Calling(a)
  BY CallingLess DEF TypeOK
<1> QED
  BY <1>1, FewKept

LEMMA FewCheck ==
  ASSUME TypeOK, Few, NEW h \in Callback, Check(h) PROVE Few'
<1>1. callback[h].event \in Sending
  BY About DEF Check
<1>2. CASE Became(h, "skipped") \/ Became(h, "failed")
  <2>1. Others(h) /\ callback'[h].at = "record"
    BY <1>1, <1>2, BecameTyped DEF State
  <2> QED
    BY <2>1, FewLeaves DEF Check
<1>3. CASE Goto(h, "call") /\ To[callback[h].event] \notin suppression
  <2>1. Others(h) /\ callback'[h].event = callback[h].event
    BY <1>3, Went
  <2>2. \A a \in suppression : Calling(a)' \subseteq Calling(a)
    BY <1>3, <2>1 DEF Calling, Others
  <2> QED
    BY <2>2, FewKept DEF Check
<1> QED
  BY <1>2, <1>3 DEF Check

LEMMA FewSend ==
  ASSUME TypeOK, Few, NEW h \in Callback, Send(h) PROVE Few'
<1> SUFFICES ASSUME NEW a \in Address PROVE FewTo(a)'
  BY DEF Few
<1> DEFINE m == callback[h].event
<1>1. m \in Sending /\ callback[h].at = "call" /\ suppression' = suppression
  BY About DEF Send
<1>2. PICK yes \in BOOLEAN, error \in BOOLEAN :
        Takes(m, yes) /\ Became(h, IF error THEN "failed" ELSE "sent")
  BY DEF Send
<1>3. Others(h) /\ callback'[h].at = "record"
  BY <1>1, <1>2, BecameTyped DEF State
<1>4. after'[a] = IF a = To[m] /\ yes /\ a \in suppression THEN after[a] + 1 ELSE after[a]
  BY <1>1, <1>2, TakenTyped
<1>5. Calling(a)' \subseteq Calling(a) \ {h}
  BY <1>3, CallingLess
<1>6. FewTo(a) /\ after[a] \in Nat
  BY DEF Few, TypeOK
<1>7. CASE a = To[m]
  <2>1. h \in Calling(a)
    BY <1>1, <1>7 DEF Calling
  <2>2. Cardinality(Calling(a) \ {h}) = Cardinality(Calling(a)) - 1 /\ IsFiniteSet(Calling(a) \ {h})
    BY <2>1, CallingFinite, FS_RemoveElement
  <2>3. Cardinality(Calling(a)') <= Cardinality(Calling(a)) - 1 /\ Cardinality(Calling(a)') \in Nat
    BY <1>5, <2>2, FS_Subset, FS_CardinalityType
  <2> QED
    BY <1>1, <1>4, <1>6, <2>3, CallingFinite DEF FewTo
<1>8. CASE a # To[m]
  <2>1. Cardinality(Calling(a)') <= Cardinality(Calling(a)) /\ Cardinality(Calling(a)') \in Nat
    BY <1>5, CallingFinite, FS_Subset, FS_CardinalityType
  <2> QED
    BY <1>1, <1>4, <1>6, <1>8, <2>1, CallingFinite DEF FewTo
<1> QED
  BY <1>7, <1>8

LEMMA FewSuppress ==
  ASSUME TypeOK, Few, NEW h \in Callback, Suppress(h) PROVE Few'
<1> SUFFICES ASSUME NEW a \in Address PROVE FewTo(a)'
  BY DEF Few
<1>1. Others(h) /\ callback'[h].at = "commit"
  BY Went DEF Suppress
<1>2. Calling(a)' \subseteq Calling(a) \ {h} /\ Calling(a)' \subseteq Callback \ {h}
  BY <1>1, CallingLess DEF Calling
<1>3. FewTo(a) /\ after'[a] = after[a] /\ after[a] \in Nat
  BY DEF Few, TypeOK, Suppress
<1>4. suppression' = suppression \cup {To[callback[h].event]}
  BY DEF Suppress
<1>5. CASE a \in suppression
  <2>1. Cardinality(Calling(a)') <= Cardinality(Calling(a)) /\ Cardinality(Calling(a)') \in Nat
    BY <1>2, CallingFinite, FS_Subset, FS_CardinalityType
  <2> QED
    BY <1>3, <1>4, <1>5, <2>1, CallingFinite DEF FewTo
<1>6. CASE a \notin suppression
  <2>1. Cardinality(Callback \ {h}) = Cardinality(Callback) - 1 /\ IsFiniteSet(Callback \ {h})
    BY CallbackAssumption, FS_RemoveElement
  <2>2. Cardinality(Calling(a)') <= Cardinality(Callback) - 1 /\ Cardinality(Calling(a)') \in Nat
    BY <1>2, <2>1, FS_Subset, FS_CardinalityType
  <2> QED
    BY <1>3, <1>6, <2>2, CallingFinite DEF FewTo
<1> QED
  BY <1>5, <1>6

LEMMA FewNext == TypeOK /\ Few /\ [Next]_vars => Few'
<1> SUFFICES ASSUME TypeOK, Few, [Next]_vars PROVE Few'
  OBVIOUS
<1>1. ASSUME NEW h \in Callback, NEW e \in Event, Call(h, e) PROVE Few'
  <2>1. Others(h) /\ callback'[h].at = "begin"
    BY <1>1, Called
  <2> QED
    BY <1>1, <2>1, FewLeaves DEF Call
<1>2. ASSUME NEW h \in Callback, Begin(h) \/ Claim(h) \/ Record(h) \/ Confirm(h) \/ Commit(h) \/ Abort(h)
      PROVE  Few'
  <2>1. \/ End(h)
        \/ \E at \in {"claim", "check", "confirm", "commit", "suppress"} : Goto(h, at)
    BY <1>2 DEF Begin, Claim, Record, Confirm, Commit, Abort
  <2>2. Others(h) /\ callback'[h].at # "call"
    BY <2>1, Went, Ended
  <2> QED
    BY <1>2, <2>2, FewLeaves DEF Begin, Claim, Record, Confirm, Commit, Abort
<1>3. CASE UNCHANGED vars
  BY <1>3 DEF vars, Few, FewTo, Calling
<1> QED
  BY <1>1, <1>2, <1>3, FewCheck, FewSend, FewSuppress DEF Next

(* Send asks the list each time it is run, so an address is written to after  *)
(* its suppression fewer times than there are deliveries at once.           *)
THEOREM SuppressionHolds == Spec => []FewAfterSuppression
<1>1. Init => TypeOK /\ Few
  BY TypeInit, FewInit
<1>2. TypeOK /\ Few /\ [Next]_vars => (TypeOK /\ Few)'
  BY TypeNext, FewNext
<1>3. TypeOK /\ Few => FewAfterSuppression
  BY CallingFinite DEF Few, FewTo, FewAfterSuppression, TypeOK
<1> QED
  BY <1>1, <1>2, <1>3, PTL DEF Spec
=============================================================================
