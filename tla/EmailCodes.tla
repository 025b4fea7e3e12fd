----------------------------- MODULE EmailCodes -----------------------------
(***************************************************************************)
(* The codes sent by e-mail to one account                                 *)
(* (src/internal/identity/emailcode.go): asked for and answered by several *)
(* requests at once, for several purposes.  A request reads the clock, and *)
(* then waits for the account's row; what it does under that lock is one   *)
(* step.  A code is known by the moment its request read.                  *)
(***************************************************************************)
EXTENDS Clock, FiniteSets

CONSTANTS
  Askers,      \* requests for a code that may wait at once
  Purposes,    \* "signin", "stepup", "enrol"
  Every,       \* ticks between two codes: emailCodeEvery
  Hour,        \* ticks over which codes are counted
  PerHour,     \* how many may be sent in them: emailCodesPerHour
  Lifetime,    \* ticks a code lives: EmailCodeLifetime
  Tries,       \* wrong answers a code takes: EmailCodeAttempts
  MaxWait,     \* ticks a request may wait for the row
  NotAsking

ASSUME EmailCodesAssumption ==
  /\ Every \in Nat \ {0} /\ Hour \in Nat /\ Every <= Hour
  /\ PerHour \in Nat \ {0} /\ Lifetime \in Nat /\ Tries \in Nat \ {0} /\ MaxWait \in Nat
  /\ NotAsking \notin [at : Nat, purpose : Purposes]

VARIABLES
  codes,    \* the rows of email_code
  asking,   \* each request: the moment it read and what the code is for
  sent,     \* every code ever sent, by the moment its request read: how many
  uses,     \* how often each was accepted
  last,     \* the last one sent for each purpose, or -1
  wrong     \* wrong answers since, for each purpose

codeVars == <<codes, asking, sent, uses, last, wrong>>

Moments == 0..Horizon

EmailCodesInit ==
  /\ codes = {}
  /\ asking = [r \in Askers |-> NotAsking]
  /\ sent = [m \in Moments |-> 0]
  /\ uses = [m \in Moments |-> 0]
  /\ last = [p \in Purposes |-> -1]
  /\ wrong = [p \in Purposes |-> 0]

\* A code is asked for: sendCode's now is read before the account is locked.
Ask(r, p) ==
  /\ asking[r] = NotAsking
  /\ asking' = [asking EXCEPT ![r] = [at |-> now, purpose |-> p]]
  /\ UNCHANGED <<now, codes, sent, uses, last, wrong>>

\* Only the codes that may still be used are counted.
Since_Unused(moment) == {c \in codes : c.at > moment /\ ~c.used}

\* The codes counted as sent since a moment.
Since(moment) == {c \in codes : c.at > moment}

TooSoon(at) == Since(at - Every) # {}
TooMany(at) == Cardinality(Since(at - Hour)) >= PerHour

\* The purpose's earlier codes are left to expire.
InsertEmailCode_Adds(at, p) ==
  Since(at - Hour) \union {[at |-> at, purpose |-> p, used |-> FALSE, attempts |-> 0]}

\* The rows once a code is stored: those past the hour gone, the purpose's retired.
InsertEmailCode(at, p) ==
  {[c EXCEPT !.used = c.used \/ c.purpose = p] : c \in Since(at - Hour)}
    \union {[at |-> at, purpose |-> p, used |-> FALSE, attempts |-> 0]}

Send(r) ==
  /\ asking[r] # NotAsking
  /\ LET at == asking[r].at
         p  == asking[r].purpose
     IN \/ (TooSoon(at) \/ TooMany(at)) /\ UNCHANGED <<codes, sent, last, wrong>>
        \/ /\ ~TooSoon(at) /\ ~TooMany(at)
           /\ codes' = InsertEmailCode(at, p)
           /\ sent' = [sent EXCEPT ![at] = @ + 1]
           /\ last' = [last EXCEPT ![p] = at]
           /\ wrong' = [wrong EXCEPT ![p] = 0]
  /\ asking' = [asking EXCEPT ![r] = NotAsking]
  /\ UNCHANGED <<now, uses>>

\* The codes an answer for p may still match, and the one that is read: the latest.
Live(p, moment) ==
  {c \in codes : c.purpose = p /\ ~c.used /\ c.at + Lifetime > moment /\ c.attempts < Tries}
Latest(cs) == CHOOSE c \in cs : \A d \in cs : d.at <= c.at

\* An answer with the code sent at a moment; -1 is one never sent.
UseEmailCode(p, guess) ==
  \E late \in 0..MaxWait :
    LET live == Live(p, now - late)
        code == Latest(live)
    IN /\ late <= now /\ live # {}
       /\ IF code.at = guess
          THEN /\ codes' = (codes \ {code}) \union {[code EXCEPT !.used = TRUE]}
               /\ uses' = [uses EXCEPT ![guess] = @ + 1]
               /\ UNCHANGED wrong
          ELSE /\ codes' = (codes \ {code}) \union {[code EXCEPT !.attempts = @ + 1]}
               /\ wrong' = [wrong EXCEPT ![p] = @ + 1]
               /\ UNCHANGED uses
       /\ UNCHANGED <<now, asking, sent, last>>

\* Nobody waits for the row longer than MaxWait.
CodesTick ==
  /\ Passes
  /\ \A r \in Askers : asking[r] # NotAsking => now - asking[r].at < MaxWait
  /\ UNCHANGED codeVars

EmailCodesNext ==
  \/ CodesTick
  \/ \E r \in Askers : Send(r) \/ \E p \in Purposes : Ask(r, p)
  \/ \E p \in Purposes, guess \in {-1} \union {m \in Moments : sent[m] > 0} : UseEmailCode(p, guess)

EmailCodesSpec == now = 0 /\ EmailCodesInit /\ [][EmailCodesNext]_<<now, codeVars>>

\* The moments codes were sent at, in a span of time.
SentIn(from, to) == {m \in Moments : from <= m /\ m < to /\ sent[m] > 0}

\* Whatever the purposes, and whoever asks at once: no two codes of one moment
\* or within emailCodeEvery, and no more than emailCodesPerHour in any hour.
SendsBounded ==
  \A m \in Moments :
    /\ sent[m] <= 1
    /\ Cardinality(SentIn(m, m + Every)) <= 1
    /\ Cardinality(SentIn(m, m + Hour)) <= PerHour

\* A code is accepted once, only while it is the last sent for its purpose,
\* and never after Tries wrong answers.
OnlyLastAccepted ==
  [][\A m \in Moments :
       uses'[m] > uses[m] =>
         uses[m] = 0 /\ \E p \in Purposes : last[p] = m /\ wrong[p] < Tries]_<<now, codeVars>>
=============================================================================
