# A verification of the marketplace platform

TLA+ models of this repository's concurrent core, the runs that check them
with TLC, and the theorems about them that TLAPS proves. `PROJECT.json` maps
every definition to the lines it models. Paths below are relative to `src/`.

## The system

A Go monolith over one PostgreSQL database, on Cloud Run: up to two instances,
eighty requests at once in each, four connections each. Nothing runs outside a
request. Almost every operation is one `InTx`/`InTxFor` (READ COMMITTED)
transaction, so what can go wrong is what several of them do to each other:
which rows are locked, in what order, and what was read before the lock.

| Component | State | Operations | What must hold | Module |
| --- | --- | --- | --- | --- |
| `identity`: sign-in, sessions | `credential`, `sign_in_challenge`, `session` | SignIn, CompleteSignIn, BeginStepUp, StepUp, ChangePassword, SignOut, sweep | a password change ends what the old password opened; a challenge opens one session; no deadlock | `SignIn`, `Account`, `Journey` |
| `identity`: second factors | `second_factor`, `recovery_code`, `factor_enrolment` | Begin/Confirm App, Key, Email; RemoveFactor; Regenerate | codes exist exactly with a factor; one set; staff keep a factor | `Factors`, `Journey` |
| `identity`: proving a factor | `second_factor_failure`, `email_code`, TOTP step, key counter | answerChallenge, SendChallengeCode | no code twice; the run of failures is counted, notified, locked once; codes sent and tried within their limits | `SecondStep`, `EmailCodes` |
| `outbox` | `outbox_event`, `outbox_delivery` | Write, Dispatch, Deliver | nothing lost, each consumer commits once | `Outbox` |
| `tasks`, `httpx/internaltasks` | the Cloud Tasks queue (external) | Enqueue, the callbacks | a 204 only after all the work | `Outbox` |
| `jobs` | `job_lock` | Run: take, job, release | no overlap within a lease; the job runs again | `JobLease` |
| `mail` | `email_send`, `email_suppression` | Send, Apply, webhook | the log and the suppression list stay true, whatever commits and whatever rolls back | `MailDelivery` |
| `audit` | `audit_log`, chain heads, keys | Append, Verify, Destroy | one unbroken chain per marketplace; a person's records under their one key, destroyed for good; verification names what was altered | `AuditTrail` |
| `staff` | `bootstrap`, the owner's `role` and `user_role` | Open, Setup | one first owner | `AuditTrail`, `Journey` |
| `ratelimit` | `rate_limit`, memory buckets | Allow | at most the limit per window, or per bucket; the table does not grow | `WindowLimiter`, `BucketLimiter` |
| `tenancy` | host map cache | Resolve, Invalidate | never staler than its TTL and a load | `HostMap` |
| `db` | pool of four | InTx, InTxFor | all or nothing | the transactions of every module |
| `httpx` | the browser's cookies (session, challenge, CSRF secret); a session in the context | the routes of three hosts, the gates in front of each, the handlers | what a page offers is served; no redirect goes round; a proof is asked for once; the console needs a factor | `Journey` |
| pages (`web`) | none: each is a function of what it is given | the templates | what they offer exists | `Views`, `Journey` |

Interactions: `httpx` authenticates the session once and passes a copy down;
`identity` writes events through `outbox.Write` and audit entries through
`audit.Append` in its own transaction; the scheduler's callback runs the
dispatch job under `jobs`' lease; the dispatcher hands events to Cloud Tasks;
its callbacks run the mail consumers.

Not modelled, and why: translations, SEO, GeoIP, configuration, logging and
`version` keep no state; the Brevo, KMS and GeoIP clients are I/O; password
hashing, tokens, WebAuthn and TOTP arithmetic are taken as perfect (right or
wrong is chosen); row-level security, and which row of the hosts answers a
name, are PostgreSQL's; `infra/` and `e2e/` were read for the limits and the
claims. Of what is modelled, left out: the sweep of sessions and `touch`, and a
session's ends as times (`Journey` has one end at any moment); the inline
queuer of fake mode; what turns a webhook into events; of `httpx`, the security
headers, telemetry, panics, time-outs, languages, static files and probes; of
the pages, words, fields, style and the script that talks to a security key; a
policy that another table than the present one would hold.

## The modules

**`SignIn`** — one account, any number of requests, statement by statement.
`request[p]` is what the request asked for and what it has read; `secret`,
`challenge` and `session` are the committed rows; a transaction's writes are
seen at its `Commit…` action and its row locks are `secretLock`,
`challengeLock`, `sessionLock`. argon2 runs between two transactions, as in
`SignIn` and `ChangePassword`. Abstractions: a statement over several rows
takes its locks at once; the audit chain, failures and mail come after every
lock the module keeps, so they wait for nobody in it; the sweep and the ends by
time of a session are not here.

**`Account`** — what the flows promise, each as one atomic step. `SignIn`
implements it (`FlowsAreAtomic`) through `Promise == INSTANCE Account`.

**`Outbox`** — `event` is `outbox_event` (state, attempts, whether the payload
still has its Variables), `delivery` and `claim` are `outbox_delivery`'s
committed and uncommitted rows, `task` the queue, `dispatcher[d]` a run of
`Dispatch` with the events it read into memory, `callback[h]` an HTTP callback
inside `Deliver`. Both marks ignore the state they find, as the SQL does.
Abstractions: what waits fits in the batch of a hundred; the queue never
forgets a name; an event carries only whether it is whole. The inline queuer
of fake mode, which runs `Deliver` inside `Enqueue`, is not modelled apart.

**`JobLease`** — one job's row, the calls of `Run`, their requests' contexts,
and time as one event: the lease ends. `by` (the call a lease was taken by) is
the model's, `holder` is the table's.

**`Factors`** — one account. A request is a slot used again and again, so the
behaviours have no end; its transaction locks the account, decides, and
commits. `PutEnrolment` takes no account lock, as in the code. What
`NeedsStepUp` decides by is read on arrival. An expired enrolment and none are
one value: no statement tells them apart.

**`SecondStep`** — one account, its challenges answered at once. A challenge
hears one answer at a time (`answerChallenge` holds its row to the end), so
`answer[p]` is the answer challenge `p` is hearing and its slot is used again.
`last` is `second_factor`'s last step of an app and sign count of a key,
`recovery` the unused rows of `recovery_code`, `failures` the row of
`second_factor_failure`; `lockedBy` has the row locks, taken in the code's
order, and writes are seen at `Wrong` and `Right`. `accepted`, `missed`, `told`
and `late` are the model's: what was accepted, and what happened since the run
of failures began. Abstractions: a code is the step it belongs to (two steps
never share six digits), a key's answer the value of its counter (a key that
keeps none, at zero for ever, has nothing to replay here and is left out); a
count past the lock is no longer told apart; e-mail codes, whose rows and
limits are their own, are not here; what a challenge hears in all is
`SignIn`'s.

**`MailDelivery`** — what `mail`'s two consumers do inside `Deliver`.
`delivered` has the events whose claim committed (`outbox_delivery`), and
`suppression` and `log` are `email_suppression` and the lines of `email_send`;
`callback[h]` is one delivery: the step it is at, its event, and the state it
will record. A delivery keeps the connection of its claim's transaction from
`Begin` to its end (`Holding`), and `Check`, `Record` and `Suppress`, each a
transaction of its own of one statement, need another to be `Free`: it is taken
and given back in one action. `Abort` is every way a delivery ends early; what
it had committed on its own connections stays. `taken`, `unasked` and `after`
are the model's. The provider is external. Two things the comments say are
otherwise here, as in the code: the provider is called inside the claim's
transaction (mailer.go:154-156 says outside one), and a missing template is
retried until the queue gives up (mailer.go:138-140 says once). Abstractions: a
consumer of `mail` is alone with its kind of event, as in `Register`; `mail`
without a database, and a message with no address, are left out.

**`AuditTrail`** — several transactions, each through every append it makes, up
to its commit. `tx[t]` is a transaction: the step it is at, the rows it has
written or locked (`holds`; `Free` is what a statement waits for) and what it
will commit (`wrote`, its chain's new `head`, the key it made); `account`,
`owner`, `key`, `log` and `head` are what is committed, and every statement
reads those and its own. `OpenKey` and `CreateKey` are `open` and `create` with
the read again after a lost insert, `ReadHead` the insert and the locked read of
the head, `Write` the record and the head's advance. What appends is chosen from
what the code has: a sign-up (one record), the first run (three, with its
claim, in the order of `CreateStaff`), an account's own act and a refusal under
the platform's key (one or two). `Reopen` is what `Setup` does about a taken
address: it asks again whether the setup is open, and where that fails it
answers what it was told before (`unsure`). `walk` is `Verify`, one action per batch, each
reading what is committed by then. `Destroy` has no caller in the repository
yet, and nobody alters a record but out of band: both are the environment's.
Abstractions: a hash is the sequence of the contents it covers, so it is never
equal by chance; origin and state, which every caller seals with one key, are
one content; the sessions and mail of the same transactions are other modules'.

**`Clock`** — `now`, in ticks up to `Horizon`. Four small modules extend it;
they share nothing else, so a run of `MCClocks` picks one of them, or `JobLease`,
which has its own time, and runs it alone.

**`EmailCodes`** — the codes sent to one account. `asking[r]` is a request that
has read the clock (`sendCode`'s `now`) and waits for the account's row; `Send`
is the rest of `sendCode` under that lock, with the deletion of the rows past
the hour and the retirement of the purpose's codes; `UseEmailCode` is the read
of the latest live code and the count of its use or its miss. `sent`, `uses`,
`last` and `wrong` are the model's. A code is the moment its request read.
That nobody waits for the row longer than `MaxWait`, and so that clocks never
go back by more, is an assumption of the model.

**`HostMap`** — one instance's map of hosts: `Load`, `Read` and `Stored` are a
resolution that finds no map it trusts, with no lock between them, as in
`resolve`; a map is the number of changes made before it was read, and `ended`
says when each stopped being true. `ChangeHere` is a change followed by
`Invalidate`, which has no caller yet outside its tests. A load is assumed to
take `MaxLoad` at most: nothing in the code bounds it but the request's own
deadline.

**`WindowLimiter`** — `rows` is `rate_limit`. `Hit` is the upsert, `Sweep` the
deletion by whoever opened a window, before its own attempt is allowed. An
attempt's clock may be `Late` behind (assumed no more than a window).

**`BucketLimiter`** — `buckets` is the map of the process's limiter under its
mutex, one action per `Allow`; `ideal` is the model's: a bucket never
forgotten. `Burst <= Refill * Idle` is what `main.go`'s numbers satisfy.

**`Views`** — one operator per template: the links and forms it offers, from
what it is given, as requests (verb, path, the arguments the handler reads).

**`Journey`** — a person, one browser, several tabs. `tab[t]` is the page shown
or the request on its way, with the cookies it was sent with; `jar` is the
browser's cookies; `account`, `sessions` and `challenges` are the server's rows
as the flows of the other modules leave them, one step each. `Admitted`,
`Routed`, `Known`, `Furnished` and `Open` are the gates in the order the
middleware runs, each the guard of the next, and one action per handler comes
after them. A redirect is the next request, with the answer's cookies applied.
What the person types is free, so an answer may be right or wrong; `Environment`
is time and other browsers. `stale`, `only` and `proved` are the model's, and so
is a session's `endFailed`. Where a handler logs that a session could not be
ended and goes on (`openSession`, `signOut`) both outcomes are here (`Ended`).
No other failure of the database is: it ends on an error page, or, where the
session could not be looked up, on the page a visitor is served (session.go:58).
`only` names the tab nothing else has happened to since its page was shown, so
`OffersWork` says nothing of a page another tab left with an old token, which is
refused by design. A wrong answer may be the last a challenge takes, or the one
that locks codes, whenever the code could say so: how many it takes is
`SignIn`'s and `SecondStep`'s. Abstractions: one of each kind of factor; a token nobody
holds is forgotten.

`…Proofs` modules hold the theorems about the module they are named after
(`ClockProofs`: about `HostMap`, `BucketLimiter`, `EmailCodes`, `WindowLimiter` and
`JobLease`).
`MC…` modules hold what TLC needs (symmetry, constant values, the scenes of
`Journey`, the choice of a part in `MCClocks`) and nothing else.

## The runs

| Run | Instance | Question |
| --- | --- | --- |
| `signin` | 4 requests, 2 attempts | every invariant of `SignIn`, and that every flow is one step of `Account` |
| `outbox` | 1 mail event, 2 consumers, 2 dispatchers, 2 callbacks, 3 attempts, 3 tries | nothing lost, bodies whole, handled once, done means handled; every committed event is handled, parked or given up on |
| `factors` | 3 slots, 2 sessions, buyer and staff | the invariants of `Factors` |
| `second_step` | 3 challenges, 1 app, 1 key, 1 recovery code, 2 time steps, told at 1, locked at 2 | nothing proves twice; failures counted and told exactly; few codes checked under the lock |
| `audit_trail` | 3 transactions, the platform's chain and another, 2 addresses, up to 2 records an act, batches of 1, 1 altered record | chains whole; keys kept; one owner; no deadlock; verification true |
| `journey` | five scenes: one tab through all of a store, of the console, of the platform's host; a marketplace in preparation; two tabs signing in, out and changing the password. One link, six tokens | offers work, nobody asked twice, the console's factor, no session left behind, loads end |
| `clocks` | 6 ticks; 2 requests; codes: 2 purposes, one every 2 ticks, 2 in 5, living 3, 2 tries; hosts: 2 changes, TTL 3, loads up to 2; windows: 2 limiters of 1 in 2 ticks and 2 in 3; buckets: 2 keys, 3 tokens, kept 3 ticks; leases: 3 calls, two of one revision, one of the next | limits hold whoever races; maps are fresh; forgetting a bucket changes nothing; only the last code is accepted; no job's runs overlap while nobody is late; a run alone with its holder keeps its lease; the job runs again (`JobRunsAgain`) |
| `mail_delivery` | 2 messages of one address (one with no template), a true report of it and a false one of another, 2 callbacks, 2 connections, 2 tries | done means logged; the log is true; few messages after a suppression; suppression is just |

Bounds. Sign-in: a hazard needs a session or challenge opened, a change, and
one or two answers: four requests. Outbox: events share nothing but the
dispatcher's batch, so the run has one, with every interleaving; more events are
covered by the theorems. Of two dispatchers one succeeds and the other fails and
returns the stripped row to pending, where the first, run again, reads it: three
attempts are what that takes. Factors: two removals, or two
confirmations, need two sessions and a third request to set them up; the slots
are reused, so histories are unbounded. Second step: a code of step two is
accepted early at step one and offered again at two; two counts that matter, one
apart, and three challenges, so that two answers are past `offers` when a third
makes the lock fall. Mail: a message needs a second try to be done after an
abort, and two callbacks to have one past the list when the other suppresses;
two connections are the fewest with which a delivery can do anything, and two
callbacks already wait for each other there. That a delivery gets a
connection before its time is over and its tries are spent is not claimed: the
properties of mail hold of deliveries that starve. Audit: three transactions are two that race
for an account, a key or a head and one that destroys, refuses or comes after;
batches of one make every record a boundary between two reads of the walk; the
first run's three records are the longest an operation makes. Journey: what goes
wrong on a page is of one tab and one answer, so one tab goes through
everything; what goes wrong with cookies is of two answers that cross, which
takes two tabs and the few paths that set a cookie. A token is used again only
once nobody holds it, so six are as many as any number for two tabs, and
histories are unbounded. Clocks: six ticks hold two windows of each limiter and
part of a third, two lives of a code and an hour with what follows it, and two
expiries of a map; two requests are what a race takes. Where a run sets `CHECK_DEADLOCK FALSE`
the behaviour really ends: requests, events or moments are finitely many. (The absence
of a circle of locks is `NoDeadlock`, an invariant.) Symmetry is used in runs of
invariants and step properties only.

Fairness. `Outbox`: Cloud Scheduler fires the dispatch job and Cloud Tasks its
callbacks for ever; strong fairness only where the step recurs: a run is not
stopped, nor its mark lost, every time. `JobLease`: the scheduler asks again,
time passes, and not every take loses the answer to its commit; nothing says a
job ends. `Journey`: the server answers every request it is sent, and no limit
has to refuse one (weak fairness of `Answer`); the person does nothing they are
bound to, and time may pass at every step. The other modules claim no liveness: there, what waits waits for a
row, and `NoDeadlock` is what keeps somebody able to go on.

## What does not hold

Four runs find the program doing other than what it says of itself
(`findings` in `PROJECT.json` has each quotation):

* `job_cancelled`: a run whose request ended cannot release its lease.
* `factors_step_up`: "has 2FA" is read before the lock, so a request from
  before the first factor changes factors with no step-up.
* `journey_switch`: the page of a marketplace in preparation carries the language
  switch with no CSRF token, and the CSRF check stands in front of it: the form
  is always answered 403.
* `journey_replaced`: of two sign-ins sent at once from one browser, the session
  whose cookie is overwritten stays live, although nothing failed: `openSession`
  ends the session of the cookie its request came with. `NoneLeftBehind` is what
  does hold: a live session loses its cookie only to such a crossing, or where
  ending it failed.

A first run that loses the race for one address is told only that the address is
taken when asking again fails (bootstrap.go:104), though the setup has closed by
then: `FirstRunOnce` says the latter, and that nobody is turned away earlier.

Three more that `Outbox`, `MailDelivery` and `JobLease` allow without a run of
their own: `SKIP LOCKED` protects nothing past its statement, so two dispatchers
take the same events (`HandledOnce` holds all the same); the provider is called
again when a claim rolls back after its answer; every instance of a revision
writes the same holder, so a run past its lease frees another's.

## The proofs

`SignInProofs` proves, for any set of requests and any number of attempts:

* `TypeCorrect`: `Spec => []TypeOK`
* `PasswordChangeEndsAll`: `Spec => []OnlyCurrentPassword`
* `OneSession`: `Spec => []OneSessionPerChallenge`
* `AnswersBounded`: `Spec => []AttemptsBounded`
* `NeverDeadlocked`: `Spec => []NoDeadlock`
* `Atomic`: `Spec => FlowsAreAtomic`, that `SignIn` implements `Account`

Assumptions: `NoneAssumption`, `AttemptsAssumption`, both also evaluated by the
runs. None of these properties is inductive alone. The inductive invariant `Inv` adds
`Flows` (at each step a request is in a flow that has that step), `Held` (what
a request past a lock still holds), `Hashes` (a hash names the password it was
made from, so an unchanged hash is an unchanged password) and `Fresh` (a
request has not opened a row before its commit, and what it read of a
credential it holds is still there). The argument: whoever inserts under a
password holds the credential row and has seen its hash unchanged; whoever
changes it holds the same row, and ends everything visible; so no insert falls
between. Preservation is one lemma per action, and under it one step per
conjunct the action can disturb. `Tally` is joined to it for the fourth: while a
challenge is open its attempts count every answer heard, and whoever is about to
write one holds it. `Holders` is joined for the last: whoever holds a session is
at its commit and waits for nobody, so whoever waits for a session is in no
circle, nor then whoever waits for a challenge, nor for the credential.
`Atomic` maps each step of `SignIn` to one of `Account`: what the mapping sees
is changed only by commits, and by rows that expire or run out of attempts, which
`Account` may give up at any moment. The step that needs `Inv` is the commit of
a password change: it holds every session and every waiting sign-in there is, so
it ends all of them, as the abstract change does.

`OutboxProofs` proves, for any events, consumers, dispatchers, callbacks, and
any attempts and tries:

* `TypeCorrect`: `Spec => []TypeOK`
* `NeverLost`: `Spec => []NothingLost`
* `AlwaysWhole`: `Spec => []BodiesWhole`
* `OnceEach`: `Spec => []HandledOnce`
* `DoneIsHandled`: `Spec => []DoneMeansHandled`

The argument for the first two is one invariant: a run that is about to mark an
event has had the queue take it, whoever else holds the same event; a row is
stripped only by such a mark or by the last failure, and a stripped body in
somebody's memory is of an event the queue has already, or that was parked for
good. For the others: a callback inside a consumer's work holds its claim, a
claim and a commit exclude each other, and every turn before the one a callback
is at has committed.

`SecondStepProofs` proves, for any challenges, apps, keys, codes, counts and
time:

* `TypeCorrect`: `Spec => []TypeOK`
* `AcceptedOnce`: `Spec => []EachOnce`
* `EachFailureCounts`: `Spec => []RunCounted`
* `LockHolds`: `Spec => []FewWhileLocked`

`Once` is the invariant of the first: an answer that has checked a proof holds
the rows it was checked against until the proof is spent, and what was accepted
is behind `last`, or no longer unused. `Tally` is that of the second: only an
answer about to commit holds the row of failures, and a wrong one holds it with
the count it read, so no count is read twice. `Few` is that of the third: once
codes are locked, those checked since and those still being checked are
together fewer than the challenges; it falls by nobody's arrival, as `offers`
refuses them. The assumptions are the named ones of each module, evaluated by
its runs.

`MailDeliveryProofs` proves, for any messages, reports, addresses, callbacks,
connections and tries:

* `TypeCorrect`: `Spec => []TypeOK`
* `NoneVanishes`: `Spec => []DoneIsLogged`
* `TrueLog`: `Spec => []LogIsTrue`
* `JustSuppression`: `Spec => []SuppressionIsJust`
* `SuppressionHolds`: `Spec => []FewAfterSuppression`

`Books` is the invariant of the middle three: one claim of an event at a time,
and what a delivery at each step knows (one about to record a message as sent
has had it taken once more than the log says; one about to commit has its line,
or its suppression). `Few` is that of the last: for a suppressed address, the
messages taken since and the deliveries of it now at the provider's call are
together fewer than the deliveries. Whoever suppresses is not at that call, and
from then on `Check` lets nobody reach it.

`AuditTrailProofs` proves, for any transactions, chains, addresses and batches:

* `TypeCorrect`: `Spec => []TypeOK`
* `ChainsStayWhole`: `Spec => []ChainsWhole`
* `KeysStayKept`: `Spec => []KeysKept`
* `OneOwner`: `Spec => []FirstRunOnce`
* `VerifyIsTrue`: `Spec => []VerifyTrue`
* `NeverDeadlocked`: `Spec => []NoDeadlock`

All rest on `Locks`: no row is two transactions', so what a transaction read of
a row it holds is still there. `Chained` is the invariant of the second: what a
transaction has written continues the committed head of its chain, which it
holds from its first append to its end; a commit then adds whole records to a
whole chain, and nobody else was about to. `Secrets` is that of the third: the
row of a key that is being made is held, and nobody has made that key
meanwhile; every content, written or committed, is under the key its person has
or is getting from the same transaction. `Owned` is that of the fourth: a first
run past its claim holds the row, and an account of the platform is its
owner's, which is why a taken address means a closed setup, also to a run that
could not ask again. `Marked` and
`Walked` are that of the fifth: an altered record no longer has its hash, and
keeps its place; the walk remembers the hash of the last record it read, and
each altered record it could know of is named or still ahead. Transactions only
lengthen chains, so both stand whatever commits between two batches. `Ladders`
is that of the last: what a transaction holds at each statement that waits, so
that rows are taken as an account, the owner, keys, a head; a key is made before
the first head is read.

`FactorsProofs` proves, for any slots, sessions, factors and accounts:

* `TypeCorrect`: `Spec => []TypeOK`
* `CodesGoWithFactors`: `Spec => []CodesMeanFactor`
* `NobodyWithoutCodes`: `Spec => []StrongMeansCodes`
* `OneSetAtATime`: `Spec => []OneRecoverySet`
* `AddsOnce`: `Spec => []EnrolmentAddsOnce`
* `StaffAlwaysKeepOne`: `Spec => []StaffKeepOne`

The argument: a transaction past the account's lock is the only one there, and
what it decides by it reads there; the one thing read before it (`NeedsStepUp`)
none of these depends on.

`ClockProofs` proves, for any horizon, requests, times and limits:

* `AlwaysFresh`: `HostMapSpec => []HostsFresh`
* `AlwaysRemembered`: `BucketSpec => []Remembered`
* `LastAccepted`: `EmailCodesSpec => OnlyLastAccepted`
* `SendsAlwaysBounded`: `EmailCodesSpec => []SendsBounded`
* `LimitsAlwaysHold`: `WindowSpec => []LimitsHold`
* `LeaseTyped`, `NoOverlapOnTime`, `LeaseKept`: `TypeOK`, `AloneWhileOnTime` and
  `LeaseProtects` of `JobLease`, for any runs and any number of late ones

For the first, a map in somebody's hands was read since the load began, hence
at most a load ago, and one stored is at most that old when it is stored; for
the second, a bucket idle long enough to be forgotten is full; for the third,
a code not yet used is the last of its purpose, and its attempts are the
wrong answers since it was sent. For the fourth, a row of `email_code` is
deleted only by a request an hour later than it, so the rows a request counts
are every code of the hour before it (`SendsKept`), whatever the order in which
requests that read the clock get the account. For the fifth, a row that is swept
is of a window no attempt can belong to any more, so while one can, the row has
counted everybody it let through and whoever is sweeping for it (`InBudget`).

`JourneyProofs` proves, for any scenes, any number of tabs and any tokens:

* `ConsoleAlwaysGuarded`: `Spec => []ConsoleNeedsFactor`
* `NothingLeftBehind`: `Spec => NoneLeftBehind`
* `NeverAskedTwice`: `Spec /\ []OneAtATime => NotAskedTwice`

`BrowserInv` is the first with the shapes of the state: on the console nothing
removes the last factor. An answer either leaves the sessions and at most clears
a cookie that opens nothing (`OrdinaryKeeps`), or puts one new session in the
place of the one it came with, which is ended, or marked as one that could not be
(`EndedIs`): in each case what the browser loses is the session of its request,
unless it held another by then, which is the second. The third adds `SoloInv`, of
a browser that has one request in flight: the request carries the session the
cookie holds, and once a second factor was proved that session is stepped up
(`ProvedStepped`). It is proved of a browser
that never has two requests in flight, which is also what the run's scenes with
second factors are: with more, a session another tab opened meanwhile, of an
account that had no factor then, need not be stepped up, and the property is not
claimed.

Only model-checked: the liveness properties, and `OffersWork` of `Journey`. It
is about what every page of the site offers, one tab at a time, and would need
an invariant over all of them.

## What is left

1. `Sessions`: idle and lifetime ends as times, `touch`, and the sweep, whose
   cascade takes rows in the order opposite to an answer's.
2. `Policy` as operators over any table, against section 18.2's.
3. Theorems: `OffersWork`, for scenes of one tab.
