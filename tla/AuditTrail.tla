------------------------------ MODULE AuditTrail ------------------------------
(***************************************************************************)
(* What several transactions at once leave in the audit log: Append and    *)
(* the keys it seals with (audit/log.go, audit/keys.go), the accounts and  *)
(* the first run that append in the transaction that makes them            *)
(* (identity.go SignUp, identity/staff.go, staff/bootstrap.go), the        *)
(* destruction of a key, and Verify walking the chains meanwhile.          *)
(*                                                                         *)
(* A transaction is used once, and the account it makes has its name. Its  *)
(* statements read what is committed, and its own; what it wrote others    *)
(* see when it commits. Keys are what made them; a hash is everything it   *)
(* was computed from, and the cipher is perfect. Every caller of Append    *)
(* seals the origin and the state of a record with one key, and gives all  *)
(* the records of a transaction to one chain. The tables' indexes on       *)
(* sequence have nothing to refuse. Sessions and mail are elsewhere.       *)
(***************************************************************************)
EXTENDS Integers, Sequences, FiniteSets

CONSTANTS
  Tx,           \* transactions
  Chain,        \* a chain for each marketplace, and
  Home,         \* the platform's own
  Address,      \* the addresses somebody signs up with
  Platform,     \* whose key seals what nobody personal did
  Records,      \* the records of an operation, at most
  Batch,        \* verifyBatch
  Alterations,  \* records altered out of band
  None

ASSUME HomeAssumption == Home \in Chain
ASSUME NamesAssumption ==
  /\ Platform \notin Tx
  /\ None \notin Tx \cup {Platform} \cup [chain : Chain, address : Address]
ASSUME NumbersAssumption == {Records, Batch} \subseteq Nat \ {0} /\ Alterations \in Nat

VARIABLES
  account,  \* accounts: where each is, and its address
  owner,    \* the row of bootstrap, and the role that goes with it
  key,      \* user_key: who made it, and whether it has been destroyed
  log,      \* audit_log, by chain
  head,     \* audit_chain
  tx,       \* each transaction
  walk,     \* Verify
  altered   \* records altered out of band

vars == <<account, owner, key, log, head, tx, walk, altered>>

Person == Tx \cup {Platform}

Genesis == <<>>

Empty == [last |-> Genesis, length |-> 0]

digest(previous, content) == Append(previous, content)

NoKey == [by |-> None, destroyed |-> FALSE]

(* A transaction that holds and has written nothing. *)
Clean(at, flow, who, chain, address, left) ==
  [at |-> at, flow |-> flow, who |-> who, chain |-> chain, address |-> address,
   left |-> left, holds |-> {}, sealed |-> None, head |-> Empty, wrote |-> <<>>]

Unused == Clean("idle", None, None, None, None, 0)

Init ==
  /\ account = [t \in Tx |-> None]
  /\ owner = None
  /\ key = [p \in Person |-> NoKey]
  /\ log = [c \in Chain |-> <<>>]
  /\ head = [c \in Chain |-> Empty]
  /\ tx = [t \in Tx |-> Unused]
  /\ walk = [at |-> "idle", left |-> {}, chain |-> None, after |-> 0,
             previous |-> Genesis, breaks |-> {}, known |-> {}]
  /\ altered = {}

-----------------------------------------------------------------------------
(* Rows a transaction has written or locked are its own until it ends. *)
Free(t, row) == \A u \in Tx \ {t} : row \notin tx[u].holds

AccountRow(t) == <<"account", tx[t].chain, tx[t].address>>
OwnerRow == <<"owner">>
KeyRow(p) == <<"key", p>>
HeadRow(c) == <<"head", c>>

Update(t, r) == tx' = [tx EXCEPT ![t] = r]

Goto(t, at) == Update(t, [tx[t] EXCEPT !.at = at])

Hold(t, row, at) == Update(t, [tx[t] EXCEPT !.at = at, !.holds = @ \cup {row}])

(* A slip: what a transaction records after the first is the platform's. *)
keyFor_FirstOnly(t) == IF tx[t].wrote = <<>> THEN tx[t].who ELSE Platform

(* keyFor and actorKey: the person's whose operation it is, or the platform's. *)
keyFor(t) == tx[t].who

(* The record's content is sealed with the key that made. *)
Sealed(t, made) == Update(t, [tx[t] EXCEPT !.at = "head", !.sealed = made])

(* The key is the transaction's own. *)
Created(t) ==
  Update(t, [tx[t] EXCEPT !.at = "head", !.sealed = t, !.holds = @ \cup {KeyRow(keyFor(t))}])

(* A transaction is over, and what it held with it; how is its answer. *)
Over(t, how) == Update(t, Clean(how, tx[t].flow, tx[t].who, None, None, 0))

Begin(t, at, flow, who, chain, address, records) ==
  /\ tx[t].at = "idle"
  /\ Update(t, Clean(at, flow, who, chain, address, records))
  /\ UNCHANGED <<account, owner, key, log, head, walk, altered>>

(* SignUp, on a marketplace: one record. *)
SignUp(t, c, a) == c # Home /\ Begin(t, "insert", "signup", t, c, a, 1)

(* Setup, with the right token, while Open says so: the account's claim and *)
(* CreateStaff's own two records. Closed answers are Setup's too.          *)
Setup(t, a) ==
  IF owner = None THEN Begin(t, "insert", "setup", t, Home, a, 3)
                  ELSE Begin(t, "closed", "setup", t, Home, a, 0)

(* What an account does: a record, and one more of a recovery code's use.   *)
Own(t, x, n) ==
  account[x] # None /\ Begin(t, "key", "own", x, account[x].chain, None, n)

(* What is tried against an account by somebody not known to be its owner:  *)
(* a wrong answer, a key that may be a copy, and the failures it adds to.   *)
Refusal(t, c, n) == Begin(t, "key", "refusal", Platform, c, None, n)

(* Destroy, of a person who has an account. *)
Destroy(t, x) == account[x] # None /\ Begin(t, "destroy", "destroy", x, None, None, 0)

-----------------------------------------------------------------------------
(* The account's insert waits for one of the same address, and may find it  *)
(* taken: SignUp then writes to its owner, Setup asks again.               *)
InsertAccount(t) ==
  /\ tx[t].at = "insert"
  /\ Free(t, AccountRow(t))
  /\ IF \E x \in Tx : account[x] = [chain |-> tx[t].chain, address |-> tx[t].address]
     THEN Over(t, IF tx[t].flow = "setup" THEN "reopen" ELSE "exists")
     ELSE Hold(t, AccountRow(t), IF tx[t].flow = "setup" THEN "claim" ELSE "key")
  /\ UNCHANGED <<account, owner, key, log, head, walk, altered>>

(* Setup's answer to an address that is taken, after asking again whether   *)
(* the setup is open.  When that fails, it answers what it was told before, *)
(* which is not known to be so: unsure.                                     *)
Reopen(t) ==
  /\ tx[t].at = "reopen"
  /\ Over(t, IF owner # None THEN "closed" ELSE "taken") \/ Over(t, "unsure")
  /\ UNCHANGED <<account, owner, key, log, head, walk, altered>>

(* A slip: the setup's own first look is all there is. *)
Claim_NotAsked(t) ==
  /\ tx[t].at = "claim"
  /\ Goto(t, "key")
  /\ UNCHANGED <<account, owner, key, log, head, walk, altered>>

(* claim: the one row of bootstrap is inserted, after whoever inserts it,   *)
(* or is there.                                                            *)
Claim(t) ==
  /\ tx[t].at = "claim"
  /\ Free(t, OwnerRow)
  /\ IF owner # None THEN Over(t, "closed") ELSE Hold(t, OwnerRow, "key")
  /\ UNCHANGED <<account, owner, key, log, head, walk, altered>>

(* open: the key as this transaction sees it, refused when destroyed. *)
OpenKey(t) ==
  LET p == keyFor(t) IN
  /\ tx[t].at = "key"
  /\ IF KeyRow(p) \in tx[t].holds THEN Sealed(t, t)
     ELSE IF key[p] = NoKey THEN Goto(t, "create")
     ELSE IF key[p].destroyed THEN Over(t, "erased")
     ELSE Sealed(t, key[p].by)
  /\ UNCHANGED <<account, owner, key, log, head, walk, altered>>

(* A slip: the insert writes over the key that is there. *)
CreateKey_Overwrites(t) ==
  LET p == keyFor(t) IN
  /\ tx[t].at = "create"
  /\ Free(t, KeyRow(p))
  /\ Created(t)
  /\ UNCHANGED <<account, owner, key, log, head, walk, altered>>

(* create: the insert waits for another of the same person, and the loser   *)
(* reads the winner's.                                                     *)
CreateKey(t) ==
  LET p == keyFor(t) IN
  /\ tx[t].at = "create"
  /\ \/ key[p] # NoKey /\ Goto(t, "key")
     \/ key[p] = NoKey /\ Free(t, KeyRow(p)) /\ Created(t)
  /\ UNCHANGED <<account, owner, key, log, head, walk, altered>>

(* What the transaction sees of its chain: its own writes after the row's. *)
Seen(t) == IF tx[t].wrote = <<>> THEN head[tx[t].chain] ELSE tx[t].head

(* A slip: the head is read without its row. *)
ReadHead_NoLock(t) ==
  /\ tx[t].at = "head"
  /\ Update(t, [tx[t] EXCEPT !.at = "write", !.head = Seen(t)])
  /\ UNCHANGED <<account, owner, key, log, head, walk, altered>>

(* head: the chain's row is made where there is none, and locked. *)
ReadHead(t) ==
  /\ tx[t].at = "head"
  /\ Free(t, HeadRow(tx[t].chain))
  /\ Update(t, [tx[t] EXCEPT !.at = "write", !.head = Seen(t),
                             !.holds = @ \cup {HeadRow(tx[t].chain)}])
  /\ UNCHANGED <<account, owner, key, log, head, walk, altered>>

(* The record is inserted and the head advanced to it. *)
Write(t) ==
  LET h == tx[t].head
      content == [person |-> keyFor(t), sealed |-> tx[t].sealed]
      record == [sequence |-> h.length + 1, content |-> content,
                 previous |-> h.last, hash |-> digest(h.last, content)]
  IN
  /\ tx[t].at = "write"
  /\ Update(t, [tx[t] EXCEPT !.at = IF tx[t].left = 1 THEN "commit" ELSE "key",
                             !.left = @ - 1, !.wrote = Append(@, record),
                             !.head = [last |-> record.hash, length |-> record.sequence]])
  /\ UNCHANGED <<account, owner, key, log, head, walk, altered>>

(* Destroy's update, of the row or of nothing. *)
DestroyKey(t) ==
  /\ tx[t].at = "destroy"
  /\ Free(t, KeyRow(tx[t].who))
  /\ Hold(t, KeyRow(tx[t].who), "commit")
  /\ UNCHANGED <<account, owner, key, log, head, walk, altered>>

(* Everything a transaction wrote is there at once. *)
Commit(t) ==
  LET r == tx[t] IN
  /\ r.at = "commit"
  /\ Over(t, "done")
  /\ account' = IF r.flow \in {"signup", "setup"}
                THEN [account EXCEPT ![t] = [chain |-> r.chain, address |-> r.address]]
                ELSE account
  /\ owner' = IF r.flow = "setup" THEN t ELSE owner
  /\ key' = IF r.flow = "destroy" THEN [key EXCEPT ![r.who].destroyed = TRUE]
            ELSE [p \in Person |-> IF KeyRow(p) \in r.holds THEN [by |-> t, destroyed |-> FALSE]
                                   ELSE key[p]]
  /\ IF r.flow = "destroy" THEN UNCHANGED <<log, head>>
     ELSE /\ log' = [log EXCEPT ![r.chain] = @ \o r.wrote]
          /\ head' = [head EXCEPT ![r.chain] = r.head]
  /\ UNCHANGED <<walk, altered>>

Open == {"insert", "claim", "key", "create", "head", "write", "destroy", "commit"}

(* A statement fails, or the request is over: nothing of it stays. *)
Abort(t) ==
  /\ tx[t].at \in Open
  /\ Over(t, "failed")
  /\ UNCHANGED <<account, owner, key, log, head, walk, altered>>

-----------------------------------------------------------------------------
(* Whoever owns the table changes what a record holds, out of band. *)
Alter(c, i) ==
  /\ Cardinality(altered) < Alterations
  /\ log' = [log EXCEPT ![c][i].content = [person |-> None, sealed |-> None]]
  /\ altered' = altered \cup {<<c, i>>}
  /\ UNCHANGED <<account, owner, key, head, tx, walk>>

(* Verify asks which chains there are. *)
BeginWalk ==
  /\ walk.at = "idle"
  /\ walk' = [walk EXCEPT !.at = IF \A c \in Chain : log[c] = <<>> THEN "done" ELSE "chain",
                          !.left = {c \in Chain : log[c] # <<>>}, !.known = altered]
  /\ UNCHANGED <<account, owner, key, log, head, tx, altered>>

WalkChain(c) ==
  /\ walk.at = "chain"
  /\ c \in walk.left
  /\ walk' = [walk EXCEPT !.at = "read", !.left = @ \ {c}, !.chain = c, !.after = 0,
                          !.previous = Genesis]
  /\ UNCHANGED <<account, owner, key, log, head, tx, altered>>

(* The last record of the next batch. *)
Upto ==
  IF walk.after + Batch < Len(log[walk.chain]) THEN walk.after + Batch ELSE Len(log[walk.chain])

(* The records of a batch that do not verify: each is compared with what    *)
(* the one before it says, and the first with what the walk remembers.     *)
Broken ==
  LET records == log[walk.chain]
      before(i) == IF i = walk.after + 1 THEN walk.previous ELSE records[i - 1].hash
  IN {i \in walk.after + 1 .. Upto :
        \/ records[i].previous # before(i)
        \/ records[i].hash # digest(before(i), records[i].content)}

EndChain ==
  /\ walk.at = "read"
  /\ Upto = walk.after
  /\ walk' = [walk EXCEPT !.at = IF walk.left = {} THEN "done" ELSE "chain"]
  /\ UNCHANGED <<account, owner, key, log, head, tx, altered>>

(* A slip: what the walk remembers is declared within the loop of batches. *)
ReadBatch_Forgets ==
  /\ walk.at = "read"
  /\ Upto # walk.after
  /\ walk' = [walk EXCEPT !.after = Upto, !.previous = Genesis,
                          !.breaks = @ \cup {<<walk.chain, i>> : i \in Broken}]
  /\ UNCHANGED <<account, owner, key, log, head, tx, altered>>

(* One batch, in a transaction of its own; an empty one ends the chain. *)
ReadBatch ==
  /\ walk.at = "read"
  /\ Upto # walk.after
  /\ walk' = [walk EXCEPT !.after = Upto, !.previous = log[walk.chain][Upto].hash,
                          !.breaks = @ \cup {<<walk.chain, i>> : i \in Broken}]
  /\ UNCHANGED <<account, owner, key, log, head, tx, altered>>

-----------------------------------------------------------------------------
Arrive(t) ==
  \/ \E c \in Chain, a \in Address : SignUp(t, c, a)
  \/ \E a \in Address : Setup(t, a)
  \/ \E x \in Tx, n \in 1 .. Records : Own(t, x, n)
  \/ \E c \in Chain, n \in 1 .. Records : Refusal(t, c, n)
  \/ \E x \in Tx : Destroy(t, x)

Statement(t) ==
  \/ InsertAccount(t) \/ Reopen(t) \/ Claim(t)
  \/ OpenKey(t) \/ CreateKey(t) \/ ReadHead(t) \/ Write(t) \/ DestroyKey(t)

Verify == BeginWalk \/ (\E c \in Chain : WalkChain(c)) \/ ReadBatch \/ EndChain

Next ==
  \/ \E t \in Tx : Arrive(t) \/ Statement(t) \/ Commit(t) \/ Abort(t)
  \/ \E c \in Chain : \E i \in DOMAIN log[c] : Alter(c, i)
  \/ Verify

Spec == Init /\ [][Next]_vars

-----------------------------------------------------------------------------
(* Properties. *)

Content == [person : Person, sealed : Tx] \cup {[person |-> None, sealed |-> None]}

Record == [sequence : Nat \ {0}, content : Content, previous : Seq(Content), hash : Seq(Content)]

Tip == [last : Seq(Content), length : Nat]

Rows == {"account"} \X Chain \X Address \cup {OwnerRow}
        \cup {"key"} \X Person \cup {"head"} \X Chain

Transaction ==
  [at : Open \cup {"idle", "reopen", "done", "failed", "exists", "taken", "unsure",
                   "closed", "erased"},
   flow : {"signup", "setup", "own", "refusal", "destroy", None},
   who : Person \cup {None}, chain : Chain \cup {None}, address : Address \cup {None},
   left : Nat, holds : SUBSET Rows, sealed : Tx \cup {None}, head : Tip, wrote : Seq(Record)]

TypeOK ==
  /\ account \in [Tx -> [chain : Chain, address : Address] \cup {None}]
  /\ owner \in Tx \cup {None}
  /\ key \in [Person -> [by : Tx \cup {None}, destroyed : BOOLEAN]]
  /\ log \in [Chain -> Seq(Record)]
  /\ head \in [Chain -> Tip]
  /\ tx \in [Tx -> Transaction]
  /\ walk \in [at : {"idle", "chain", "read", "done"}, left : SUBSET Chain,
               chain : Chain \cup {None}, after : Nat, previous : Seq(Content),
               breaks : SUBSET (Chain \X Nat), known : SUBSET (Chain \X Nat)]
  /\ altered \subseteq Chain \X (Nat \ {0})

(* What a chain's records say of one another, and its head of the last:     *)
(* each is at its place and follows the one before it, however many        *)
(* operations append at once and roll back.                                *)
Before(c, i) == IF i = 1 THEN Genesis ELSE log[c][i - 1].hash

ChainsWhole == \A c \in Chain :
  /\ head[c] = [last |-> Before(c, Len(log[c]) + 1), length |-> Len(log[c])]
  /\ \A i \in DOMAIN log[c] :
       /\ log[c][i].sequence = i
       /\ log[c][i].previous = Before(c, i)
       /\ <<c, i>> \in altered \/ log[c][i].hash = digest(Before(c, i), log[c][i].content)

(* Every record is sealed with the key its person has, or had until it was  *)
(* destroyed (keys.go:83-85); and what has been destroyed stays so.        *)
KeysKept ==
  /\ \A c \in Chain : \A i \in DOMAIN log[c] :
       <<c, i>> \in altered \/ key[log[c][i].content.person].by = log[c][i].content.sealed
  /\ \A t \in Tx : tx[t].flow = "destroy" /\ tx[t].at = "done" => key[tx[t].who].destroyed

(* Two first runs at once make one owner, whichever row the other lost      *)
(* (bootstrap.go:75-77, 97-103).  Nobody is turned away from a setup that   *)
(* is still open: an address is taken by the winner's account only, also    *)
(* where asking again failed and the loser is told no more than that.       *)
FirstRunOnce ==
  /\ owner # None => account[owner] # None
  /\ \A t \in Tx : tx[t].flow = "setup" =>
       /\ tx[t].at = "done" => owner = t
       /\ tx[t].at \in {"closed", "unsure"} => owner # None
       /\ tx[t].at # "taken"

(* The rows of one transaction another's next statement waits for.         *)
Waits(t) ==
  CASE tx[t].at = "insert" -> {AccountRow(t)}
    [] tx[t].at = "claim" -> {OwnerRow}
    [] tx[t].at = "create" /\ key[keyFor(t)] = NoKey -> {KeyRow(keyFor(t))}
    [] tx[t].at = "head" -> {HeadRow(tx[t].chain)}
    [] tx[t].at = "destroy" -> {KeyRow(tx[t].who)}
    [] OTHER -> {}

Blockers(t) == {u \in Tx \ {t} : Waits(t) \cap tx[u].holds # {}}

(* Accounts, the owner, keys and heads are taken in that order, and a second *)
(* record of a transaction makes no key: no circle of transactions each    *)
(* waiting for a row the next one holds.                                   *)
NoDeadlock == \A D \in (SUBSET Tx) \ {{}} : \E t \in D : Blockers(t) \cap D = {}

(* Verify names what was altered before it began, and nothing that was not  *)
(* altered, though chains grow between its batches (log.go:150-152: one     *)
(* altered record is one break).                                           *)
VerifyTrue ==
  /\ walk.breaks \subseteq altered
  /\ walk.at = "done" => walk.known \subseteq walk.breaks
=============================================================================
