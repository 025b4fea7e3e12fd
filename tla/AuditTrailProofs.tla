--------------------------- MODULE AuditTrailProofs ---------------------------
(* Proofs about AuditTrail: its types, that chains are whole, keys kept and *)
(* the owner one, for any transactions, chains and addresses.              *)
EXTENDS AuditTrail, TLAPS

Recording == {"insert", "claim", "key", "create", "head", "write"}

(* What a transaction has by the step it is at. *)
Placed(t) ==
  LET r == tx[t] IN
  /\ r.at \in Recording => r.flow # "destroy" /\ r.left # 0
  /\ r.at \in Recording \cup {"commit"} /\ r.flow # "destroy" => r.who \in Person /\ r.chain \in Chain
  /\ r.at \in {"head", "write"} => r.sealed \in Tx
  /\ r.at \in Open /\ r.flow \in {"signup", "setup"} => r.address \in Address /\ r.who = t
  /\ r.at = "insert" => r.flow \in {"signup", "setup"}
  /\ r.at \in {"claim", "reopen"} => r.flow = "setup"
  /\ r.at \in Open => (r.flow = "setup" => r.chain = Home) /\ (r.flow = "signup" => r.chain # Home)
  /\ r.at = "destroy" => r.flow = "destroy"
  /\ r.at \in Open /\ r.flow = "destroy" => r.who \in Tx

(* The walk is within the chain it reads. *)
Walking == walk.at = "read" => walk.chain \in Chain /\ walk.after \in 0 .. Len(log[walk.chain])

Typed == TypeOK /\ (\A t \in Tx : Placed(t)) /\ Walking

LEMMA CleanTyped ==
  ASSUME NEW at \in Open \cup {"idle", "reopen", "done", "failed", "exists", "taken", "unsure", "closed", "erased"},
         NEW flow \in {"signup", "setup", "own", "refusal", "destroy", None},
         NEW who \in Person \cup {None}, NEW chain \in Chain \cup {None},
         NEW address \in Address \cup {None}, NEW left \in Nat
  PROVE  Clean(at, flow, who, chain, address, left) \in Transaction
<1>1. Empty \in Tip /\ <<>> \in Seq(Record)
  BY DEF Tip, Empty, Genesis
<1> QED
  BY <1>1 DEF Clean, Transaction

LEMMA TypedInit == Init => Typed
<1> SUFFICES ASSUME Init PROVE Typed
  OBVIOUS
<1> USE HomeAssumption, NamesAssumption, NumbersAssumption
<1>1. Unused \in Transaction
  BY CleanTyped DEF Unused
<1>2. TypeOK
  BY <1>1 DEF Init, TypeOK, Person, NoKey, Tip, Empty, Genesis
<1>3. ASSUME NEW t \in Tx PROVE Placed(t)
  BY DEF Init, Unused, Clean, Placed, Open, Recording
<1>4. Walking
  BY DEF Init, Walking
<1> QED
  BY <1>2, <1>3, <1>4 DEF Typed

(* A step that moves one transaction and nothing else. *)
Others == UNCHANGED <<account, owner, key, log, head, walk, altered>>

LEMMA Moved ==
  ASSUME Typed, NEW t \in Tx, NEW r \in Transaction, Others, Update(t, r),
         Placed(t)'
  PROVE  Typed'
<1>1. tx' \in [Tx -> Transaction] /\ \A u \in Tx \ {t} : tx'[u] = tx[u]
  BY DEF Typed, TypeOK, Update
<1>2. TypeOK'
  BY <1>1 DEF Typed, TypeOK, Others
<1>3. ASSUME NEW u \in Tx \ {t} PROVE Placed(u)'
  BY <1>1 DEF Typed, Placed
<1>4. Walking'
  BY DEF Typed, Walking, Others
<1> QED
  BY <1>2, <1>3, <1>4 DEF Typed

LEMMA BeginTyped ==
  ASSUME Typed, NEW t \in Tx, NEW at \in {"insert", "key", "destroy", "closed"},
         NEW flow \in {"signup", "setup", "own", "refusal", "destroy"},
         NEW who \in Person, NEW chain \in Chain \cup {None}, NEW address \in Address \cup {None},
         NEW records \in Nat, Begin(t, at, flow, who, chain, address, records),
         at \in Recording => flow # "destroy" /\ records # 0 /\ chain \in Chain,
         at # "closed" /\ flow \in {"signup", "setup"} => address \in Address /\ who = t,
         at = "destroy" => flow = "destroy",
         at = "insert" => flow \in {"signup", "setup"},
         flow = "setup" => chain = Home,
         flow = "signup" => chain # Home,
         flow = "destroy" => who \in Tx /\ at = "destroy"
  PROVE  Typed'
<1> DEFINE r == Clean(at, flow, who, chain, address, records)
<1>1. r \in Transaction
  BY CleanTyped DEF Open
<1>2. Update(t, r) /\ Others
  BY DEF Begin, Others
<1>3. tx'[t] = r
  BY <1>2 DEF Update, Typed, TypeOK
<1>4. Placed(t)'
  BY <1>3 DEF Placed, Clean, Open, Recording
<1> QED
  BY <1>1, <1>2, <1>4, Moved

LEMMA OverTyped ==
  ASSUME Typed, NEW t \in Tx, Others,
         NEW how \in {"reopen", "done", "failed", "exists", "taken", "unsure", "closed", "erased"},
         Over(t, how), how = "reopen" => tx[t].flow = "setup"
  PROVE  Typed'
<1> DEFINE r == Clean(how, tx[t].flow, tx[t].who, None, None, 0)
<1>1. tx[t].flow \in {"signup", "setup", "own", "refusal", "destroy", None}
      /\ tx[t].who \in Person \cup {None}
  BY DEF Typed, TypeOK, Transaction
<1>2. r \in Transaction
  BY <1>1, CleanTyped
<1>3. Update(t, r)
  BY DEF Over
<1>4. tx'[t] = r
  BY <1>3 DEF Update, Typed, TypeOK
<1>5. Placed(t)'
  BY <1>4 DEF Placed, Clean, Open, Recording
<1> QED
  BY <1>2, <1>3, <1>5, Moved

(* Most statements change the step, what is held, and the key in use. *)
LEMMA StepTyped ==
  ASSUME Typed, NEW t \in Tx, Others, NEW r \in Transaction, Update(t, r),
         tx[t].at \in Open, r.at \in Open,
         r.flow = tx[t].flow, r.who = tx[t].who, r.chain = tx[t].chain,
         r.address = tx[t].address,
         r.at \in Recording => tx[t].at \in Recording /\ r.left # 0,
         r.at = "commit" /\ tx[t].flow # "destroy" => tx[t].at \in Recording,
         r.at \in {"head", "write"} => r.sealed \in Tx,
         r.at \notin {"insert", "destroy"}, r.at = "claim" => r.flow = "setup"
  PROVE  Typed'
<1>1. tx'[t] = r
  BY DEF Update, Typed, TypeOK
<1>2. Placed(t)
  BY DEF Typed
<1>3. Placed(t)'
  BY <1>1, <1>2 DEF Placed, Open, Recording
<1> QED
  BY <1>3, Moved

LEMMA InsertTyped ==
  ASSUME Typed, NEW t \in Tx, InsertAccount(t)
  PROVE  Typed'
<1>0. tx[t] \in Transaction /\ Placed(t) /\ Others
  BY DEF Typed, TypeOK, InsertAccount, Others
<1>1. CASE Over(t, IF tx[t].flow = "setup" THEN "reopen" ELSE "exists")
  BY <1>0, <1>1, OverTyped
<1>2. CASE Hold(t, AccountRow(t), IF tx[t].flow = "setup" THEN "claim" ELSE "key")
  <2> DEFINE at == IF tx[t].flow = "setup" THEN "claim" ELSE "key"
             r == [tx[t] EXCEPT !.at = at, !.holds = @ \cup {AccountRow(t)}]
  <2>1. tx[t].at = "insert"
    BY DEF InsertAccount
  <2>2. AccountRow(t) \in Rows
    BY <1>0, <2>1 DEF Rows, AccountRow, Placed, Recording, Open
  <2>3. r \in Transaction
    BY <1>0, <2>2 DEF Transaction, Open
  <2>4. Update(t, r)
    BY <1>2 DEF Hold
  <2> QED
    BY <1>0, <2>1, <2>3, <2>4, StepTyped DEF Transaction, Open, Recording, Placed
<1> QED
  BY <1>1, <1>2 DEF InsertAccount

LEMMA ReopenTyped ==
  ASSUME Typed, NEW t \in Tx, Reopen(t)
  PROVE  Typed'
<1>1. Others /\ \E how \in {"closed", "taken", "unsure"} : Over(t, how)
  BY DEF Reopen, Others
<1> QED
  BY <1>1, OverTyped

LEMMA AbortTyped ==
  ASSUME Typed, NEW t \in Tx, Abort(t)
  PROVE  Typed'
<1>1. Others /\ Over(t, "failed")
  BY DEF Abort, Others
<1> QED
  BY <1>1, OverTyped

LEMMA ClaimTyped ==
  ASSUME Typed, NEW t \in Tx, Claim(t)
  PROVE  Typed'
<1>0. tx[t] \in Transaction /\ Placed(t) /\ Others /\ tx[t].at = "claim"
  BY DEF Typed, TypeOK, Claim, Others
<1>1. CASE Over(t, "closed")
  BY <1>0, <1>1, OverTyped
<1>2. CASE Hold(t, OwnerRow, "key")
  <2> DEFINE r == [tx[t] EXCEPT !.at = "key", !.holds = @ \cup {OwnerRow}]
  <2>1. r \in Transaction
    BY <1>0 DEF Transaction, Open, Rows
  <2>2. Update(t, r)
    BY <1>2 DEF Hold
  <2> QED
    BY <1>0, <2>1, <2>2, StepTyped DEF Transaction, Open, Recording, Placed
<1> QED
  BY <1>1, <1>2 DEF Claim

LEMMA GotoTyped ==
  ASSUME Typed, NEW t \in Tx, Others, NEW at \in {"key", "create"}, Goto(t, at),
         tx[t].at \in Recording
  PROVE  Typed'
<1>0. tx[t] \in Transaction /\ Placed(t)
  BY DEF Typed, TypeOK
<1> DEFINE r == [tx[t] EXCEPT !.at = at]
<1>1. r \in Transaction
  BY <1>0 DEF Transaction, Open
<1>2. Update(t, r)
  BY DEF Goto
<1> QED
  BY <1>0, <1>1, <1>2, StepTyped DEF Transaction, Open, Recording, Placed

LEMMA SealedTyped ==
  ASSUME Typed, NEW t \in Tx, Others, NEW made \in Tx, Sealed(t, made), tx[t].at \in Recording
  PROVE  Typed'
<1>0. tx[t] \in Transaction /\ Placed(t)
  BY DEF Typed, TypeOK
<1> DEFINE r == [tx[t] EXCEPT !.at = "head", !.sealed = made]
<1>1. r \in Transaction
  BY <1>0 DEF Transaction, Open
<1>2. Update(t, r)
  BY DEF Sealed
<1> QED
  BY <1>0, <1>1, <1>2, StepTyped DEF Transaction, Open, Recording, Placed

LEMMA OpenKeyTyped ==
  ASSUME Typed, NEW t \in Tx, OpenKey(t)
  PROVE  Typed'
<1>0. Placed(t) /\ Others /\ tx[t].at \in Recording /\ tx[t].who \in Person
  BY DEF Typed, OpenKey, Others, Placed, Recording
<1>1. CASE Sealed(t, t)
  BY <1>0, <1>1, SealedTyped
<1>2. CASE Goto(t, "create")
  BY <1>0, <1>2, GotoTyped
<1>3. CASE Over(t, "erased")
  BY <1>0, <1>3, OverTyped
<1>4. CASE key[tx[t].who] # NoKey /\ ~ key[tx[t].who].destroyed /\ Sealed(t, key[tx[t].who].by)
  <2>1. key[tx[t].who] \in [by : Tx \cup {None}, destroyed : BOOLEAN]
    BY <1>0 DEF Typed, TypeOK
  <2>2. key[tx[t].who].by \in Tx
    BY <1>4, <2>1 DEF NoKey
  <2> QED
    BY <1>0, <1>4, <2>2, SealedTyped
<1> QED
  BY <1>1, <1>2, <1>3, <1>4 DEF OpenKey, keyFor

LEMMA CreateKeyTyped ==
  ASSUME Typed, NEW t \in Tx, CreateKey(t)
  PROVE  Typed'
<1>0. tx[t] \in Transaction /\ Placed(t) /\ Others /\ tx[t].at = "create" /\ tx[t].who \in Person
  BY DEF Typed, TypeOK, CreateKey, Others, Placed, Recording
<1>1. CASE Goto(t, "key")
  BY <1>0, <1>1, GotoTyped DEF Recording
<1>2. CASE Created(t)
  <2> DEFINE r == [tx[t] EXCEPT !.at = "head", !.sealed = t, !.holds = @ \cup {KeyRow(tx[t].who)}]
  <2>1. KeyRow(tx[t].who) \in Rows
    BY <1>0 DEF KeyRow, Rows
  <2>2. r \in Transaction
    BY <1>0, <2>1 DEF Transaction, Open
  <2>3. Update(t, r)
    BY <1>2 DEF Created, keyFor
  <2> QED
    BY <1>0, <2>2, <2>3, StepTyped DEF Transaction, Open, Recording, Placed
<1> QED
  BY <1>1, <1>2 DEF CreateKey

LEMMA ReadHeadTyped ==
  ASSUME Typed, NEW t \in Tx, ReadHead(t)
  PROVE  Typed'
<1>0. tx[t] \in Transaction /\ Placed(t) /\ Others /\ tx[t].at = "head"
      /\ tx[t].chain \in Chain /\ head \in [Chain -> Tip]
  BY DEF Typed, TypeOK, ReadHead, Others, Placed, Recording
<1> DEFINE r == [tx[t] EXCEPT !.at = "write", !.head = Seen(t),
                              !.holds = @ \cup {HeadRow(tx[t].chain)}]
<1>1. HeadRow(tx[t].chain) \in Rows /\ Seen(t) \in Tip
  BY <1>0 DEF HeadRow, Rows, Seen, Transaction
<1>2. r \in Transaction
  BY <1>0, <1>1 DEF Transaction, Open
<1>3. Update(t, r)
  BY DEF ReadHead
<1> QED
  BY <1>0, <1>2, <1>3, StepTyped DEF Transaction, Open, Recording, Placed

LEMMA DestroyKeyTyped ==
  ASSUME Typed, NEW t \in Tx, DestroyKey(t)
  PROVE  Typed'
<1>0. tx[t] \in Transaction /\ Placed(t) /\ Others /\ tx[t].at = "destroy"
  BY DEF Typed, TypeOK, DestroyKey, Others
<1> DEFINE r == [tx[t] EXCEPT !.at = "commit", !.holds = @ \cup {KeyRow(tx[t].who)}]
<1>1. KeyRow(tx[t].who) \in Rows
  BY <1>0 DEF KeyRow, Rows, Placed, Open, Person
<1>2. r \in Transaction
  BY <1>0, <1>1 DEF Transaction, Open
<1>3. Update(t, r)
  BY DEF DestroyKey, Hold
<1> QED
  BY <1>0, <1>2, <1>3, StepTyped DEF Transaction, Open, Recording, Placed

(* The record a transaction at "write" inserts, and the head after it. *)
Next1(t) ==
  LET h == tx[t].head
      content == [person |-> tx[t].who, sealed |-> tx[t].sealed]
  IN [sequence |-> h.length + 1, content |-> content,
      previous |-> h.last, hash |-> Append(h.last, content)]

LEMMA WriteIs ==
  ASSUME Typed, NEW t \in Tx, Write(t)
  PROVE  /\ tx[t].at = "write" /\ Others /\ tx' \in [Tx -> Transaction]
         /\ Next1(t) \in Record
         /\ Next1(t).content = [person |-> tx[t].who, sealed |-> tx[t].sealed]
         /\ tx[t].who \in Person /\ tx[t].sealed \in Tx
         /\ \A u \in Tx \ {t} : tx'[u] = tx[u]
         /\ tx'[t].at = IF tx[t].left = 1 THEN "commit" ELSE "key"
         /\ tx'[t].wrote = Append(tx[t].wrote, Next1(t))
         /\ tx'[t].head = [last |-> Next1(t).hash, length |-> Next1(t).sequence]
         /\ tx'[t].holds = tx[t].holds /\ tx'[t].flow = tx[t].flow /\ tx'[t].who = tx[t].who
         /\ tx'[t].chain = tx[t].chain /\ tx'[t].sealed = tx[t].sealed
         /\ Typed'
<1>0. tx[t] \in Transaction /\ Placed(t) /\ Others /\ tx[t].at = "write"
  BY DEF Typed, TypeOK, Write, Others
<1>1. tx[t].who \in Person /\ tx[t].sealed \in Tx /\ tx[t].left \in Nat /\ tx[t].left # 0
      /\ tx[t].head \in Tip
  BY <1>0 DEF Placed, Recording, Transaction
<1> DEFINE content == [person |-> tx[t].who, sealed |-> tx[t].sealed]
<1>2. content \in Content
  BY <1>1 DEF Content
<1>3. /\ Next1(t).sequence = tx[t].head.length + 1 /\ Next1(t).content = content
      /\ Next1(t).previous = tx[t].head.last /\ Next1(t).hash = Append(tx[t].head.last, content)
  BY DEF Next1
<1>4. Next1(t) \in Record
  <2>1. tx[t].head.last \in Seq(Content) /\ tx[t].head.length \in Nat
    BY <1>1 DEF Tip
  <2>2. Append(tx[t].head.last, content) \in Seq(Content)
    BY <1>2, <2>1
  <2> HIDE DEF content
  <2> QED
    BY <1>2, <2>1, <2>2 DEF Next1, Record, content
<1> DEFINE tip == [last |-> Next1(t).hash, length |-> Next1(t).sequence]
           wrote == Append(tx[t].wrote, Next1(t))
           at == IF tx[t].left = 1 THEN "commit" ELSE "key"
           r == [tx[t] EXCEPT !.at = at, !.left = @ - 1, !.head = tip, !.wrote = wrote]
<1>5. tip \in Tip /\ wrote \in Seq(Record)
  BY <1>0, <1>4 DEF Tip, Record, Transaction
<1>6. r \in Transaction
  <2>1. at \in {"commit", "key"} /\ tx[t].left - 1 \in Nat
    BY <1>1
  <2> HIDE DEF tip, wrote, at
  <2>2. [tx[t] EXCEPT !.at = at] \in Transaction
    BY <1>0, <2>1 DEF Transaction, Open
  <2>3. [[tx[t] EXCEPT !.at = at] EXCEPT !.left = tx[t].left - 1] \in Transaction
    BY <2>1, <2>2 DEF Transaction
  <2>4. [[[tx[t] EXCEPT !.at = at] EXCEPT !.left = tx[t].left - 1] EXCEPT !.head = tip]
        \in Transaction
    BY <1>5, <2>3 DEF Transaction
  <2>5. [[[[tx[t] EXCEPT !.at = at] EXCEPT !.left = tx[t].left - 1] EXCEPT !.head = tip]
         EXCEPT !.wrote = wrote] \in Transaction
    BY <1>5, <2>4 DEF Transaction
  <2>6. r = [[[[tx[t] EXCEPT !.at = at] EXCEPT !.left = tx[t].left - 1] EXCEPT !.head = tip]
         EXCEPT !.wrote = wrote]
    BY <1>0 DEF Transaction
  <2> HIDE DEF r
  <2> QED
    BY <2>5, <2>6
<1>7. Update(t, r)
  <2>1. Update(t, [tx[t] EXCEPT !.at = at, !.left = @ - 1, !.wrote = wrote, !.head = tip])
    BY DEF Write, digest, keyFor, Next1
  <2> HIDE DEF tip, wrote, at
  <2>2. [tx[t] EXCEPT !.at = at, !.left = @ - 1, !.wrote = wrote, !.head = tip] = r
    BY <1>0 DEF Transaction
  <2> QED
    BY <2>1, <2>2
<1>8. tx' = [tx EXCEPT ![t] = r] /\ tx \in [Tx -> Transaction]
  BY <1>7 DEF Update, Typed, TypeOK
<1>9. tx'[t] = r /\ \A u \in Tx \ {t} : tx'[u] = tx[u]
  BY <1>8
<1>10. /\ r.at = at /\ r.wrote = wrote /\ r.head = tip /\ r.left = tx[t].left - 1
       /\ r.holds = tx[t].holds /\ r.flow = tx[t].flow
       /\ r.who = tx[t].who /\ r.chain = tx[t].chain /\ r.sealed = tx[t].sealed
       /\ r.address = tx[t].address
  <2> HIDE DEF tip, wrote, at
  <2> QED
    BY <1>0 DEF Transaction
<1>11. Typed'
  <2> HIDE DEF r
  <2> QED
    BY <1>0, <1>1, <1>6, <1>7, <1>10, StepTyped DEF Open, Recording
<1>12. tx' \in [Tx -> Transaction]
  BY <1>11 DEF Typed, TypeOK
<1> QED
  <2> HIDE DEF r
  <2> QED
    BY <1>0, <1>1, <1>3, <1>4, <1>9, <1>10, <1>11, <1>12

LEMMA CommitTyped ==
  ASSUME Typed, NEW t \in Tx, Commit(t)
  PROVE  Typed'
<1>0. tx[t] \in Transaction /\ Placed(t) /\ tx[t].at = "commit"
  BY DEF Typed, TypeOK, Commit
<1> DEFINE r == Clean("done", tx[t].flow, tx[t].who, None, None, 0)
<1>1. tx[t].flow \in {"signup", "setup", "own", "refusal", "destroy", None}
      /\ tx[t].who \in Person \cup {None}
  BY <1>0 DEF Transaction
<1>2. r \in Transaction
  BY <1>1, CleanTyped
<1>3. tx' = [tx EXCEPT ![t] = r] /\ tx \in [Tx -> Transaction]
  BY DEF Commit, Over, Update, Typed, TypeOK
<1>4. tx' \in [Tx -> Transaction] /\ tx'[t] = r /\ \A u \in Tx \ {t} : tx'[u] = tx[u]
  BY <1>2, <1>3
<1>5. account' \in [Tx -> [chain : Chain, address : Address] \cup {None}]
  <2>1. CASE tx[t].flow \in {"signup", "setup"}
    <3>1. tx[t].chain \in Chain /\ tx[t].address \in Address
      BY <1>0, <2>1 DEF Placed, Open
    <3> QED
      BY <2>1, <3>1 DEF Commit, Typed, TypeOK
  <2>2. CASE tx[t].flow \notin {"signup", "setup"}
    BY <2>2 DEF Commit, Typed, TypeOK
  <2> QED
    BY <2>1, <2>2
<1>6. owner' \in Tx \cup {None}
  BY DEF Commit, Typed, TypeOK
<1>7. key' \in [Person -> [by : Tx \cup {None}, destroyed : BOOLEAN]]
  <2> DEFINE K == [by : Tx \cup {None}, destroyed : BOOLEAN]
  <2>1. key \in [Person -> K]
    BY DEF Typed, TypeOK
  <2>2. CASE tx[t].flow = "destroy"
    <3>1. key' = [key EXCEPT ![tx[t].who].destroyed = TRUE]
      BY <2>2 DEF Commit
    <3>2. \A p \in Person : [key[p] EXCEPT !.destroyed = TRUE] \in K
      BY <2>1
    <3> HIDE DEF K
    <3>3. key' \in [Person -> K]
      BY <2>1, <3>1, <3>2
    <3> QED
      BY <3>3 DEF K
  <2>3. CASE tx[t].flow # "destroy"
    <3>1. key' = [p \in Person |-> IF KeyRow(p) \in tx[t].holds THEN [by |-> t, destroyed |-> FALSE]
                                   ELSE key[p]]
      BY <2>3 DEF Commit
    <3>2. [by |-> t, destroyed |-> FALSE] \in K
      OBVIOUS
    <3> HIDE DEF K
    <3>3. key' \in [Person -> K]
      BY <2>1, <3>1, <3>2
    <3> QED
      BY <3>3 DEF K
  <2> QED
    BY <2>2, <2>3
<1>8. log' \in [Chain -> Seq(Record)] /\ head' \in [Chain -> Tip]
  <2>0. log \in [Chain -> Seq(Record)] /\ head \in [Chain -> Tip]
    BY DEF Typed, TypeOK
  <2>1. CASE tx[t].flow = "destroy"
    BY <2>0, <2>1 DEF Commit
  <2>2. CASE tx[t].flow # "destroy"
    <3>1. tx[t].chain \in Chain /\ tx[t].wrote \in Seq(Record) /\ tx[t].head \in Tip
      BY <1>0, <2>2 DEF Placed, Transaction
    <3>2. log[tx[t].chain] \o tx[t].wrote \in Seq(Record)
      BY <2>0, <3>1
    <3>3. log' = [log EXCEPT ![tx[t].chain] = log[tx[t].chain] \o tx[t].wrote]
          /\ head' = [head EXCEPT ![tx[t].chain] = tx[t].head]
      BY <2>2 DEF Commit
    <3> QED
      BY <2>0, <3>1, <3>2, <3>3
  <2> QED
    BY <2>1, <2>2
<1>9. TypeOK'
  BY <1>4, <1>5, <1>6, <1>7, <1>8 DEF Commit, Typed, TypeOK
<1>10. \A u \in Tx : Placed(u)'
  BY <1>4 DEF Typed, Placed, Clean, Open, Recording
<1>11. Walking'
  <2>0. log \in [Chain -> Seq(Record)] /\ Walking /\ walk' = walk
    BY DEF Typed, TypeOK, Commit
  <2>1. CASE tx[t].flow = "destroy"
    BY <2>0, <2>1 DEF Commit, Walking
  <2>2. CASE tx[t].flow # "destroy"
    <3>1. tx[t].chain \in Chain /\ tx[t].wrote \in Seq(Record)
      BY <1>0, <2>2 DEF Placed, Transaction
    <3>2. log' = [log EXCEPT ![tx[t].chain] = log[tx[t].chain] \o tx[t].wrote]
      BY <2>2 DEF Commit
    <3>3. \A c \in Chain : Len(log'[c]) \in Nat /\ Len(log[c]) \in Nat /\ Len(log[c]) <= Len(log'[c])
      <4>1. Len(log[tx[t].chain] \o tx[t].wrote) = Len(log[tx[t].chain]) + Len(tx[t].wrote)
            /\ Len(tx[t].wrote) \in Nat
        BY <2>0, <3>1
      <4>2. \A c \in Chain : Len(log[c]) \in Nat
        BY <2>0
      <4>3. \A c \in Chain : log'[c] = IF c = tx[t].chain THEN log[c] \o tx[t].wrote ELSE log[c]
        BY <2>0, <3>1, <3>2
      <4> SUFFICES ASSUME NEW c \in Chain
                   PROVE  Len(log'[c]) \in Nat /\ Len(log[c]) \in Nat /\ Len(log[c]) <= Len(log'[c])
        OBVIOUS
      <4>4. CASE c = tx[t].chain
        <5>1. Len(log'[c]) = Len(log[c]) + Len(tx[t].wrote)
          BY <4>1, <4>3, <4>4
        <5>2. Len(log[c]) \in Nat /\ Len(tx[t].wrote) \in Nat
          BY <4>1, <4>2
        <5>3. \A k, l \in Nat : k + l \in Nat /\ k <= k + l
          OBVIOUS
        <5>4. Len(log[c]) + Len(tx[t].wrote) \in Nat
              /\ Len(log[c]) <= Len(log[c]) + Len(tx[t].wrote)
          BY <5>2, <5>3, Zenon
        <5> QED
          BY <5>1, <5>2, <5>4, Zenon
      <4>5. CASE c # tx[t].chain
        BY <4>2, <4>3, <4>5
      <4> QED
        BY <4>4, <4>5
    <3> QED
      BY <2>0, <3>3 DEF Walking
  <2> QED
    BY <2>1, <2>2
<1> QED
  BY <1>9, <1>10, <1>11 DEF Typed

LEMMA AlterTyped ==
  ASSUME Typed, NEW c \in Chain, NEW i \in DOMAIN log[c], Alter(c, i)
  PROVE  Typed'
<1> DEFINE nobody == [person |-> None, sealed |-> None]
<1>0. log \in [Chain -> Seq(Record)] /\ i \in Nat \ {0} /\ i \in 1 .. Len(log[c])
      /\ log[c][i] \in Record
  BY DEF Typed, TypeOK
<1>1. nobody \in Content
  BY DEF Content
<1>2. [log[c][i] EXCEPT !.content = nobody] \in Record
  <2> HIDE DEF nobody
  <2> QED
    BY <1>0, <1>1 DEF Record
<1>3. [log[c] EXCEPT ![i] = [log[c][i] EXCEPT !.content = nobody]] \in Seq(Record)
  <2> DEFINE x == [log[c][i] EXCEPT !.content = nobody]
  <2> HIDE DEF x
  <2>1. x \in Record
    BY <1>2 DEF x
  <2>2. [log[c] EXCEPT ![i] = x] \in Seq(Record)
    BY <1>0, <2>1
  <2> QED
    BY <2>2 DEF x
<1>4. log' \in [Chain -> Seq(Record)]
  <2> DEFINE y == [log[c] EXCEPT ![i] = [log[c][i] EXCEPT !.content = nobody]]
  <2>1. log' = [log EXCEPT ![c] = y]
    BY DEF Alter
  <2> HIDE DEF y
  <2>2. y \in Seq(Record)
    BY <1>3 DEF y
  <2> QED
    BY <1>0, <2>1, <2>2
<1>5. altered' \subseteq Chain \X (Nat \ {0})
  BY <1>0 DEF Alter, Typed, TypeOK
<1>6. Walking'
  <2>1. \A d \in Chain : Len(log'[d]) = Len(log[d])
    BY <1>0 DEF Alter
  <2> QED
    BY <2>1 DEF Alter, Typed, Walking
<1> QED
  BY <1>4, <1>5, <1>6 DEF Alter, Typed, TypeOK, Placed

LEMMA WalkTyped ==
  ASSUME Typed, Verify
  PROVE  Typed'
<1> DEFINE W == [at : {"idle", "chain", "read", "done"}, left : SUBSET Chain,
                 chain : Chain \cup {None}, after : Nat, previous : Seq(Content),
                 breaks : SUBSET (Chain \X Nat), known : SUBSET (Chain \X Nat)]
<1>0. walk \in W /\ altered \subseteq Chain \X Nat /\ log \in [Chain -> Seq(Record)]
  BY DEF Typed, TypeOK
<1>1. CASE BeginWalk
  <2> DEFINE left == {c \in Chain : log[c] # <<>>}
             at == IF \A c \in Chain : log[c] = <<>> THEN "done" ELSE "chain"
  <2>1. left \in SUBSET Chain /\ at \in {"done", "chain"}
    OBVIOUS
  <2>2. walk' = [walk EXCEPT !.at = at, !.left = left, !.known = altered]
    BY <1>1 DEF BeginWalk
  <2> HIDE DEF left, at
  <2>3. walk' \in W /\ walk'.at = at
    BY <1>0, <2>1, <2>2
  <2> QED
    BY <1>1, <2>1, <2>3 DEF BeginWalk, Typed, TypeOK, Placed, Walking
<1>2. ASSUME NEW c \in Chain, WalkChain(c) PROVE Typed'
  <2>1. Genesis \in Seq(Content)
    BY DEF Genesis
  <2>2. walk' \in W /\ walk'.chain = c /\ walk'.after = 0
    BY <1>0, <1>2, <2>1 DEF WalkChain
  <2>3. Len(log[c]) \in Nat
    BY <1>0
  <2> QED
    BY <1>2, <2>2, <2>3 DEF WalkChain, Typed, TypeOK, Placed, Walking
<1>3. CASE ReadBatch
  <2> DEFINE n == Len(log[walk.chain])
             found == {<<walk.chain, i>> : i \in Broken}
             previous == log[walk.chain][Upto].hash
  <2>0. walk.chain \in Chain /\ walk.after \in 0 .. n /\ Batch \in Nat \ {0} /\ n \in Nat
        /\ log[walk.chain] \in Seq(Record)
    BY <1>0, <1>3, NumbersAssumption DEF ReadBatch, Typed, Walking
  <2>1. Upto \in walk.after + 1 .. n
    BY <2>0, <1>3 DEF ReadBatch, Upto
  <2>2. log[walk.chain][Upto] \in Record
    BY <2>0, <2>1
  <2>3. previous \in Seq(Content)
    BY <2>2 DEF Record
  <2>4. found \subseteq Chain \X Nat
    BY <2>0, <2>1 DEF Broken
  <2>5. walk' = [walk EXCEPT !.after = Upto, !.previous = previous, !.breaks = @ \cup found]
    BY <1>3 DEF ReadBatch
  <2>6. Upto \in Nat
    BY <2>0, <2>1
  <2> HIDE DEF found, previous
  <2>7. walk' \in W /\ walk'.after = Upto /\ walk'.chain = walk.chain
    BY <1>0, <2>3, <2>4, <2>5, <2>6
  <2>8. Walking'
    <3>1. log' = log
      BY <1>3 DEF ReadBatch
    <3>2. Upto \in 0 .. n
      BY <2>0, <2>1
    <3>3. log'[walk'.chain] = log[walk.chain]
      BY <2>7, <3>1
    <3> QED
      BY <2>0, <2>7, <3>2, <3>3 DEF Walking
  <2> QED
    BY <1>3, <2>7, <2>8 DEF ReadBatch, Typed, TypeOK, Placed
<1>4. CASE EndChain
  <2>1. walk' \in W /\ walk'.at # "read"
    BY <1>0, <1>4 DEF EndChain
  <2> QED
    BY <1>4, <2>1 DEF EndChain, Typed, TypeOK, Placed, Walking
<1> QED
  BY <1>1, <1>2, <1>3, <1>4 DEF Verify

LEMMA ArriveTyped ==
  ASSUME Typed, NEW t \in Tx, Arrive(t)
  PROVE  Typed'
<1> USE HomeAssumption, NumbersAssumption, NamesAssumption
<1>0. Tx \subseteq Person /\ Platform \in Person /\ account \in [Tx -> [chain : Chain, address : Address] \cup {None}]
  BY DEF Person, Typed, TypeOK
<1>1. ASSUME NEW c \in Chain, NEW a \in Address, SignUp(t, c, a) PROVE Typed'
  BY <1>0, <1>1, BeginTyped DEF SignUp, Recording
<1>2. ASSUME NEW a \in Address, Setup(t, a) PROVE Typed'
  <2>1. CASE owner = None
    BY <1>0, <1>2, <2>1, BeginTyped DEF Setup, Recording
  <2>2. CASE owner # None
    BY <1>0, <1>2, <2>2, BeginTyped DEF Setup, Recording
  <2> QED
    BY <2>1, <2>2
<1>3. ASSUME NEW x \in Tx, NEW n \in 1 .. Records, Own(t, x, n) PROVE Typed'
  <2>1. account[x].chain \in Chain
    BY <1>0, <1>3 DEF Own
  <2>2. n \in Nat /\ n # 0
    BY <1>3
  <2>3. Begin(t, "key", "own", x, account[x].chain, None, n)
    BY <1>3 DEF Own
  <2> QED
    BY <1>0, <2>1, <2>2, <2>3, BeginTyped DEF Recording
<1>4. ASSUME NEW c \in Chain, NEW n \in 1 .. Records, Refusal(t, c, n) PROVE Typed'
  BY <1>0, <1>4, BeginTyped DEF Refusal, Recording
<1>5. ASSUME NEW x \in Tx, Destroy(t, x) PROVE Typed'
  BY <1>0, <1>5, BeginTyped DEF Destroy, Recording
<1> QED
  BY <1>1, <1>2, <1>3, <1>4, <1>5 DEF Arrive

LEMMA TypedNext ==
  ASSUME Typed, [Next]_vars
  PROVE  Typed'
<1>1. ASSUME NEW t \in Tx, Statement(t) PROVE Typed'
  BY <1>1, InsertTyped, ReopenTyped, ClaimTyped, OpenKeyTyped, CreateKeyTyped, ReadHeadTyped,
     WriteIs, DestroyKeyTyped DEF Statement
<1>2. CASE UNCHANGED vars
  BY <1>2 DEF vars, Typed, TypeOK, Placed, Walking
<1> QED
  BY <1>1, <1>2, ArriveTyped, CommitTyped, AbortTyped, AlterTyped, WalkTyped DEF Next

(* Transactions, records and the walk keep their types, whatever is under    *)
(* way at once.                                                            *)
THEOREM TypeCorrect == Spec => []TypeOK
<1>1. Typed => TypeOK
  BY DEF Typed
<1> QED
  BY <1>1, TypedInit, TypedNext, PTL DEF Spec

-----------------------------------------------------------------------------
(* What each step does to its transaction. *)

Ended(t) ==
  /\ tx'[t].at \notin Open /\ tx'[t].at # "idle" /\ tx'[t].holds = {}
  /\ tx'[t].flow = tx[t].flow /\ tx'[t].who = tx[t].who

Same(t) ==
  /\ tx[t].at \in Open /\ tx'[t].wrote = tx[t].wrote /\ tx'[t].head = tx[t].head
  /\ tx'[t].chain = tx[t].chain /\ tx'[t].flow = tx[t].flow /\ tx'[t].who = tx[t].who

Took(t, row) == Free(t, row) /\ tx'[t].holds = tx[t].holds \cup {row}

Alone(t) == \A u \in Tx \ {t} : tx'[u] = tx[u]

LEMMA OverIs ==
  ASSUME Typed, NEW t \in Tx, NEW how, how \notin Open, how # "idle", Over(t, how)
  PROVE  Ended(t) /\ Alone(t) /\ tx'[t].at = how
BY DEF Over, Update, Clean, Typed, TypeOK, Ended, Alone

(* Every transaction that begins is clean. *)
LEMMA ArriveIs ==
  ASSUME Typed, NEW t \in Tx, Arrive(t)
  PROVE  /\ Alone(t) /\ Others /\ tx[t].at = "idle" /\ tx'[t].holds = {} /\ tx'[t].wrote = <<>>
         /\ tx'[t].at \in {"insert", "key", "destroy", "closed"}
         /\ tx'[t].at = "closed" => tx'[t].flow = "setup" /\ owner # None
         /\ tx'[t].flow = "setup" => tx'[t].at \in {"insert", "closed"}
<1>1. ASSUME NEW at \in {"insert", "key", "destroy", "closed"}, NEW flow, NEW who, NEW chain,
             NEW address, NEW n, Begin(t, at, flow, who, chain, address, n)
      PROVE  /\ Alone(t) /\ Others /\ tx[t].at = "idle" /\ tx'[t].holds = {}
             /\ tx'[t].wrote = <<>> /\ tx'[t].at = at /\ tx'[t].flow = flow
  BY <1>1 DEF Begin, Others, Update, Clean, Typed, TypeOK, Alone
<1>2. ASSUME NEW c \in Chain, NEW a \in Address, SignUp(t, c, a)
      PROVE  Begin(t, "insert", "signup", t, c, a, 1)
  BY <1>2 DEF SignUp
<1>3. ASSUME NEW x \in Tx, NEW n \in 1 .. Records, Own(t, x, n)
      PROVE  Begin(t, "key", "own", x, account[x].chain, None, n)
  BY <1>3 DEF Own
<1>4. ASSUME NEW x \in Tx, Destroy(t, x) PROVE Begin(t, "destroy", "destroy", x, None, None, 0)
  BY <1>4 DEF Destroy
<1> QED
  BY <1>1, <1>2, <1>3, <1>4 DEF Arrive, Setup, Refusal

(* The statements before a chain's head is read. *)
Middle(t) == InsertAccount(t) \/ Claim(t) \/ OpenKey(t) \/ CreateKey(t) \/ DestroyKey(t)

LEMMA MiddleIs ==
  ASSUME Typed, NEW t \in Tx, Middle(t)
  PROVE  /\ Alone(t) /\ Others
         /\ \/ Ended(t)
            \/ /\ Same(t) /\ tx'[t].at \in {"claim", "key", "create", "head", "commit"}
               /\ tx'[t].at = "commit" => tx[t].flow = "destroy"
               /\ tx'[t].holds = tx[t].holds \/ \E row : Took(t, row)
<1>0. tx[t] \in Transaction /\ Placed(t) /\ tx \in [Tx -> Transaction]
  BY DEF Typed, TypeOK
<1>1. CASE InsertAccount(t)
  <2>1. CASE Over(t, IF tx[t].flow = "setup" THEN "reopen" ELSE "exists")
    BY <1>1, <2>1, OverIs DEF InsertAccount, Others, Open
  <2>2. CASE Hold(t, AccountRow(t), IF tx[t].flow = "setup" THEN "claim" ELSE "key")
    BY <1>0, <1>1, <2>2 DEF InsertAccount, Others, Open, Hold, Update, Alone, Same, Took, Transaction
  <2> QED
    BY <1>1, <2>1, <2>2 DEF InsertAccount
<1>2. CASE Claim(t)
  <2>1. CASE Over(t, "closed")
    BY <1>2, <2>1, OverIs DEF Claim, Others, Open
  <2>2. CASE Hold(t, OwnerRow, "key")
    BY <1>0, <1>2, <2>2 DEF Claim, Others, Open, Hold, Update, Alone, Same, Took, Transaction
  <2> QED
    BY <1>2, <2>1, <2>2 DEF Claim
<1>3. CASE OpenKey(t)
  <2>1. CASE Over(t, "erased")
    BY <1>3, <2>1, OverIs DEF OpenKey, Others, Open
  <2>2. ASSUME NEW made, Sealed(t, made)
        PROVE  Same(t) /\ Alone(t) /\ tx'[t].at = "head" /\ tx'[t].holds = tx[t].holds
    BY <1>0, <1>3, <2>2 DEF OpenKey, Open, Sealed, Update, Alone, Same, Transaction
  <2>3. CASE Goto(t, "create")
    BY <1>0, <1>3, <2>3 DEF OpenKey, Others, Open, Goto, Update, Alone, Same, Transaction
  <2> QED
    BY <1>3, <2>1, <2>2, <2>3 DEF OpenKey, Others
<1>4. CASE CreateKey(t)
  <2>1. CASE Goto(t, "key")
    BY <1>0, <1>4, <2>1 DEF CreateKey, Others, Open, Goto, Update, Alone, Same, Transaction
  <2>2. CASE Free(t, KeyRow(keyFor(t))) /\ Created(t)
    BY <1>0, <1>4, <2>2 DEF CreateKey, Others, Open, Created, Update, Alone, Same, Took, Transaction
  <2> QED
    BY <1>4, <2>1, <2>2 DEF CreateKey, keyFor
<1>5. CASE DestroyKey(t)
  BY <1>0, <1>5 DEF DestroyKey, Others, Open, Hold, Update, Alone, Same, Took, Transaction, Placed
<1> QED
  BY <1>1, <1>2, <1>3, <1>4, <1>5 DEF Middle

LEMMA ReadHeadIs ==
  ASSUME Typed, NEW t \in Tx, ReadHead(t)
  PROVE  /\ Alone(t) /\ Others /\ tx[t].at = "head" /\ tx'[t].at = "write"
         /\ tx'[t].wrote = tx[t].wrote /\ tx'[t].chain = tx[t].chain
         /\ tx'[t].flow = tx[t].flow /\ tx'[t].who = tx[t].who /\ tx'[t].sealed = tx[t].sealed
         /\ tx'[t].head = Seen(t)
         /\ Took(t, HeadRow(tx[t].chain))
<1>0. tx[t] \in Transaction /\ tx \in [Tx -> Transaction]
  BY DEF Typed, TypeOK
<1> QED
  BY <1>0 DEF ReadHead, Others, Update, Alone, Took, Transaction

LEMMA CommitIs ==
  ASSUME Typed, NEW t \in Tx, Commit(t)
  PROVE  Ended(t) /\ Alone(t) /\ tx[t].at = "commit" /\ tx'[t].at = "done"
BY OverIs DEF Commit, Open

LEMMA ReopenIs ==
  ASSUME Typed, NEW t \in Tx, Reopen(t)
  PROVE  /\ Ended(t) /\ Alone(t) /\ Others /\ tx[t].at = "reopen"
         /\ tx'[t].at \in {"closed", "taken", "unsure"}
         /\ tx'[t].at = "closed" <=> owner # None /\ tx'[t].at # "unsure"
BY OverIs DEF Reopen, Others, Open

LEMMA AbortIs ==
  ASSUME Typed, NEW t \in Tx, Abort(t)
  PROVE  Ended(t) /\ Alone(t) /\ Others /\ tx'[t].at = "failed"
BY OverIs DEF Abort, Others, Open

(* What moves no transaction: the walk and what is altered out of band.     *)
Aside == UNCHANGED <<account, owner, key, head, tx>>

LEMMA AsideIs ==
  ASSUME Verify \/ \E c \in Chain : \E i \in DOMAIN log[c] : Alter(c, i)
  PROVE  Aside
BY DEF Verify, BeginWalk, WalkChain, ReadBatch, EndChain, Alter, Aside

(* Every step is one of these. *)
Moves(t) ==
  Arrive(t) \/ Middle(t) \/ Reopen(t) \/ ReadHead(t) \/ Write(t) \/ Commit(t) \/ Abort(t)

LEMMA Steps ==
  ASSUME [Next]_vars
  PROVE  \/ \E t \in Tx : Moves(t)
         \/ Verify
         \/ \E c \in Chain : \E i \in DOMAIN log[c] : Alter(c, i)
         \/ UNCHANGED vars
BY DEF Next, Statement, Middle, Moves

-----------------------------------------------------------------------------
(* No row is two transactions', and none is one's that is over.             *)
Locks ==
  /\ \A t, u \in Tx : t # u => tx[t].holds \cap tx[u].holds = {}
  /\ \A t \in Tx : tx[t].at \notin Open => tx[t].holds = {}

LEMMA LocksKept ==
  ASSUME Locks, NEW t \in Tx, Alone(t),
         \/ tx'[t].holds = {}
         \/ tx'[t].at \in Open /\ tx'[t].holds = tx[t].holds
         \/ tx'[t].at \in Open /\ \E row : Took(t, row)
  PROVE  Locks'
<1>1. ASSUME NEW u \in Tx \ {t} PROVE tx'[t].holds \cap tx'[u].holds = {}
  <2>1. tx[t].holds \cap tx[u].holds = {} /\ tx'[u] = tx[u]
    BY DEF Locks, Alone
  <2>2. CASE \E row : Took(t, row)
    <3>1. PICK row : Took(t, row)
      BY <2>2
    <3>2. row \notin tx[u].holds /\ tx'[t].holds = tx[t].holds \cup {row}
      BY <3>1 DEF Took, Free
    <3> QED
      BY <2>1, <3>2
  <2> QED
    BY <2>1, <2>2
<1>2. ASSUME NEW u \in Tx \ {t}, NEW v \in Tx \ {t}, u # v
      PROVE  tx'[u].holds \cap tx'[v].holds = {}
  BY <1>2 DEF Locks, Alone
<1>3. \A u \in Tx : tx'[u].at \notin Open => tx'[u].holds = {}
  BY DEF Locks, Alone
<1> QED
  BY <1>1, <1>2, <1>3 DEF Locks

LEMMA LocksNext ==
  ASSUME Typed, Locks, [Next]_vars
  PROVE  Locks'
<1>1. ASSUME NEW t \in Tx, Moves(t) PROVE Locks'
  <2>1. CASE Arrive(t)
    BY <2>1, ArriveIs, LocksKept
  <2>2. CASE Middle(t)
    BY <2>2, MiddleIs, LocksKept DEF Ended, Open
  <2>3. CASE ReadHead(t)
    BY <2>3, ReadHeadIs, LocksKept DEF Open
  <2>4. CASE Write(t)
    <3>1. Alone(t) /\ tx'[t].holds = tx[t].holds /\ tx'[t].at \in Open
      BY <2>4, WriteIs DEF Alone, Open
    <3> QED
      BY <3>1, LocksKept
  <2>5. CASE Reopen(t) \/ Commit(t) \/ Abort(t)
    BY <2>5, ReopenIs, CommitIs, AbortIs, LocksKept DEF Ended
  <2> QED
    BY <1>1, <2>1, <2>2, <2>3, <2>4, <2>5 DEF Moves
<1>2. CASE Aside \/ UNCHANGED vars
  BY <1>2 DEF Aside, vars, Locks
<1> QED
  BY <1>1, <1>2, Steps, AsideIs

-----------------------------------------------------------------------------
(* Records s are in their places after the head h, each following another.  *)
Follows(s, h) == \A i \in DOMAIN s :
  /\ s[i].sequence = h.length + i
  /\ s[i].previous = IF i = 1 THEN h.last ELSE s[i - 1].hash
  /\ s[i].hash = digest(s[i].previous, s[i].content)

Reached(s, h) ==
  IF s = <<>> THEN h ELSE [last |-> s[Len(s)].hash, length |-> h.length + Len(s)]

(* What a transaction has written continues its chain, which it holds.      *)
Lined(t) ==
  LET r == tx[t] IN
  r.at \in Open /\ r.flow # "destroy" =>
    /\ Follows(r.wrote, head[r.chain])
    /\ r.wrote # <<>> \/ r.at = "write" =>
         HeadRow(r.chain) \in r.holds /\ r.head = Reached(r.wrote, head[r.chain])
    /\ r.at = "commit" => r.wrote # <<>>

Chained == ChainsWhole /\ \A t \in Tx : Lined(t)

LEMMA FollowsAppend ==
  ASSUME NEW s \in Seq(Record), NEW h \in Tip, NEW x \in Record, Follows(s, h),
         x.sequence = Reached(s, h).length + 1, x.previous = Reached(s, h).last,
         x.hash = digest(x.previous, x.content)
  PROVE  /\ Append(s, x) # <<>>
         /\ Follows(Append(s, x), h)
         /\ Reached(Append(s, x), h) = [last |-> x.hash, length |-> x.sequence]
<1> DEFINE n == Len(s)  w == Append(s, x)
<1>0. n \in Nat /\ Len(w) = n + 1 /\ w[n + 1] = x /\ \A i \in 1 .. n : w[i] = s[i]
  OBVIOUS
<1>1. h.length \in Nat /\ DOMAIN w = 1 .. n + 1 /\ DOMAIN s = 1 .. n
  BY DEF Tip
<1>2. w # <<>>
  BY <1>0
<1>3. x.sequence = h.length + (n + 1)
      /\ x.previous = IF n = 0 THEN h.last ELSE s[n].hash
  <2>1. CASE s = <<>>
    BY <1>1, <2>1 DEF Reached
  <2>2. CASE s # <<>>
    <3>1. n # 0
      BY <2>2
    <3> QED
      BY <1>0, <1>1, <2>2, <3>1 DEF Reached
  <2> QED
    BY <2>1, <2>2
<1>4. ASSUME NEW i \in 1 .. n + 1
      PROVE  /\ w[i].sequence = h.length + i
             /\ w[i].previous = IF i = 1 THEN h.last ELSE w[i - 1].hash
             /\ w[i].hash = digest(w[i].previous, w[i].content)
  <2> HIDE DEF w, n
  <2>1. CASE i = n + 1
    <3>1. w[i] = x
      BY <1>0, <2>1
    <3>2. n # 0 => w[i - 1] = s[n] /\ i # 1
      BY <1>0, <2>1
    <3>3. n = 0 => i = 1
      BY <2>1
    <3> QED
      BY <1>3, <2>1, <3>1, <3>2, <3>3
  <2>2. CASE i \in 1 .. n
    <3>1. w[i] = s[i] /\ (i # 1 => w[i - 1] = s[i - 1])
      BY <1>0, <2>2
    <3>2. /\ s[i].sequence = h.length + i
          /\ s[i].previous = IF i = 1 THEN h.last ELSE s[i - 1].hash
          /\ s[i].hash = digest(s[i].previous, s[i].content)
      BY <1>1, <2>2 DEF Follows
    <3> QED
      BY <3>1, <3>2
  <2> QED
    BY <1>0, <2>1, <2>2
<1>5. Follows(w, h)
  BY <1>1, <1>4 DEF Follows
<1>6. Reached(w, h) = [last |-> x.hash, length |-> x.sequence]
  BY <1>0, <1>1, <1>2, <1>3 DEF Reached
<1> QED
  BY <1>2, <1>5, <1>6

(* A chain stays whole when what follows its head is added to it.           *)
LEMMA FollowsConcat ==
  ASSUME NEW s \in Seq(Record), NEW w \in Seq(Record), w # <<>>, NEW h \in Tip,
         h.length = Len(s), h.last = (IF Len(s) = 0 THEN Genesis ELSE s[Len(s)].hash),
         Follows(w, h)
  PROVE  LET z == s \o w  n == Len(s) IN
         /\ z \in Seq(Record) /\ Len(z) = n + Len(w) /\ Len(z) # 0
         /\ \A i \in 1 .. n : z[i] = s[i]
         /\ \A i \in 1 .. Len(z) : i > n =>
              /\ z[i].sequence = i
              /\ z[i].previous = IF i = 1 THEN Genesis ELSE z[i - 1].hash
              /\ z[i].hash = digest(z[i].previous, z[i].content)
         /\ Reached(w, h) = [last |-> z[Len(z)].hash, length |-> Len(z)]
<1> DEFINE n == Len(s)  m == Len(w)  z == s \o w
<1>0. n \in Nat /\ m \in Nat /\ DOMAIN w = 1 .. m /\ m # 0
  OBVIOUS
<1>1. z \in Seq(Record) /\ Len(z) = n + m /\ \A i \in 1 .. n : z[i] = s[i]
  OBVIOUS
<1>2. \A i \in 1 .. m : z[n + i] = w[i]
  OBVIOUS
<1>3. h.length = n /\ h.last = IF n = 0 THEN Genesis ELSE s[n].hash
  OBVIOUS
<1>4. \A j \in 1 .. m : /\ w[j].sequence = n + j
                        /\ w[j].previous = IF j = 1 THEN h.last ELSE w[j - 1].hash
                        /\ w[j].hash = digest(w[j].previous, w[j].content)
  BY <1>0, <1>3 DEF Follows
<1>5. ASSUME NEW i \in 1 .. n + m, i > n
      PROVE  /\ z[i].sequence = i
             /\ z[i].previous = IF i = 1 THEN Genesis ELSE z[i - 1].hash
             /\ z[i].hash = digest(z[i].previous, z[i].content)
  <2> HIDE DEF n, m, z
  <2> DEFINE j == i - n
  <2>1. j \in 1 .. m /\ i = n + j
    BY <1>0, <1>5
  <2>2. z[i] = w[j]
    BY <1>2, <2>1
  <2>3. CASE j = 1
    <3>1. n = 0 => i = 1
      BY <2>1, <2>3
    <3>2. n # 0 => i # 1 /\ z[i - 1] = s[n]
      <4>1. n # 0 => i - 1 = n /\ n \in 1 .. n /\ i # 1
        BY <1>0, <2>1, <2>3
      <4> QED
        BY <1>1, <4>1 DEF n, z
    <3> QED
      BY <1>3, <1>4, <2>1, <2>2, <2>3, <3>1, <3>2
  <2>4. CASE j # 1
    <3>1. j - 1 \in 1 .. m /\ i - 1 = n + (j - 1) /\ i # 1
      BY <1>0, <2>1, <2>4
    <3>2. z[i - 1] = w[j - 1]
      BY <1>2, <3>1
    <3> HIDE DEF j
    <3> QED
      BY <1>4, <2>1, <2>2, <2>4, <3>1, <3>2
  <2> QED
    BY <2>3, <2>4
<1>6. Reached(w, h) = [last |-> z[Len(z)].hash, length |-> Len(z)]
  <2>1. z[n + m] = w[m]
    BY <1>0, <1>2
  <2> QED
    BY <1>1, <1>3, <2>1 DEF Reached
<1>7. Len(z) # 0
  BY <1>0, <1>1
<1> QED
  BY <1>1, <1>5, <1>6, <1>7

(* A step of a transaction that commits nothing. *)
LEMMA ChainedKept ==
  ASSUME Chained, NEW t \in Tx, Alone(t), Others, Lined(t)'
  PROVE  Chained'
<1>1. \A u \in Tx \ {t} : Lined(u)'
  BY DEF Chained, Lined, Alone, Others
<1>2. ChainsWhole'
  BY DEF Chained, ChainsWhole, Before, Others
<1> QED
  BY <1>1, <1>2 DEF Chained

LEMMA ChainedSteps ==
  ASSUME Typed, Chained, NEW t \in Tx, Arrive(t) \/ Middle(t) \/ Reopen(t) \/ ReadHead(t) \/ Abort(t)
  PROVE  Chained'
<1>1. CASE Arrive(t)
  <2>1. tx'[t].wrote = <<>> /\ tx'[t].at \notin {"write", "commit"}
    BY <1>1, ArriveIs
  <2>2. Lined(t)'
    BY <2>1 DEF Lined, Follows
  <2> QED
    BY <1>1, <2>2, ArriveIs, ChainedKept
<1>2. CASE Middle(t)
  <2>1. CASE Ended(t)
    <3>1. Lined(t)'
      BY <2>1 DEF Ended, Lined
    <3> QED
      BY <1>2, <3>1, MiddleIs, ChainedKept
  <2>2. CASE ~ Ended(t)
    <3>1. /\ Same(t) /\ tx'[t].at \notin {"write"} /\ Others
          /\ tx'[t].at = "commit" => tx'[t].flow = "destroy"
          /\ tx[t].holds \subseteq tx'[t].holds
      BY <1>2, <2>2, MiddleIs DEF Took, Same
    <3>2. Lined(t)'
      BY <3>1 DEF Chained, Lined, Same, Others
    <3> QED
      BY <1>2, <3>2, MiddleIs, ChainedKept
  <2> QED
    BY <2>1, <2>2
<1>3. CASE ReadHead(t)
  <2>1. /\ tx[t].at \in Open /\ tx'[t].at = "write" /\ Others
        /\ tx'[t].wrote = tx[t].wrote /\ tx'[t].chain = tx[t].chain /\ tx'[t].flow = tx[t].flow
        /\ HeadRow(tx[t].chain) \in tx'[t].holds
        /\ tx'[t].head = IF tx[t].wrote = <<>> THEN head[tx[t].chain] ELSE tx[t].head
    BY <1>3, ReadHeadIs DEF Open, Took, Seen
  <2>2. Lined(t)'
    BY <2>1 DEF Chained, Lined, Others, Reached
  <2> QED
    BY <1>3, <2>2, ReadHeadIs, ChainedKept
<1>4. CASE Reopen(t) \/ Abort(t)
  <2>1. Ended(t) /\ Alone(t) /\ Others
    BY <1>4, ReopenIs, AbortIs
  <2>2. Lined(t)'
    BY <2>1 DEF Ended, Lined
  <2> QED
    BY <2>1, <2>2, ChainedKept
<1> QED
  BY <1>1, <1>2, <1>3, <1>4

LEMMA ChainedWrite ==
  ASSUME Typed, Chained, NEW t \in Tx, Write(t)
  PROVE  Chained'
<1> DEFINE r == tx[t]  x == Next1(t)  h == head[r.chain]
<1>1. /\ r.at = "write" /\ Others /\ Alone(t) /\ x \in Record
      /\ tx'[t].at \in {"commit", "key"}
      /\ tx'[t].wrote = Append(r.wrote, x)
      /\ tx'[t].head = [last |-> x.hash, length |-> x.sequence]
      /\ tx'[t].holds = r.holds /\ tx'[t].flow = r.flow /\ tx'[t].chain = r.chain
  BY WriteIs DEF Alone
<1>2. r \in Transaction /\ Placed(t) /\ head \in [Chain -> Tip]
  BY DEF Typed, TypeOK
<1>3. r.chain \in Chain /\ r.flow # "destroy" /\ r.wrote \in Seq(Record)
  BY <1>1, <1>2 DEF Placed, Recording, Transaction
<1>4. h \in Tip
  BY <1>2, <1>3
<1>5. Follows(r.wrote, h) /\ HeadRow(r.chain) \in r.holds /\ r.head = Reached(r.wrote, h)
  BY <1>1, <1>3 DEF Chained, Lined, Open
<1>6. x.sequence = r.head.length + 1 /\ x.previous = r.head.last
      /\ x.hash = digest(x.previous, x.content)
  BY DEF Next1, digest
<1> HIDE DEF x, h, r
<1>7. /\ Append(r.wrote, x) # <<>>
      /\ Follows(Append(r.wrote, x), h)
      /\ Reached(Append(r.wrote, x), h) = [last |-> x.hash, length |-> x.sequence]
  BY <1>1, <1>3, <1>4, <1>5, <1>6, FollowsAppend
<1>8. head'[tx'[t].chain] = h
  BY <1>1 DEF h, r, Others
<1>9. Lined(t)'
  BY <1>1, <1>5, <1>7, <1>8 DEF Lined
<1> QED
  BY <1>1, <1>9, ChainedKept

(* One chain grows by what the transaction that held its head wrote.        *)
LEMMA ChainedCommit ==
  ASSUME Typed, Locks, Chained, NEW t \in Tx, Commit(t)
  PROVE  Chained'
<1> DEFINE r == tx[t]
<1>0. /\ r \in Transaction /\ Placed(t) /\ r.at = "commit" /\ Ended(t) /\ Alone(t)
      /\ log \in [Chain -> Seq(Record)] /\ head \in [Chain -> Tip] /\ altered' = altered
  BY CommitIs DEF Typed, TypeOK, Commit
<1>1. Lined(t)'
  BY <1>0 DEF Ended, Lined
<1>2. CASE r.flow = "destroy"
  <2>1. log' = log /\ head' = head
    BY <1>2 DEF Commit
  <2>2. \A u \in Tx \ {t} : Lined(u)'
    BY <1>0, <2>1 DEF Chained, Lined, Alone
  <2>3. ChainsWhole'
    BY <1>0, <2>1 DEF Chained, ChainsWhole, Before
  <2> QED
    BY <1>1, <2>2, <2>3 DEF Chained
<1>3. CASE r.flow # "destroy"
  <2>0. r.chain \in Chain
    BY <1>0, <1>3 DEF Placed
  <2>c. PICK c \in Chain : c = r.chain
    BY <2>0
  <2> DEFINE w == r.wrote  h == head[c]  s == log[c]  n == Len(s)  z == s \o w
  <2>1. c \in Chain /\ w \in Seq(Record) /\ s \in Seq(Record) /\ h \in Tip
    BY <1>0 DEF Transaction
  <2>2. /\ Follows(w, h) /\ w # <<>> /\ HeadRow(c) \in r.holds /\ r.head = Reached(w, h)
    BY <1>0, <1>3, <2>c DEF Chained, Lined, Open
  <2>3. log' = [log EXCEPT ![c] = z] /\ head' = [head EXCEPT ![c] = r.head]
    BY <1>3, <2>c DEF Commit
  <2>4. log'[c] = z /\ head'[c] = r.head
        /\ \A d \in Chain \ {c} : log'[d] = log[d] /\ head'[d] = head[d]
    BY <1>0, <2>1, <2>3
  <2>5. n \in Nat /\ h.length = n /\ h.last = (IF n = 0 THEN Genesis ELSE s[n].hash)
    <3>1. n \in Nat
      BY <2>1
    <3>2. h = [last |-> Before(c, n + 1), length |-> n]
      BY <2>1 DEF Chained, ChainsWhole
    <3>3. Before(c, n + 1) = IF n = 0 THEN Genesis ELSE s[n].hash
      BY <3>1 DEF Before
    <3> QED
      BY <3>1, <3>2, <3>3
  <2>6. /\ z \in Seq(Record) /\ Len(z) = n + Len(w) /\ Len(z) # 0
        /\ \A i \in 1 .. n : z[i] = s[i]
        /\ \A i \in 1 .. Len(z) : i > n =>
             /\ z[i].sequence = i
             /\ z[i].previous = IF i = 1 THEN Genesis ELSE z[i - 1].hash
             /\ z[i].hash = digest(z[i].previous, z[i].content)
        /\ Reached(w, h) = [last |-> z[Len(z)].hash, length |-> Len(z)]
    <3> HIDE DEF w, h, s
    <3> QED
      BY <2>1, <2>2, <2>5, FollowsConcat
  <2>7. \A i \in 1 .. n : /\ s[i].sequence = i
                          /\ s[i].previous = IF i = 1 THEN Genesis ELSE s[i - 1].hash
                          /\ <<c, i>> \in altered
                             \/ s[i].hash = digest(IF i = 1 THEN Genesis ELSE s[i - 1].hash, s[i].content)
    <3> SUFFICES ASSUME NEW i \in 1 .. n
                 PROVE  /\ s[i].sequence = i
                        /\ s[i].previous = IF i = 1 THEN Genesis ELSE s[i - 1].hash
                        /\ <<c, i>> \in altered
                           \/ s[i].hash = digest(IF i = 1 THEN Genesis ELSE s[i - 1].hash, s[i].content)
      OBVIOUS
    <3>1. i \in DOMAIN log[c]
      BY <2>1
    <3>2. Before(c, i) = IF i = 1 THEN Genesis ELSE s[i - 1].hash
      BY DEF Before
    <3>3. /\ log[c][i].sequence = i /\ log[c][i].previous = Before(c, i)
          /\ <<c, i>> \in altered \/ log[c][i].hash = digest(Before(c, i), log[c][i].content)
      BY <3>1 DEF Chained, ChainsWhole
    <3> QED
      BY <3>2, <3>3
  <2> HIDE DEF z, w, h, s, n, r
  <2>8. \A i \in 1 .. Len(z) : Before(c, i)' = IF i = 1 THEN Genesis ELSE z[i - 1].hash
    BY <2>4 DEF Before
  <2>9. ASSUME NEW i \in 1 .. Len(z)
        PROVE  /\ z[i].sequence = i /\ z[i].previous = Before(c, i)'
               /\ <<c, i>> \in altered \/ z[i].hash = digest(Before(c, i)', z[i].content)
    <3>1. CASE i > n
      BY <2>6, <2>8, <3>1
    <3>2. CASE i <= n
      <4>1. i \in 1 .. n /\ z[i] = s[i]
        BY <2>5, <2>6, <3>2
      <4>2. i # 1 => i - 1 \in 1 .. n /\ z[i - 1] = s[i - 1]
        BY <2>5, <2>6, <4>1
      <4>3. Before(c, i)' = IF i = 1 THEN Genesis ELSE s[i - 1].hash
        BY <2>8, <4>2
      <4> QED
        BY <2>7, <4>1, <4>3
    <3> QED
      BY <2>5, <2>6, <3>1, <3>2
  <2>10. head'[c] = [last |-> Before(c, Len(log[c]) + 1)', length |-> Len(log'[c])]
    <3>1. Len(z) \in Nat /\ Len(z) # 0
      BY <2>6
    <3>2. \A k \in Nat : k # 0 => k + 1 # 1 /\ (k + 1) - 1 = k
      OBVIOUS
    <3>3. Before(c, Len(log[c]) + 1)' = z[Len(z)].hash
      BY <2>4, <3>1, <3>2 DEF Before
    <3> QED
      BY <2>2, <2>4, <2>6, <3>3
  <2>11. ChainsWhole'
    <3>1. ASSUME NEW d \in Chain \ {c}
          PROVE  /\ head'[d] = [last |-> Before(d, Len(log[d]) + 1)', length |-> Len(log'[d])]
                 /\ \A i \in DOMAIN log'[d] :
                      /\ log'[d][i].sequence = i
                      /\ log'[d][i].previous = Before(d, i)'
                      /\ <<d, i>> \in altered \/ log'[d][i].hash = digest(Before(d, i)', log'[d][i].content)
      <4>1. \A i : Before(d, i)' = Before(d, i)
        BY <2>4 DEF Before
      <4>2. Before(d, Len(log[d]) + 1)' = Before(d, Len(log[d]) + 1)
        BY <2>4 DEF Before
      <4> QED
        BY <2>4, <4>1, <4>2 DEF Chained, ChainsWhole
    <3>2. DOMAIN log'[c] = 1 .. Len(z) /\ log'[c] = z
      BY <2>4, <2>6
    <3>3. /\ head'[c] = [last |-> Before(c, Len(log[c]) + 1)', length |-> Len(log'[c])]
          /\ \A i \in DOMAIN log'[c] :
               /\ log'[c][i].sequence = i
               /\ log'[c][i].previous = Before(c, i)'
               /\ <<c, i>> \in altered \/ log'[c][i].hash = digest(Before(c, i)', log'[c][i].content)
      BY <2>9, <2>10, <3>2
    <3> QED
      BY <1>0, <3>1, <3>3 DEF ChainsWhole
  <2>12. ASSUME NEW u \in Tx \ {t} PROVE Lined(u)'
    <3>1. tx'[u] = tx[u] /\ Lined(u) /\ Placed(u) /\ tx[u] \in Transaction
      BY <1>0 DEF Chained, Alone, Typed, TypeOK
    <3> SUFFICES ASSUME tx[u].at \in Open, tx[u].flow # "destroy" PROVE Lined(u)'
      BY <3>1 DEF Lined
    <3>2. CASE tx[u].chain = c
      <4>1. HeadRow(c) \notin tx[u].holds
        BY <2>2 DEF Locks, r
      <4>2. tx[u].wrote = <<>> /\ tx[u].at # "write" /\ tx[u].at # "commit"
        BY <3>1, <3>2, <4>1 DEF Lined
      <4> QED
        BY <3>1, <4>2 DEF Lined, Follows
    <3>3. CASE tx[u].chain # c
      <4>1. tx[u].chain \in Chain
        BY <3>1 DEF Placed, Recording, Open
      <4> QED
        BY <2>4, <3>1, <3>3, <4>1 DEF Lined
    <3> QED
      BY <3>2, <3>3
  <2> QED
    BY <1>1, <2>11, <2>12 DEF Chained
<1> QED
  BY <1>2, <1>3

(* What is altered out of band is known to be, and nothing hangs on it.     *)
LEMMA ChainedAlter ==
  ASSUME Typed, Chained, NEW c \in Chain, NEW i \in DOMAIN log[c], Alter(c, i)
  PROVE  Chained'
<1>1. log \in [Chain -> Seq(Record)] /\ head' = head /\ tx' = tx /\ altered' = altered \cup {<<c, i>>}
  BY DEF Typed, TypeOK, Alter
<1>2. \A d \in Chain :
        /\ Len(log'[d]) = Len(log[d]) /\ DOMAIN log'[d] = DOMAIN log[d]
        /\ \A j \in DOMAIN log[d] :
             /\ log'[d][j].sequence = log[d][j].sequence /\ log'[d][j].previous = log[d][j].previous
             /\ log'[d][j].hash = log[d][j].hash
             /\ <<d, j>> # <<c, i>> => log'[d][j] = log[d][j]
  <2> DEFINE nobody == [person |-> None, sealed |-> None]
             y == [log[c][i] EXCEPT !.content = nobody]
  <2>1. log' = [log EXCEPT ![c] = [log[c] EXCEPT ![i] = y]]
    BY DEF Alter
  <2>2. log[c][i] \in Record
    BY <1>1
  <2>3. y.sequence = log[c][i].sequence /\ y.previous = log[c][i].previous /\ y.hash = log[c][i].hash
    BY <2>2 DEF Record
  <2> HIDE DEF y
  <2>4. log'[c] = [log[c] EXCEPT ![i] = y] /\ \A d \in Chain \ {c} : log'[d] = log[d]
    BY <1>1, <2>1
  <2>5. Len(log'[c]) = Len(log[c]) /\ DOMAIN log'[c] = DOMAIN log[c] /\ log'[c][i] = y
        /\ \A j \in DOMAIN log[c] \ {i} : log'[c][j] = log[c][j]
    BY <1>1, <2>4
  <2> QED
    BY <2>3, <2>4, <2>5
<1>3. \A d \in Chain : \A j \in (DOMAIN log[d]) \cup {Len(log[d]) + 1} : Before(d, j)' = Before(d, j)
  <2> SUFFICES ASSUME NEW d \in Chain, NEW j \in (DOMAIN log[d]) \cup {Len(log[d]) + 1}
               PROVE  Before(d, j)' = Before(d, j)
    OBVIOUS
  <2>1. j # 1 => j - 1 \in DOMAIN log[d]
    BY <1>1
  <2> QED
    BY <1>2, <2>1 DEF Before
<1>4. ChainsWhole'
  BY <1>1, <1>2, <1>3 DEF Chained, ChainsWhole
<1>5. \A u \in Tx : Lined(u)'
  BY <1>1 DEF Chained, Lined
<1> QED
  BY <1>4, <1>5 DEF Chained

LEMMA ChainedNext ==
  ASSUME Typed, Locks, Chained, [Next]_vars
  PROVE  Chained'
<1>1. ASSUME NEW t \in Tx, Moves(t) PROVE Chained'
  BY <1>1, ChainedSteps, ChainedWrite, ChainedCommit DEF Moves
<1>2. CASE Verify \/ UNCHANGED vars
  <2>1. UNCHANGED <<log, head, tx, altered>>
    BY <1>2 DEF Verify, BeginWalk, WalkChain, ReadBatch, EndChain, vars
  <2>2. ChainsWhole'
    BY <2>1 DEF Chained, ChainsWhole, Before
  <2>3. \A u \in Tx : Lined(u)'
    BY <2>1 DEF Chained, Lined
  <2> QED
    BY <2>2, <2>3 DEF Chained
<1> QED
  BY <1>1, <1>2, Steps, ChainedAlter

(* Before any transaction every chain is empty, and at genesis.             *)
LEMMA ChainedInit == Init => Locks /\ Chained
<1> SUFFICES ASSUME Init PROVE Locks /\ Chained
  OBVIOUS
<1>1. Locks
  BY DEF Init, Locks, Unused, Clean
<1>2. \A c \in Chain : log[c] = <<>> /\ head[c] = [last |-> Genesis, length |-> 0]
  BY DEF Init, Empty
<1>3. ChainsWhole
  BY <1>2 DEF ChainsWhole, Before
<1>4. \A t \in Tx : Lined(t)
  BY DEF Init, Lined, Unused, Clean, Open
<1> QED
  BY <1>1, <1>3, <1>4 DEF Chained

(* However many operations append at once and roll back, every chain is      *)
(* whole: each record in its place, after the one before, and the head at    *)
(* the last.                                                               *)
THEOREM ChainsStayWhole == Spec => []ChainsWhole
<1> DEFINE I == Typed /\ Locks /\ Chained
<1>1. Init => I
  BY TypedInit, ChainedInit
<1>2. I /\ [Next]_vars => I'
  BY TypedNext, LocksNext, ChainedNext
<1>3. I => ChainsWhole
  BY DEF Chained
<1> QED
  BY <1>1, <1>2, <1>3, PTL DEF Spec

-----------------------------------------------------------------------------
LEMMA RowsApart ==
  /\ \A p, q : KeyRow(p) = KeyRow(q) => p = q
  /\ \A p, c : KeyRow(p) # HeadRow(c)
  /\ \A p : KeyRow(p) # OwnerRow
  /\ \A c : HeadRow(c) # OwnerRow
  /\ \A p, t : KeyRow(p) # AccountRow(t)
  /\ \A t : AccountRow(t) # OwnerRow
<1>1. \A c : HeadRow(c) # OwnerRow /\ KeyRow(c) # OwnerRow
  <2>1. Len(OwnerRow) = 1 /\ \A c : Len(HeadRow(c)) = 2 /\ Len(KeyRow(c)) = 2
    BY DEF OwnerRow, HeadRow, KeyRow
  <2> QED
    BY <2>1
<1>2. \A t, p : AccountRow(t) # OwnerRow /\ KeyRow(p) # AccountRow(t)
  <2>1. \A t : Len(AccountRow(t)) = 3
    BY DEF AccountRow
  <2>2. Len(OwnerRow) = 1 /\ \A p : Len(KeyRow(p)) = 2
    BY DEF OwnerRow, KeyRow
  <2> QED
    BY <2>1, <2>2
<1> QED
  BY <1>1, <1>2 DEF KeyRow, HeadRow

(* The key of p, as t sees it, was made by whom.                            *)
KeyOf(t, p, by) == key[p].by = by \/ (by = t /\ KeyRow(p) \in tx[t].holds)

(* A transaction holds the rows of the keys it makes, and nobody has made   *)
(* them meanwhile; what it has sealed, it has sealed with its person's key. *)
Sealing(t) ==
  LET r == tx[t] IN
  /\ r.at \in Open /\ r.flow # "destroy" =>
       /\ \A p \in Person : KeyRow(p) \in r.holds => key[p] = NoKey
       /\ r.at \in {"head", "write"} => KeyOf(t, r.who, r.sealed)
       /\ \A i \in DOMAIN r.wrote :
            /\ r.wrote[i].content.person = r.who
            /\ r.wrote[i].content.sealed \in Tx
            /\ KeyOf(t, r.who, r.wrote[i].content.sealed)
  /\ r.flow = "destroy" /\ r.at = "commit" => KeyRow(r.who) \in r.holds
  /\ r.flow = "destroy" /\ r.at = "done" => r.who \in Tx /\ key[r.who].destroyed

Kept == \A c \in Chain : \A i \in DOMAIN log[c] :
  \/ <<c, i>> \in altered
  \/ /\ log[c][i].content.person \in Person /\ log[c][i].content.sealed \in Tx
     /\ key[log[c][i].content.person].by = log[c][i].content.sealed

Secrets == Kept /\ \A t \in Tx : Sealing(t)

LEMMA SecretsStay ==
  ASSUME Secrets, NEW t \in Tx, Alone(t), Others, Sealing(t)'
  PROVE  Secrets'
<1>1. \A u \in Tx \ {t} : Sealing(u)'
  BY DEF Secrets, Sealing, KeyOf, Alone, Others
<1>2. Kept'
  BY DEF Secrets, Kept, Others
<1> QED
  BY <1>1, <1>2 DEF Secrets

(* A statement that takes rows which are no key's and seals nothing.        *)
LEMMA SealingSame ==
  ASSUME Secrets, NEW t \in Tx, Others, tx[t].at \in Open,
         tx'[t].flow = tx[t].flow, tx'[t].who = tx[t].who, tx'[t].wrote = tx[t].wrote,
         tx'[t].at # "done", tx'[t].at = "commit" => tx[t].flow # "destroy",
         tx[t].holds \subseteq tx'[t].holds,
         \A p \in Person : KeyRow(p) \in tx'[t].holds => KeyRow(p) \in tx[t].holds,
         tx'[t].at \in {"head", "write"} => KeyOf(t, tx[t].who, tx'[t].sealed)
  PROVE  Sealing(t)'
<1>1. Sealing(t) /\ key' = key
  BY DEF Secrets, Others
<1>2. \A p, by : KeyOf(t, p, by) => KeyOf(t, p, by)'
  BY DEF KeyOf, Others
<1>3. tx'[t].at \in {"head", "write"} => KeyOf(t, tx[t].who, tx[t].sealed)'
  BY DEF KeyOf, Others
<1>4. \A i \in DOMAIN tx[t].wrote : KeyOf(t, tx[t].who, tx[t].wrote[i].content.sealed)
        => KeyOf(t, tx[t].who, tx[t].wrote[i].content.sealed)'
  BY DEF KeyOf, Others
<1> QED
  BY <1>1, <1>3, <1>4 DEF Sealing

LEMMA SecretsMiddle ==
  ASSUME Typed, Locks, Secrets, NEW t \in Tx, Middle(t)
  PROVE  Secrets'
<1>0. /\ tx[t] \in Transaction /\ Placed(t) /\ tx \in [Tx -> Transaction]
      /\ Alone(t) /\ Others /\ Sealing(t)
      /\ key \in [Person -> [by : Tx \cup {None}, destroyed : BOOLEAN]]
  BY MiddleIs DEF Typed, TypeOK, Secrets
<1>1. CASE Ended(t) /\ tx'[t].at # "done"
  <2>1. Sealing(t)'
    BY <1>1 DEF Ended, Sealing, Open
  <2> QED
    BY <1>0, <2>1, SecretsStay
<1>2. CASE InsertAccount(t) /\ Hold(t, AccountRow(t), IF tx[t].flow = "setup" THEN "claim" ELSE "key")
  <2>1. /\ tx[t].at \in Open /\ tx'[t].flow = tx[t].flow /\ tx'[t].who = tx[t].who
        /\ tx'[t].wrote = tx[t].wrote /\ tx'[t].at \in {"claim", "key"}
        /\ tx'[t].holds = tx[t].holds \cup {AccountRow(t)}
    BY <1>0, <1>2 DEF InsertAccount, Hold, Update, Open, Transaction
  <2>2. \A p \in Person : KeyRow(p) \in tx'[t].holds => KeyRow(p) \in tx[t].holds
    BY <2>1, RowsApart
  <2>3. Sealing(t)'
    BY <1>0, <2>1, <2>2, SealingSame
  <2> QED
    BY <1>0, <2>3, SecretsStay
<1>3. CASE Claim(t) /\ Hold(t, OwnerRow, "key")
  <2>1. /\ tx[t].at \in Open /\ tx'[t].flow = tx[t].flow /\ tx'[t].who = tx[t].who
        /\ tx'[t].wrote = tx[t].wrote /\ tx'[t].at = "key"
        /\ tx'[t].holds = tx[t].holds \cup {OwnerRow}
    BY <1>0, <1>3 DEF Claim, Hold, Update, Open, Transaction
  <2>2. \A p \in Person : KeyRow(p) \in tx'[t].holds => KeyRow(p) \in tx[t].holds
    BY <2>1, RowsApart
  <2>3. Sealing(t)'
    BY <1>0, <2>1, <2>2, SealingSame
  <2> QED
    BY <1>0, <2>3, SecretsStay
<1>4. ASSUME NEW made, OpenKey(t), Sealed(t, made), KeyOf(t, tx[t].who, made) PROVE Secrets'
  <2>1. /\ tx[t].at \in Open /\ tx'[t].flow = tx[t].flow /\ tx'[t].who = tx[t].who
        /\ tx'[t].wrote = tx[t].wrote /\ tx'[t].at = "head" /\ tx'[t].sealed = made
        /\ tx'[t].holds = tx[t].holds
    BY <1>0, <1>4 DEF OpenKey, Sealed, Update, Open, Transaction
  <2>2. Sealing(t)'
    BY <1>0, <1>4, <2>1, SealingSame
  <2> QED
    BY <1>0, <2>2, SecretsStay
<1>5. ASSUME OpenKey(t) \/ CreateKey(t), NEW at \in {"key", "create"}, Goto(t, at) PROVE Secrets'
  <2>1. /\ tx[t].at \in Open /\ tx'[t].flow = tx[t].flow /\ tx'[t].who = tx[t].who
        /\ tx'[t].wrote = tx[t].wrote /\ tx'[t].at = at /\ tx'[t].holds = tx[t].holds
    BY <1>0, <1>5 DEF OpenKey, CreateKey, Goto, Update, Open, Transaction
  <2>2. Sealing(t)'
    BY <1>0, <2>1, SealingSame
  <2> QED
    BY <1>0, <2>2, SecretsStay
<1>6. CASE CreateKey(t) /\ key[tx[t].who] = NoKey /\ Created(t)
  <2>1. /\ tx[t].at = "create" /\ tx'[t].flow = tx[t].flow /\ tx'[t].who = tx[t].who
        /\ tx'[t].wrote = tx[t].wrote /\ tx'[t].at = "head" /\ tx'[t].sealed = t
        /\ tx'[t].holds = tx[t].holds \cup {KeyRow(tx[t].who)}
    BY <1>0, <1>6 DEF CreateKey, Created, Update, Transaction, keyFor
  <2>2. tx[t].at \in Open /\ tx[t].flow # "destroy" /\ key' = key
    BY <1>0, <2>1 DEF Open, Placed, Recording, Others
  <2>3. \A p \in Person : KeyRow(p) \in tx'[t].holds => key'[p] = NoKey
    BY <1>0, <1>6, <2>1, <2>2, RowsApart DEF Sealing
  <2>4. KeyOf(t, tx[t].who, t)'
    BY <2>1 DEF KeyOf
  <2>5. \A p, by : KeyOf(t, p, by) => KeyOf(t, p, by)'
    BY <2>1, <2>2 DEF KeyOf
  <2>6. Sealing(t)'
    BY <1>0, <2>1, <2>2, <2>3, <2>4, <2>5 DEF Sealing, KeyOf
  <2> QED
    BY <1>0, <2>6, SecretsStay
<1>7. CASE DestroyKey(t)
  <2>1. tx'[t].at = "commit" /\ tx'[t].flow = "destroy" /\ KeyRow(tx'[t].who) \in tx'[t].holds
    BY <1>0, <1>7 DEF DestroyKey, Hold, Update, Transaction, Placed
  <2>2. Sealing(t)'
    BY <2>1 DEF Sealing
  <2> QED
    BY <1>0, <2>2, SecretsStay
<1>8. ASSUME NEW how \in {"reopen", "exists", "closed", "erased"}, Over(t, how) PROVE Secrets'
  BY <1>1, <1>8, OverIs DEF Open
<1>9. CASE OpenKey(t)
  <2>1. CASE KeyRow(tx[t].who) \in tx[t].holds /\ Sealed(t, t)
    BY <1>4, <1>9, <2>1 DEF KeyOf
  <2>2. CASE Goto(t, "create")
    BY <1>5, <1>9, <2>2
  <2>3. CASE Over(t, "erased")
    BY <1>8, <2>3
  <2>4. CASE Sealed(t, key[tx[t].who].by)
    BY <1>4, <1>9, <2>4 DEF KeyOf
  <2> QED
    BY <1>9, <2>1, <2>2, <2>3, <2>4 DEF OpenKey, keyFor
<1>10. CASE CreateKey(t)
  <2>1. CASE Goto(t, "key")
    BY <1>5, <1>10, <2>1
  <2>2. CASE key[tx[t].who] = NoKey /\ Created(t)
    BY <1>6, <1>10, <2>2
  <2> QED
    BY <1>10, <2>1, <2>2 DEF CreateKey, keyFor
<1>11. CASE InsertAccount(t)
  BY <1>2, <1>8, <1>11 DEF InsertAccount
<1>12. CASE Claim(t)
  BY <1>3, <1>8, <1>12 DEF Claim
<1> QED
  BY <1>7, <1>9, <1>10, <1>11, <1>12 DEF Middle

LEMMA SecretsSteps ==
  ASSUME Typed, Secrets, NEW t \in Tx, Arrive(t) \/ Reopen(t) \/ ReadHead(t) \/ Write(t) \/ Abort(t)
  PROVE  Secrets'
<1>0. Sealing(t) /\ tx[t] \in Transaction
  BY DEF Secrets, Typed, TypeOK
<1>1. CASE Arrive(t)
  <2>1. Sealing(t)'
    BY <1>1, ArriveIs DEF Sealing
  <2> QED
    BY <1>1, <2>1, ArriveIs, SecretsStay
<1>2. CASE Reopen(t) \/ Abort(t)
  <2>1. Ended(t) /\ Alone(t) /\ Others /\ tx'[t].at # "done"
    BY <1>2, ReopenIs, AbortIs
  <2>2. Sealing(t)'
    BY <2>1 DEF Ended, Sealing, Open
  <2> QED
    BY <2>1, <2>2, SecretsStay
<1>3. CASE ReadHead(t)
  <2>1. /\ tx[t].at = "head" /\ tx'[t].at = "write" /\ Alone(t) /\ Others
        /\ tx'[t].wrote = tx[t].wrote /\ tx'[t].flow = tx[t].flow /\ tx'[t].who = tx[t].who
        /\ tx'[t].sealed = tx[t].sealed
        /\ tx'[t].holds = tx[t].holds \cup {HeadRow(tx[t].chain)}
    BY <1>3, ReadHeadIs DEF Took
  <2>2. tx[t].at \in Open /\ tx[t].flow # "destroy"
    BY <2>1 DEF Typed, Placed, Open, Recording
  <2>3. \A p \in Person : KeyRow(p) \in tx'[t].holds => KeyRow(p) \in tx[t].holds
    BY <2>1, RowsApart
  <2>4. KeyOf(t, tx[t].who, tx'[t].sealed)
    BY <1>0, <2>1, <2>2 DEF Sealing
  <2>5. Sealing(t)'
    BY <2>1, <2>2, <2>3, <2>4, SealingSame
  <2> QED
    BY <2>1, <2>5, SecretsStay
<1>4. CASE Write(t)
  <2> DEFINE x == Next1(t)  w == tx[t].wrote
  <2>1. /\ tx[t].at = "write" /\ Others /\ Alone(t) /\ x \in Record
        /\ x.content = [person |-> tx[t].who, sealed |-> tx[t].sealed] /\ tx[t].sealed \in Tx
        /\ tx'[t].at \in {"commit", "key"}
        /\ tx'[t].wrote = Append(w, x)
        /\ tx'[t].holds = tx[t].holds /\ tx'[t].flow = tx[t].flow /\ tx'[t].who = tx[t].who
    BY <1>4, WriteIs DEF Alone
  <2>2. tx[t].at \in Open /\ tx[t].flow # "destroy" /\ w \in Seq(Record) /\ key' = key
    BY <1>0, <2>1 DEF Typed, Placed, Open, Recording, Transaction, Others
  <2>3. /\ x.content.person = tx[t].who /\ x.content.sealed \in Tx
        /\ KeyOf(t, tx[t].who, x.content.sealed)
    BY <1>0, <2>1, <2>2 DEF Sealing
  <2> HIDE DEF x
  <2>4. ASSUME NEW i \in DOMAIN Append(w, x)
        PROVE  /\ Append(w, x)[i].content.person = tx[t].who
               /\ Append(w, x)[i].content.sealed \in Tx
               /\ KeyOf(t, tx[t].who, Append(w, x)[i].content.sealed)
    <3>1. CASE i \in DOMAIN w
      <4>1. Append(w, x)[i] = w[i]
        BY <2>1, <2>2, <3>1
      <4> QED
        BY <1>0, <2>2, <3>1, <4>1 DEF Sealing
    <3>2. CASE i \notin DOMAIN w
      <4>1. Append(w, x)[i] = x
        BY <2>1, <2>2, <3>2
      <4> QED
        BY <2>3, <4>1
    <3> QED
      BY <3>1, <3>2
  <2>5. Sealing(t)'
    BY <1>0, <2>1, <2>2, <2>4 DEF Sealing, KeyOf
  <2> QED
    BY <2>1, <2>5, SecretsStay
<1> QED
  BY <1>1, <1>2, <1>3, <1>4

(* A key that is there keeps its maker, and its destruction, through any    *)
(* commit; and the transaction that held its row leaves it as it saw it.    *)
LEMMA KeysGrow ==
  ASSUME Typed, Locks, Secrets, NEW t \in Tx, Commit(t)
  PROVE  /\ \A p \in Person : key[p].by \in Tx => key'[p].by = key[p].by
         /\ \A p \in Person : key[p].destroyed => key'[p].destroyed
         /\ \A p \in Person : KeyRow(p) \notin tx[t].holds => key'[p] = key[p]
         /\ \A p \in Person : tx[t].flow # "destroy" /\ KeyRow(p) \in tx[t].holds => key'[p].by = t
         /\ tx[t].flow = "destroy" => tx[t].who \in Tx /\ key'[tx[t].who].destroyed
<1>0. /\ tx[t].at = "commit" /\ tx[t].at \in Open /\ Placed(t) /\ Sealing(t)
      /\ key \in [Person -> [by : Tx \cup {None}, destroyed : BOOLEAN]]
      /\ None \notin Tx /\ Tx \subseteq Person
  BY NamesAssumption DEF Typed, TypeOK, Secrets, Commit, Open, Person
<1>1. CASE tx[t].flow = "destroy"
  <2>1. key' = [key EXCEPT ![tx[t].who].destroyed = TRUE] /\ tx[t].who \in Tx
        /\ KeyRow(tx[t].who) \in tx[t].holds
    BY <1>0, <1>1 DEF Commit, Placed, Sealing
  <2>2. key'[tx[t].who] = [key[tx[t].who] EXCEPT !.destroyed = TRUE]
        /\ \A p \in Person \ {tx[t].who} : key'[p] = key[p]
    BY <1>0, <2>1
  <2>3. key'[tx[t].who].by = key[tx[t].who].by /\ key'[tx[t].who].destroyed
    BY <1>0, <2>1, <2>2
  <2> QED
    BY <1>1, <2>1, <2>2, <2>3
<1>2. CASE tx[t].flow # "destroy"
  <2>1. key' = [p \in Person |-> IF KeyRow(p) \in tx[t].holds THEN [by |-> t, destroyed |-> FALSE]
                                 ELSE key[p]]
    BY <1>2 DEF Commit
  <2>2. \A p \in Person : KeyRow(p) \in tx[t].holds => key[p] = NoKey
    BY <1>0, <1>2 DEF Sealing
  <2> QED
    BY <1>0, <1>2, <2>1, <2>2 DEF NoKey
<1> QED
  BY <1>1, <1>2

LEMMA SecretsCommit ==
  ASSUME Typed, Locks, Secrets, NEW t \in Tx, Commit(t)
  PROVE  Secrets'
<1>0. /\ tx[t].at = "commit" /\ tx[t].at \in Open /\ Placed(t) /\ Sealing(t) /\ Ended(t) /\ Alone(t)
      /\ tx[t] \in Transaction /\ log \in [Chain -> Seq(Record)] /\ altered' = altered
      /\ Tx \subseteq Person
  BY CommitIs DEF Typed, TypeOK, Secrets, Commit, Open, Person
<1>1. /\ \A p \in Person : key[p].by \in Tx => key'[p].by = key[p].by
      /\ \A p \in Person : key[p].destroyed => key'[p].destroyed
      /\ \A p \in Person : KeyRow(p) \notin tx[t].holds => key'[p] = key[p]
      /\ \A p \in Person : tx[t].flow # "destroy" /\ KeyRow(p) \in tx[t].holds => key'[p].by = t
      /\ tx[t].flow = "destroy" => tx[t].who \in Tx /\ key'[tx[t].who].destroyed
  BY KeysGrow
<1>2. Sealing(t)'
  BY <1>0, <1>1 DEF Ended, Sealing
<1>3. ASSUME NEW u \in Tx \ {t} PROVE Sealing(u)'
  <2>1. tx'[u] = tx[u] /\ Sealing(u) /\ Placed(u) /\ tx[u].holds \cap tx[t].holds = {}
    BY <1>0 DEF Secrets, Typed, Alone, Locks
  <2>2. \A p \in Person : KeyRow(p) \in tx[u].holds => key'[p] = key[p]
    BY <1>1, <2>1
  <2>3. \A p \in Person, by \in Tx : KeyOf(u, p, by) => KeyOf(u, p, by)'
    BY <1>1, <2>1 DEF KeyOf
  <2>4. CASE tx[u].at \in Open /\ tx[u].flow # "destroy"
    <3>1. tx[u].who \in Person /\ (tx[u].at \in {"head", "write"} => tx[u].sealed \in Tx)
      BY <2>1, <2>4 DEF Placed, Open, Recording
    <3>2. tx[u].at \in {"head", "write"} => KeyOf(u, tx[u].who, tx[u].sealed)'
      <4>1. PICK p \in Person : p = tx[u].who
        BY <3>1
      <4> SUFFICES ASSUME tx[u].at \in {"head", "write"} PROVE KeyOf(u, tx[u].who, tx[u].sealed)'
        OBVIOUS
      <4>2. PICK by \in Tx : by = tx[u].sealed
        BY <3>1
      <4>3. KeyOf(u, p, by)'
        BY <2>1, <2>3, <2>4, <4>1, <4>2 DEF Sealing
      <4> QED
        BY <2>1, <4>1, <4>2, <4>3 DEF KeyOf
    <3>3. ASSUME NEW i \in DOMAIN tx[u].wrote
          PROVE  KeyOf(u, tx[u].who, tx[u].wrote[i].content.sealed)'
      <4>1. PICK p \in Person : p = tx[u].who
        BY <3>1
      <4>2. PICK by \in Tx : by = tx[u].wrote[i].content.sealed
        BY <2>1, <2>4 DEF Sealing
      <4>3. KeyOf(u, p, by)'
        BY <2>1, <2>3, <2>4, <4>1, <4>2 DEF Sealing
      <4> QED
        BY <2>1, <4>1, <4>2, <4>3 DEF KeyOf
    <3> QED
      BY <2>1, <2>2, <2>4, <3>2, <3>3 DEF Sealing, KeyOf
  <2>5. CASE ~ (tx[u].at \in Open /\ tx[u].flow # "destroy")
    BY <1>0, <1>1, <2>1, <2>5 DEF Sealing
  <2> QED
    BY <2>4, <2>5
<1>4. ASSUME NEW c \in Chain, NEW i \in DOMAIN log[c], <<c, i>> \notin altered
      PROVE  LET k == log[c][i].content IN k.person \in Person /\ k.sealed \in Tx /\ key'[k.person].by = k.sealed
  BY <1>1, <1>4 DEF Secrets, Kept
<1>5. Kept'
  <2>1. CASE tx[t].flow = "destroy"
    <3>1. log' = log
      BY <2>1 DEF Commit
    <3> QED
      BY <1>0, <1>4, <3>1 DEF Kept
  <2>2. CASE tx[t].flow # "destroy"
    <3>0. tx[t].chain \in Chain /\ tx[t].who \in Person
      BY <1>0, <2>2 DEF Placed
    <3> DEFINE w == tx[t].wrote
    <3>1. PICK b \in Chain : b = tx[t].chain
      BY <3>0
    <3>2. w \in Seq(Record) /\ log[b] \in Seq(Record)
      BY <1>0 DEF Transaction
    <3>3. log' = [log EXCEPT ![b] = log[b] \o w]
      BY <2>2, <3>1 DEF Commit
    <3>4. log'[b] = log[b] \o w /\ \A c \in Chain \ {b} : log'[c] = log[c]
      BY <1>0, <3>3
    <3>5. ASSUME NEW j \in DOMAIN w
          PROVE  /\ w[j].content.person \in Person /\ w[j].content.sealed \in Tx
                 /\ key'[w[j].content.person].by = w[j].content.sealed
      <4>1. /\ w[j].content.person = tx[t].who /\ w[j].content.sealed \in Tx
            /\ KeyOf(t, tx[t].who, w[j].content.sealed)
        BY <1>0, <2>2 DEF Sealing
      <4> QED
        BY <1>1, <2>2, <3>0, <4>1 DEF KeyOf
    <3> HIDE DEF w
    <3>6. ASSUME NEW i \in DOMAIN log'[b]
          PROVE  \/ i \in DOMAIN log[b] /\ log'[b][i] = log[b][i]
                 \/ \E j \in DOMAIN w : log'[b][i] = w[j]
      <4>1. DOMAIN log'[b] = 1 .. Len(log[b]) + Len(w) /\ Len(log[b]) \in Nat /\ Len(w) \in Nat
        BY <3>2, <3>4
      <4>2. CASE i <= Len(log[b])
        BY <3>2, <3>4, <4>1, <4>2
      <4>3. CASE i > Len(log[b])
        <5>1. i - Len(log[b]) \in DOMAIN w
          BY <3>2, <4>1, <4>3
        <5>2. log'[b][i] = w[i - Len(log[b])]
          BY <3>2, <3>4, <4>1, <4>3
        <5> QED
          BY <5>1, <5>2
      <4> QED
        BY <4>1, <4>2, <4>3
    <3>7. \A i \in DOMAIN log'[b] :
            \/ <<b, i>> \in altered
            \/ /\ log'[b][i].content.person \in Person /\ log'[b][i].content.sealed \in Tx
               /\ key'[log'[b][i].content.person].by = log'[b][i].content.sealed
      BY <1>4, <3>5, <3>6
    <3>8. \A c \in Chain \ {b} : \A i \in DOMAIN log'[c] :
            \/ <<c, i>> \in altered
            \/ /\ log'[c][i].content.person \in Person /\ log'[c][i].content.sealed \in Tx
               /\ key'[log'[c][i].content.person].by = log'[c][i].content.sealed
      <4> SUFFICES ASSUME NEW c \in Chain \ {b}, NEW i \in DOMAIN log[c], <<c, i>> \notin altered
                   PROVE  /\ log[c][i].content.person \in Person /\ log[c][i].content.sealed \in Tx
                          /\ key'[log[c][i].content.person].by = log[c][i].content.sealed
        BY <3>4
      <4> QED
        BY <1>4
    <3> QED
      BY <1>0, <3>7, <3>8 DEF Kept
  <2> QED
    BY <2>1, <2>2
<1> QED
  BY <1>2, <1>3, <1>5 DEF Secrets

LEMMA SecretsNext ==
  ASSUME Typed, Locks, Secrets, [Next]_vars
  PROVE  Secrets'
<1>1. ASSUME NEW t \in Tx, Moves(t) PROVE Secrets'
  BY <1>1, SecretsMiddle, SecretsSteps, SecretsCommit DEF Moves
<1>2. ASSUME UNCHANGED <<key, tx>> PROVE \A u \in Tx : Sealing(u)'
  BY <1>2 DEF Secrets, Sealing, KeyOf
<1>3. ASSUME NEW c \in Chain, NEW i \in DOMAIN log[c], Alter(c, i) PROVE Secrets'
  <2>1. UNCHANGED <<key, tx>> /\ log \in [Chain -> Seq(Record)] /\ altered' = altered \cup {<<c, i>>}
        /\ log' = [log EXCEPT ![c] = [log[c] EXCEPT ![i] = [log[c][i] EXCEPT !.content =
                                        [person |-> None, sealed |-> None]]]]
    BY <1>3 DEF Typed, TypeOK, Alter
  <2>2. \A d \in Chain : DOMAIN log'[d] = DOMAIN log[d]
                         /\ \A j \in DOMAIN log[d] : <<d, j>> # <<c, i>> => log'[d][j] = log[d][j]
    BY <2>1
  <2> QED
    BY <1>2, <2>1, <2>2 DEF Secrets, Kept
<1>4. CASE Verify \/ UNCHANGED vars
  <2>1. UNCHANGED <<key, log, tx, altered>>
    BY <1>4 DEF Verify, BeginWalk, WalkChain, ReadBatch, EndChain, vars
  <2> QED
    BY <1>2, <2>1 DEF Secrets, Kept
<1> QED
  BY <1>1, <1>3, <1>4, Steps

(* Every record stays sealed with its person's one key, however many make    *)
(* that key at once, and a key once destroyed is never made again.           *)
THEOREM KeysStayKept == Spec => []KeysKept
<1> DEFINE I == Typed /\ Locks /\ Secrets
<1>1. Init => I
  <2> SUFFICES ASSUME Init PROVE Secrets
    BY TypedInit, ChainedInit
  <2>1. Kept
    BY DEF Init, Kept
  <2>2. \A t \in Tx : Sealing(t)
    BY DEF Init, Sealing, Unused, Clean, Open
  <2> QED
    BY <2>1, <2>2 DEF Secrets
<1>2. I /\ [Next]_vars => I'
  BY TypedNext, LocksNext, SecretsNext
<1>3. I => KeysKept
  BY DEF Secrets, Kept, Sealing, KeysKept
<1> QED
  BY <1>1, <1>2, <1>3, PTL DEF Spec

-----------------------------------------------------------------------------
Claimed == {"key", "create", "head", "write", "commit"}

(* A first run past its claim holds the one row, and there is no owner yet;  *)
(* an account of the platform is its owner's.                              *)
Owning(t) ==
  /\ tx[t].flow = "setup" /\ tx[t].at \in Claimed => OwnerRow \in tx[t].holds
  /\ OwnerRow \in tx[t].holds => tx[t].flow = "setup" /\ owner = None
  /\ tx[t].at \in {"reopen", "closed", "unsure"} => owner # None
  /\ tx[t].flow = "setup" => (tx[t].at = "done" => owner = t) /\ tx[t].at # "taken"

Owned ==
  /\ \A x \in Tx : account[x] # None /\ account[x].chain = Home => owner # None
  /\ owner # None => account[owner] # None
  /\ \A t \in Tx : Owning(t)

LEMMA OwnedStays ==
  ASSUME Owned, NEW t \in Tx, Alone(t), Others, Owning(t)'
  PROVE  Owned'
<1>1. \A u \in Tx \ {t} : Owning(u)'
  BY DEF Owned, Owning, Alone, Others
<1> QED
  BY <1>1 DEF Owned, Others

LEMMA OwnedMiddle ==
  ASSUME Typed, Owned, NEW t \in Tx, Middle(t)
  PROVE  Owned'
<1>0. /\ tx[t] \in Transaction /\ Placed(t) /\ tx \in [Tx -> Transaction]
      /\ Alone(t) /\ Others /\ Owning(t) /\ owner' = owner
  BY MiddleIs DEF Typed, TypeOK, Owned, Others
<1>1. CASE InsertAccount(t)
  <2>1. CASE tx[t].flow = "setup"
    <3>1. CASE Hold(t, AccountRow(t), "claim")
      <4>1. /\ tx'[t].at = "claim" /\ tx'[t].holds = tx[t].holds \cup {AccountRow(t)}
            /\ tx'[t].flow = tx[t].flow
        BY <1>0, <3>1 DEF Hold, Update, Transaction
      <4>2. Owning(t)'
        BY <1>0, <2>1, <4>1, RowsApart DEF Owning, Claimed
      <4> QED
        BY <1>0, <4>2, OwnedStays
    <3>2. CASE (\E x \in Tx : account[x] = [chain |-> tx[t].chain, address |-> tx[t].address])
               /\ Over(t, "reopen")
      <4>1. PICK x \in Tx : account[x] = [chain |-> tx[t].chain, address |-> tx[t].address]
        BY <3>2
      <4>2. tx[t].chain = Home /\ tx[t].chain \in Chain /\ tx[t].address \in Address
        BY <1>0, <1>1, <2>1 DEF InsertAccount, Placed, Open, Recording
      <4>3. account[x] \in [chain : Chain, address : Address]
        BY <4>1, <4>2
      <4>4. account[x] # None /\ account[x].chain = Home
        BY <4>1, <4>2, <4>3, NamesAssumption
      <4>5. owner # None
        BY <4>4 DEF Owned
      <4>6. Ended(t) /\ tx'[t].at = "reopen"
        BY <3>2, OverIs DEF Open
      <4>7. Owning(t)'
        BY <1>0, <4>5, <4>6 DEF Owning, Ended, Claimed
      <4> QED
        BY <1>0, <4>7, OwnedStays
    <3> QED
      BY <1>1, <2>1, <3>1, <3>2 DEF InsertAccount
  <2>2. CASE tx[t].flow # "setup"
    <3>1. CASE Hold(t, AccountRow(t), "key")
      <4>1. /\ tx'[t].at = "key" /\ tx'[t].holds = tx[t].holds \cup {AccountRow(t)}
            /\ tx'[t].flow = tx[t].flow
        BY <1>0, <3>1 DEF Hold, Update, Transaction
      <4>2. Owning(t)'
        BY <1>0, <2>2, <4>1, RowsApart DEF Owning, Claimed
      <4> QED
        BY <1>0, <4>2, OwnedStays
    <3>2. CASE Over(t, "exists")
      <4>1. Ended(t) /\ tx'[t].at = "exists"
        BY <3>2, OverIs DEF Open
      <4>2. Owning(t)'
        BY <2>2, <4>1 DEF Owning, Ended, Claimed
      <4> QED
        BY <1>0, <4>2, OwnedStays
    <3> QED
      BY <1>1, <2>2, <3>1, <3>2 DEF InsertAccount
  <2> QED
    BY <2>1, <2>2
<1>2. CASE Claim(t)
  <2>1. CASE Over(t, "closed")
    <3>1. Ended(t) /\ tx'[t].at = "closed"
      BY <2>1, OverIs DEF Open
    <3>2. owner' # None
      BY <1>0, <1>2, <2>1, <3>1 DEF Claim, Hold, Update, Transaction
    <3>3. Owning(t)'
      BY <3>1, <3>2 DEF Owning, Ended, Claimed
    <3> QED
      BY <1>0, <3>3, OwnedStays
  <2>2. CASE owner = None /\ Hold(t, OwnerRow, "key")
    <3>1. /\ tx'[t].at = "key" /\ tx'[t].holds = tx[t].holds \cup {OwnerRow}
          /\ tx'[t].flow = tx[t].flow /\ tx[t].flow = "setup"
      BY <1>0, <1>2, <2>2 DEF Claim, Hold, Update, Transaction, Placed
    <3>2. Owning(t)'
      BY <1>0, <2>2, <3>1 DEF Owning
    <3> QED
      BY <1>0, <3>2, OwnedStays
  <2> QED
    BY <1>2, <2>1, <2>2 DEF Claim
<1>3. CASE OpenKey(t) \/ CreateKey(t)
  <2>1. tx[t].at \in Claimed /\ tx[t].at # "commit"
    BY <1>3 DEF OpenKey, CreateKey, Claimed
  <2>2. CASE Over(t, "erased")
    <3>1. Ended(t) /\ tx'[t].at = "erased"
      BY <2>2, OverIs DEF Open
    <3>2. Owning(t)'
      BY <3>1 DEF Owning, Ended, Claimed
    <3> QED
      BY <1>0, <3>2, OwnedStays
  <2>3. CASE ~ Over(t, "erased")
    <3>1. /\ tx'[t].flow = tx[t].flow /\ tx'[t].at \in {"key", "create", "head"}
          /\ tx'[t].holds = tx[t].holds \/ tx'[t].holds = tx[t].holds \cup {KeyRow(tx[t].who)}
      <4>1. ASSUME NEW made, Sealed(t, made)
            PROVE  tx'[t].flow = tx[t].flow /\ tx'[t].at = "head" /\ tx'[t].holds = tx[t].holds
        BY <1>0, <4>1 DEF Sealed, Update, Transaction
      <4>2. ASSUME NEW at, Goto(t, at)
            PROVE  tx'[t].flow = tx[t].flow /\ tx'[t].at = at /\ tx'[t].holds = tx[t].holds
        BY <1>0, <4>2 DEF Goto, Update, Transaction
      <4>3. CASE Created(t)
        BY <1>0, <4>3 DEF Created, Update, Transaction, keyFor
      <4> QED
        BY <1>3, <2>3, <4>1, <4>2, <4>3 DEF OpenKey, CreateKey
    <3>2. Owning(t)'
      BY <1>0, <2>1, <3>1, RowsApart DEF Owning, Claimed
    <3> QED
      BY <1>0, <3>2, OwnedStays
  <2> QED
    BY <2>2, <2>3
<1>4. CASE DestroyKey(t)
  <2>1. /\ tx'[t].at = "commit" /\ tx'[t].holds = tx[t].holds \cup {KeyRow(tx[t].who)}
        /\ tx'[t].flow = tx[t].flow /\ tx[t].flow = "destroy"
    BY <1>0, <1>4 DEF DestroyKey, Hold, Update, Transaction, Placed
  <2>2. Owning(t)'
    BY <1>0, <2>1, RowsApart DEF Owning, Claimed
  <2> QED
    BY <1>0, <2>2, OwnedStays
<1> QED
  BY <1>1, <1>2, <1>3, <1>4 DEF Middle

LEMMA OwnedSteps ==
  ASSUME Typed, Owned, NEW t \in Tx, Arrive(t) \/ Reopen(t) \/ ReadHead(t) \/ Write(t) \/ Abort(t)
  PROVE  Owned'
<1>0. Owning(t)
  BY DEF Owned
<1>1. CASE Arrive(t)
  <2>1. Owning(t)'
    BY <1>1, ArriveIs DEF Owning, Claimed, Others
  <2> QED
    BY <1>1, <2>1, ArriveIs, OwnedStays
<1>2. CASE Reopen(t) \/ Abort(t)
  <2>1. /\ Ended(t) /\ Alone(t) /\ Others /\ tx'[t].at \notin {"done", "taken", "reopen"}
        /\ tx'[t].at \in {"closed", "unsure"} => owner # None
    BY <1>0, <1>2, ReopenIs, AbortIs DEF Owning
  <2>2. Owning(t)'
    BY <2>1 DEF Ended, Owning, Claimed, Open, Others
  <2> QED
    BY <2>1, <2>2, OwnedStays
<1>3. CASE ReadHead(t)
  <2>1. /\ tx[t].at = "head" /\ tx'[t].at = "write" /\ Alone(t) /\ Others
        /\ tx'[t].flow = tx[t].flow /\ tx'[t].holds = tx[t].holds \cup {HeadRow(tx[t].chain)}
    BY <1>3, ReadHeadIs DEF Took
  <2>2. Owning(t)'
    BY <1>0, <2>1, RowsApart DEF Owning, Claimed, Others
  <2> QED
    BY <2>1, <2>2, OwnedStays
<1>4. CASE Write(t)
  <2>1. /\ tx[t].at = "write" /\ Others /\ Alone(t) /\ tx'[t].at \in {"commit", "key"}
        /\ tx'[t].holds = tx[t].holds /\ tx'[t].flow = tx[t].flow
    BY <1>4, WriteIs DEF Alone
  <2>2. Owning(t)'
    BY <1>0, <2>1 DEF Owning, Claimed, Others
  <2> QED
    BY <2>1, <2>2, OwnedStays
<1> QED
  BY <1>1, <1>2, <1>3, <1>4

LEMMA OwnedCommit ==
  ASSUME Typed, Locks, Owned, NEW t \in Tx, Commit(t)
  PROVE  Owned'
<1>0. /\ tx[t].at = "commit" /\ tx[t].at \in Open /\ Placed(t) /\ Owning(t) /\ Ended(t) /\ Alone(t)
      /\ tx'[t].at = "done" /\ account \in [Tx -> [chain : Chain, address : Address] \cup {None}]
      /\ owner \in Tx \cup {None} /\ None \notin Tx
  BY CommitIs, NamesAssumption DEF Typed, TypeOK, Owned, Commit, Open
<1>1. tx[t].flow \in {"signup", "setup"} => account'[t] \in [chain : Chain, address : Address]
      /\ account'[t] # None /\ account'[t].chain = tx[t].chain
  <2>1. tx[t].flow \in {"signup", "setup"} => tx[t].chain \in Chain /\ tx[t].address \in Address
    BY <1>0 DEF Placed
  <2> QED
    BY <1>0, <2>1, NamesAssumption DEF Commit
<1>2. \A x \in Tx \ {t} : account'[x] = account[x]
  BY <1>0 DEF Commit
<1>3. tx[t].flow \notin {"signup", "setup"} => account' = account
  BY DEF Commit
<1>4. owner' = IF tx[t].flow = "setup" THEN t ELSE owner
  BY DEF Commit
<1>5. \A x \in Tx : account[x] # None => account'[x] # None
  BY <1>1, <1>2, <1>3
<1>6. ASSUME NEW x \in Tx, account'[x] # None, account'[x].chain = Home PROVE owner' # None
  <2>1. CASE tx[t].flow = "setup"
    BY <1>0, <1>4, <2>1
  <2>2. CASE tx[t].flow # "setup"
    <3>1. x = t => tx[t].flow # "signup"
      BY <1>0, <1>1, <1>6 DEF Placed
    <3>2. account'[x] = account[x]
      BY <1>2, <1>3, <2>2, <3>1
    <3> QED
      BY <1>4, <1>6, <2>2, <3>2 DEF Owned
  <2> QED
    BY <2>1, <2>2
<1>7. owner' # None => account'[owner'] # None
  BY <1>0, <1>1, <1>4, <1>5 DEF Owned
<1>8. Owning(t)'
  BY <1>0, <1>4 DEF Ended, Owning, Claimed
<1>9. ASSUME NEW u \in Tx \ {t} PROVE Owning(u)'
  <2>1. tx'[u] = tx[u] /\ Owning(u) /\ tx[u].holds \cap tx[t].holds = {}
    BY <1>0 DEF Owned, Alone, Locks
  <2>2. CASE tx[t].flow = "setup"
    <3>1. OwnerRow \in tx[t].holds /\ owner = None
      BY <1>0, <2>2 DEF Owning, Claimed
    <3>2. OwnerRow \notin tx[u].holds
      BY <2>1, <3>1
    <3>3. tx[u].flow = "setup" => tx[u].at # "done"
      BY <2>1, <3>1, <1>0 DEF Owning
    <3> QED
      BY <1>0, <1>4, <2>1, <2>2, <3>1, <3>2, <3>3 DEF Owning
  <2>3. CASE tx[t].flow # "setup"
    BY <1>4, <2>1, <2>3 DEF Owning
  <2> QED
    BY <2>2, <2>3
<1> QED
  BY <1>6, <1>7, <1>8, <1>9 DEF Owned

LEMMA OwnedNext ==
  ASSUME Typed, Locks, Owned, [Next]_vars
  PROVE  Owned'
<1>1. ASSUME NEW t \in Tx, Moves(t) PROVE Owned'
  BY <1>1, OwnedMiddle, OwnedSteps, OwnedCommit DEF Moves
<1>2. CASE Aside \/ UNCHANGED vars
  BY <1>2 DEF Aside, vars, Owned, Owning
<1> QED
  BY <1>1, <1>2, Steps, AsideIs

(* Any number of first runs at once make one owner, who has an account, and  *)
(* whoever is turned away, with or without being told so, is turned away     *)
(* from a setup that has closed: claim, and Setup's answer to a taken        *)
(* address.                                                                  *)
THEOREM OneOwner == Spec => []FirstRunOnce
<1> DEFINE I == Typed /\ Locks /\ Owned
<1>1. Init => I
  <2> SUFFICES ASSUME Init PROVE Owned
    BY TypedInit, ChainedInit
  <2> QED
    BY DEF Init, Owned, Owning, Unused, Clean, Claimed
<1>2. I /\ [Next]_vars => I'
  BY TypedNext, LocksNext, OwnedNext
<1>3. I => FirstRunOnce
  BY DEF Owned, Owning, FirstRunOnce
<1> QED
  BY <1>1, <1>2, <1>3, PTL DEF Spec

-----------------------------------------------------------------------------
Nobody == [person |-> None, sealed |-> None]

(* A record altered out of band says nothing of anybody, and no longer has   *)
(* its hash.                                                               *)
Marked == \A c \in Chain, i \in Nat : <<c, i>> \in altered =>
  /\ i \in DOMAIN log[c]
  /\ log[c][i].content = Nobody
  /\ log[c][i].hash # digest(Before(c, i), Nobody)

(* The walk remembers the hash of the last record it read, and has named     *)
(* each altered record it knew of, or has it before it.                     *)
Walked ==
  /\ walk.at = "read" => walk.previous = Before(walk.chain, walk.after + 1)
  /\ walk.breaks \subseteq altered
  /\ walk.known \subseteq altered
  /\ walk.at = "done" => walk.left = {}
  /\ walk.at # "idle" => \A c \in Chain, i \in Nat : <<c, i>> \in walk.known =>
       \/ <<c, i>> \in walk.breaks
       \/ c \in walk.left
       \/ walk.at = "read" /\ c = walk.chain /\ i > walk.after

(* Chains only grow, and no hash in them changes.                           *)
Grown == \A c \in Chain :
  /\ Len(log[c]) <= Len(log'[c])
  /\ \A i \in DOMAIN log[c] : i \in DOMAIN log'[c] /\ log'[c][i].hash = log[c][i].hash

LEMMA BeforeStays ==
  ASSUME Typed, Grown, NEW c \in Chain, NEW i \in 1 .. Len(log[c]) + 1
  PROVE  Before(c, i)' = Before(c, i)
<1>1. log[c] \in Seq(Record)
  BY DEF Typed, TypeOK
<1>2. i # 1 => i - 1 \in DOMAIN log[c]
  BY <1>1
<1> QED
  BY <1>2 DEF Before, Grown

LEMMA WalkedGrown ==
  ASSUME Typed, Walked, Grown, walk' = walk, altered \subseteq altered'
  PROVE  Walked'
<1>1. walk.at = "read" => walk.previous = Before(walk.chain, walk.after + 1)'
  <2> SUFFICES ASSUME walk.at = "read" PROVE walk.previous = Before(walk.chain, walk.after + 1)'
    OBVIOUS
  <2>1. PICK c \in Chain : c = walk.chain
    BY DEF Typed, Walking
  <2>2. walk.after \in 0 .. Len(log[c]) /\ log[c] \in Seq(Record)
    BY <2>1 DEF Typed, TypeOK, Walking
  <2>3. PICK i \in 1 .. Len(log[c]) + 1 : i = walk.after + 1
    BY <2>2
  <2>4. walk.previous = Before(c, i)
    BY <2>1, <2>3 DEF Walked
  <2>5. Before(c, i)' = Before(c, i)
    BY BeforeStays
  <2>6. Before(walk.chain, walk.after + 1)' = Before(c, i)'
    BY <2>1, <2>3
  <2> QED
    BY <2>4, <2>5, <2>6
<1> QED
  BY <1>1 DEF Walked

(* A commit adds records none of which is altered.                           *)
LEMMA CommitGrows ==
  ASSUME Typed, NEW t \in Tx, Commit(t)
  PROVE  /\ Grown /\ UNCHANGED <<walk, altered>>
         /\ \A c \in Chain : \A i \in DOMAIN log[c] : log'[c][i] = log[c][i]
<1>0. /\ log \in [Chain -> Seq(Record)] /\ tx[t] \in Transaction /\ Placed(t) /\ tx[t].at = "commit"
  BY DEF Typed, TypeOK, Commit
<1>1. CASE tx[t].flow = "destroy"
  BY <1>0, <1>1 DEF Commit, Grown
<1>2. CASE tx[t].flow # "destroy"
  <2>1. tx[t].chain \in Chain /\ tx[t].wrote \in Seq(Record)
    BY <1>0, <1>2 DEF Placed, Transaction
  <2>2. log' = [log EXCEPT ![tx[t].chain] = log[tx[t].chain] \o tx[t].wrote]
    BY <1>2 DEF Commit
  <2>3. ASSUME NEW c \in Chain
        PROVE  /\ Len(log[c]) <= Len(log'[c])
               /\ \A i \in DOMAIN log[c] : i \in DOMAIN log'[c] /\ log'[c][i] = log[c][i]
    <3>1. CASE c # tx[t].chain
      <4>1. log'[c] = log[c] /\ Len(log[c]) \in Nat
        BY <1>0, <2>2, <3>1
      <4> QED
        BY <4>1
    <3>2. CASE c = tx[t].chain
      <4> DEFINE s == log[c]  w == tx[t].wrote
      <4>1. log'[c] = s \o w /\ s \in Seq(Record) /\ w \in Seq(Record)
        BY <1>0, <2>1, <2>2, <3>2
      <4> HIDE DEF s, w
      <4>2. Len(s \o w) = Len(s) + Len(w) /\ Len(s) \in Nat /\ Len(w) \in Nat
            /\ \A i \in DOMAIN s : i \in DOMAIN (s \o w) /\ (s \o w)[i] = s[i]
        BY <4>1
      <4>3. Len(s) <= Len(s \o w)
        <5>1. \A k, l \in Nat : k <= k + l
          OBVIOUS
        <5> QED
          BY <4>2, <5>1
      <4> QED
        BY <4>1, <4>2, <4>3 DEF s
    <3> QED
      BY <3>1, <3>2
  <2> QED
    BY <2>3 DEF Commit, Grown
<1> QED
  BY <1>1, <1>2

(* What is altered had its hash, and has it no more.                         *)
LEMMA MarkedAlter ==
  ASSUME Typed, ChainsWhole, Kept, Marked, Walked,
         NEW c \in Chain, NEW i \in DOMAIN log[c], Alter(c, i)
  PROVE  Marked' /\ Walked'
<1> DEFINE y == [log[c][i] EXCEPT !.content = Nobody]
<1>1. /\ log \in [Chain -> Seq(Record)] /\ walk' = walk
      /\ altered' = altered \cup {<<c, i>>} /\ i \in Nat /\ log[c][i] \in Record
      /\ log' = [log EXCEPT ![c] = [log[c] EXCEPT ![i] = y]]
  BY DEF Typed, TypeOK, Alter, Nobody
<1>2. y.hash = log[c][i].hash /\ y.content = Nobody
  BY <1>1 DEF Record
<1> HIDE DEF y
<1>3. log'[c] = [log[c] EXCEPT ![i] = y] /\ \A d \in Chain \ {c} : log'[d] = log[d]
  BY <1>1
<1>4. Len(log'[c]) = Len(log[c]) /\ DOMAIN log'[c] = DOMAIN log[c] /\ log'[c][i] = y
      /\ \A j \in DOMAIN log[c] \ {i} : log'[c][j] = log[c][j]
  BY <1>1, <1>3
<1>5. \A d \in Chain : Len(log[d]) \in Nat /\ Len(log'[d]) = Len(log[d])
  BY <1>1, <1>3, <1>4
<1>6. Grown
  <2>1. \A k \in Nat : k <= k
    OBVIOUS
  <2> QED
    BY <1>2, <1>3, <1>4, <1>5, <2>1 DEF Grown
<1>7. Walked'
  BY <1>1, <1>6, WalkedGrown
<1>8. log[c][i].hash # digest(Before(c, i), Nobody)
  <2>1. CASE <<c, i>> \in altered
    BY <1>1, <2>1 DEF Marked
  <2>2. CASE <<c, i>> \notin altered
    <3> DEFINE k == log[c][i].content  b == Before(c, i)
    <3>1. log[c][i].hash = digest(b, k)
      BY <2>2 DEF ChainsWhole
    <3>2. k.sealed \in Tx
      BY <2>2 DEF Kept
    <3>3. k # Nobody
      BY <3>2, NamesAssumption DEF Nobody
    <3>4. b \in Seq(Content) /\ k \in Content /\ Nobody \in Content
      <4>1. i # 1 => log[c][i - 1] \in Record
        BY <1>1
      <4>2. <<>> \in Seq(Content)
        OBVIOUS
      <4> QED
        BY <1>1, <4>1, <4>2 DEF Before, Genesis, Record, Content, Nobody
    <3> HIDE DEF k, b
    <3>5. Append(b, k) # Append(b, Nobody)
      <4>1. Append(b, k)[Len(b) + 1] = k /\ Append(b, Nobody)[Len(b) + 1] = Nobody
        BY <3>4
      <4> QED
        BY <3>3, <4>1
    <3> QED
      BY <3>1, <3>5 DEF digest, b
  <2> QED
    BY <2>1, <2>2
<1>9. ASSUME NEW d \in Chain, NEW j \in Nat, <<d, j>> \in altered'
      PROVE  /\ j \in DOMAIN log'[d] /\ log'[d][j].content = Nobody
             /\ log'[d][j].hash # digest(Before(d, j)', Nobody)
  <2>1. j \in DOMAIN log[d]
    BY <1>1, <1>9 DEF Marked
  <2>2. Before(d, j)' = Before(d, j)
    <3>1. j \in 1 .. Len(log[d]) + 1
      BY <1>1, <2>1
    <3> QED
      BY <1>6, <3>1, BeforeStays
  <2>3. CASE d = c /\ j = i
    BY <1>2, <1>4, <1>8, <2>2, <2>3
  <2>4. CASE ~ (d = c /\ j = i)
    <3>1. <<d, j>> \in altered /\ log'[d][j] = log[d][j]
      BY <1>1, <1>3, <1>4, <1>9, <2>1, <2>4
    <3>2. DOMAIN log'[d] = DOMAIN log[d]
      BY <1>3, <1>4
    <3> QED
      BY <2>1, <2>2, <3>1, <3>2 DEF Marked
  <2> QED
    BY <2>3, <2>4
<1> QED
  BY <1>7, <1>9 DEF Marked

LEMMA MarkedMoves ==
  ASSUME Typed, Marked, Walked, NEW t \in Tx, Moves(t)
  PROVE  Marked' /\ Walked'
<1>1. /\ Grown /\ UNCHANGED <<walk, altered>>
      /\ \A c \in Chain : \A i \in DOMAIN log[c] : log'[c][i] = log[c][i]
  <2>1. CASE Commit(t)
    BY <2>1, CommitGrows
  <2>2. CASE ~ Commit(t)
    <3>1. UNCHANGED <<log, walk, altered>>
      BY <2>2, ArriveIs, MiddleIs, ReopenIs, ReadHeadIs, WriteIs, AbortIs DEF Moves, Others
    <3>2. \A c \in Chain : Len(log[c]) \in Nat
      BY DEF Typed, TypeOK
    <3>3. \A k \in Nat : k <= k
      OBVIOUS
    <3> QED
      BY <3>1, <3>2, <3>3 DEF Grown
  <2> QED
    BY <2>1, <2>2
<1>2. ASSUME NEW d \in Chain, NEW j \in Nat, <<d, j>> \in altered
      PROVE  /\ j \in DOMAIN log'[d] /\ log'[d][j].content = Nobody
             /\ log'[d][j].hash # digest(Before(d, j)', Nobody)
  <2>1. j \in DOMAIN log[d] /\ log[d] \in Seq(Record)
    BY <1>2 DEF Marked, Typed, TypeOK
  <2>2. Before(d, j)' = Before(d, j)
    <3>1. j \in 1 .. Len(log[d]) + 1
      BY <2>1
    <3> QED
      BY <1>1, <3>1, BeforeStays
  <2> QED
    BY <1>1, <1>2, <2>1, <2>2 DEF Marked, Grown
<1> QED
  BY <1>1, <1>2, WalkedGrown DEF Marked

(* Of a batch, those are broken that are altered.                            *)
LEMMA BrokenIs ==
  ASSUME Typed, ChainsWhole, Marked, Walked, walk.at = "read"
  PROVE  /\ walk.chain \in Chain /\ walk.after \in Nat /\ Upto \in walk.after .. Len(log[walk.chain])
         /\ Upto = walk.after => walk.after = Len(log[walk.chain])
         /\ Broken = {i \in walk.after + 1 .. Upto : <<walk.chain, i>> \in altered}
<1> DEFINE c == walk.chain  n == Len(log[c])  s == log[c]
           before(i) == IF i = walk.after + 1 THEN walk.previous ELSE s[i - 1].hash
<1>1. /\ c \in Chain /\ walk.after \in 0 .. n /\ n \in Nat /\ Batch \in Nat \ {0}
      /\ s \in Seq(Record)
  BY NumbersAssumption DEF Typed, TypeOK, Walking
<1>2. Upto \in walk.after .. n /\ (Upto = walk.after => walk.after = n)
  BY <1>1 DEF Upto
<1>3. ASSUME NEW i \in walk.after + 1 .. Upto
      PROVE  (s[i].previous # before(i) \/ s[i].hash # digest(before(i), s[i].content))
             <=> <<c, i>> \in altered
  <2>1. i \in Nat /\ i \in DOMAIN log[c]
    BY <1>1, <1>2
  <2>2. before(i) = Before(c, i)
    <3>1. CASE i = walk.after + 1
      BY <3>1 DEF Walked
    <3>2. CASE i # walk.after + 1
      <4>1. i # 1
        BY <1>1, <1>2, <3>2
      <4> QED
        BY <3>2, <4>1 DEF Before
    <3> QED
      BY <3>1, <3>2
  <2>3. s[i].previous = Before(c, i)
        /\ (<<c, i>> \in altered \/ s[i].hash = digest(Before(c, i), s[i].content))
    BY <1>1, <2>1 DEF ChainsWhole
  <2>4. <<c, i>> \in altered => s[i].hash # digest(Before(c, i), s[i].content)
    BY <1>1, <2>1 DEF Marked
  <2> HIDE DEF before, s
  <2> QED
    BY <2>2, <2>3, <2>4
<1>4. Broken = {i \in walk.after + 1 .. Upto :
                  s[i].previous # before(i) \/ s[i].hash # digest(before(i), s[i].content)}
  BY DEF Broken
<1> DEFINE bad(i) == s[i].previous # before(i) \/ s[i].hash # digest(before(i), s[i].content)
<1>5. \A i \in walk.after + 1 .. Upto : bad(i) <=> <<c, i>> \in altered
  BY <1>3
<1>6. Broken = {i \in walk.after + 1 .. Upto : bad(i)}
  BY <1>4
<1> HIDE DEF bad
<1>7. Broken = {i \in walk.after + 1 .. Upto : <<c, i>> \in altered}
  BY <1>5, <1>6
<1> QED
  BY <1>1, <1>2, <1>7

(* The parts of Walked, for the state after a step.                         *)
LEMMA WalkedAfter ==
  ASSUME walk'.at = "read" => walk'.previous = Before(walk.chain, walk.after + 1)',
         walk'.breaks \subseteq altered', walk'.known \subseteq altered',
         walk'.at = "done" => walk'.left = {},
         \A c \in Chain, i \in Nat : <<c, i>> \in walk'.known =>
           \/ <<c, i>> \in walk'.breaks
           \/ c \in walk'.left
           \/ walk'.at = "read" /\ c = walk'.chain /\ i > walk'.after
  PROVE  Walked'
BY Zenon DEF Walked

LEMMA MarkedVerify ==
  ASSUME Typed, ChainsWhole, Marked, Walked, Verify
  PROVE  Marked' /\ Walked'
<1>0. /\ UNCHANGED <<log, altered>> /\ altered \subseteq Chain \X (Nat \ {0})
      /\ walk.left \subseteq Chain /\ walk.known \subseteq Chain \X Nat
      /\ walk \in [at : {"idle", "chain", "read", "done"}, left : SUBSET Chain,
                   chain : Chain \cup {None}, after : Nat, previous : Seq(Content),
                   breaks : SUBSET (Chain \X Nat), known : SUBSET (Chain \X Nat)]
  BY DEF Typed, TypeOK, Verify, BeginWalk, WalkChain, ReadBatch, EndChain
<1>1. Marked'
  BY <1>0 DEF Marked, Before
<1>2. CASE BeginWalk
  <2>1. /\ walk'.at \in {"chain", "done"} /\ walk'.left = {c \in Chain : log[c] # <<>>}
        /\ walk'.known = altered /\ walk'.breaks = walk.breaks
        /\ walk'.at = "done" => \A c \in Chain : log[c] = <<>>
    BY <1>0, <1>2 DEF BeginWalk
  <2>2. \A c \in Chain, i \in Nat : <<c, i>> \in altered => log[c] # <<>>
    BY DEF Marked
  <2>3. walk'.at = "done" => walk'.left = {}
    BY <2>1
  <2>4. walk'.breaks \subseteq altered'
    BY <1>0, <2>1 DEF Walked
  <2>5. \A c \in Chain, i \in Nat : <<c, i>> \in walk'.known => c \in walk'.left
    BY <2>1, <2>2
  <2>6. walk'.known \subseteq altered' /\ walk'.at # "read"
    BY <1>0, <2>1
  <2> QED
    BY <1>1, <2>3, <2>4, <2>5, <2>6, WalkedAfter
<1>3. ASSUME NEW c \in Chain, WalkChain(c) PROVE Walked'
  <2>1. /\ walk.at = "chain" /\ walk'.at = "read" /\ walk'.left = walk.left \ {c} /\ walk'.chain = c
        /\ walk'.after = 0 /\ walk'.previous = Genesis /\ walk'.known = walk.known
        /\ walk'.breaks = walk.breaks
    BY <1>0, <1>3 DEF WalkChain
  <2>2. Before(walk.chain, walk.after + 1)' = Genesis
    BY <2>1 DEF Before
  <2>3. \A d \in Chain, i \in Nat : <<d, i>> \in walk.known => i > 0
    BY <1>0 DEF Walked
  <2> QED
    BY <1>0, <2>1, <2>2, <2>3 DEF Walked
<1>4. CASE ReadBatch
  <2>0. PICK c \in Chain : c = walk.chain
    BY <1>4, BrokenIs DEF ReadBatch
  <2>1. /\ walk.at = "read" /\ walk.after \in Nat /\ Upto \in walk.after .. Len(log[c])
        /\ Upto # walk.after
        /\ Broken = {i \in walk.after + 1 .. Upto : <<c, i>> \in altered}
        /\ log[c] \in Seq(Record)
    BY <1>4, <2>0, BrokenIs DEF ReadBatch, Typed, TypeOK
  <2>2. PICK u \in Nat : u = Upto
    BY <2>1
  <2>3. /\ walk'.at = "read" /\ walk'.left = walk.left /\ walk'.chain = c /\ walk'.after = u
        /\ walk'.previous = log[c][u].hash /\ walk'.known = walk.known
        /\ walk'.breaks = walk.breaks \cup {<<c, i>> : i \in Broken}
    BY <1>0, <1>4, <2>0, <2>2 DEF ReadBatch
  <2>4. Before(walk.chain, walk.after + 1)' = log[c][u].hash
    <3>1. u # 0 /\ u + 1 # 1 /\ (u + 1) - 1 = u
      BY <2>1, <2>2
    <3> QED
      BY <1>0, <2>3, <3>1 DEF Before
  <2>5. walk'.breaks \subseteq altered
    BY <2>1, <2>3 DEF Walked
  <2>6. ASSUME NEW d \in Chain, NEW i \in Nat, <<d, i>> \in walk.known
        PROVE  <<d, i>> \in walk'.breaks \/ d \in walk'.left \/ (d = walk'.chain /\ i > walk'.after)
    <3>1. CASE d = c /\ i > walk.after /\ i <= u
      <4>1. i \in walk.after + 1 .. u /\ <<c, i>> \in altered
        BY <2>1, <2>6, <3>1 DEF Walked
      <4> QED
        BY <2>1, <2>2, <2>3, <3>1, <4>1
    <3>2. CASE ~ (d = c /\ i > walk.after /\ i <= u)
      BY <2>0, <2>1, <2>2, <2>3, <2>6, <3>2 DEF Walked
    <3> QED
      BY <3>1, <3>2
  <2>7. walk'.known \subseteq altered'
    BY <1>0, <2>3 DEF Walked
  <2>8. walk'.previous = Before(walk.chain, walk.after + 1)'
    BY <2>3, <2>4
  <2>9. \A d \in Chain, i \in Nat : <<d, i>> \in walk'.known =>
          <<d, i>> \in walk'.breaks \/ d \in walk'.left \/ (d = walk'.chain /\ i > walk'.after)
    BY <2>3, <2>6
  <2>10. walk'.at = "read" /\ walk'.at # "done" /\ walk'.breaks \subseteq altered'
    BY <1>0, <2>3, <2>5
  <2> QED
    BY <1>1, <2>7, <2>8, <2>9, <2>10, WalkedAfter
<1>5. CASE EndChain
  <2>1. /\ walk.at = "read" /\ walk'.at \in {"done", "chain"} /\ (walk'.at = "done" => walk.left = {})
        /\ walk'.left = walk.left /\ walk'.known = walk.known /\ walk'.breaks = walk.breaks
    BY <1>0, <1>5 DEF EndChain
  <2>2. walk.chain \in Chain /\ walk.after = Len(log[walk.chain])
    BY <1>5, BrokenIs DEF EndChain
  <2>3. ASSUME NEW d \in Chain, NEW i \in Nat, <<d, i>> \in walk.known
        PROVE  ~ (d = walk.chain /\ i > walk.after)
    <3>1. i \in DOMAIN log[d] /\ log[d] \in Seq(Record)
      BY <2>3 DEF Walked, Marked, Typed, TypeOK
    <3> QED
      BY <2>2, <3>1
  <2>4. \A d \in Chain, i \in Nat : <<d, i>> \in walk'.known =>
          <<d, i>> \in walk'.breaks \/ d \in walk'.left
    BY <2>1, <2>3 DEF Walked
  <2>5. walk'.known \subseteq altered' /\ walk'.breaks \subseteq altered'
    BY <1>0, <2>1 DEF Walked
  <2>6. walk'.at # "read" /\ (walk'.at = "done" => walk'.left = {})
    BY <2>1
  <2> QED
    BY <1>1, <2>4, <2>5, <2>6, WalkedAfter
<1> QED
  BY <1>1, <1>2, <1>3, <1>4, <1>5 DEF Verify

(* A verification names what was altered before it began and nothing that    *)
(* was not, however chains grow between its batches.                         *)
THEOREM VerifyIsTrue == Spec => []VerifyTrue
<1> DEFINE I == Typed /\ Locks /\ Chained /\ Secrets /\ Marked /\ Walked
<1>1. Init => I
  <2> SUFFICES ASSUME Init PROVE Kept /\ (\A t \in Tx : Sealing(t)) /\ Marked /\ Walked
    BY TypedInit, ChainedInit DEF Secrets
  <2>1. Kept /\ Marked /\ Walked
    BY DEF Init, Kept, Marked, Walked
  <2>2. \A t \in Tx : Sealing(t)
    BY DEF Init, Sealing, Unused, Clean, Open
  <2> QED
    BY <2>1, <2>2
<1>2. I /\ [Next]_vars => I'
  <2> SUFFICES ASSUME I, [Next]_vars PROVE I'
    OBVIOUS
  <2>1. Typed' /\ Locks' /\ Chained' /\ Secrets'
    BY TypedNext, LocksNext, ChainedNext, SecretsNext
  <2>2. ASSUME NEW t \in Tx, Moves(t) PROVE Marked' /\ Walked'
    BY <2>2, MarkedMoves
  <2>3. ASSUME Verify PROVE Marked' /\ Walked'
    BY <2>3, MarkedVerify DEF Chained
  <2>4. ASSUME NEW c \in Chain, NEW i \in DOMAIN log[c], Alter(c, i) PROVE Marked' /\ Walked'
    BY <2>4, MarkedAlter DEF Chained, Secrets
  <2>5. ASSUME UNCHANGED vars PROVE Marked' /\ Walked'
    BY <2>5 DEF vars, Marked, Walked, Before
  <2> QED
    BY <2>1, <2>2, <2>3, <2>4, <2>5, Steps
<1>3. I => VerifyTrue
  <2> SUFFICES ASSUME I, walk.at = "done", NEW x \in walk.known PROVE x \in walk.breaks
    BY DEF Walked, VerifyTrue
  <2>1. PICK c \in Chain, i \in Nat : x = <<c, i>>
    BY DEF Typed, TypeOK
  <2> QED
    BY <2>1 DEF Walked
<1> QED
  BY <1>1, <1>2, <1>3, PTL DEF Spec

-----------------------------------------------------------------------------
(* The order rows are taken in: an account, the owner, keys, a head. What a *)
(* transaction holds by the statement it waits at; a key is made before the *)
(* first head is read, and once one is there no other is made.             *)
Early(t) == \A x : KeyRow(x) \notin tx[t].holds /\ HeadRow(x) \notin tx[t].holds

HasKey(t) == KeyRow(tx[t].who) \in tx[t].holds \/ key[tx[t].who] # NoKey

Ladder(t) ==
  LET r == tx[t] IN
  /\ r.at \in {"insert", "destroy"} => r.holds = {}
  /\ r.at = "claim" => Early(t) /\ OwnerRow \notin r.holds
  /\ r.at = "create" => Early(t)
  /\ r.at = "key" => Early(t) \/ HasKey(t)
  /\ r.at \in {"head", "write"} => HasKey(t)
  /\ \A c : HeadRow(c) \in r.holds => c = r.chain

Ladders == \A t \in Tx : Ladder(t)

LEMMA LadderEnded ==
  ASSUME NEW t \in Tx, tx'[t].holds = {}, tx'[t].at \notin {"create", "claim", "head", "write"}
  PROVE  Ladder(t)'
BY DEF Ladder, Early

(* A key that is there stays, destroyed or not. *)
LEMMA KeyStays ==
  ASSUME Typed, [Next]_vars, NEW p \in Person, key[p] # NoKey
  PROVE  key'[p] # NoKey
<1>0. key \in [Person -> [by : Tx \cup {None}, destroyed : BOOLEAN]] /\ None \notin Tx
  BY NamesAssumption DEF Typed, TypeOK
<1>1. ASSUME NEW t \in Tx, Commit(t) PROVE key'[p] # NoKey
  <2>1. CASE tx[t].flow = "destroy"
    <3>1. key' = [key EXCEPT ![tx[t].who] = [key[tx[t].who] EXCEPT !.destroyed = TRUE]]
      BY <1>1, <2>1 DEF Commit
    <3>2. key'[p] = key[p] \/ key'[p] = [key[p] EXCEPT !.destroyed = TRUE]
      BY <1>0, <3>1
    <3>3. [key[p] EXCEPT !.destroyed = TRUE].destroyed = TRUE
      BY <1>0
    <3>4. NoKey.destroyed = FALSE
      BY DEF NoKey
    <3> QED
      BY <3>2, <3>3, <3>4
  <2>2. CASE tx[t].flow # "destroy"
    <3>1. key'[p] = key[p] \/ key'[p] = [by |-> t, destroyed |-> FALSE]
      BY <1>1, <2>2 DEF Commit
    <3>2. [by |-> t, destroyed |-> FALSE].by = t /\ NoKey.by = None
      BY DEF NoKey
    <3> QED
      BY <1>0, <3>1, <3>2
  <2> QED
    BY <2>1, <2>2
<1>2. CASE UNCHANGED key
  BY <1>2
<1>3. ASSUME NEW t \in Tx, Moves(t), ~Commit(t) PROVE UNCHANGED key
  BY <1>3, ArriveIs, MiddleIs, ReopenIs, ReadHeadIs, WriteIs, AbortIs DEF Moves, Others
<1> QED
  BY <1>1, <1>2, <1>3, Steps, AsideIs DEF Aside, vars

LEMMA LadderAlone ==
  ASSUME Typed, Ladders, [Next]_vars, NEW u \in Tx, tx'[u] = tx[u]
  PROVE  Ladder(u)'
<1>1. Ladder(u) /\ Placed(u)
  BY DEF Ladders, Typed
<1>2. tx[u].at \in {"key", "head", "write"} => tx[u].who \in Person
  BY <1>1 DEF Placed, Recording
<1>3. tx[u].at \in {"key", "head", "write"} /\ HasKey(u) => HasKey(u)'
  BY <1>2, KeyStays DEF HasKey
<1>4. Early(u) => Early(u)'
  BY DEF Early
<1> QED
  BY <1>1, <1>3, <1>4 DEF Ladder

LEMMA HoldIs ==
  ASSUME Typed, NEW t \in Tx, NEW row, NEW at, Hold(t, row, at)
  PROVE  /\ tx'[t].at = at /\ tx'[t].holds = tx[t].holds \cup {row}
         /\ tx'[t].chain = tx[t].chain /\ tx'[t].who = tx[t].who
BY DEF Typed, TypeOK, Transaction, Hold, Update

LEMMA GotoIs ==
  ASSUME Typed, NEW t \in Tx, NEW at, Goto(t, at)
  PROVE  /\ tx'[t].at = at /\ tx'[t].holds = tx[t].holds
         /\ tx'[t].chain = tx[t].chain /\ tx'[t].who = tx[t].who
BY DEF Typed, TypeOK, Transaction, Goto, Update

LEMMA SealedIs ==
  ASSUME Typed, NEW t \in Tx, NEW made, Sealed(t, made)
  PROVE  /\ tx'[t].at = "head" /\ tx'[t].holds = tx[t].holds
         /\ tx'[t].chain = tx[t].chain /\ tx'[t].who = tx[t].who
BY DEF Typed, TypeOK, Transaction, Sealed, Update

LEMMA LadderOver ==
  ASSUME Typed, NEW t \in Tx, NEW how \in {"reopen", "exists", "closed", "erased"}, Over(t, how)
  PROVE  Ladder(t)'
BY OverIs, LadderEnded DEF Ended, Open

LEMMA LadderMiddle ==
  ASSUME Typed, Ladders, [Next]_vars, NEW t \in Tx, Middle(t)
  PROVE  Ladder(t)'
<1>0. Ladder(t) /\ UNCHANGED key
  BY MiddleIs DEF Ladders, Others
<1>1. CASE InsertAccount(t)
  <2>1. CASE Over(t, IF tx[t].flow = "setup" THEN "reopen" ELSE "exists")
    BY <2>1, LadderOver
  <2>2. CASE Hold(t, AccountRow(t), IF tx[t].flow = "setup" THEN "claim" ELSE "key")
    <3>1. /\ tx'[t].holds = {AccountRow(t)} /\ tx'[t].at \in {"claim", "key"}
      BY <1>0, <1>1, <2>2, HoldIs DEF InsertAccount, Ladder
    <3>2. AccountRow(t) # OwnerRow /\ \A x : AccountRow(t) # KeyRow(x) /\ AccountRow(t) # HeadRow(x)
      <4>1. Len(AccountRow(t)) = 3 /\ \A x : Len(HeadRow(x)) = 2
        BY DEF AccountRow, HeadRow
      <4> QED
        BY <4>1, RowsApart
    <3>3. Early(t)' /\ OwnerRow \notin tx'[t].holds
      BY <3>1, <3>2 DEF Early, KeyRow, HeadRow, OwnerRow
    <3>4. \A c : HeadRow(c) \notin tx'[t].holds
      BY <3>1, <3>2
    <3> QED
      BY <3>1, <3>3, <3>4 DEF Ladder
  <2> QED
    BY <1>1, <2>1, <2>2 DEF InsertAccount
<1>2. CASE Claim(t)
  <2>1. CASE Over(t, "closed")
    BY <2>1, LadderOver
  <2>2. CASE Hold(t, OwnerRow, "key")
    <3>1. Early(t) /\ tx'[t].holds = tx[t].holds \cup {OwnerRow} /\ tx'[t].at = "key"
      BY <1>0, <1>2, <2>2, HoldIs DEF Claim, Ladder
    <3>2. \A x : KeyRow(x) \notin tx'[t].holds /\ HeadRow(x) \notin tx'[t].holds
      BY <3>1, RowsApart DEF Early
    <3>3. Early(t)'
      BY <3>2 DEF Early, KeyRow, HeadRow
    <3> QED
      BY <3>1, <3>2, <3>3 DEF Ladder
  <2> QED
    BY <1>2, <2>1, <2>2 DEF Claim
<1>3. CASE OpenKey(t)
  <2>0. tx[t].at = "key"
    BY <1>3 DEF OpenKey
  <2>1. CASE Over(t, "erased")
    BY <2>1, LadderOver
  <2>2. ASSUME NEW made, Sealed(t, made), HasKey(t) PROVE Ladder(t)'
    <3>1. HasKey(t)'
      BY <1>0, <2>2, SealedIs DEF HasKey
    <3> QED
      BY <1>0, <2>2, <3>1, SealedIs DEF Ladder
  <2>3. CASE Goto(t, "create") /\ ~HasKey(t)
    <3>1. Early(t)
      BY <1>0, <2>0, <2>3 DEF Ladder
    <3>2. Early(t)'
      BY <2>3, <3>1, GotoIs DEF Early
    <3> QED
      BY <1>0, <2>3, <3>2, GotoIs DEF Ladder
  <2> QED
    BY <1>3, <2>1, <2>2, <2>3 DEF OpenKey, HasKey, keyFor
<1>4. CASE CreateKey(t)
  <2>0. Early(t)
    BY <1>0, <1>4 DEF CreateKey, Ladder
  <2>1. CASE key[tx[t].who] # NoKey /\ Goto(t, "key")
    <3>1. HasKey(t)'
      BY <1>0, <2>1, GotoIs DEF HasKey
    <3> QED
      BY <1>0, <2>1, <3>1, GotoIs DEF Ladder
  <2>2. CASE Created(t)
    <3>1. tx[t] \in Transaction /\ tx \in [Tx -> Transaction]
      BY DEF Typed, TypeOK
    <3>2. /\ tx'[t].at = "head" /\ tx'[t].holds = tx[t].holds \cup {KeyRow(tx[t].who)}
          /\ tx'[t].who = tx[t].who
      BY <2>2, <3>1 DEF Created, keyFor, Update, Transaction
    <3>3. HasKey(t)'
      BY <3>2 DEF HasKey, KeyRow
    <3>4. \A c : HeadRow(c) \notin tx'[t].holds
      BY <2>0, <3>2, RowsApart DEF Early
    <3> QED
      BY <3>2, <3>3, <3>4 DEF Ladder
  <2> QED
    BY <1>4, <2>1, <2>2 DEF CreateKey, keyFor
<1>5. CASE DestroyKey(t)
  <2>1. tx'[t].holds = {KeyRow(tx[t].who)} /\ tx'[t].at = "commit"
    BY <1>0, <1>5, HoldIs DEF DestroyKey, Ladder
  <2>2. \A c : HeadRow(c) \notin tx'[t].holds
    BY <2>1, RowsApart
  <2> QED
    BY <2>1, <2>2 DEF Ladder
<1> QED
  BY <1>1, <1>2, <1>3, <1>4, <1>5 DEF Middle

LEMMA LadderNext ==
  ASSUME Typed, Ladders, [Next]_vars
  PROVE  Ladders'
<1>1. ASSUME NEW t \in Tx, Moves(t) PROVE Ladders'
  <2>0. Ladder(t) /\ Placed(t)
    BY DEF Ladders, Typed
  <2>1. Alone(t)
    <3>1. CASE Write(t)
      BY <3>1, WriteIs DEF Alone
    <3>2. CASE ~Write(t)
      BY <1>1, <3>2, ArriveIs, MiddleIs, ReopenIs, ReadHeadIs, CommitIs, AbortIs DEF Moves
    <3> QED
      BY <3>1, <3>2
  <2>2. ASSUME Arrive(t) PROVE Ladder(t)'
    BY <2>2, ArriveIs, LadderEnded
  <2>3. ASSUME Middle(t) PROVE Ladder(t)'
    BY <2>3, LadderMiddle
  <2>4. ASSUME ReadHead(t) PROVE Ladder(t)'
    <3>1. /\ tx[t].at = "head" /\ tx'[t].at = "write" /\ UNCHANGED key
          /\ tx'[t].chain = tx[t].chain /\ tx'[t].who = tx[t].who
          /\ tx'[t].holds = tx[t].holds \cup {HeadRow(tx[t].chain)}
      BY <2>4, ReadHeadIs DEF Took, Others
    <3>2. HasKey(t)'
      BY <2>0, <3>1 DEF Ladder, HasKey
    <3>3. \A c : HeadRow(c) \in tx'[t].holds => c = tx'[t].chain
      BY <2>0, <3>1 DEF Ladder, HeadRow
    <3> QED
      BY <3>1, <3>2, <3>3 DEF Ladder
  <2>5. ASSUME Write(t) PROVE Ladder(t)'
    <3>1. /\ tx[t].at = "write" /\ tx'[t].at \in {"commit", "key"} /\ UNCHANGED key
          /\ tx'[t].chain = tx[t].chain /\ tx'[t].who = tx[t].who /\ tx'[t].holds = tx[t].holds
      BY <2>5, WriteIs DEF Others
    <3>2. HasKey(t)'
      BY <2>0, <3>1 DEF Ladder, HasKey
    <3> QED
      BY <2>0, <3>1, <3>2 DEF Ladder
  <2>6. ASSUME Reopen(t) \/ Commit(t) \/ Abort(t) PROVE Ladder(t)'
    BY <2>6, ReopenIs, CommitIs, AbortIs, LadderEnded DEF Ended, Open
  <2>7. Ladder(t)'
    BY <1>1, <2>2, <2>3, <2>4, <2>5, <2>6 DEF Moves, Ladders
  <2>8. ASSUME NEW u \in Tx \ {t} PROVE Ladder(u)'
    BY <2>1, LadderAlone DEF Alone
  <2> QED
    BY <2>7, <2>8 DEF Ladders
<1>2. CASE UNCHANGED tx
  BY <1>2, LadderAlone DEF Ladders
<1> QED
  BY <1>1, <1>2, Steps, AsideIs DEF Aside, vars

(* Accounts, the owner, keys and heads are taken in that order, so no set   *)
(* of transactions waits for itself, however many append to however many   *)
(* chains and whoever is destroyed meanwhile.                              *)
THEOREM NeverDeadlocked == Spec => []NoDeadlock
<1> DEFINE I == Typed /\ Locks /\ Ladders
<1>1. Init => I
  <2> SUFFICES ASSUME Init PROVE Ladders
    BY TypedInit, ChainedInit
  <2> QED
    BY DEF Init, Ladders, Ladder, Early, Unused, Clean
<1>2. I /\ [Next]_vars => I'
  BY TypedNext, LocksNext, LadderNext
<1>3. I => NoDeadlock
  <2> SUFFICES ASSUME Locks, Ladders, NEW D \in SUBSET Tx,
                      \A t \in D : Blockers(t) \cap D # {}
               PROVE  D = {}
    BY DEF NoDeadlock
  <2>1. \A t \in D : \E u \in D : u # t /\ Waits(t) \cap tx[u].holds # {}
    BY DEF Blockers
  <2>2. \A t \in D : Ladder(t)
    BY DEF Ladders
  <2>3. \A t \in D : tx[t].at \in {"insert", "claim", "create", "head", "destroy"}
    BY <2>1 DEF Waits
  <2>4. ASSUME NEW t \in D, tx[t].at = "head" PROVE FALSE
    <3>1. PICK u \in D : u # t /\ HeadRow(tx[t].chain) \in tx[u].holds
      BY <2>1, <2>4 DEF Waits
    <3>2. tx[u].at = "head" /\ tx[u].chain = tx[t].chain
      BY <2>2, <2>3, <3>1 DEF Ladder, Early
    <3>3. PICK v \in D : v # u /\ HeadRow(tx[u].chain) \in tx[v].holds
      BY <2>1, <3>2 DEF Waits
    <3> QED
      BY <3>1, <3>2, <3>3 DEF Locks
  <2>5. ASSUME NEW t \in D, tx[t].at \in {"create", "destroy"} PROVE FALSE
    <3>1. Waits(t) \subseteq {KeyRow(tx[t].who)}
      BY <2>5 DEF Waits, keyFor
    <3>2. PICK u \in D : KeyRow(tx[t].who) \in tx[u].holds
      BY <2>1, <3>1
    <3> QED
      BY <2>2, <2>3, <2>4, <3>2 DEF Ladder, Early
  <2>6. ASSUME NEW t \in D, tx[t].at = "claim" PROVE FALSE
    <3>1. PICK u \in D : OwnerRow \in tx[u].holds
      BY <2>1, <2>6 DEF Waits
    <3> QED
      BY <2>2, <2>3, <2>4, <2>5, <3>1 DEF Ladder
  <2>7. ASSUME NEW t \in D, tx[t].at = "insert" PROVE FALSE
    <3>1. PICK u \in D : tx[u].holds # {}
      BY <2>1
    <3> QED
      BY <2>2, <2>3, <2>4, <2>5, <2>6, <3>1 DEF Ladder
  <2> QED
    BY <2>3, <2>4, <2>5, <2>6, <2>7
<1> QED
  BY <1>1, <1>2, <1>3, PTL DEF Spec
====
