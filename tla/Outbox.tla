------------------------------- MODULE Outbox -------------------------------
(***************************************************************************)
(* Work carried out of a request: internal/platform/outbox, the functions  *)
(* of migrations 00006 and 00010 that its dispatcher calls, the queue of   *)
(* internal/platform/tasks and the callback of httpx/internaltasks.        *)
(*                                                                         *)
(* A dispatcher is one run of Dispatch. Its reads and its marks are each a *)
(* statement on the pool, outside any transaction, so the row locks of     *)
(* outbox_pending are gone before the first event is handed over.          *)
(* A callback is one HTTP request of the queue, and each consumer's turn   *)
(* in it one transaction. The queue itself is Cloud Tasks, modelled as the *)
(* code uses it: it refuses a name it has seen, calls back at least once,  *)
(* calls again on an error or on no answer, and gives up in the end.       *)
(***************************************************************************)
EXTENDS Integers, FiniteSets

CONSTANTS
  Event,            \* every event the behaviour may see
  Mail,             \* those of kind email.send, which carry Variables
  Dispatcher,       \* runs of Dispatch that may be going on at once
  Callback,         \* callbacks that may be in flight at once
  Consumers,        \* how many consumers an event has
  AttemptsAllowed,  \* attemptsAllowed
  Tries,            \* max_attempts of the queue (infra/terraform/tasks.tf)
  None

ASSUME MailAssumption == Mail \subseteq Event
ASSUME NoneAssumption == None \notin Event \cup Callback
ASSUME NumbersAssumption ==
  Consumers \in Nat \ {0} /\ AttemptsAllowed \in Nat \ {0} /\ Tries \in Nat \ {0}

VARIABLES
  event,       \* the outbox_event rows
  delivery,    \* outbox_delivery: which consumers have handled each event
  claim,       \* the callback whose open transaction holds each claim
  task,        \* the queue
  dispatcher,  \* each run of Dispatch
  callback     \* each callback in flight

vars == <<event, delivery, claim, task, dispatcher, callback>>

Consumer == 1 .. Consumers

(* An event in a dispatcher's memory is the event and whether the payload  *)
(* it read still had its Variables.                                        *)
Copy == [of : Event, whole : BOOLEAN]

NoEvent    == [state |-> "absent", attempts |-> 0, whole |-> TRUE]
NoTask     == [state |-> "none", whole |-> TRUE, tries |-> 0]
Resting    == [at |-> "idle", batch |-> {}, on |-> None]
NoCallback == [at |-> "idle", on |-> None, turn |-> 1]

Init ==
  /\ event = [e \in Event |-> NoEvent]
  /\ delivery = [e \in Event |-> {}]
  /\ claim = [e \in Event |-> [c \in Consumer |-> None]]
  /\ task = [e \in Event |-> NoTask]
  /\ dispatcher = [d \in Dispatcher |-> Resting]
  /\ callback = [h \in Callback |-> NoCallback]

(* Write: the event is in the table once the transaction that caused it    *)
(* commits, and never otherwise.                                           *)
Write(e) ==
  /\ event[e].state = "absent"
  /\ event' = [event EXCEPT ![e].state = "pending"]
  /\ UNCHANGED <<delivery, claim, task, dispatcher, callback>>

-----------------------------------------------------------------------------
(* Dispatch. *)

Pending == {e \in Event : event[e].state = "pending"}

(* outbox_pending: everything waiting, which no statement has locked. The  *)
(* batch of a hundred is taken to be larger than what waits.               *)
Read(d) ==
  /\ dispatcher[d].at = "idle"
  /\ Pending # {}
  /\ dispatcher' = [dispatcher EXCEPT ![d] =
       [at |-> "enqueue", on |-> None,
        batch |-> {[of |-> e, whole |-> event[e].whole] : e \in Pending}]]
  /\ UNCHANGED <<event, delivery, claim, task, callback>>

(* The dispatcher goes on to the next event, or ends. *)
Onward(run) == IF run.batch = {} THEN Resting ELSE [run EXCEPT !.at = "enqueue", !.on = None]

(* A slip: the task has no name, so the queue takes the event again. *)
Queue_Unnamed(copy) ==
  task' = [task EXCEPT ![copy.of] = [state |-> "queued", whole |-> copy.whole, tries |-> 0]]

(* CreateTask: a task named after the event, unless the queue has seen it. *)
Queue(copy) ==
  task' = IF task[copy.of].state = "none"
            THEN [task EXCEPT ![copy.of] = [state |-> "queued", whole |-> copy.whole, tries |-> 0]]
            ELSE task

Taken(d, copy, step) ==
  dispatcher' = [dispatcher EXCEPT ![d] =
    [at |-> step, on |-> copy.of, batch |-> @.batch \ {copy}]]

(* AlreadyExists is success too. *)
Enqueued(d, copy) ==
  /\ dispatcher[d].at = "enqueue"
  /\ copy \in dispatcher[d].batch
  /\ Queue(copy)
  /\ Taken(d, copy, "mark")
  /\ UNCHANGED <<event, delivery, claim, callback>>

(* A slip: an error taken for success. *)
NotEnqueued_Ignored(d, copy, reached) ==
  /\ dispatcher[d].at = "enqueue"
  /\ copy \in dispatcher[d].batch
  /\ IF reached THEN Queue(copy) ELSE UNCHANGED task
  /\ Taken(d, copy, "mark")
  /\ UNCHANGED <<event, delivery, claim, callback>>

(* The call failed; when only its answer was lost, the queue has the task. *)
NotEnqueued(d, copy, reached) ==
  /\ dispatcher[d].at = "enqueue"
  /\ copy \in dispatcher[d].batch
  /\ IF reached THEN Queue(copy) ELSE UNCHANGED task
  /\ Taken(d, copy, "failed")
  /\ UNCHANGED <<event, delivery, claim, callback>>

(* outbox_dispatched, whatever state the event is in by now. *)
Dispatched(d) ==
  LET e == dispatcher[d].on IN
  /\ dispatcher[d].at = "mark"
  /\ event' = [event EXCEPT ![e] =
       [state |-> "dispatched", attempts |-> @.attempts + 1, whole |-> @.whole /\ e \notin Mail]]
  /\ dispatcher' = [dispatcher EXCEPT ![d] = Onward(@)]
  /\ UNCHANGED <<delivery, claim, task, callback>>

(* A slip: an attempt that failed is not counted. *)
Failed_NotCounted(d) ==
  /\ dispatcher[d].at = "failed"
  /\ dispatcher' = [dispatcher EXCEPT ![d] = Onward(@)]
  /\ UNCHANGED <<event, delivery, claim, task, callback>>

(* failed, and outbox_failed, whatever state the event is in by now. *)
Failed(d) ==
  LET e == dispatcher[d].on
      park == event[e].attempts + 1 >= AttemptsAllowed
  IN
  /\ dispatcher[d].at = "failed"
  /\ event' = [event EXCEPT ![e] =
       [state |-> IF park THEN "parked" ELSE "pending", attempts |-> @.attempts + 1,
        whole |-> @.whole /\ ~(park /\ e \in Mail)]]
  /\ dispatcher' = [dispatcher EXCEPT ![d] = Onward(@)]
  /\ UNCHANGED <<delivery, claim, task, callback>>

(* Neither mark reached the database: it is logged, and the next is taken. *)
Unmarked(d) ==
  /\ dispatcher[d].at \in {"mark", "failed"}
  /\ dispatcher' = [dispatcher EXCEPT ![d] = Onward(@)]
  /\ UNCHANGED <<event, delivery, claim, task, callback>>

(* The process ends, or the request the job runs in. *)
Stop(d) ==
  /\ dispatcher[d].at # "idle"
  /\ dispatcher' = [dispatcher EXCEPT ![d] = Resting]
  /\ UNCHANGED <<event, delivery, claim, task, callback>>

-----------------------------------------------------------------------------
(* Deliver. *)

(* The queue calls back: for the first time, after an error, or because no *)
(* answer came, whatever the callbacks before are still doing.             *)
Call(h, e) ==
  /\ callback[h].at = "idle"
  /\ task[e].state = "queued"
  /\ task[e].tries < Tries
  /\ task' = [task EXCEPT ![e].tries = @ + 1]
  /\ callback' = [callback EXCEPT ![h] = [at |-> "claim", on |-> e, turn |-> 1]]
  /\ UNCHANGED <<event, delivery, claim, dispatcher>>

(* The next consumer's turn, or the answer: 204. *)
Turn(h) ==
  callback' = IF callback[h].turn = Consumers
                THEN [callback EXCEPT ![h].at = "answer"]
                ELSE [callback EXCEPT ![h].at = "claim", ![h].turn = @ + 1]

(* A slip: the claim looked up, and not held. *)
Claim_NotHeld(h) ==
  LET e == callback[h].on
      c == callback[h].turn
  IN
  /\ callback[h].at = "claim"
  /\ c \notin delivery[e]
  /\ callback' = [callback EXCEPT ![h].at = "handle"]
  /\ UNCHANGED <<event, delivery, claim, task, dispatcher>>

(* claim: the INSERT waits for a transaction that inserted the same row. *)
Claim(h) ==
  LET e == callback[h].on
      c == callback[h].turn
  IN
  /\ callback[h].at = "claim"
  /\ claim[e][c] = None
  /\ c \notin delivery[e]
  /\ claim' = [claim EXCEPT ![e][c] = h]
  /\ callback' = [callback EXCEPT ![h].at = "handle"]
  /\ UNCHANGED <<event, delivery, task, dispatcher>>

(* ON CONFLICT DO NOTHING: delivered again, and skipped. *)
Skip(h) ==
  LET e == callback[h].on IN
  /\ callback[h].at = "claim"
  /\ callback[h].turn \in delivery[e]
  /\ Turn(h)
  /\ UNCHANGED <<event, delivery, claim, task, dispatcher>>

(* What the consumer does outside the database, for mail the provider's    *)
(* call: a moment of its own between the claim and the commit.             *)
Act(h) ==
  /\ callback[h].at = "handle"
  /\ callback' = [callback EXCEPT ![h].at = "commit"]
  /\ UNCHANGED <<event, delivery, claim, task, dispatcher>>

Handled(h) ==
  LET e == callback[h].on
      c == callback[h].turn
  IN
  /\ callback[h].at = "commit"
  /\ delivery' = [delivery EXCEPT ![e] = @ \cup {c}]
  /\ claim' = [claim EXCEPT ![e][c] = None]
  /\ Turn(h)
  /\ UNCHANGED <<event, task, dispatcher>>

(* A slip: one consumer's error does not stop the answer. *)
NotHandled_Swallowed(h) ==
  LET e == callback[h].on
      c == callback[h].turn
  IN
  /\ callback[h].at \in {"handle", "commit"}
  /\ claim' = [claim EXCEPT ![e][c] = None]
  /\ Turn(h)
  /\ UNCHANGED <<event, delivery, task, dispatcher>>

(* The consumer's error, the commit's or the process's end: the claim goes *)
(* with the work, and the answer, if there is one, is 500.                 *)
NotHandled(h) ==
  LET e == callback[h].on
      c == callback[h].turn
  IN
  /\ callback[h].at \in {"claim", "handle", "commit"}
  /\ claim' = IF claim[e][c] = h THEN [claim EXCEPT ![e][c] = None] ELSE claim
  /\ callback' = [callback EXCEPT ![h] = NoCallback]
  /\ UNCHANGED <<event, delivery, task, dispatcher>>

(* 204: the queue drops the task, unless the answer is lost. *)
Answer(h, lost) ==
  LET e == callback[h].on IN
  /\ callback[h].at = "answer"
  /\ task' = IF lost THEN task ELSE [task EXCEPT ![e].state = "done"]
  /\ callback' = [callback EXCEPT ![h] = NoCallback]
  /\ UNCHANGED <<event, delivery, claim, dispatcher>>

(* The queue has tried as often as it was told to. *)
GiveUp(e) ==
  /\ task[e].state = "queued"
  /\ task[e].tries = Tries
  /\ \A h \in Callback : callback[h].on # e
  /\ task' = [task EXCEPT ![e].state = "dropped"]
  /\ UNCHANGED <<event, delivery, claim, dispatcher, callback>>

-----------------------------------------------------------------------------
HandOver(d) ==
  \/ \E copy \in dispatcher[d].batch :
       Enqueued(d, copy) \/ \E reached \in BOOLEAN : NotEnqueued(d, copy, reached)

Dispatching(d) ==
  \/ Read(d) \/ HandOver(d) \/ Dispatched(d) \/ Failed(d) \/ Unmarked(d) \/ Stop(d)

Delivering(h) ==
  \/ Claim(h) \/ Skip(h) \/ Act(h) \/ Handled(h) \/ NotHandled(h)
  \/ \E lost \in BOOLEAN : Answer(h, lost)

Next ==
  \/ \E e \in Event : Write(e) \/ GiveUp(e)
  \/ \E d \in Dispatcher : Dispatching(d)
  \/ \E h \in Callback : Delivering(h) \/ \E e \in Event : Call(h, e)

(* Cloud Scheduler runs the dispatch job again and again, and the queue    *)
(* calls back what it holds. A stop or a lost mark does not meet the same  *)
(* step for ever: that is the strong part.                                 *)
Fairness ==
  /\ \A d \in Dispatcher : /\ WF_vars(Read(d))
                           /\ SF_vars(HandOver(d))
                           /\ SF_vars(Dispatched(d) \/ Failed(d))
  /\ \A h \in Callback : WF_vars(Delivering(h))
  /\ \A e \in Event : WF_vars(GiveUp(e)) /\ WF_vars(\E h \in Callback : Call(h, e))

Spec == Init /\ [][Next]_vars /\ Fairness

-----------------------------------------------------------------------------
(* Properties. *)

TypeOK ==
  /\ event \in [Event -> [state : {"absent", "pending", "dispatched", "parked"},
                          attempts : Nat, whole : BOOLEAN]]
  /\ delivery \in [Event -> SUBSET Consumer]
  /\ claim \in [Event -> [Consumer -> Callback \cup {None}]]
  /\ task \in [Event -> [state : {"none", "queued", "done", "dropped"},
                         whole : BOOLEAN, tries : 0 .. Tries]]
  /\ dispatcher \in [Dispatcher -> [at : {"idle", "enqueue", "mark", "failed"},
                                    batch : SUBSET Copy, on : Event \cup {None}]]
  /\ callback \in [Callback -> [at : {"idle", "claim", "handle", "commit", "answer"},
                                on : Event \cup {None}, turn : Consumer]]

(* An event leaves the table's pending rows for the queue only when the     *)
(* queue has it, however many runs of Dispatch mark it and whichever of     *)
(* them stop half-way: the order of Enqueue and outbox_dispatched.          *)
NothingLost == \A e \in Event : event[e].state = "dispatched" => task[e].state # "none"

(* What the queue carries always has its Variables, though outbox_dispatched *)
(* and outbox_failed strip the row and a second run may read it again        *)
(* stripped: it is the name of the task that keeps the stripped copy out.    *)
BodiesWhole == \A e \in Event : task[e].state # "none" => task[e].whole

Inside(h) == callback[h].at \in {"handle", "commit"}

(* A consumer handles an event once: no two callbacks are ever inside the   *)
(* same consumer's work on it, and none is once that work is committed.     *)
HandledOnce ==
  /\ \A h \in Callback : Inside(h) => callback[h].turn \notin delivery[callback[h].on]
  /\ \A g, h \in Callback :
       Inside(g) /\ Inside(h) /\ callback[g].on = callback[h].on
                 /\ callback[g].turn = callback[h].turn => g = h

(* A task the queue was told is done has been handled by every consumer:    *)
(* the 204 of internaltasks.go comes after every one of Deliver's commits.  *)
DoneMeansHandled == \A e \in Event : task[e].state = "done" => delivery[e] = Consumer

(* A committed event ends handled by every consumer, or where somebody      *)
(* looks: parked in the table, or given up on by the queue.                 *)
Settled(e) == \/ delivery[e] = Consumer
              \/ event[e].state = "parked"
              \/ task[e].state = "dropped"

EverythingSettles == \A e \in Event : event[e].state = "pending" ~> Settled(e)
=============================================================================
