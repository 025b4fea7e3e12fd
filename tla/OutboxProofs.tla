---------------------------- MODULE OutboxProofs ----------------------------
(* What Outbox promises, for any events, consumers, runs of Dispatch and   *)
(* callbacks, and any number of attempts and tries.                        *)
EXTENDS Outbox, TLAPS

-----------------------------------------------------------------------------
(* Types. A callback or a dispatcher that is at work is at work on an event. *)

Busy ==
  /\ \A h \in Callback : callback[h].at # "idle" => callback[h].on \in Event
  /\ \A d \in Dispatcher :
       dispatcher[d].at \in {"mark", "failed"} => dispatcher[d].on \in Event

Typed == TypeOK /\ Busy

EventRow == [state : {"absent", "pending", "dispatched", "parked"}, attempts : Nat, whole : BOOLEAN]
TaskRow  == [state : {"none", "queued", "done", "dropped"}, whole : BOOLEAN, tries : 0 .. Tries]
Run      == [at : {"idle", "enqueue", "mark", "failed"}, batch : SUBSET Copy, on : Event \cup {None}]
Request  == [at : {"idle", "claim", "handle", "commit", "answer"},
             on : Event \cup {None}, turn : Consumer]

LEMMA Types ==
  TypeOK <=> /\ event \in [Event -> EventRow]
             /\ delivery \in [Event -> SUBSET Consumer]
             /\ claim \in [Event -> [Consumer -> Callback \cup {None}]]
             /\ task \in [Event -> TaskRow]
             /\ dispatcher \in [Dispatcher -> Run]
             /\ callback \in [Callback -> Request]
BY DEF TypeOK, EventRow, TaskRow, Run, Request

LEMMA TypedInit == Init => Typed
BY NumbersAssumption
   DEF Init, Typed, TypeOK, Busy, NoEvent, NoTask, Resting, NoCallback, Consumer, Copy

LEMMA QueueTyped ==
  ASSUME TypeOK, NEW copy \in Copy, Queue(copy)
  PROVE  task' \in [Event -> [state : {"none", "queued", "done", "dropped"},
                              whole : BOOLEAN, tries : 0 .. Tries]]
BY NumbersAssumption DEF TypeOK, Queue, Copy

LEMMA TurnTyped ==
  ASSUME Typed, NEW h \in Callback, callback[h].at # "idle", Turn(h)
  PROVE  /\ callback' \in [Callback -> Request]
         /\ \A g \in Callback : callback'[g].at # "idle" => callback'[g].on \in Event
<1>1. callback \in [Callback -> Request] /\ callback[h] \in Request /\ callback[h].on \in Event
  BY Types DEF Typed, Busy
<1>2. callback[h].turn \in Consumer /\ (callback[h].turn # Consumers => callback[h].turn + 1 \in Consumer)
  BY <1>1, NumbersAssumption DEF Consumer, Request
<1>3. PICK c \in Request : c.on = callback[h].on /\ callback' = [callback EXCEPT ![h] = c]
  <2>1. CASE callback[h].turn = Consumers
    <3>1. callback' = [callback EXCEPT ![h] = [callback[h] EXCEPT !.at = "answer"]]
      BY <2>1, <1>1 DEF Turn
    <3>2. [callback[h] EXCEPT !.at = "answer"] \in Request
      BY <1>1 DEF Request
    <3> QED
      BY <3>1, <3>2, <1>1 DEF Request
  <2>2. CASE callback[h].turn # Consumers
    <3>1. callback' = [callback EXCEPT ![h] =
            [callback[h] EXCEPT !.at = "claim", !.turn = callback[h].turn + 1]]
      BY <2>2 DEF Turn
    <3>2. [callback[h] EXCEPT !.at = "claim", !.turn = callback[h].turn + 1] \in Request
      BY <1>1, <1>2, <2>2 DEF Request
    <3> QED
      BY <3>1, <3>2, <1>1 DEF Request
  <2> QED
    BY <2>1, <2>2
<1> QED
  BY <1>1, <1>3 DEF Typed, Busy

LEMMA OnwardTyped ==
  ASSUME Typed, NEW d \in Dispatcher, dispatcher' = [dispatcher EXCEPT ![d] = Onward(dispatcher[d])],
         UNCHANGED callback
  PROVE  dispatcher' \in [Dispatcher -> Run] /\ Busy'
<1>1. dispatcher \in [Dispatcher -> Run]
  BY Types DEF Typed
<1>2. Onward(dispatcher[d]) \in Run /\ Onward(dispatcher[d]).at \notin {"mark", "failed"}
  <2>1. CASE dispatcher[d].batch = {}
    BY <2>1 DEF Onward, Resting, Run
  <2>2. CASE dispatcher[d].batch # {}
    <3>1. Onward(dispatcher[d]) = [dispatcher[d] EXCEPT !.at = "enqueue", !.on = None]
      BY <2>2 DEF Onward
    <3>2. dispatcher[d] \in Run
      BY <1>1
    <3>3. [dispatcher[d] EXCEPT !.at = "enqueue", !.on = None] \in Run
      BY <3>2 DEF Run
    <3>4. [dispatcher[d] EXCEPT !.at = "enqueue", !.on = None].at = "enqueue"
      BY <3>2 DEF Run
    <3> QED
      BY <3>1, <3>3, <3>4
  <2> QED
    BY <2>1, <2>2
<1> QED
  BY <1>1, <1>2 DEF Typed, Busy

LEMMA TypedDispatch ==
  ASSUME Typed, NEW d \in Dispatcher, Dispatching(d) PROVE Typed'
<1> USE DEF Typed, TypeOK, Busy
<1>1. CASE Read(d)
  <2>1. {[of |-> e, whole |-> event[e].whole] : e \in Pending} \in SUBSET Copy
    BY DEF Pending, Copy
  <2> QED
    BY <1>1, <2>1 DEF Read
<1>2. ASSUME NEW copy \in dispatcher[d].batch, Enqueued(d, copy) PROVE Typed'
  <2>1. copy \in Copy /\ copy.of \in Event
    BY DEF Copy
  <2>2. Queue(copy)
    BY <1>2 DEF Enqueued
  <2> QED
    BY <1>2, <2>1, <2>2, QueueTyped DEF Enqueued, Taken
<1>3. ASSUME NEW copy \in dispatcher[d].batch, NEW reached \in BOOLEAN,
             NotEnqueued(d, copy, reached) PROVE Typed'
  <2>1. copy \in Copy /\ copy.of \in Event
    BY DEF Copy
  <2>2. task' \in [Event -> [state : {"none", "queued", "done", "dropped"},
                             whole : BOOLEAN, tries : 0 .. Tries]]
    BY <1>3, <2>1, QueueTyped DEF NotEnqueued
  <2> QED
    BY <1>3, <2>1, <2>2 DEF NotEnqueued, Taken
<1>4. CASE Dispatched(d)
  <2> DEFINE e == dispatcher[d].on
             row == [state |-> "dispatched", attempts |-> event[e].attempts + 1,
                     whole |-> event[e].whole /\ e \notin Mail]
  <2>1. e \in Event
    BY <1>4 DEF Dispatched
  <2>2. row \in EventRow
    BY <2>1, Types DEF EventRow
  <2>3. event' \in [Event -> EventRow]
    BY <1>4, <2>1, <2>2, Types DEF Dispatched
  <2>4. dispatcher' \in [Dispatcher -> Run] /\ Busy'
    BY <1>4, OnwardTyped DEF Dispatched
  <2> QED
    BY <1>4, <2>3, <2>4 DEF Dispatched, EventRow, Run
<1>5. CASE Failed(d)
  <2> DEFINE e == dispatcher[d].on
             park == event[e].attempts + 1 >= AttemptsAllowed
             row == [state |-> IF park THEN "parked" ELSE "pending",
                     attempts |-> event[e].attempts + 1,
                     whole |-> event[e].whole /\ ~(park /\ e \in Mail)]
  <2>1. e \in Event
    BY <1>5 DEF Failed
  <2>2. row \in EventRow
    BY <2>1, Types DEF EventRow
  <2>3. event' \in [Event -> EventRow]
    BY <1>5, <2>1, <2>2, Types DEF Failed
  <2>4. dispatcher' \in [Dispatcher -> Run] /\ Busy'
    BY <1>5, OnwardTyped DEF Failed
  <2> QED
    BY <1>5, <2>3, <2>4 DEF Failed, EventRow, Run
<1>6. CASE Unmarked(d)
  <2>1. dispatcher' \in [Dispatcher -> Run] /\ Busy'
    BY <1>6, OnwardTyped DEF Unmarked
  <2> QED
    BY <1>6, <2>1 DEF Unmarked, Run
<1>7. CASE Stop(d)
  BY <1>7 DEF Stop, Resting
<1> QED
  BY <1>1, <1>2, <1>3, <1>4, <1>5, <1>6, <1>7 DEF Dispatching, HandOver

LEMMA TypedDeliver ==
  ASSUME Typed, NEW h \in Callback, Delivering(h) PROVE Typed'
<1> USE DEF Typed, TypeOK, Busy
<1>1. CASE Claim(h)
  BY <1>1 DEF Claim
<1>2. CASE Skip(h)
  BY <1>2, TurnTyped DEF Skip, Request
<1>3. CASE Act(h)
  <2>1. callback' = [callback EXCEPT ![h] = [callback[h] EXCEPT !.at = "commit"]]
    BY <1>3 DEF Act
  <2>2. [callback[h] EXCEPT !.at = "commit"] \in Request
    <3>1. callback[h] \in Request
      BY Types
    <3> HIDE DEF Typed, TypeOK, Busy
    <3> QED
      BY <3>1 DEF Request
  <2>3. callback' \in [Callback -> Request] /\ Busy'
    BY <1>3, <2>1, <2>2, Types DEF Act
  <2> QED
    BY <1>3, <2>3 DEF Act, Request
<1>4. CASE Handled(h)
  BY <1>4, TurnTyped DEF Handled, Request
<1>5. CASE NotHandled(h)
  BY <1>5, NumbersAssumption DEF NotHandled, NoCallback, Consumer
<1>6. ASSUME NEW lost \in BOOLEAN, Answer(h, lost) PROVE Typed'
  <2> DEFINE e == callback[h].on
  <2>1. e \in Event
    BY <1>6 DEF Answer
  <2>2. [task[e] EXCEPT !.state = "done"] \in TaskRow
    <3>1. task[e] \in TaskRow
      BY <2>1, Types
    <3> HIDE DEF Typed, TypeOK, Busy
    <3> QED
      BY <3>1 DEF TaskRow
  <2>3. task' = task \/ task' = [task EXCEPT ![e] = [task[e] EXCEPT !.state = "done"]]
    BY <1>6 DEF Answer
  <2>4. task' \in [Event -> TaskRow]
    BY <2>1, <2>2, <2>3, Types
  <2>5. NoCallback \in Request
    BY NumbersAssumption DEF NoCallback, Request, Consumer
  <2>6. callback' \in [Callback -> Request]
    BY <1>6, <2>5, Types DEF Answer
  <2>7. Busy'
    BY <1>6 DEF Answer, NoCallback
  <2> QED
    BY <1>6, <2>4, <2>6, <2>7 DEF Answer, TaskRow, Request
<1> QED
  BY <1>1, <1>2, <1>3, <1>4, <1>5, <1>6 DEF Delivering

LEMMA TypedNext == Typed /\ [Next]_vars => Typed'
<1> SUFFICES ASSUME Typed, [Next]_vars PROVE Typed'
  OBVIOUS
<1> USE DEF Typed, TypeOK, Busy
<1>1. ASSUME NEW e \in Event, Write(e) PROVE Typed'
  <2>1. event' = [event EXCEPT ![e] = [event[e] EXCEPT !.state = "pending"]]
    BY <1>1 DEF Write
  <2>2. [event[e] EXCEPT !.state = "pending"] \in EventRow
    <3>1. event[e] \in EventRow
      BY Types
    <3> HIDE DEF Typed, TypeOK, Busy
    <3> QED
      BY <3>1 DEF EventRow
  <2>3. event' \in [Event -> EventRow]
    BY <2>1, <2>2, Types
  <2> QED
    BY <1>1, <2>3 DEF Write, EventRow
<1>2. ASSUME NEW e \in Event, GiveUp(e) PROVE Typed'
  <2>1. task' = [task EXCEPT ![e] = [task[e] EXCEPT !.state = "dropped"]]
    BY <1>2 DEF GiveUp
  <2>2. [task[e] EXCEPT !.state = "dropped"] \in TaskRow
    <3>1. task[e] \in TaskRow
      BY Types
    <3> HIDE DEF Typed, TypeOK, Busy
    <3> QED
      BY <3>1 DEF TaskRow
  <2>3. task' \in [Event -> TaskRow]
    BY <2>1, <2>2, Types
  <2> QED
    BY <1>2, <2>3 DEF GiveUp, TaskRow
<1>3. ASSUME NEW h \in Callback, NEW e \in Event, Call(h, e) PROVE Typed'
  <2>1. task' = [task EXCEPT ![e] = [task[e] EXCEPT !.tries = task[e].tries + 1]]
    BY <1>3 DEF Call
  <2>2. [task[e] EXCEPT !.tries = task[e].tries + 1] \in TaskRow
    <3>1. task[e] \in TaskRow
      BY Types
    <3>2. task[e].tries + 1 \in 0 .. Tries
      BY <1>3, <3>1, NumbersAssumption DEF Call, TaskRow
    <3> HIDE DEF Typed, TypeOK, Busy
    <3> QED
      BY <3>1, <3>2 DEF TaskRow
  <2>3. task' \in [Event -> TaskRow]
    BY <2>1, <2>2, Types
  <2>4. [at |-> "claim", on |-> e, turn |-> 1] \in Request
    BY NumbersAssumption DEF Request, Consumer
  <2>5. callback' \in [Callback -> Request]
    BY <1>3, <2>4, Types DEF Call
  <2>6. Busy'
    BY <1>3 DEF Call
  <2> QED
    BY <1>3, <2>3, <2>5, <2>6 DEF Call, TaskRow, Request
<1>4. CASE UNCHANGED vars
  BY <1>4 DEF vars
<1> QED
  BY <1>1, <1>2, <1>3, <1>4, TypedDispatch, TypedDeliver DEF Next

(* Every row, run, callback and task stays within its type. *)
THEOREM TypeCorrect == Spec => []TypeOK
<1>1. Init => Typed
  BY TypedInit
<1>2. Typed /\ [Next]_vars => Typed'
  BY TypedNext
<1>3. Typed => TypeOK
  BY DEF Typed
<1> QED
  BY <1>1, <1>2, <1>3, PTL DEF Spec

-----------------------------------------------------------------------------
(* The dispatcher's half. NothingLost and BodiesWhole are not inductive: an *)
(* event may be marked, and stripped, by a run that read it long ago. What  *)
(* keeps them is that whoever is about to mark has had the queue take it,   *)
(* that a row is stripped only after that or when it is parked for good,    *)
(* and so that a stripped copy is of an event the queue already has. Of the *)
(* bodies the invariant asks more than BodiesWhole: a task not there yet    *)
(* counts as whole.                                                         *)

Known(e) == task[e].state # "none"

AllWhole == \A e \in Event : task[e].whole

Marking == \A d \in Dispatcher : dispatcher[d].at = "mark" => Known(dispatcher[d].on)

Stripped ==
  \A e \in Event :
    ~event[e].whole =>
      Known(e) \/ (event[e].state = "parked" /\ event[e].attempts >= AttemptsAllowed)

Copies == \A d \in Dispatcher : \A copy \in dispatcher[d].batch : ~copy.whole => Known(copy.of)

Kept == NothingLost /\ AllWhole /\ Marking /\ Stripped /\ Copies

LEMMA KeptInit == Init => Kept
BY DEF Init, Kept, NothingLost, AllWhole, Marking, Stripped, Copies, NoEvent, NoTask, Resting

(* What the queue does to the task of one event. *)
LEMMA QueueKeeps ==
  ASSUME Typed, NEW copy \in Copy, copy.of \in Event, Queue(copy),
         AllWhole, ~copy.whole => Known(copy.of)
  PROVE  /\ AllWhole'
         /\ Known(copy.of)'
         /\ \A e \in Event : Known(e) => Known(e)'
BY Types DEF Typed, Queue, AllWhole, Known, TaskRow

LEMMA KeptDispatch ==
  ASSUME Typed, Kept, NEW d \in Dispatcher, Dispatching(d) PROVE Kept'
<1> USE DEF Kept
<1>0. /\ event \in [Event -> EventRow]
      /\ dispatcher \in [Dispatcher -> Run]
      /\ dispatcher[d].batch \subseteq Copy
      /\ dispatcher[d].at \in {"mark", "failed"} => dispatcher[d].on \in Event
  BY Types DEF Typed, Busy, Run
<1>1. CASE Read(d)
  <2>1. Marking' /\ Stripped' /\ NothingLost' /\ AllWhole'
    BY <1>1, <1>0 DEF Read, Marking, Stripped, NothingLost, AllWhole, Known
  <2>2. ASSUME NEW e \in Pending, ~event[e].whole PROVE Known(e)
    BY <2>2 DEF Stripped, Pending
  <2>3. Copies'
    BY <1>1, <1>0, <2>2 DEF Read, Copies, Known
  <2> QED
    BY <2>1, <2>3
<1>2. ASSUME NEW copy \in dispatcher[d].batch, NEW step \in {"mark", "failed"},
             Queue(copy) \/ (UNCHANGED task /\ step = "failed"), Taken(d, copy, step), UNCHANGED event
      PROVE  Kept'
  <2>1. copy \in Copy /\ copy.of \in Event /\ (~copy.whole => Known(copy.of))
    BY <1>0 DEF Copy, Copies
  <2>2. AllWhole' /\ (\A e \in Event : Known(e) => Known(e)') /\ (step = "mark" => Known(copy.of)')
    <3>1. CASE Queue(copy)
      BY <3>1, <2>1, QueueKeeps
    <3>2. CASE UNCHANGED task /\ step = "failed"
      BY <3>2 DEF AllWhole, Known
    <3> QED
      BY <1>2, <3>1, <3>2
  <2>3. /\ dispatcher'[d].at = step
        /\ dispatcher'[d].on = copy.of
        /\ dispatcher'[d].batch \subseteq dispatcher[d].batch
        /\ \A f \in Dispatcher \ {d} : dispatcher'[f] = dispatcher[f]
    BY <1>2, <1>0 DEF Taken
  <2>4. Marking'
    <3> SUFFICES ASSUME NEW f \in Dispatcher, dispatcher'[f].at = "mark"
                 PROVE  Known(dispatcher[f].on)'
      BY DEF Marking
    <3>1. CASE f = d
      BY <3>1, <2>2, <2>3 DEF Known
    <3>2. CASE f # d
      <4>1. dispatcher[f].on \in Event /\ Known(dispatcher[f].on)
        BY <3>2, <2>3 DEF Marking, Typed, Busy
      <4>2. Known(dispatcher[f].on)' <=> task'[dispatcher[f].on].state # "none"
        BY <3>2, <2>3 DEF Known
      <4> QED
        BY <4>1, <4>2, <2>2 DEF Known
    <3> QED
      BY <3>1, <3>2
  <2>5. Copies'
    <3> SUFFICES ASSUME NEW f \in Dispatcher, NEW c \in dispatcher'[f].batch, ~c.whole
                 PROVE  Known(c.of)'
      BY DEF Copies
    <3>1. c \in dispatcher[f].batch
      BY <2>3
    <3>2. c.of \in Event
      BY <3>1, <1>0 DEF Run, Copy
    <3> QED
      BY <3>1, <3>2, <2>2 DEF Copies
  <2>6. Stripped' /\ NothingLost'
    BY <1>2, <2>2 DEF Stripped, NothingLost, Known
  <2> QED
    BY <2>2, <2>4, <2>5, <2>6
<1>3. CASE HandOver(d)
  <2>1. PICK copy \in dispatcher[d].batch :
          Enqueued(d, copy) \/ \E reached \in BOOLEAN : NotEnqueued(d, copy, reached)
    BY <1>3 DEF HandOver
  <2> QED
    BY <2>1, <1>2 DEF Enqueued, NotEnqueued
<1>4. ASSUME \/ dispatcher' = [dispatcher EXCEPT ![d] = Onward(dispatcher[d])]
             \/ dispatcher' = [dispatcher EXCEPT ![d] = Resting],
             UNCHANGED task
      PROVE  AllWhole' /\ Marking' /\ Copies'
  <2>1. /\ dispatcher'[d].at # "mark"
        /\ dispatcher'[d].batch \subseteq dispatcher[d].batch
        /\ \A f \in Dispatcher \ {d} : dispatcher'[f] = dispatcher[f]
    <3>1. dispatcher[d] \in Run
      BY <1>0
    <3>2. Resting.at # "mark" /\ Resting.batch = {}
      BY DEF Resting
    <3>3. [dispatcher[d] EXCEPT !.at = "enqueue", !.on = None].at # "mark"
          /\ [dispatcher[d] EXCEPT !.at = "enqueue", !.on = None].batch = dispatcher[d].batch
      BY <3>1 DEF Run
    <3>4. Onward(dispatcher[d]).at # "mark" /\ Onward(dispatcher[d]).batch \subseteq dispatcher[d].batch
      BY <3>2, <3>3 DEF Onward
    <3> QED
      BY <1>4, <1>0, <3>2, <3>4
  <2>2. Marking'
    BY <1>4, <2>1 DEF Marking, Known
  <2>3. Copies'
    BY <1>4, <2>1 DEF Copies, Known
  <2> QED
    BY <1>4, <2>2, <2>3 DEF AllWhole
<1>5. CASE Dispatched(d)
  <2>1. AllWhole' /\ Marking' /\ Copies'
    BY <1>5, <1>4 DEF Dispatched
  <2>2. dispatcher[d].on \in Event /\ Known(dispatcher[d].on)
    BY <1>5, <1>0 DEF Dispatched, Marking
  <2>3. NothingLost' /\ Stripped'
    BY <1>5, <1>0, <2>2 DEF Dispatched, NothingLost, Stripped, Known
  <2> QED
    BY <2>1, <2>3
<1>6. CASE Failed(d)
  <2>1. AllWhole' /\ Marking' /\ Copies'
    BY <1>6, <1>4 DEF Failed
  <2> DEFINE e == dispatcher[d].on
             park == event[e].attempts + 1 >= AttemptsAllowed
  <2>2. e \in Event /\ event[e].attempts \in Nat /\ event[e].whole \in BOOLEAN
    BY <1>6, <1>0 DEF Failed, EventRow
  <2>3. /\ event'[e] = [state |-> IF park THEN "parked" ELSE "pending",
                        attempts |-> event[e].attempts + 1,
                        whole |-> event[e].whole /\ ~(park /\ e \in Mail)]
        /\ \A f \in Event \ {e} : event'[f] = event[f]
        /\ UNCHANGED task
    BY <1>6, <1>0, <2>2 DEF Failed
  <2>4. NothingLost'
    BY <2>3 DEF NothingLost
  <2>5. ASSUME ~event'[e].whole
        PROVE  Known(e) \/ (event'[e].state = "parked" /\ event'[e].attempts >= AttemptsAllowed)
    <3>1. CASE park
      BY <3>1, <2>3
    <3>2. CASE ~park
      <4>1. ~event[e].whole
        BY <3>2, <2>5, <2>3, <2>2
      <4> QED
        BY <4>1, <3>2, <2>2, NumbersAssumption DEF Stripped
    <3> QED
      BY <3>1, <3>2
  <2>6. Stripped'
    BY <2>3, <2>5 DEF Stripped, Known
  <2> QED
    BY <2>1, <2>4, <2>6
<1>7. CASE Unmarked(d) \/ Stop(d)
  <2>1. AllWhole' /\ Marking' /\ Copies'
    BY <1>7, <1>4 DEF Unmarked, Stop
  <2> QED
    BY <1>7, <2>1 DEF Unmarked, Stop, NothingLost, Stripped, Known
<1> QED
  BY <1>1, <1>3, <1>5, <1>6, <1>7 DEF Dispatching

(* A step that leaves the runs of Dispatch and the rows alone. *)
LEMMA KeptElsewhere ==
  ASSUME Typed, Kept, UNCHANGED <<event, dispatcher>>, AllWhole',
         \A e \in Event : Known(e) => Known(e)'
  PROVE  Kept'
<1>1. NothingLost' /\ Stripped'
  BY DEF Kept, NothingLost, Stripped, Known
<1>2. Marking'
  BY DEF Kept, Marking, Known, Typed, Busy
<1>3. \A d \in Dispatcher : dispatcher[d].batch \subseteq Copy
  BY Types DEF Typed, Run
<1>4. Copies'
  BY <1>3 DEF Kept, Copies, Known, Copy
<1> QED
  BY <1>1, <1>2, <1>4 DEF Kept

LEMMA KeptNext == Typed /\ Kept /\ [Next]_vars => Kept'
<1> SUFFICES ASSUME Typed, Kept, [Next]_vars PROVE Kept'
  OBVIOUS
<1>0. event \in [Event -> EventRow] /\ task \in [Event -> TaskRow] /\ AllWhole
  BY Types DEF Typed, Kept
<1>1. ASSUME NEW e \in Event, Write(e) PROVE Kept'
  BY <1>1, <1>0 DEF Write, EventRow, Kept, NothingLost, AllWhole, Marking, Stripped, Copies, Known
<1>2. ASSUME NEW e \in Event, GiveUp(e) PROVE Kept'
  <2>1. AllWhole' /\ \A f \in Event : Known(f) => Known(f)'
    BY <1>2, <1>0 DEF GiveUp, TaskRow, AllWhole, Known
  <2> QED
    BY <1>2, <2>1, KeptElsewhere DEF GiveUp
<1>3. ASSUME NEW h \in Callback, NEW e \in Event, Call(h, e) PROVE Kept'
  <2>1. AllWhole' /\ \A f \in Event : Known(f) => Known(f)'
    BY <1>3, <1>0 DEF Call, TaskRow, AllWhole, Known
  <2> QED
    BY <1>3, <2>1, KeptElsewhere DEF Call
<1>4. ASSUME NEW h \in Callback, Delivering(h) PROVE Kept'
  <2>1. AllWhole' /\ \A f \in Event : Known(f) => Known(f)'
    <3>1. ASSUME NEW lost \in BOOLEAN, Answer(h, lost)
          PROVE  AllWhole' /\ \A f \in Event : Known(f) => Known(f)'
      <4>1. \A f \in Event : task'[f] = task[f] \/ task'[f] = [task[f] EXCEPT !.state = "done"]
        BY <3>1, <1>0 DEF Answer
      <4>2. \A f \in Event : task'[f].whole = task[f].whole
        BY <4>1, <1>0 DEF TaskRow
      <4>3. \A f \in Event : task'[f].state = task[f].state \/ task'[f].state = "done"
        BY <4>1, <1>0 DEF TaskRow
      <4> QED
        BY <4>2, <4>3, <1>0 DEF AllWhole, Known
    <3>2. CASE UNCHANGED task
      BY <3>2, <1>0 DEF AllWhole, Known
    <3> QED
      BY <1>4, <3>1, <3>2 DEF Delivering, Claim, Skip, Act, Handled, NotHandled
  <2>2. UNCHANGED <<event, dispatcher>>
    BY <1>4 DEF Delivering, Claim, Skip, Act, Handled, NotHandled, Answer
  <2> QED
    BY <2>1, <2>2, KeptElsewhere
<1>5. CASE UNCHANGED vars
  <2>1. AllWhole' /\ \A f \in Event : Known(f) => Known(f)'
    BY <1>5, <1>0 DEF vars, AllWhole, Known
  <2> QED
    BY <1>5, <2>1, KeptElsewhere DEF vars
<1> QED
  BY <1>1, <1>2, <1>3, <1>4, <1>5, KeptDispatch DEF Next

(* An event marked dispatched is one the queue has, however many runs of    *)
(* Dispatch mark it and wherever they stop.                                 *)
THEOREM NeverLost == Spec => []NothingLost
<1>1. Init => Typed /\ Kept
  BY TypedInit, KeptInit
<1>2. Typed /\ Kept /\ [Next]_vars => (Typed /\ Kept)'
  BY TypedNext, KeptNext
<1>3. Kept => NothingLost
  BY DEF Kept
<1> QED
  BY <1>1, <1>2, <1>3, PTL DEF Spec

(* The queue never carries a body that outbox_dispatched or outbox_failed   *)
(* had stripped of its Variables.                                           *)
THEOREM AlwaysWhole == Spec => []BodiesWhole
<1>1. Init => Typed /\ Kept
  BY TypedInit, KeptInit
<1>2. Typed /\ Kept /\ [Next]_vars => (Typed /\ Kept)'
  BY TypedNext, KeptNext
<1>3. Kept => BodiesWhole
  BY DEF Kept, AllWhole, BodiesWhole
<1> QED
  BY <1>1, <1>2, <1>3, PTL DEF Spec

-----------------------------------------------------------------------------
(* The callbacks' half. Whoever is inside a consumer's work holds its claim *)
(* and the work is not committed: the claim is what keeps a second one out. *)
(* A callback at its n-th turn has seen the n - 1 before it handled.        *)

Holding ==
  \A h \in Callback :
    Inside(h) => /\ claim[callback[h].on][callback[h].turn] = h
                 /\ callback[h].turn \notin delivery[callback[h].on]

SoFar ==
  \A h \in Callback :
    /\ callback[h].at \in {"claim", "handle", "commit"} =>
         \A c \in Consumer : c < callback[h].turn => c \in delivery[callback[h].on]
    /\ callback[h].at = "answer" => delivery[callback[h].on] = Consumer

Done == Holding /\ SoFar /\ DoneMeansHandled

LEMMA DoneInit == Init => Done
BY DEF Init, Done, Holding, SoFar, DoneMeansHandled, Inside, NoTask, NoCallback

(* A turn that ends handled goes on to a turn, or an answer, that is due. *)
LEMMA TurnDone ==
  ASSUME Typed, NEW h \in Callback, callback[h].at \in {"claim", "commit"}, Turn(h),
         Done, callback[h].turn \in delivery'[callback[h].on],
         \A e \in Event : delivery[e] \subseteq delivery'[e] /\ delivery'[e] \subseteq Consumer
  PROVE  /\ SoFar'
         /\ ~Inside(h)'
         /\ \A g \in Callback \ {h} : callback'[g] = callback[g]
<1>1. callback \in [Callback -> Request] /\ callback[h] \in Request /\ callback[h].on \in Event
  BY Types DEF Typed, Busy
<1>2. \A g \in Callback \ {h} : callback'[g] = callback[g]
  BY <1>1 DEF Turn
<1>3. /\ callback[h].turn \in Consumer
      /\ \A c \in Consumer : c < callback[h].turn => c \in delivery'[callback[h].on]
  BY <1>1 DEF Done, SoFar, Request
<1>6. ASSUME NEW g \in Callback \ {h}
      PROVE  /\ callback[g].at \in {"claim", "handle", "commit"} =>
                  \A c \in Consumer : c < callback[g].turn => c \in delivery'[callback[g].on]
             /\ callback[g].at = "answer" => delivery'[callback[g].on] = Consumer
  <2>1. callback[g].at # "idle" =>
          /\ delivery[callback[g].on] \subseteq delivery'[callback[g].on]
          /\ delivery'[callback[g].on] \subseteq Consumer
    BY DEF Typed, Busy
  <2> QED
    BY <2>1 DEF Done, SoFar
<1>4. CASE callback[h].turn = Consumers
  <2>1. callback'[h].at = "answer" /\ callback'[h].on = callback[h].on
    BY <1>1, <1>4 DEF Turn, Request
  <2>2. delivery'[callback[h].on] = Consumer
    <3>1. \A c \in Consumer : c = Consumers \/ c < Consumers
      BY NumbersAssumption DEF Consumer
    <3> QED
      BY <1>1, <1>3, <1>4, <3>1
  <2>3. SoFar'
    BY <1>2, <1>6, <2>1, <2>2 DEF SoFar
  <2> QED
    BY <1>2, <2>1, <2>3 DEF Inside
<1>5. CASE callback[h].turn # Consumers
  <2>1. /\ callback'[h].at = "claim"
        /\ callback'[h].on = callback[h].on
        /\ callback'[h].turn = callback[h].turn + 1
    BY <1>1, <1>5 DEF Turn, Request
  <2>2. \A c \in Consumer : c < callback'[h].turn => c \in delivery'[callback[h].on]
    BY <1>3, <2>1 DEF Consumer
  <2>3. SoFar'
    BY <1>2, <1>6, <2>1, <2>2 DEF SoFar
  <2> QED
    BY <1>2, <2>1, <2>3 DEF Inside
<1> QED
  BY <1>4, <1>5

LEMMA DoneDeliver ==
  ASSUME Typed, Done, NEW h \in Callback, Delivering(h) PROVE Done'
<1> DEFINE e == callback[h].on
           c == callback[h].turn
<1>0. /\ callback \in [Callback -> Request] /\ c \in Consumer
      /\ e \in Event
      /\ claim \in [Event -> [Consumer -> Callback \cup {None}]]
      /\ delivery \in [Event -> SUBSET Consumer]
      /\ \A g \in Callback : Inside(g) => callback[g].on \in Event /\ callback[g].turn \in Consumer
  <2>1. callback[h].at # "idle"
    BY DEF Delivering, Claim, Skip, Act, Handled, NotHandled, Answer
  <2> QED
    BY <2>1, Types DEF Typed, Busy, Request, Inside
<1>1. CASE Claim(h)
  <2>1. /\ callback'[h].at = "handle" /\ callback'[h].on = e /\ callback'[h].turn = c
        /\ \A g \in Callback \ {h} : callback'[g] = callback[g]
        /\ UNCHANGED <<delivery, task>>
    BY <1>1, <1>0 DEF Claim, Request
  <2>2. SoFar' /\ DoneMeansHandled'
    BY <1>1, <2>1 DEF Done, SoFar, DoneMeansHandled, Claim
  <2>3. claim'[e][c] = h /\ c \notin delivery[e]
    BY <1>1, <1>0 DEF Claim
  <2>4. ASSUME NEW g \in Callback \ {h}, Inside(g)
        PROVE  claim'[callback[g].on][callback[g].turn] = g
    <3>1. claim[callback[g].on][callback[g].turn] = g
      BY <2>4 DEF Done, Holding
    <3>2. ~(callback[g].on = e /\ callback[g].turn = c)
      BY <3>1, <1>1, NoneAssumption DEF Claim
    <3> QED
      BY <3>1, <3>2, <1>1, <1>0, <2>4 DEF Claim
  <2>5. Holding'
    BY <2>1, <2>3, <2>4 DEF Done, Holding, Inside
  <2> QED
    BY <2>2, <2>5 DEF Done
<1>2. CASE Skip(h)
  <2>1. SoFar' /\ ~Inside(h)' /\ \A g \in Callback \ {h} : callback'[g] = callback[g]
    BY <1>2, <1>0, TurnDone DEF Skip
  <2>2. Holding' /\ DoneMeansHandled'
    BY <1>2, <2>1 DEF Skip, Done, Holding, DoneMeansHandled, Inside
  <2> QED
    BY <2>1, <2>2 DEF Done
<1>3. CASE Act(h)
  <2>1. /\ callback'[h].at = "commit" /\ callback'[h].on = e /\ callback'[h].turn = c
        /\ \A g \in Callback \ {h} : callback'[g] = callback[g]
        /\ UNCHANGED <<delivery, task, claim>>
        /\ callback[h].at = "handle"
    BY <1>3, <1>0 DEF Act, Request
  <2> QED
    BY <2>1 DEF Done, Holding, SoFar, DoneMeansHandled, Inside
<1>4. CASE Handled(h)
  <2>1. /\ delivery'[e] = delivery[e] \cup {c}
        /\ \A f \in Event \ {e} : delivery'[f] = delivery[f]
        /\ UNCHANGED task
    BY <1>4, <1>0 DEF Handled
  <2>2. SoFar' /\ ~Inside(h)' /\ \A g \in Callback \ {h} : callback'[g] = callback[g]
    BY <1>4, <1>0, <2>1, TurnDone DEF Handled
  <2>3. claim[e][c] = h
    BY <1>4 DEF Handled, Inside, Done, Holding
  <2>4. ASSUME NEW g \in Callback \ {h}, Inside(g)
        PROVE  /\ claim'[callback[g].on][callback[g].turn] = g
               /\ callback[g].turn \notin delivery'[callback[g].on]
    <3>1. /\ claim[callback[g].on][callback[g].turn] = g
          /\ callback[g].turn \notin delivery[callback[g].on]
      BY <2>4 DEF Done, Holding
    <3>2. ~(callback[g].on = e /\ callback[g].turn = c)
      BY <3>1, <2>3
    <3> QED
      BY <3>1, <3>2, <1>4, <1>0, <2>1, <2>4 DEF Handled
  <2>5. Holding'
    BY <2>2, <2>4 DEF Holding, Inside
  <2>6. DoneMeansHandled'
    BY <2>1, <1>0 DEF Done, DoneMeansHandled
  <2> QED
    BY <2>2, <2>5, <2>6 DEF Done
<1>5. CASE NotHandled(h)
  <2>1. /\ callback'[h].at = "idle"
        /\ \A g \in Callback \ {h} : callback'[g] = callback[g]
        /\ UNCHANGED <<delivery, task>>
    BY <1>5, <1>0 DEF NotHandled, NoCallback
  <2>2. ASSUME NEW g \in Callback \ {h}, Inside(g)
        PROVE  claim'[callback[g].on][callback[g].turn] = g
    <3>1. claim[callback[g].on][callback[g].turn] = g
      BY <2>2 DEF Done, Holding
    <3>2. CASE claim[e][c] = h
      <4>1. ~(callback[g].on = e /\ callback[g].turn = c)
        BY <3>1, <3>2
      <4> QED
        BY <3>1, <3>2, <4>1, <1>5, <1>0, <2>2 DEF NotHandled
    <3>3. CASE claim[e][c] # h
      BY <3>1, <3>3, <1>5 DEF NotHandled
    <3> QED
      BY <3>2, <3>3
  <2>3. Holding'
    BY <2>1, <2>2 DEF Done, Holding, Inside
  <2> QED
    BY <2>1, <2>3 DEF Done, SoFar, DoneMeansHandled
<1>6. ASSUME NEW lost \in BOOLEAN, Answer(h, lost) PROVE Done'
  <2>1. /\ callback'[h].at = "idle"
        /\ \A g \in Callback \ {h} : callback'[g] = callback[g]
        /\ UNCHANGED <<delivery, claim>>
    BY <1>6, <1>0 DEF Answer, NoCallback
  <2>2. delivery[e] = Consumer
    BY <1>6 DEF Answer, Done, SoFar
  <2>3. \A f \in Event \ {e} : task'[f] = task[f]
    BY <1>6, <1>0, Types DEF Answer, Typed
  <2>4. DoneMeansHandled'
    BY <2>1, <2>2, <2>3 DEF Done, DoneMeansHandled
  <2> QED
    BY <2>1, <2>4 DEF Done, Holding, SoFar, Inside
<1> QED
  BY <1>1, <1>2, <1>3, <1>4, <1>5, <1>6 DEF Delivering

LEMMA DoneNext == Typed /\ Done /\ [Next]_vars => Done'
<1> SUFFICES ASSUME Typed, Done, [Next]_vars PROVE Done'
  OBVIOUS
<1>0. task \in [Event -> TaskRow] /\ callback \in [Callback -> Request]
  BY Types DEF Typed
<1>1. ASSUME UNCHANGED <<delivery, claim, callback>>,
             \A e \in Event : task'[e].state = "done" => task[e].state = "done"
      PROVE  Done'
  BY <1>1 DEF Done, Holding, SoFar, DoneMeansHandled, Inside
<1>2. ASSUME NEW e \in Event, Write(e) \/ GiveUp(e) PROVE Done'
  <2>1. \A f \in Event : task'[f].state = "done" => task[f].state = "done"
    BY <1>2, <1>0 DEF Write, GiveUp, TaskRow
  <2> QED
    BY <1>1, <1>2, <2>1 DEF Write, GiveUp
<1>3. ASSUME NEW d \in Dispatcher, Dispatching(d) PROVE Done'
  <2>1. ASSUME NEW copy \in dispatcher[d].batch, Queue(copy)
        PROVE  \A f \in Event : task'[f].state = "done" => task[f].state = "done"
    BY <2>1, <1>0 DEF Queue, TaskRow
  <2>2. /\ UNCHANGED <<delivery, claim, callback>>
        /\ UNCHANGED task \/ \E copy \in dispatcher[d].batch : Queue(copy)
    BY <1>3 DEF Dispatching, HandOver, Read, Enqueued, NotEnqueued, Dispatched, Failed, Unmarked, Stop
  <2> QED
    BY <1>1, <2>1, <2>2
<1>4. ASSUME NEW h \in Callback, NEW e \in Event, Call(h, e) PROVE Done'
  <2>1. /\ callback'[h] = [at |-> "claim", on |-> e, turn |-> 1]
        /\ \A g \in Callback \ {h} : callback'[g] = callback[g]
        /\ UNCHANGED <<delivery, claim>>
        /\ \A f \in Event : task'[f].state = task[f].state
    BY <1>4, <1>0 DEF Call, TaskRow
  <2>2. \A c \in Consumer : ~(c < 1)
    BY NumbersAssumption DEF Consumer
  <2> QED
    BY <2>1, <2>2 DEF Done, Holding, SoFar, DoneMeansHandled, Inside
<1>5. CASE UNCHANGED vars
  BY <1>1, <1>5 DEF vars
<1> QED
  BY <1>2, <1>3, <1>4, <1>5, DoneDeliver DEF Next

(* No two callbacks are ever inside the same consumer's work on an event,   *)
(* and none is once that work is committed: claim and the work are one      *)
(* transaction.                                                             *)
THEOREM OnceEach == Spec => []HandledOnce
<1>1. Init => Typed /\ Done
  BY TypedInit, DoneInit
<1>2. Typed /\ Done /\ [Next]_vars => (Typed /\ Done)'
  BY TypedNext, DoneNext
<1>3. Done => HandledOnce
  BY DEF Done, Holding, HandledOnce
<1> QED
  BY <1>1, <1>2, <1>3, PTL DEF Spec

(* The queue is told an event is done only when every consumer has          *)
(* committed its part, however the callbacks overlap.                       *)
THEOREM DoneIsHandled == Spec => []DoneMeansHandled
<1>1. Init => Typed /\ Done
  BY TypedInit, DoneInit
<1>2. Typed /\ Done /\ [Next]_vars => (Typed /\ Done)'
  BY TypedNext, DoneNext
<1>3. Done => DoneMeansHandled
  BY DEF Done
<1> QED
  BY <1>1, <1>2, <1>3, PTL DEF Spec
=============================================================================
