------------------------------ MODULE FrameQueue ------------------------------
(* pipeline.py FrameQueue: the bounded queue that joins two stages of the      *)
(* camera.  A queue is a value here; a method is an operator that returns the  *)
(* queue after the call, and one that waits has a ...Waits operator, the       *)
(* condition its loop waits on.  Each method runs under the queue's condition, *)
(* so a call is one step of its caller.                                        *)
EXTENDS Integers, Sequences

CONSTANT NoItem   \* what get() returns once the queue is closed and empty

NewQueue(capacity, dropOldest) == [items |-> <<>>, closed |-> FALSE, dropped |-> 0, capacity |-> capacity, dropOldest |-> dropOldest]

PutWaits(q) == Len(q.items) >= q.capacity /\ ~q.closed /\ ~q.dropOldest

(* Mutant: a full queue that may drop keeps everything.                        *)
SurplusNone(q) == 0

(* What put() drops to make room.                                              *)
Surplus(q) == IF Len(q.items) >= q.capacity THEN Len(q.items) - q.capacity + 1 ELSE 0

(* A closed queue takes the item and forgets it.                               *)
Put(q, item) == IF q.closed THEN q
                ELSE [q EXCEPT !.items = Append(SubSeq(@, Surplus(q) + 1, Len(@)), item), !.dropped = @ + Surplus(q)]

(* Mutant: an empty queue waits even when it was closed.                       *)
GetWaitsClosed(q) == q.items = <<>>

GetWaits(q) == q.items = <<>> /\ ~q.closed

Got(q) == IF q.items = <<>> THEN NoItem ELSE Head(q.items)

Get(q) == [q EXCEPT !.items = IF @ = <<>> THEN <<>> ELSE Tail(@)]

HoldingWaits(q, count) == Len(q.items) < count /\ ~q.closed

Close(q) == [q EXCEPT !.closed = TRUE]

Abort(q) == [q EXCEPT !.closed = TRUE, !.items = <<>>]
===============================================================================
