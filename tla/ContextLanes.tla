---------------------------- MODULE ContextLanes ----------------------------
(***************************************************************************)
(* What the context queue of shutils/dag/context_queue.py promises: three  *)
(* lanes, served strictly in the order LIFO, FIFO_HIGH, FIFO_LOW, the      *)
(* first a stack and the other two first-in first-out.  The executor's     *)
(* model schedules with these operators; ContextQueue.tla models the       *)
(* (priority, sequence) heap of the code and is shown to implement them.   *)
(***************************************************************************)
EXTENDS Naturals, Sequences, SequencesExt

(* ContextPriority, in the order of its values. *)
LIFO == 0
FIFO_HIGH == 1
FIFO_LOW == 2
ContextPriority == {LIFO, FIFO_HIGH, FIFO_LOW}

EmptyLanes == [p \in ContextPriority |-> <<>>]

IsEmpty(q) == \A p \in ContextPriority : q[p] = <<>>

Put(q, c, p) == [q EXCEPT ![p] = IF p = LIFO THEN Cons(c, @) ELSE Append(@, c)]

(* The lane the next get is served from. *)
ServedLane(q) == CHOOSE p \in ContextPriority :
                   q[p] # <<>> /\ \A r \in ContextPriority : r < p => q[r] = <<>>

First(q) == Head(q[ServedLane(q)])

Pop(q) == [q EXCEPT ![ServedLane(q)] = Tail(@)]

Queued(q) == UNION {ToSet(q[p]) : p \in ContextPriority}
=============================================================================
