----------------------------- MODULE LaneQueue -----------------------------
(***************************************************************************)
(* The abstract context queue: a put adds a context to the lane of its     *)
(* priority, a get takes the first context of the first lane that has one. *)
(***************************************************************************)
EXTENDS ContextLanes

CONSTANT Context

VARIABLE lanes

Init == lanes = EmptyLanes

PutContext(c, p) == lanes' = Put(lanes, c, p)

GetContext == ~IsEmpty(lanes) /\ lanes' = Pop(lanes)

Next == GetContext \/ \E c \in Context, p \in ContextPriority : PutContext(c, p)

Spec == Init /\ [][Next]_lanes
=============================================================================
