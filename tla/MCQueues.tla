------------------------------ MODULE MCQueues ------------------------------
(* The queues for TLC: a behaviour exercises the heap of the context queue *)
(* or the mixed queue that feeds it.                                       *)
EXTENDS ContextQueue, AioQueue

VARIABLE which

QueuesInit == which \in {"heap", "mixed"} /\ HeapInit /\ Init

QueuesNext ==
  /\ UNCHANGED which
  /\ \/ which = "heap" /\ HeapNext /\ UNCHANGED vars
     \/ which = "mixed" /\ Next /\ UNCHANGED heapVars

QueuesSpec == QueuesInit /\ [][QueuesNext]_<<which, vars, heapVars>> /\ Fairness
=============================================================================
