--------------------------- MODULE MCContextState ---------------------------
(* Contexts and the lock of their children for TLC: a behaviour exercises  *)
(* completion on a tree of contexts, whose steps are the lock's critical   *)
(* sections, or the lock itself.                                           *)
EXTENDS ContextState, RWLock, TLC

VARIABLE which

TreeInit == which \in {"state", "lock"} /\ Init /\ RWInit

TreeNext ==
  /\ UNCHANGED which
  /\ \/ which = "state" /\ Next /\ UNCHANGED rwVars
     \/ which = "lock" /\ RWNext /\ UNCHANGED vars

TreeSpec == TreeInit /\ [][TreeNext]_<<which, vars, rwVars>>

(* a and b start in parallel and meet in the sink. *)
Fork == Build([a |-> {}, b |-> {}], "source", "sink")
ForkNode == DOMAIN Fork

Symmetry == Permutations(Ctx) \cup Permutations(Caller) \cup Permutations(Cancellable)
            \cup Permutations(Agent \ Cancellable)
=============================================================================
