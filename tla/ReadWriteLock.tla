--------------------------- MODULE ReadWriteLock ---------------------------
(***************************************************************************)
(* What every read-write lock of the library promises ("allowing           *)
(* concurrent reads or exclusive writes", rwlock.py): the agents that hold *)
(* it are any number of readers or a single writer.  SmartRWLock and       *)
(* RWLock are shown to implement this specification.                       *)
(***************************************************************************)
CONSTANT Agent

VARIABLE held   \* what each agent holds: "none", "read" or "write"

Init == held = [a \in Agent |-> "none"]

AcquireRead(a) ==
  /\ held[a] = "none" /\ \A b \in Agent : held[b] # "write"
  /\ held' = [held EXCEPT ![a] = "read"]

AcquireWrite(a) ==
  /\ \A b \in Agent : held[b] = "none"
  /\ held' = [held EXCEPT ![a] = "write"]

Release(a) ==
  /\ held[a] # "none"
  /\ held' = [held EXCEPT ![a] = "none"]

Next == \E a \in Agent : AcquireRead(a) \/ AcquireWrite(a) \/ Release(a)

Spec == Init /\ [][Next]_held
=============================================================================
