---------------------------- MODULE SmartRWLock ----------------------------
(***************************************************************************)
(* SmartRWLock of shutils/dag/lib/smart_lock.py, the lock behind the       *)
(* parent-child links of contexts: readers and writers that are threads    *)
(* (read, write, the EXECUTOR strategy of write_async_run) or coroutines   *)
(* (async_read, async_write, the other strategies).                        *)
(*                                                                         *)
(* _state_lock makes every primitive atomic up to a _cond.wait().  A       *)
(* coroutine first tries to acquire without blocking and, if that fails,   *)
(* lets a thread of the default pool do the blocking acquire.              *)
(***************************************************************************)
EXTENDS Naturals, FiniteSets

CONSTANTS
  Reader, Writer,   \* the agents that ask for the lock to read, to write
  Coroutine,        \* the agents that are coroutines; the others are threads
  Cancellable,      \* the coroutines that may be cancelled while they wait
  PoolSize          \* threads of the event loop's default executor

Agent == Reader \cup Writer

ASSUME LockAssumption ==
  /\ IsFiniteSet(Reader) /\ IsFiniteSet(Writer)
  /\ Cancellable \subseteq Coroutine
  /\ PoolSize \in Nat \ {0}

VARIABLES
  _readers, _writers_waiting, _writer_active,
  pc,         \* "idle", "queued" for the pool, in _cond's "waiting" set,
              \* "woken" from it, or "holding" the lock
  mode,       \* what the agent asks for, or holds: "read" or "write"
  cancelled   \* coroutines cancelled while a pool thread waits on their behalf

vars == <<_readers, _writers_waiting, _writer_active, pc, mode, cancelled>>

Init ==
  /\ _readers = 0 /\ _writers_waiting = 0 /\ _writer_active = FALSE
  /\ pc = [a \in Agent |-> "idle"]
  /\ mode = [a \in Agent |-> "read"]
  /\ cancelled = {}

(* Mutants: a writer ignores readers; a reader ignores waiting writers. *)
BlockedByWriter(m) ==
  IF m = "read" THEN _writer_active \/ _writers_waiting > 0 ELSE _writer_active

BlockedNoPriority(m) ==
  IF m = "read" THEN _writer_active ELSE _writer_active \/ _readers > 0

(* The condition under which a request must wait: readers also give way to *)
(* waiting writers.                                                        *)
Blocked(m) ==
  IF m = "read" THEN _writer_active \/ _writers_waiting > 0
                ELSE _writer_active \/ _readers > 0

(* Agent a, granted the lock, takes it. *)
Take(a, m) ==
  /\ _readers' = IF m = "read" THEN _readers + 1 ELSE _readers
  /\ _writer_active' = (m = "write" \/ _writer_active)
  /\ pc' = [pc EXCEPT ![a] = "holding"]

(* _blocking_acquire_read, _blocking_acquire_write up to the first wait. *)
Enter(a, m) ==
  \/ /\ ~Blocked(m)
     /\ Take(a, m)
     /\ UNCHANGED _writers_waiting
  \/ /\ Blocked(m)
     /\ pc' = [pc EXCEPT ![a] = "waiting"]
     /\ _writers_waiting' = IF m = "write" THEN _writers_waiting + 1 ELSE _writers_waiting
     /\ UNCHANGED <<_readers, _writer_active>>

(* A thread enters the lock. *)
Acquire(a, m) ==
  /\ a \notin Coroutine /\ pc[a] = "idle"
  /\ mode' = [mode EXCEPT ![a] = m]
  /\ Enter(a, m)
  /\ UNCHANGED cancelled

(* A coroutine tries, and asks the pool when it fails. *)
TryAcquire(a, m) ==
  /\ a \in Coroutine /\ pc[a] = "idle"
  /\ mode' = [mode EXCEPT ![a] = m]
  /\ \/ ~Blocked(m) /\ Take(a, m)
     \/ /\ Blocked(m)
        /\ pc' = [pc EXCEPT ![a] = "queued"]
        /\ UNCHANGED <<_readers, _writer_active>>
  /\ UNCHANGED <<_writers_waiting, cancelled>>

(* A pool thread picks the blocking acquire up. *)
RunQueued(a) ==
  /\ pc[a] = "queued"
  /\ Cardinality({b \in Coroutine \cap Agent : pc[b] \in {"waiting", "woken"}}) < PoolSize
  /\ Enter(a, mode[a])
  /\ UNCHANGED <<mode, cancelled>>

(* Mutant: a writer that got the lock still counts as waiting. *)
RecheckStillWaiting(a) ==
  /\ pc[a] = "woken"
  /\ \/ ~Blocked(mode[a]) /\ Take(a, mode[a])
     \/ /\ Blocked(mode[a])
        /\ pc' = [pc EXCEPT ![a] = "waiting"]
        /\ UNCHANGED <<_readers, _writer_active>>
  /\ UNCHANGED <<_writers_waiting, mode, cancelled>>

(* A woken thread holds _state_lock again and tests its loop condition. *)
Recheck(a) ==
  /\ pc[a] = "woken"
  /\ \/ /\ ~Blocked(mode[a])
        /\ Take(a, mode[a])
        /\ _writers_waiting' =
             IF mode[a] = "write" THEN _writers_waiting - 1 ELSE _writers_waiting
     \/ /\ Blocked(mode[a])
        /\ pc' = [pc EXCEPT ![a] = "waiting"]
        /\ UNCHANGED <<_readers, _writers_waiting, _writer_active>>
  /\ UNCHANGED <<mode, cancelled>>

(* a leaves; _cond.notify_all() wakes every waiter when notify holds. *)
Leave(a, notify) ==
  pc' = [b \in Agent |-> IF b = a THEN "idle"
                         ELSE IF notify /\ pc[b] = "waiting" THEN "woken" ELSE pc[b]]

(* Mutant: the last reader notifies nobody. *)
ReleaseReadQuietly(a) ==
  /\ pc[a] = "holding" /\ mode[a] = "read" /\ a \notin cancelled
  /\ _readers' = _readers - 1
  /\ Leave(a, FALSE)
  /\ UNCHANGED <<_writers_waiting, _writer_active, mode, cancelled>>

ReleaseRead(a) ==
  /\ pc[a] = "holding" /\ mode[a] = "read" /\ a \notin cancelled
  /\ _readers' = _readers - 1
  /\ Leave(a, _readers = 1)
  /\ UNCHANGED <<_writers_waiting, _writer_active, mode, cancelled>>

(* Mutant: the writer notifies nobody. *)
ReleaseWriteQuietly(a) ==
  /\ pc[a] = "holding" /\ mode[a] = "write" /\ a \notin cancelled
  /\ _writer_active' = FALSE
  /\ Leave(a, FALSE)
  /\ UNCHANGED <<_readers, _writers_waiting, mode, cancelled>>

ReleaseWrite(a) ==
  /\ pc[a] = "holding" /\ mode[a] = "write" /\ a \notin cancelled
  /\ _writer_active' = FALSE
  /\ Leave(a, TRUE)
  /\ UNCHANGED <<_readers, _writers_waiting, mode, cancelled>>

(* asyncio cancels a coroutine that waits for the pool.  A queued acquire  *)
(* is withdrawn; one that a pool thread has begun goes on by itself, and   *)
(* nobody will release what it gets.                                       *)
Cancel(a) ==
  /\ a \in Cancellable \ cancelled
  /\ \/ /\ pc[a] = "queued"
        /\ pc' = [pc EXCEPT ![a] = "idle"]
        /\ UNCHANGED cancelled
     \/ /\ pc[a] \in {"waiting", "woken"}
        /\ cancelled' = cancelled \cup {a}
        /\ UNCHANGED pc
  /\ UNCHANGED <<_readers, _writers_waiting, _writer_active, mode>>

Next ==
  \/ \E a \in Reader : Acquire(a, "read") \/ TryAcquire(a, "read")
  \/ \E a \in Writer : Acquire(a, "write") \/ TryAcquire(a, "write")
  \/ \E a \in Agent : RunQueued(a) \/ Recheck(a) \/ ReleaseRead(a) \/ ReleaseWrite(a) \/ Cancel(a)

Spec == Init /\ [][Next]_vars

(* Fairness.  A woken thread gets _state_lock, which nobody keeps; a       *)
(* holder leaves; and the pool serves its queue first-in first-out, so an  *)
(* acquire for which there is a free thread again and again is started.    *)
Fairness ==
  \A a \in Agent : /\ WF_vars(Recheck(a))
                   /\ WF_vars(ReleaseRead(a) \/ ReleaseWrite(a))
                   /\ SF_vars(RunQueued(a))

FairSpec == Spec /\ Fairness

-----------------------------------------------------------------------------
Holders(m) == {a \in Agent : pc[a] = "holding" /\ mode[a] = m}

WaitingWriters == {a \in Agent : pc[a] \in {"waiting", "woken"} /\ mode[a] = "write"}

TypeOK ==
  /\ _readers \in Nat /\ _writers_waiting \in Nat /\ _writer_active \in BOOLEAN
  /\ pc \in [Agent -> {"idle", "queued", "waiting", "woken", "holding"}]
  /\ mode \in [Agent -> {"read", "write"}]
  /\ cancelled \subseteq Agent

(* The three fields of the lock say who holds it and who waits, also when  *)
(* coroutines are cancelled.                                               *)
FieldsExact ==
  /\ _readers = Cardinality(Holders("read"))
  /\ _writers_waiting = Cardinality(WaitingWriters)
  /\ _writer_active <=> Holders("write") # {}

(* No wakeup is lost: an agent sits in the condition's wait set only while *)
(* what it waits for is not there.                                         *)
WaitersBlocked == \A a \in Agent : pc[a] = "waiting" => Blocked(mode[a])

(* The lock implements the abstract read-write lock. *)
RW == INSTANCE ReadWriteLock
        WITH held <- [a \in Agent |-> IF pc[a] = "holding" THEN mode[a] ELSE "none"]

Implements == RW!Spec

(* Nobody starves, as long as no cancelled coroutine has left the lock     *)
(* taken.  Writer priority: readers that keep coming do not keep a writer  *)
(* out once the other writers stop; and a reader that waits is served once *)
(* all writers stop.                                                       *)
AllServed ==
  [](cancelled = {}) =>
    \A a \in Agent :
      <>[](\A w \in Writer \ {a} : pc[w] = "idle") =>
        (pc[a] # "idle" ~> pc[a] \in {"holding", "idle"})
=============================================================================
