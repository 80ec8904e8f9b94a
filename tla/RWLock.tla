------------------------------- MODULE RWLock -------------------------------
(***************************************************************************)
(* RWLock and AsyncRWLock of shutils/rwlock.py, the locks of the task      *)
(* state and of the data of a context.  The two classes are the same       *)
(* program over threading.Condition and asyncio.Condition: a writer keeps  *)
(* the condition's own lock for as long as it writes, a reader only while  *)
(* it counts itself in or out, and may have to wait for it both times.  A  *)
(* coroutine that waits may be cancelled.                                  *)
(***************************************************************************)
EXTENDS Naturals, FiniteSets

CONSTANTS
  Agent,         \* the threads, or the coroutines, that use the lock
  NoAgent,       \* the condition's lock is free
  Cancellable    \* coroutines that may be cancelled while they wait

ASSUME RWLockAssumption ==
  IsFiniteSet(Agent) /\ NoAgent \notin Agent /\ Cancellable \subseteq Agent

VARIABLES
  _readers,
  owner,    \* who holds the lock of _read_ready between two steps
  pc        \* "idle", "reading", "writing"; in the "waiting" set of _read_ready
            \* or "woken" from it; or queued for its lock: "entering" and
            \* "leaving" as a reader, "wanting" as a writer, "regaining" after
            \* the wait, "quitting" after a cancelled one; "lost" once its
            \* release was cancelled

rwVars == <<_readers, owner, pc>>

RWInit ==
  /\ _readers = 0
  /\ owner = NoAgent
  /\ pc = [a \in Agent |-> "idle"]

Queueing == {"entering", "leaving", "wanting", "regaining", "quitting"}

(* The lock is free for a: nobody is queued for it, or a itself is.        *)
Free(a) ==
  /\ owner = NoAgent
  /\ pc[a] \in Queueing \/ \A b \in Agent : pc[b] \notin Queueing

(* The lock is taken, or promised to somebody in its queue. *)
Suspend(a) ==
  /\ ~Free(a)
  /\ \/ pc[a] = "idle" /\ \E p \in {"entering", "wanting"} : pc' = [pc EXCEPT ![a] = p]
     \/ pc[a] = "reading" /\ pc' = [pc EXCEPT ![a] = "leaving"]
     \/ pc[a] = "woken" /\ pc' = [pc EXCEPT ![a] = "regaining"]
  /\ UNCHANGED <<_readers, owner>>

AcquireRead(a) ==
  /\ pc[a] \in {"idle", "entering"} /\ Free(a)
  /\ _readers' = _readers + 1
  /\ pc' = [pc EXCEPT ![a] = "reading"]
  /\ UNCHANGED owner

(* Mutant: nobody is notified. *)
ReleaseReadQuietly(a) ==
  /\ pc[a] \in {"reading", "leaving"} /\ Free(a)
  /\ _readers' = _readers - 1
  /\ pc' = [pc EXCEPT ![a] = "idle"]
  /\ UNCHANGED owner

(* The last reader wakes all waiting writers. *)
ReleaseRead(a) ==
  /\ pc[a] \in {"reading", "leaving"} /\ Free(a)
  /\ _readers' = _readers - 1
  /\ pc' = [b \in Agent |-> IF b = a THEN "idle"
                            ELSE IF _readers = 1 /\ pc[b] = "waiting" THEN "woken"
                            ELSE pc[b]]
  /\ UNCHANGED owner

(* Mutant: the loop is an if. *)
AcquireWriteOnce(a) ==
  /\ pc[a] \in {"idle", "wanting", "woken", "regaining"} /\ Free(a)
  /\ IF _readers > 0 /\ pc[a] \in {"idle", "wanting"}
     THEN pc' = [pc EXCEPT ![a] = "waiting"] /\ UNCHANGED owner
     ELSE pc' = [pc EXCEPT ![a] = "writing"] /\ owner' = a
  /\ UNCHANGED _readers

(* A writer that has the condition's lock, for the first time or after a   *)
(* wakeup, waits while there are readers and else keeps it.                *)
AcquireWrite(a) ==
  /\ pc[a] \in {"idle", "wanting", "woken", "regaining"} /\ Free(a)
  /\ IF _readers > 0
     THEN pc' = [pc EXCEPT ![a] = "waiting"] /\ UNCHANGED owner
     ELSE pc' = [pc EXCEPT ![a] = "writing"] /\ owner' = a
  /\ UNCHANGED _readers

ReleaseWrite(a) ==
  /\ pc[a] = "writing"
  /\ owner' = NoAgent
  /\ pc' = [pc EXCEPT ![a] = "idle"]
  /\ UNCHANGED _readers

(* A coroutine queued for the lock is cancelled there: one that wanted to  *)
(* enter goes away, one that was leaving stays counted for good.           *)
CancelQueued(a) ==
  /\ a \in Cancellable
  /\ \/ pc[a] \in {"entering", "wanting"} /\ pc' = [pc EXCEPT ![a] = "idle"]
     \/ pc[a] = "leaving" /\ pc' = [pc EXCEPT ![a] = "lost"]
  /\ UNCHANGED <<_readers, owner>>

(* Mutant: the lock that wait() took back is not released. *)
CancelWaitLocked(a) ==
  /\ \/ a \in Cancellable /\ pc[a] \in {"waiting", "woken"}
     \/ pc[a] = "quitting"
  /\ Free(a)
  /\ pc' = [pc EXCEPT ![a] = "idle"]
  /\ owner' = a
  /\ UNCHANGED _readers

(* A cancelled wait() takes the condition's lock back before it raises,    *)
(* queueing for it if it must, and the handler of _acquire_write gives it  *)
(* up again.                                                               *)
CancelWait(a) ==
  /\ \/ a \in Cancellable /\ pc[a] \in {"waiting", "woken"}
     \/ pc[a] = "quitting"
  /\ Free(a)
  /\ pc' = [pc EXCEPT ![a] = "idle"]
  /\ UNCHANGED <<_readers, owner>>

CancelWaitQueues(a) ==
  /\ a \in Cancellable
  /\ \/ pc[a] \in {"waiting", "woken"} /\ ~Free(a)
     \/ pc[a] = "regaining"
  /\ pc' = [pc EXCEPT ![a] = "quitting"]
  /\ UNCHANGED <<_readers, owner>>

RWNext ==
  \E a \in Agent : \/ Suspend(a) \/ AcquireRead(a) \/ ReleaseRead(a)
                   \/ AcquireWrite(a) \/ ReleaseWrite(a)
                   \/ CancelQueued(a) \/ CancelWait(a) \/ CancelWaitQueues(a)

RWSpec == RWInit /\ [][RWNext]_rwVars

-----------------------------------------------------------------------------
RWTypeOK ==
  /\ _readers \in Nat
  /\ owner \in Agent \cup {NoAgent}
  /\ pc \in [Agent -> Queueing \cup {"idle", "reading", "writing", "waiting", "woken", "lost"}]

(* Agents that have counted themselves in and not out again. *)
CountedIn == {a \in Agent : pc[a] \in {"reading", "leaving", "lost"}}

(* The count is the number of readers that have not left, and of those     *)
(* whose release was cancelled, one each: no other cancellation changes    *)
(* it.  The condition's lock is kept by the writer and by nobody else,     *)
(* whatever is cancelled.                                                  *)
FieldsExact ==
  /\ _readers = Cardinality(CountedIn)
  /\ \A a \in Agent : pc[a] = "writing" <=> owner = a

(* A writer stays in the wait set only while there are readers: the        *)
(* notification of the last one is not lost.                               *)
WaitersBlocked == \A a \in Agent : pc[a] = "waiting" => _readers > 0

(* The lock implements the abstract read-write lock, in which a reader     *)
(* whose release was cancelled still holds it.                             *)
RW == INSTANCE ReadWriteLock
        WITH held <- [a \in Agent |-> IF a \in CountedIn THEN "read"
                                      ELSE IF pc[a] = "writing" THEN "write" ELSE "none"]

Implements == RW!Spec
=============================================================================
