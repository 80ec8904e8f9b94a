------------------------- MODULE ContextStateProofs -------------------------
(***************************************************************************)
(* The task state of contexts, for every graph and any number of contexts  *)
(* and callers, and the read-write locks around it, for any finite set of  *)
(* agents, under cancellation.                                             *)
(***************************************************************************)
EXTENDS ContextState, RWLock, FiniteSetTheorems, TLAPS

-----------------------------------------------------------------------------
(* RWLock and AsyncRWLock are read-write locks and wake their writers.     *)

(* FieldsExact is not inductive: whoever keeps the condition's lock must   *)
(* have found no reader.                                                   *)
LockInv == RWTypeOK /\ FieldsExact /\ WaitersBlocked /\ (owner # NoAgent => _readers = 0)

(* The steps that leave the fields alone: queueing, and cancellation.      *)
Quiet(a) == Suspend(a) \/ CancelQueued(a) \/ CancelWait(a) \/ CancelWaitQueues(a)

(* They neither count anybody in or out, nor let anybody write or sleep.   *)
LEMMA QuietSteps ==
  ASSUME RWTypeOK, NEW a \in Agent, Quiet(a)
  PROVE  /\ RWTypeOK' /\ CountedIn' = CountedIn /\ _readers' = _readers /\ owner' = owner
         /\ \A b \in Agent : pc'[b] = "writing" <=> pc[b] = "writing"
         /\ \A b \in Agent : pc'[b] = "waiting" => pc[b] = "waiting"
<1>1. /\ _readers' = _readers /\ owner' = owner
      /\ \E p \in Queueing \cup {"idle", "lost"} :
           /\ pc' = [pc EXCEPT ![a] = p]
           /\ pc[a] \notin {"writing"}
           /\ pc[a] \in {"reading", "leaving"} <=> p \in {"leaving", "lost"}
           /\ pc[a] # "lost"
  <2>1. CASE Suspend(a)
    <3>1. _readers' = _readers /\ owner' = owner
      BY <2>1 DEF Suspend
    <3>2. \/ pc[a] = "idle" /\ \E p \in {"entering", "wanting"} : pc' = [pc EXCEPT ![a] = p]
          \/ pc[a] = "reading" /\ pc' = [pc EXCEPT ![a] = "leaving"]
          \/ pc[a] = "woken" /\ pc' = [pc EXCEPT ![a] = "regaining"]
      BY <2>1 DEF Suspend
    <3>3. QED
      BY <3>1, <3>2 DEF Queueing
  <2>2. CASE CancelQueued(a)
    BY <2>2 DEF CancelQueued, Queueing
  <2>3. CASE CancelWait(a)
    BY <2>3 DEF CancelWait, Queueing
  <2>4. CASE CancelWaitQueues(a)
    BY <2>4 DEF CancelWaitQueues, Queueing
  <2>5. QED
    BY <2>1, <2>2, <2>3, <2>4 DEF Quiet
<1>2. PICK p \in Queueing \cup {"idle", "lost"} :
        /\ pc' = [pc EXCEPT ![a] = p]
        /\ pc[a] \notin {"writing"}
        /\ pc[a] \in {"reading", "leaving"} <=> p \in {"leaving", "lost"}
        /\ pc[a] # "lost"
  BY <1>1
<1>3. pc'[a] = p /\ \A b \in Agent \ {a} : pc'[b] = pc[b]
  BY <1>2 DEF RWTypeOK
<1>4. RWTypeOK'
  BY <1>1, <1>2 DEF RWTypeOK
<1>5. CountedIn' = CountedIn
  BY <1>2, <1>3 DEF CountedIn, Queueing
<1>6. QED
  BY <1>1, <1>2, <1>3, <1>4, <1>5 DEF Queueing

(* The count is zero when nobody is counted in. *)
LEMMA ReadersMean ==
  ASSUME FieldsExact
  PROVE  /\ IsFiniteSet(CountedIn) /\ _readers = Cardinality(CountedIn) /\ _readers \in Nat
         /\ _readers = 0 <=> \A a \in Agent : a \notin CountedIn
<1>1. IsFiniteSet(CountedIn) /\ Cardinality(CountedIn) \in Nat
  BY FS_Subset, FS_CardinalityType, RWLockAssumption DEF CountedIn
<1>2. _readers = Cardinality(CountedIn)
  BY DEF FieldsExact
<1>3. QED
  BY <1>1, <1>2, FS_EmptySet DEF CountedIn

(* The lock starts free. *)
LEMMA LockStarts == RWInit => LockInv
<1> SUFFICES ASSUME RWInit PROVE LockInv
  OBVIOUS
<1>1. CountedIn = {}
  BY DEF RWInit, CountedIn
<1>2. QED
  BY <1>1, FS_EmptySet, RWLockAssumption DEF RWInit, LockInv, RWTypeOK, FieldsExact, WaitersBlocked

(* Every step of the lock keeps the invariant. *)
LEMMA LockSteps == LockInv /\ [RWNext]_rwVars => LockInv'
<1> SUFFICES ASSUME LockInv, [RWNext]_rwVars PROVE LockInv'
  OBVIOUS
<1> USE DEF LockInv
<1>t. RWTypeOK
  OBVIOUS
<1>f. /\ IsFiniteSet(CountedIn) /\ _readers = Cardinality(CountedIn) /\ _readers \in Nat
      /\ _readers = 0 <=> \A a \in Agent : a \notin CountedIn
  BY ReadersMean
<1>1. ASSUME NEW a \in Agent, AcquireRead(a) PROVE LockInv'
  <2>1. /\ pc'[a] = "reading" /\ \A b \in Agent \ {a} : pc'[b] = pc[b]
        /\ pc[a] \in {"idle", "entering"} /\ owner = NoAgent /\ owner' = owner
        /\ _readers' = _readers + 1
    BY <1>1, <1>t DEF AcquireRead, Free, RWTypeOK
  <2>2. CountedIn' = CountedIn \cup {a} /\ a \notin CountedIn
    BY <2>1 DEF CountedIn
  <2>3. _readers' = Cardinality(CountedIn')
    BY <1>f, <2>1, <2>2, FS_AddElement
  <2>4. RWTypeOK'
    BY <1>1, <1>t DEF AcquireRead, RWTypeOK
  <2>5. FieldsExact'
    BY <2>1, <2>3 DEF FieldsExact
  <2>6. WaitersBlocked'
    BY <1>f, <2>1 DEF WaitersBlocked
  <2>7. QED
    BY <2>1, <2>4, <2>5, <2>6
<1>2. ASSUME NEW a \in Agent, ReleaseRead(a) PROVE LockInv'
  <2>1. /\ pc'[a] = "idle" /\ pc[a] \in {"reading", "leaving"}
        /\ pc' \in [Agent -> Queueing \cup {"idle", "reading", "writing", "waiting", "woken", "lost"}]
        /\ \A b \in Agent \ {a} :
             \/ pc'[b] = pc[b] /\ (_readers = 1 => pc[b] # "waiting")
             \/ pc[b] = "waiting" /\ pc'[b] = "woken"
        /\ owner = NoAgent /\ owner' = owner
        /\ _readers' = _readers - 1
    BY <1>2, <1>t DEF ReleaseRead, Free, RWTypeOK
  <2>2. CountedIn' = CountedIn \ {a} /\ a \in CountedIn
    BY <2>1 DEF CountedIn
  <2>3. _readers' = Cardinality(CountedIn') /\ _readers # 0
    BY <1>f, <2>1, <2>2, FS_RemoveElement
  <2>4. RWTypeOK'
    BY <1>t, <1>f, <2>1, <2>3 DEF RWTypeOK
  <2>5. FieldsExact'
    BY <2>1, <2>3 DEF FieldsExact
  <2>6. WaitersBlocked'
    BY <1>f, <2>1, <2>3 DEF WaitersBlocked
  <2>7. QED
    BY <2>1, <2>4, <2>5, <2>6
<1>3. ASSUME NEW a \in Agent, AcquireWrite(a) PROVE LockInv'
  <2>1. /\ pc[a] \in {"idle", "wanting", "woken", "regaining"} /\ owner = NoAgent
        /\ _readers' = _readers
        /\ \A b \in Agent \ {a} : pc'[b] = pc[b]
        /\ \/ _readers > 0 /\ pc'[a] = "waiting" /\ owner' = owner
           \/ _readers = 0 /\ pc'[a] = "writing" /\ owner' = a
    BY <1>3, <1>t, <1>f DEF AcquireWrite, Free, RWTypeOK
  <2>2. CountedIn' = CountedIn
    BY <2>1 DEF CountedIn
  <2>3. RWTypeOK'
    BY <1>3, <1>t DEF AcquireWrite, RWTypeOK
  <2>4. FieldsExact'
    BY <1>f, <2>1, <2>2, RWLockAssumption DEF FieldsExact
  <2>5. WaitersBlocked'
    BY <2>1 DEF WaitersBlocked
  <2>6. QED
    BY <2>1, <2>3, <2>4, <2>5
<1>4. ASSUME NEW a \in Agent, ReleaseWrite(a) PROVE LockInv'
  <2>1. /\ pc[a] = "writing" /\ owner = a /\ owner' = NoAgent /\ _readers' = _readers
        /\ pc'[a] = "idle" /\ \A b \in Agent \ {a} : pc'[b] = pc[b]
    BY <1>4, <1>t DEF ReleaseWrite, RWTypeOK, FieldsExact
  <2>2. CountedIn' = CountedIn
    BY <2>1 DEF CountedIn
  <2>3. RWTypeOK'
    BY <1>4, <1>t DEF ReleaseWrite, RWTypeOK
  <2>4. FieldsExact'
    BY <1>f, <2>1, <2>2, RWLockAssumption DEF FieldsExact
  <2>5. WaitersBlocked'
    BY <2>1 DEF WaitersBlocked
  <2>6. QED
    BY <2>1, <2>3, <2>4, <2>5
<1>5. ASSUME NEW a \in Agent, Quiet(a) PROVE LockInv'
  <2>1. /\ RWTypeOK' /\ CountedIn' = CountedIn /\ _readers' = _readers /\ owner' = owner
        /\ \A b \in Agent : pc'[b] = "writing" <=> pc[b] = "writing"
        /\ \A b \in Agent : pc'[b] = "waiting" => pc[b] = "waiting"
    BY <1>t, <1>5, QuietSteps
  <2>2. FieldsExact'
    BY <2>1 DEF FieldsExact
  <2>3. WaitersBlocked'
    BY <2>1 DEF WaitersBlocked
  <2>4. QED
    BY <2>1, <2>2, <2>3
<1>6. CASE UNCHANGED rwVars
  BY <1>6 DEF rwVars, RWTypeOK, FieldsExact, CountedIn, WaitersBlocked
<1>7. QED
  BY <1>1, <1>2, <1>3, <1>4, <1>5, <1>6 DEF RWNext, Quiet

(* The invariant holds in every state of the lock. *)
LEMMA LockInvariant == RWSpec => []LockInv
<1>1. QED
  BY LockStarts, LockSteps, PTL DEF RWSpec

-----------------------------------------------------------------------------
(* The reader count is the readers that have not left and those whose      *)
(* release was cancelled in the queue for the condition's lock             *)
(* (rwlock.py:129); only a writer keeps that lock, whichever of its waits  *)
(* was cancelled.                                                          *)
THEOREM RWFieldsAlwaysExact == RWSpec => []FieldsExact
<1>1. LockInv => FieldsExact
  BY DEF LockInv
<1>2. QED
  BY <1>1, LockInvariant, PTL

(* No writer stays in the wait set of _read_ready without a reader. *)
THEOREM RWNoLostWakeup == RWSpec => []WaitersBlocked
<1>1. LockInv => WaitersBlocked
  BY DEF LockInv
<1>2. QED
  BY <1>1, LockInvariant, PTL

(* RWLock and AsyncRWLock implement the abstract read-write lock; a reader *)
(* whose release was cancelled holds it for good.                          *)
THEOREM RWLockImplements == RWSpec => Implements
<1> DEFINE held == [a \in Agent |-> IF a \in CountedIn THEN "read"
                                    ELSE IF pc[a] = "writing" THEN "write" ELSE "none"]
<1>1. RWInit => RW!Init
  BY DEF RWInit, RW!Init, CountedIn
<1>2. LockInv /\ [RWNext]_rwVars => [RW!Next]_held
  <2> SUFFICES ASSUME LockInv, [RWNext]_rwVars PROVE RW!Next \/ held' = held
    OBVIOUS
  <2>t. RWTypeOK /\ FieldsExact
    BY DEF LockInv
  <2>f. _readers \in Nat /\ (_readers = 0 <=> \A a \in Agent : a \notin CountedIn)
    BY <2>t, ReadersMean
  <2>1. ASSUME NEW a \in Agent, AcquireRead(a) PROVE RW!Next
    <3>1. held[a] = "none" /\ \A b \in Agent : held[b] # "write"
      BY <2>1, <2>t, RWLockAssumption DEF AcquireRead, Free, FieldsExact, CountedIn
    <3>2. held' = [held EXCEPT ![a] = "read"]
      BY <2>1, <2>t DEF AcquireRead, RWTypeOK, CountedIn
    <3>3. RW!AcquireRead(a)
      BY <3>1, <3>2 DEF RW!AcquireRead
    <3>4. QED
      BY <3>3 DEF RW!Next
  <2>2. ASSUME NEW a \in Agent, ReleaseRead(a) \/ ReleaseWrite(a) PROVE RW!Next
    <3>1. held[a] # "none" /\ held' = [held EXCEPT ![a] = "none"]
      BY <2>2, <2>t DEF ReleaseRead, ReleaseWrite, RWTypeOK, CountedIn
    <3>2. RW!Release(a)
      BY <3>1 DEF RW!Release
    <3>3. QED
      BY <3>2 DEF RW!Next
  <2>3. ASSUME NEW a \in Agent, AcquireWrite(a) PROVE RW!Next \/ held' = held
    <3>1. CASE _readers > 0
      BY <2>3, <2>t, <3>1 DEF AcquireWrite, RWTypeOK, CountedIn
    <3>2. CASE _readers = 0
      <4>1. \A b \in Agent : held[b] = "none"
        BY <2>3, <2>t, <2>f, <3>2, RWLockAssumption DEF AcquireWrite, Free, FieldsExact
      <4>2. held' = [held EXCEPT ![a] = "write"]
        <5>1. pc' = [pc EXCEPT ![a] = "writing"]
          BY <2>3, <3>2 DEF AcquireWrite
        <5>2. QED
          BY <2>t, <2>3, <5>1 DEF RWTypeOK, AcquireWrite, CountedIn
      <4>3. RW!AcquireWrite(a)
        BY <4>1, <4>2 DEF RW!AcquireWrite
      <4>4. QED
        BY <4>3 DEF RW!Next
    <3>3. QED
      BY <3>1, <3>2, <2>f
  <2>4. ASSUME NEW a \in Agent, Quiet(a) PROVE held' = held
    <3>1. CountedIn' = CountedIn /\ \A b \in Agent : pc'[b] = "writing" <=> pc[b] = "writing"
      BY <2>4, <2>t, QuietSteps
    <3>2. QED
      BY <3>1
  <2>5. CASE UNCHANGED rwVars
    BY <2>5 DEF rwVars, CountedIn
  <2>6. QED
    BY <2>1, <2>2, <2>3, <2>4, <2>5 DEF RWNext, Quiet
<1>3. QED
  BY <1>1, <1>2, LockInvariant, PTL DEF RWSpec, RW!Spec, Implements

-----------------------------------------------------------------------------
(* The completion of tasks on a tree of contexts.                          *)

USE GraphAssumption, ContextStateAssumption

(* TaskStateMixin._complete yields a task state. *)
LEMMA CompleteType ==
  ASSUME NEW s \in TaskStates, NEW t \in Node
  PROVE  Complete(s, t) \in TaskStates
BY DEF TaskStates, Complete, Released, downstream_tasks, Converse

(* TaskStateMixin._complete either swallows the task or has it completed.  *)
LEMMA CompleteCompletes ==
  ASSUME NEW s \in TaskStates, NEW t \in Node
  PROVE  /\ s.skip => Complete(s, t).completed = s.completed
         /\ s.skip => Complete(s, t).available = s.available
         /\ ~s.skip => Complete(s, t).completed = s.completed \cup {t}
BY DEF TaskStates, Complete

(* One step of the incremental update: if available holds exactly the      *)
(* ready tasks before _complete, it does so after it.                      *)
LEMMA CompleteKeepsReady ==
  ASSUME NEW s \in TaskStates, NEW t \in Node, NEW L \in SUBSET Node,
         s.available = Ready(s.completed, L)
  PROVE  Complete(s, t).available = Ready(Complete(s, t).completed, L)
<1>1. CASE s.skip
  BY <1>1, CompleteCompletes
<1>2. CASE ~s.skip /\ t \in s.completed
  BY <1>2 DEF Complete
<1>3. CASE ~s.skip /\ t \notin s.completed
  <2> DEFINE done == s.completed \cup {t}
  <2>1. /\ Complete(s, t).completed = done
        /\ Complete(s, t).available = (s.available \ {t}) \cup Released(done, t)
    BY <1>3 DEF Complete, TaskStates
  <2>2. Released(done, t) = {n \in Node \ done : t \in upstream_tasks[n]
                                                 /\ upstream_tasks[n] \subseteq done}
    BY DEF Released, downstream_tasks, Converse
  <2>3. (s.available \ {t}) \cup Released(done, t) = Ready(done, L)
    BY <2>2 DEF Ready
  <2> QED
    BY <2>1, <2>3
<1> QED
  BY <1>1, <1>2, <1>3

(* The state keeps its shape. *)
THEOREM TypeCorrect == Spec => []TypeOK
<1>1. Init => TypeOK
  BY DEF Init, TypeOK, NewTaskState, TaskStates, NoCall
<1>2. TypeOK /\ [Next]_vars => TypeOK'
  <2> SUFFICES ASSUME TypeOK, [Next]_vars PROVE TypeOK'
    OBVIOUS
  <2> USE DEF TypeOK
  <2>1. ASSUME NEW c \in Ctx, NEW skip \in BOOLEAN, Create(c, skip) PROVE TypeOK'
    BY <2>1 DEF Create, NewTaskState, TaskStates
  <2>2. ASSUME NEW c \in Ctx, NEW p \in Ctx, CreateChild(c, p) PROVE TypeOK'
    BY <2>2 DEF CreateChild
  <2>3. ASSUME NEW c \in Ctx, NEW t \in Node, CreateLoop(c, t) PROVE TypeOK'
    BY <2>3 DEF CreateLoop, NewTaskState, TaskStates
  <2>4. ASSUME NEW k \in Caller, NEW c \in Ctx, NEW t \in Node, Begin(k, c, t) PROVE TypeOK'
    BY <2>4 DEF Begin
  <2>5. ASSUME NEW k \in Caller, CompleteHere(k) PROVE TypeOK'
    <3>1. call[k].at \in created /\ call[k].task \in Node
      BY <2>5 DEF CompleteHere
    <3>2. Complete(state[call[k].at], call[k].task) \in TaskStates
      BY <3>1, CompleteType
    <3> QED
      BY <2>5, <3>1, <3>2 DEF CompleteHere, NoCall
  <2>6. CASE UNCHANGED vars
    BY <2>6 DEF vars
  <2> QED
    BY <2>1, <2>2, <2>3, <2>4, <2>5, <2>6 DEF Next
<1> QED
  BY <1>1, <1>2, PTL DEF Spec

(* Available is Ready, in every context: the update of _available_tasks    *)
(* loses no ready task and releases none early.  The invariant is          *)
(* inductive together with TypeOK.                                         *)
THEOREM AvailableExact == Spec => []AvailableIsReady
<1>1. Init => AvailableIsReady
  BY DEF Init, AvailableIsReady, Ready, NewTaskState
<1>2. TypeOK /\ AvailableIsReady /\ [Next]_vars => AvailableIsReady'
  <2> SUFFICES ASSUME TypeOK, AvailableIsReady, [Next]_vars PROVE AvailableIsReady'
    OBVIOUS
  <2> USE DEF TypeOK, AvailableIsReady
  <2>1. ASSUME NEW c \in Ctx, NEW skip \in BOOLEAN, Create(c, skip) PROVE AvailableIsReady'
    BY <2>1 DEF Create, NewTaskState, Ready
  <2>2. ASSUME NEW c \in Ctx, NEW p \in Ctx, CreateChild(c, p) PROVE AvailableIsReady'
    BY <2>2 DEF CreateChild
  <2>3. ASSUME NEW c \in Ctx, NEW t \in Node, CreateLoop(c, t) PROVE AvailableIsReady'
    BY <2>3 DEF CreateLoop, NewTaskState, Ready
  <2>4. ASSUME NEW k \in Caller, NEW c \in Ctx, NEW t \in Node, Begin(k, c, t)
        PROVE  AvailableIsReady'
    BY <2>4 DEF Begin
  <2>5. ASSUME NEW k \in Caller, CompleteHere(k) PROVE AvailableIsReady'
    <3> DEFINE c == call[k].at
               t == call[k].task
    <3>1. /\ c \in Ctx /\ t \in Node
          /\ state[c] \in TaskStates /\ loop[c] \in SUBSET Node
          /\ state[c].available = Ready(state[c].completed, loop[c])
      BY <2>5 DEF CompleteHere
    <3>a. \A s \in TaskStates, n \in Node, L \in SUBSET Node :
            s.available = Ready(s.completed, L)
              => Complete(s, n).available = Ready(Complete(s, n).completed, L)
      BY CompleteKeepsReady
    <3> HIDE DEF c, t, TypeOK, AvailableIsReady
    <3>2. Complete(state[c], t).available = Ready(Complete(state[c], t).completed, loop[c])
      BY <3>1, <3>a
    <3> QED
      BY <2>5, <3>1, <3>2 DEF CompleteHere, c, t, TypeOK, AvailableIsReady
  <2>6. CASE UNCHANGED vars
    BY <2>6 DEF vars
  <2> QED
    BY <2>1, <2>2, <2>3, <2>4, <2>5, <2>6 DEF Next
<1> QED
  BY <1>1, <1>2, TypeCorrect, PTL DEF Spec

(* A completed task is completed for good and never available again. *)
THEOREM NeverAgain == Spec => CompletedForGood
<1> DEFINE Kept == \A c \in Ctx : /\ state[c].completed \subseteq state'[c].completed
                                  /\ state'[c].available \cap state[c].completed = {}
<1>1. TypeOK /\ AvailableIsReady /\ AvailableIsReady' /\ [Next]_vars => [Kept]_vars
  <2> SUFFICES ASSUME TypeOK, AvailableIsReady, AvailableIsReady', Next PROVE Kept
    OBVIOUS
  <2>1. ASSUME NEW c \in Ctx PROVE state[c].completed \subseteq state'[c].completed
    <3> USE DEF TypeOK
    <3>1. ASSUME NEW d \in Ctx, NEW skip \in BOOLEAN, Create(d, skip)
          PROVE  state[c].completed \subseteq state'[c].completed
      BY <3>1 DEF Create, NewTaskState
    <3>2. ASSUME NEW d \in Ctx, NEW t \in Node, CreateLoop(d, t)
          PROVE  state[c].completed \subseteq state'[c].completed
      BY <3>2 DEF CreateLoop, NewTaskState
    <3>3. ASSUME NEW k \in Caller, CompleteHere(k)
          PROVE  state[c].completed \subseteq state'[c].completed
      <4>1. call[k].at \in Ctx /\ call[k].task \in Node /\ state[call[k].at] \in TaskStates
        BY <3>3 DEF CompleteHere
      <4>2. state[call[k].at].completed
              \subseteq Complete(state[call[k].at], call[k].task).completed
        BY <4>1, CompleteCompletes DEF TaskStates
      <4> QED
        BY <3>3, <4>1, <4>2 DEF CompleteHere
    <3>4. ASSUME NEW d \in Ctx, NEW p \in Ctx, CreateChild(d, p)
          PROVE  state[c].completed \subseteq state'[c].completed
      BY <3>4 DEF CreateChild
    <3>5. ASSUME NEW k \in Caller, NEW d \in Ctx, NEW t \in Node, Begin(k, d, t)
          PROVE  state[c].completed \subseteq state'[c].completed
      BY <3>5 DEF Begin
    <3> QED
      BY <3>1, <3>2, <3>3, <3>4, <3>5 DEF Next
  <2>2. ASSUME NEW c \in Ctx PROVE state'[c].available \cap state[c].completed = {}
    BY <2>1 DEF AvailableIsReady, Ready
  <2> QED
    BY <2>1, <2>2
<1> QED
  BY <1>1, TypeCorrect, AvailableExact, PTL DEF Spec, CompletedForGood

(* A parent learns of every task completed in a child, up to the callers   *)
(* on their way and to what its own skip_complete has swallowed.           *)
THEOREM ParentsLearn == Spec => []ParentLearns
<1>1. Init => ParentLearns
  BY DEF Init, ParentLearns
<1>2. TypeOK /\ ParentLearns /\ [Next]_vars => ParentLearns'
  <2> SUFFICES ASSUME TypeOK, ParentLearns, [Next]_vars,
                      NEW c \in created', parent'[c] # NoCtx,
                      NEW t \in state'[c].completed
                                  \ (state'[parent'[c]].completed \cup lost'[parent'[c]])
               PROVE  \E k \in Caller : call'[k] = [at |-> parent'[c], task |-> t]
    BY DEF ParentLearns
  <2> DEFINE Goal == \E k \in Caller : call'[k] = [at |-> parent'[c], task |-> t]
  <2> USE DEF TypeOK
  <2>1. ASSUME NEW d \in Ctx, NEW skip \in BOOLEAN, Create(d, skip) PROVE Goal
    BY <2>1 DEF Create, NewTaskState, ParentLearns
  <2>2. ASSUME NEW d \in Ctx, NEW p \in Ctx, CreateChild(d, p) PROVE Goal
    BY <2>2 DEF CreateChild, NewTaskState, ParentLearns
  <2>3. ASSUME NEW d \in Ctx, NEW n \in Node, CreateLoop(d, n) PROVE Goal
    BY <2>3 DEF CreateLoop, NewTaskState, ParentLearns
  <2>4. ASSUME NEW k \in Caller, NEW d \in Ctx, NEW n \in Node, Begin(k, d, n) PROVE Goal
    BY <2>4 DEF Begin, NoCall, ParentLearns
  <2>5. ASSUME NEW k \in Caller, CompleteHere(k) PROVE Goal
    <3> DEFINE at == call[k].at
               n == call[k].task
    <3>1. /\ at \in Ctx /\ n \in Node /\ state[at] \in TaskStates
          /\ c \in created /\ c \in Ctx /\ parent' = parent /\ parent[c] \in Ctx
      BY <2>5 DEF CompleteHere
    <3>2. /\ state[at].skip => Complete(state[at], n).completed = state[at].completed
          /\ ~state[at].skip => Complete(state[at], n).completed = state[at].completed \cup {n}
      BY <3>1, CompleteCompletes
    <3>3. /\ state'[at] = Complete(state[at], n)
          /\ \A x \in Ctx \ {at} : state'[x] = state[x]
          /\ \A x \in Ctx : lost[x] \subseteq lost'[x]
          /\ state[at].skip => n \in lost'[at]
      BY <2>5, <3>1 DEF CompleteHere
    <3>4. CASE t \notin state[c].completed
      <4>1. c = at /\ t = n
        BY <3>1, <3>2, <3>3, <3>4
      <4> QED
        BY <2>5, <3>1, <4>1 DEF CompleteHere
    <3>5. CASE t \in state[c].completed
      <4>1. t \notin state[parent[c]].completed \cup lost[parent[c]]
        BY <3>1, <3>2, <3>3 DEF TaskStates
      <4>2. PICK m \in Caller : call[m] = [at |-> parent[c], task |-> t]
        BY <3>1, <3>5, <4>1 DEF ParentLearns
      <4>3. m # k
        <5> SUFFICES ASSUME m = k PROVE FALSE
          OBVIOUS
        <5>1. at = parent[c] /\ n = t
          BY <4>2
        <5> QED
          BY <3>1, <3>2, <3>3, <5>1
      <4> QED
        BY <2>5, <3>1, <4>2, <4>3 DEF CompleteHere
    <3> QED
      BY <3>4, <3>5
  <2>6. CASE UNCHANGED vars
    BY <2>6 DEF vars, ParentLearns
  <2> HIDE DEF Goal, TypeOK
  <2>7. ASSUME Next PROVE Goal
    BY <2>7, <2>1, <2>2, <2>3, <2>4, <2>5, Zenon DEF Next
  <2> QED
    BY <2>6, <2>7 DEF Goal
<1> QED
  BY <1>1, <1>2, TypeCorrect, PTL DEF Spec
=============================================================================
