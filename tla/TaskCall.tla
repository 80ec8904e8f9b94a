------------------------------ MODULE TaskCall ------------------------------
(***************************************************************************)
(* The calls of one task, TaskBase.call_before and call_after of           *)
(* shutils/dag/task.py, and the limiter they pass: the CONCURRENCY and     *)
(* TOKEN_BUCKET strategies of Limiter, shutils/dag/lib/limiter.py.  Both   *)
(* hand out a fixed number of slots under a condition variable; the slots  *)
(* of TOKEN_BUCKET have names, which release needs to give one back.       *)
(*                                                                         *)
(* Other agents share the limiter and wait for a slot with acquire, or     *)
(* acquire_async, which waits in a pool thread.  The statements of         *)
(* call_before between two calls are one step: the interpreter switches    *)
(* threads at calls.                                                       *)
(***************************************************************************)
EXTENDS Naturals, FiniteSets

CONSTANTS
  Call,        \* executions of the task, in threads or coroutines
  User,        \* other agents: acquire, then release
  Async,       \* the users that use acquire_async and may be cancelled
  Setup        \* the configurations of the limiter and the task

ASSUME CallAssumption ==
  /\ IsFiniteSet(Call) /\ IsFiniteSet(User) /\ Call \cap User = {} /\ Async \subseteq User
  /\ Setup \subseteq [slots : Nat,         \* max_concurrency, or the number of services
                     named : BOOLEAN,     \* TRUE for TOKEN_BUCKET
                     parallel_num : Nat,  \* TaskConfig.parallel_num, 0 is no bound
                     mayFail : BOOLEAN]   \* the code of the task may raise

VARIABLES
  setup,            \* chosen once
  phase,               \* where each call and each user is
  running_task_num, \* TaskBase.running_task_num
  free,             \* max_concurrency - current_concurrency, or service_queue.qsize()
  asleep,           \* the users in the condition's wait
  cancelled,        \* those whose coroutine was cancelled while a thread waits for it
  lost,             \* history: slots nobody will give back
  failed            \* history: calls that raised

callVars == <<setup, phase, running_task_num, free, asleep, cancelled, lost, failed>>

parallel_num == setup.parallel_num

CallInit ==
  /\ setup \in Setup
  /\ phase = [a \in Call \cup User |-> "idle"]
  /\ running_task_num = 0
  /\ free = setup.slots
  /\ asleep = {} /\ cancelled = {}
  /\ lost = 0 /\ failed = 0

To(a, label) == phase' = [phase EXCEPT ![a] = label]

-----------------------------------------------------------------------------
(* A call of the task.                                                     *)

(* The parallel control of call_before.  A refused call hands its context  *)
(* on as if the task had run.                                              *)
Skips == parallel_num > 0 /\ running_task_num > parallel_num

Skip(a) ==
  /\ phase[a] = "idle" /\ Skips
  /\ To(a, "skipped")
  /\ UNCHANGED <<running_task_num, free, asleep, cancelled, lost, failed>>

Enter(a) ==
  /\ phase[a] = "idle" /\ ~Skips
  /\ running_task_num' = running_task_num + 1
  /\ To(a, "limit")
  /\ UNCHANGED <<free, asleep, cancelled, lost, failed>>

(* try_acquire succeeds. *)
Run(a) ==
  /\ phase[a] = "limit" /\ free > 0
  /\ free' = free - 1
  /\ To(a, "running")
  /\ UNCHANGED <<running_task_num, asleep, cancelled, lost, failed>>

(* Mutant: the count is not taken back. *)
ThrottleKeepsCount(a) ==
  /\ phase[a] = "limit" /\ free = 0
  /\ To(a, "idle")
  /\ UNCHANGED <<running_task_num, free, asleep, cancelled, lost, failed>>

(* It fails: the executor will call again with the RateLimitContext's      *)
(* context.                                                                *)
Throttle(a) ==
  /\ phase[a] = "limit" /\ free = 0
  /\ running_task_num' = running_task_num - 1
  /\ To(a, "idle")
  /\ UNCHANGED <<free, asleep, cancelled, lost, failed>>

(* call_after, first statement. *)
Return(a) ==
  /\ phase[a] = "running"
  /\ running_task_num' = running_task_num - 1
  /\ To(a, "returned")
  /\ UNCHANGED <<free, asleep, cancelled, lost, failed>>

(* An exception skips call_after. *)
Raise(a) ==
  /\ phase[a] = "running" /\ setup.mayFail
  /\ To(a, "raised")
  /\ lost' = lost + 1 /\ failed' = failed + 1
  /\ UNCHANGED <<running_task_num, free, asleep, cancelled>>

-----------------------------------------------------------------------------
(* Limiter.release.                                                        *)

(* Mutant: a release wakes nobody. *)
NotifyNobody(phases) == phase' = phases /\ UNCHANGED asleep

(* notify: one agent of the condition's list is woken, if there is one.  A *)
(* wait that has timed out is over anyway.                                 *)
Notify(phases) ==
  \/ asleep = {} /\ phase' = phases /\ UNCHANGED asleep
  \/ \E u \in asleep :
       /\ phase' = [phases EXCEPT ![u] = IF @ = "wait" THEN "check" ELSE @]
       /\ asleep' = asleep \ {u}

(* call_after, second statement: release() without the name of a service   *)
(* gives nothing back.                                                     *)
ReleaseCall(a) ==
  /\ phase[a] = "returned"
  /\ IF setup.named
     THEN To(a, "done") /\ lost' = lost + 1 /\ UNCHANGED <<free, asleep>>
     ELSE free' = free + 1 /\ Notify([phase EXCEPT ![a] = "done"]) /\ UNCHANGED lost
  /\ UNCHANGED <<running_task_num, cancelled, failed>>

Release(u) ==
  /\ phase[u] = "holding"
  /\ free' = free + 1
  /\ Notify([phase EXCEPT ![u] = "idle"])
  /\ UNCHANGED <<running_task_num, cancelled, lost, failed>>

-----------------------------------------------------------------------------
(* acquire of another agent; wait_for looks again after every wakeup.      *)

Acquire(u) ==
  /\ phase[u] = "idle"
  /\ To(u, "check")
  /\ UNCHANGED <<running_task_num, free, asleep, cancelled, lost, failed>>

(* The slot of a cancelled coroutine is nobody's. *)
Take(u) ==
  /\ phase[u] \in {"check", "expired"} /\ free > 0
  /\ free' = free - 1
  /\ asleep' = asleep \ {u} /\ cancelled' = cancelled \ {u}
  /\ IF u \in cancelled THEN To(u, "idle") /\ lost' = lost + 1
                        ELSE To(u, "holding") /\ UNCHANGED lost
  /\ UNCHANGED <<running_task_num, failed>>

Wait(u) ==
  /\ phase[u] = "check" /\ free = 0
  /\ To(u, "wait") /\ asleep' = asleep \cup {u}
  /\ UNCHANGED <<running_task_num, free, cancelled, lost, failed>>

(* The timeout passes; a notify may still choose the agent until it has    *)
(* the lock again.                                                         *)
Expire(u) ==
  /\ phase[u] = "wait"
  /\ To(u, "expired")
  /\ UNCHANGED <<running_task_num, free, asleep, cancelled, lost, failed>>

(* The predicate is evaluated a last time. *)
TimedOut(u) ==
  /\ phase[u] = "expired" /\ free = 0
  /\ To(u, "idle")
  /\ asleep' = asleep \ {u} /\ cancelled' = cancelled \ {u}
  /\ UNCHANGED <<running_task_num, free, lost, failed>>

Cancel(u) ==
  /\ u \in Async \ cancelled /\ phase[u] \in {"wait", "check", "expired"}
  /\ cancelled' = cancelled \cup {u}
  /\ UNCHANGED <<phase, running_task_num, free, asleep, lost, failed>>

-----------------------------------------------------------------------------
CallNext ==
  /\ UNCHANGED setup
  /\ \/ \E a \in Call :
          \/ Skip(a) \/ Enter(a) \/ Run(a) \/ Throttle(a) \/ Return(a) \/ Raise(a)
          \/ ReleaseCall(a)
     \/ \E u \in User :
          \/ Acquire(u) \/ Take(u) \/ Wait(u) \/ Expire(u) \/ TimedOut(u) \/ Cancel(u)
          \/ Release(u)

CallSpec == CallInit /\ [][CallNext]_callVars
-----------------------------------------------------------------------------
In(labels) == {a \in Call \cup User : phase[a] \in labels}

(* running_task_num counts the calls between call_before and call_after    *)
(* and, for ever, those that raised; every slot is free, held, or one that *)
(* a raising call, a cancelled acquire_async or a release without a name   *)
(* will never give back.                                                   *)
CountsExact ==
  /\ running_task_num = Cardinality(In({"limit", "running"})) + failed
  /\ free + Cardinality(In({"running", "returned", "holding"})) + lost = setup.slots

(* What the comment on TaskConfig.parallel_num says: "Maximum concurrent   *)
(* executions (0 means unlimited)."                                        *)
ParallelMax == parallel_num > 0 => Cardinality(In({"running"})) <= parallel_num

(* What call_before keeps instead. *)
ParallelBound == parallel_num > 0 => Cardinality(In({"running"})) <= parallel_num + 1

(* No wakeup is lost: while an agent sleeps for a slot, as many agents are *)
(* about to look as there are free slots.                                  *)
SleepersCovered == In({"wait"}) # {} => free <= Cardinality(In({"check", "expired"}))
=============================================================================
